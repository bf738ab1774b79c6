--------------------------- MODULE TradingLimits ---------------------------
(***************************************************************************)
(* What keeps one user from trading too much: the limit on what he buys,   *)
(* and an administrator's trade block.  The coins are Escrow's; here are   *)
(* only the rows the two look at: the user's BUY listings and the          *)
(* transactions in which he buys.  A SELL listing is blocked like a BUY    *)
(* one and counts for no limit.                                            *)
(*                                                                         *)
(* The limit is a sum over rows nobody locks, so that a request is two     *)
(* steps: the sum, and the commit.                                         *)
(*                                                                         *)
(* ActivePendingOnly, CancelTransactionAgain and PhasesListingsFirst are   *)
(* slips the properties are tried against.                                 *)
(***************************************************************************)
EXTENDS Naturals, FiniteSets, Sums

CONSTANTS
  Requests,     \* requests of the user that may be under way at the same time
  NumListings,  \* bound on his listings
  NumDeals,     \* bound on the transactions in which he buys
  Amounts,      \* amounts of coins
  Limit,        \* what his level lets him buy
  Quiet         \* nothing else takes or posts while a trade block is under way

Parameters == {NumListings, NumDeals, Limit} \subseteq Nat /\ Amounts \subseteq Nat \ {0}

Listings == 1..NumListings
Deals    == 1..NumDeals

VARIABLES
  blocked,   \* ustatus is block_trade
  listings,  \* his BUY listings
  deals,     \* transactions: of a listing of his, or (0) of another's he took
  check,     \* per request, what has been found within the limit
  block      \* the trade block under way

vars == <<blocked, listings, deals, check, block>>

NoListing == [status |-> "none", remaining |-> 0]
NoDeal    == [status |-> "none", of |-> 0, amount |-> 0, fresh |-> FALSE]
NoCheck   == [kind |-> "none", amount |-> 0]
Idle      == [at |-> 0, todo |-> {}]

-----------------------------------------------------------------------------
Init ==
  /\ blocked = FALSE
  /\ listings = [l \in Listings |-> NoListing]
  /\ deals = [d \in Deals |-> NoDeal]
  /\ check = [r \in Requests |-> NoCheck]
  /\ block = Idle

\* i is the id of the next row.
NextFree(rows, none, i) == rows[i] = none /\ \A j \in DOMAIN rows : rows[j] = none => i <= j

\* Purchases from others that are under way and not a day old.
ActivePendingOnly == {"pending"}
Active            == {"pending", "payment_confirmed"}
Bought ==
  Total([d \in Deals |-> IF deals[d].of = 0 /\ deals[d].fresh /\ deals[d].status \in Active
                         THEN deals[d].amount ELSE 0], NumDeals)
OpenToBuy ==
  Total([l \in Listings |-> IF listings[l].status = "pending" THEN listings[l].remaining ELSE 0],
        NumListings)

\* computeBuyerAvailableCoinBudget
Available == IF Bought + OpenToBuy >= Limit THEN 0 ELSE Limit - (Bought + OpenToBuy)

Undisturbed == Quiet => block = Idle

\* The guard of the route and the sum; creating a listing and taking another's
\* SELL listing look at the same.
Check(r, kind) ==
  /\ ~blocked /\ check[r] = NoCheck /\ Undisturbed
  /\ \E a \in Amounts :
       a <= Available /\ check' = [check EXCEPT ![r] = [kind |-> kind, amount |-> a]]
  /\ UNCHANGED <<blocked, listings, deals, block>>

CreateOrderBook(r) ==
  /\ check[r].kind = "post"
  /\ \E l \in Listings :
       /\ NextFree(listings, NoListing, l)
       /\ listings' = [listings EXCEPT ![l] = [status |-> "pending", remaining |-> check[r].amount]]
  /\ check' = [check EXCEPT ![r] = NoCheck]
  /\ UNCHANGED <<blocked, deals, block>>

CreateTransaction(r) ==
  /\ check[r].kind = "take"
  /\ \E d \in Deals :
       /\ NextFree(deals, NoDeal, d)
       /\ deals' = [deals EXCEPT ![d] = [status |-> "pending", of |-> 0, amount |-> check[r].amount,
                                         fresh |-> TRUE]]
  /\ check' = [check EXCEPT ![r] = NoCheck]
  /\ UNCHANGED <<blocked, listings, block>>

\* Someone sells to a listing of the user.
SoldTo(l) ==
  /\ Undisturbed
  /\ listings[l].status = "pending"
  /\ \E d \in Deals, a \in Amounts :
       /\ NextFree(deals, NoDeal, d) /\ a <= listings[l].remaining
       /\ deals' = [deals EXCEPT ![d] = [status |-> "pending", of |-> l, amount |-> a, fresh |-> TRUE]]
       /\ listings' = [listings EXCEPT ![l].remaining = @ - a,
                                       ![l].status = IF listings[l].remaining = a THEN "executed" ELSE @]
  /\ UNCHANGED <<blocked, check, block>>

Undone(d) ==
  /\ deals' = [deals EXCEPT ![d].status = "over"]
  /\ listings' = [l \in Listings |->
       IF deals[d].of # l THEN listings[l]
       ELSE [remaining |-> listings[l].remaining + deals[d].amount,
             status    |-> IF listings[l].status = "executed" THEN "pending" ELSE listings[l].status]]

\* By a party, or by the expiry of the transaction.
CancelTransactionAgain(d) ==
  deals[d].status # "none" /\ Undone(d) /\ UNCHANGED <<blocked, check, block>>
CancelTransaction(d) ==
  deals[d].status = "pending" /\ Undone(d) /\ UNCHANGED <<blocked, check, block>>
ConfirmPayment(d) ==
  /\ deals[d].status = "pending"
  /\ deals' = [deals EXCEPT ![d].status = "payment_confirmed"]
  /\ UNCHANGED <<blocked, listings, check, block>>
SettleTransaction(d) ==
  /\ deals[d].status = "payment_confirmed"
  /\ deals' = [deals EXCEPT ![d].status = "over"]
  /\ UNCHANGED <<blocked, listings, check, block>>
DayPasses(d) ==
  deals[d].fresh /\ deals' = [deals EXCEPT ![d].fresh = FALSE]
  /\ UNCHANGED <<blocked, listings, check, block>>
Failed(l) == listings' = [listings EXCEPT ![l].status = "failed"]
DeleteOrderBook(l) ==
  listings[l].status = "pending" /\ Failed(l) /\ UNCHANGED <<blocked, deals, check, block>>

-----------------------------------------------------------------------------
(* updateUserStatus to block_trade: cancel his pending transactions one by *)
(* one, then delete his pending listings, then set the status.             *)

Pending(rows) == {i \in DOMAIN rows : rows[i].status = "pending"}

\* Each phase reads its rows when it begins.
PhasesListingsFirst == <<"listings", "deals", "status">>
Phases              == <<"deals", "listings", "status">>
Todo(phase) == CASE phase = "deals"    -> Pending(deals)
                 [] phase = "listings" -> Pending(listings)
                 [] OTHER              -> {}
InPhase(phase) == block.at > 0 /\ Phases[block.at] = phase

BlockBegin ==
  /\ block = Idle /\ ~blocked
  /\ Quiet => \A r \in Requests : check[r] = NoCheck
  /\ block' = [at |-> 1, todo |-> Todo(Phases[1])]
  /\ UNCHANGED <<blocked, listings, deals, check>>

\* A row that is no longer pending throws and ends the block half way.
BlockCancels ==
  /\ InPhase("deals")
  /\ \E d \in block.todo :
       \/ deals[d].status = "pending" /\ Undone(d) /\ block' = [block EXCEPT !.todo = @ \ {d}]
       \/ deals[d].status # "pending" /\ block' = Idle /\ UNCHANGED <<listings, deals>>
  /\ UNCHANGED <<blocked, check>>
BlockDeletes ==
  /\ InPhase("listings")
  /\ \E l \in block.todo :
       \/ listings[l].status = "pending" /\ Failed(l) /\ block' = [block EXCEPT !.todo = @ \ {l}]
       \/ listings[l].status # "pending" /\ block' = Idle /\ UNCHANGED listings
  /\ UNCHANGED <<blocked, deals, check>>
BlockGoesOn ==
  /\ block # Idle /\ ~InPhase("status") /\ block.todo = {}
  /\ block' = [at |-> block.at + 1, todo |-> Todo(Phases[block.at + 1])]
  /\ UNCHANGED <<blocked, listings, deals, check>>
BlockSets ==
  InPhase("status") /\ blocked' = TRUE /\ block' = Idle /\ UNCHANGED <<listings, deals, check>>

Unblock == blocked /\ blocked' = FALSE /\ UNCHANGED <<listings, deals, check, block>>

Next ==
  \/ \E r \in Requests :
       Check(r, "post") \/ Check(r, "take") \/ CreateOrderBook(r) \/ CreateTransaction(r)
  \/ \E l \in Listings : SoldTo(l) \/ DeleteOrderBook(l)
  \/ \E d \in Deals :
       CancelTransaction(d) \/ ConfirmPayment(d) \/ SettleTransaction(d) \/ DayPasses(d)
  \/ BlockBegin \/ BlockCancels \/ BlockDeletes \/ BlockGoesOn \/ BlockSets \/ Unblock
Spec == Init /\ [][Next]_vars

-----------------------------------------------------------------------------
(* Properties.                                                             *)

TypeOK ==
  /\ blocked \in BOOLEAN
  /\ listings \in [Listings -> [status : {"none", "pending", "executed", "failed"}, remaining : 0..Limit]]
  /\ deals \in [Deals -> [status : {"none", "over", "pending", "payment_confirmed"}, of : {0} \cup Listings,
                          amount : {0} \cup Amounts, fresh : BOOLEAN]]
  /\ check \in [Requests -> [kind : {"none", "post", "take"}, amount : {0} \cup Amounts]]
  /\ block.at \in 0..3 /\ block.todo \subseteq Listings \cup Deals

UnderWay(d) == deals[d].of = 0 /\ deals[d].fresh /\ deals[d].status \notin {"none", "over"}

\* What the user is buying from others never exceeds his level's limit, while
\* his listings fill, are cancelled and fill again.  Two requests at the same
\* time each fit and exceed it together: checked for one at a time.
BoughtWithinLimit ==
  Total([d \in Deals |-> IF UnderWay(d) THEN deals[d].amount ELSE 0], NumDeals) <= Limit

\* A blocked user has nothing left that trades: no pending listing, and no
\* transaction of one of his listings that could bring it back (if nobody
\* takes from him while the block is under way).
BlockedIsOut ==
  blocked => Pending(listings) = {} /\ Pending(deals) = {}

=============================================================================
