-------------------------- MODULE EscrowProperties --------------------------
(***************************************************************************)
(* What is claimed of the escrow, stated over the state of Escrow.         *)
(***************************************************************************)
EXTENDS Escrow

-----------------------------------------------------------------------------
(* Coins.                                                                  *)

\* What the lock of user u has to cover: listings not withdrawn, deals u sells
\* that are not over, and coins bought that the scheduler has yet to release.
OrderHold(u, o) ==
  IF orders[o].owner = u /\ orders[o].option = "sell" /\ orders[o].status # "failed"
  THEN LockAmount(orders[o].remaining, fees)
  ELSE 0
SaleHold(u, t) ==
  IF trans[t].status \in Live /\ trans[t].seller = u THEN Debit(trans[t], fees) ELSE 0
PurchaseHold(u, t) ==
  IF /\ trans[t].status = "executed" /\ trans[t].unlockAt /\ ~trans[t].released
     /\ trans[t].buyer = u
  THEN trans[t].amount
  ELSE 0
Hold(u) ==
  Total([o \in OrderIds |-> OrderHold(u, o)], MaxOrders)
    + Total([t \in TransIds |-> SaleHold(u, t) + PurchaseHold(u, t)], MaxTrans)

\* Every coin promised is there: each user's lock covers the user's open
\* listings, running sales and unreleased purchases together, so none of them
\* is ever paid out of what was locked for another.
Backed == \A u \in Users : lock[u] >= Hold(u)

\* The other side: nothing stays locked that is locked for nothing, so that
\* expiry and cancelling really "revert orderbook/locks"
\* (transaction.service.ts:542).
NothingStranded == \A u \in Users : lock[u] <= Hold(u)

\* "SELL listing: poster locked amount+fees at orderbook create; execute
\* debits the same" (transaction.service.ts:125): settling a paid transaction
\* finds in the seller's lock what it debits.
ExecuteDebitsTheLock ==
  \A t \in TransIds :
    trans[t].status = "payment_confirmed" => lock[trans[t].seller] >= Debit(trans[t], fees)

\* Whatever interleaves, and whatever the fees do, no step creates coins: the
\* wallets together never hold more than before.
Wealth == [u \in Users |-> balance[u] + lock[u]]
NoCoinCreated == [][Total(Wealth', NumUsers) <= Total(Wealth, NumUsers)]_vars

-----------------------------------------------------------------------------
(* Listings and transactions.                                              *)

\* A listing is never oversold, nor does it lose any of its amount: what
\* remains and what was taken and not given back add up to its size.
TakenOf(o) ==
  Total([t \in TransIds |-> IF trans[t].order = o /\ trans[t].status \in Live \cup {"executed"}
                            THEN trans[t].amount ELSE 0], MaxTrans)
ListingBalanced == \A o \in OrderIds : orders[o].remaining + TakenOf(o) = orders[o].amount

\* "Only pending transaction can be confirmed" (transaction.service.ts:1106):
\* payment_confirmed is entered from pending and from no other status.
OnlyPendingConfirmed ==
  [][\A t \in TransIds :
       trans[t].status # "payment_confirmed" /\ trans'[t].status = "payment_confirmed"
         => trans[t].status = "pending"]_vars

\* "Only pending order book can be updated" (orderbook.service.ts:1248): a
\* deleted listing stays deleted, in particular no update brings it back.
DeletedStaysDeleted ==
  [][\A o \in OrderIds : orders[o].status = "failed" => orders'[o].status = "failed"]_vars

\* "An active dispute already exists for this transaction"
\* (transaction.service.ts:1362): no transaction has two open disputes.
OneOpenDispute == \A t \in TransIds : disputes[t] <= 1

-----------------------------------------------------------------------------
(* The escrow implements its promise.                                      *)

Stage(s) ==
  CASE s = "none"              -> "none"
    [] s = "pending"           -> "open"
    [] s = "payment_confirmed" -> "paid"
    [] s = "executed"          -> "done"
    [] s \in {"cancelled", "failed"} -> "off"

DealStage == [t \in TransIds |-> Stage(trans[t].status)]
Terms(r)  == [buyer |-> r.buyer, seller |-> r.seller, amount |-> r.amount]
DealTerms == [t \in TransIds |-> Terms(trans[t])]

Promise == INSTANCE EscrowPromise WITH
  Users <- Users, Deals <- TransIds, InitWealth <- InitBalance,
  stage <- DealStage, deal <- DealTerms, wealth <- Wealth

\* Seen through the statuses and the sum of the two wallet columns, every
\* handler either leaves a deal alone or moves it one step the promise allows:
\* coins change hands only when a paid deal settles, once, and at the cost of
\* the two parties only.
KeepsPromise == Promise!Spec

-----------------------------------------------------------------------------
(* Why the promise is kept, as an inductive invariant of SerialSpec.       *)

\* Rows in use name real and different parties, and an existing listing.
GoodOrder(ob) == ob.status # "none" => ob.owner \in Users
GoodTrans(r) ==
  r.status # "none" =>
    /\ r.buyer \in Users /\ r.seller \in Users /\ r.buyer # r.seller
    /\ r.order \in OrderIds /\ r.amount > 0
GoodRows ==
  /\ \A o \in OrderIds : GoodOrder(orders[o])
  /\ \A t \in TransIds : GoodTrans(trans[t])

\* One request at a time is between its read and its save, and the entity it
\* holds is the row as it is now: saving it writes back nothing stale.
OneRequest ==
  /\ \A c, d \in confirming : c = d
  /\ \A c, d \in disputing : c = d
  /\ \A c, d \in updating : c = d
  /\ confirming = {} \/ disputing = {}
  /\ confirming = {} \/ updating = {}
  /\ disputing = {} \/ updating = {}
Fresh ==
  /\ \A c \in confirming : c.row = trans[c.id] /\ c.row.status = "pending"
  /\ \A d \in disputing : d.row = trans[d.id] /\ d.row.status # "none"
  /\ \A w \in updating : w.row = orders[w.id] /\ w.row.status = "pending"

SerialInv == TypeOK /\ GoodRows /\ OneRequest /\ Fresh

-----------------------------------------------------------------------------
(* Progress.  Users may leave at any time; what the server itself runs goes *)
(* on: a request that has read saves or dies, a waiting job is run by the   *)
(* BullMQ worker, the unlock scheduler runs every 30 seconds and gets to    *)
(* the first rows that are due, no others: rows that it could not release   *)
(* would keep it from the rest.  Jobs and the scheduler need strong         *)
(* fairness only because SerialSpec makes them wait for a request to end.   *)

Fairness ==
  /\ WF_vars(SaveStep)
  /\ \A t \in TransIds : /\ SF_vars(ExpirePending(t))
                         /\ SF_vars(ExpireConfirmed(t) \/ ExpireConfirmedFails(t))
                         /\ SF_vars(Picked(t) /\ ReleaseDueBuyerLock(t))
FairSerialSpec == SerialSpec /\ Fairness

\* No transaction is left open: it is cancelled, expired or settled, and the
\* coins of the settlement become available to the buyer.
EveryDealEnds ==
  \A t \in TransIds :
    (trans[t].status \in Live)
      ~> \/ trans[t].status \in {"cancelled", "failed"}
         \/ trans[t].status = "executed" /\ trans[t].released

=============================================================================
