------------------------------- MODULE Escrow -------------------------------
(***************************************************************************)
(* The peer-to-peer escrow: listings (order books), the transactions that  *)
(* take part of a listing, the two columns of a user's wallet (available   *)
(* and locked balance), the expiry queue and the coin-unlock scheduler.    *)
(*                                                                         *)
(* A handler that runs in one database transaction and reads its rows FOR  *)
(* UPDATE is one action.  The three handlers that read a row without a     *)
(* lock and save the whole entity later are several actions each: the      *)
(* entity in memory is kept in the record of the request, and any other    *)
(* handler may run before it is saved.                                     *)
(*                                                                         *)
(* The level-based buying limit, bank checks and account checks only refuse *)
(* requests; here a user may simply not make them.                          *)
(*                                                                         *)
(* Definitions whose name adds a mistake to another's (DebitBuyFree,       *)
(* CanSettleUnpaid, ...) are variants with a slip a maintainer could make; *)
(* no action uses them, the properties are tried against them.             *)
(***************************************************************************)
EXTENDS Integers, FiniteSets, Sums

CONSTANTS
  NumUsers,         \* users are 1..NumUsers, as uid is a serial key
  MaxOrders,        \* bound on ob_id
  MaxTrans,         \* bound on trans_id
  MaxInFlight,      \* bound on the requests between a read and their save
  Amounts,          \* sizes a listing may have, in units of 10^-8 coin
  TradeAmounts,     \* amounts a taker may ask for
  TradeBounds,      \* per-transaction bounds a listing may have
  FeeSettings,      \* values the two fee settings take
  FeeBase,          \* what a fee is a fraction of: 100 for percents
  Attempts,         \* attempts BullMQ makes at a job
  ScheduleOutcomes, \* TRUE: the job is queued; FALSE: Redis is away, or a crash
  UnlockBatch,      \* rows the unlock scheduler picks at a time
  InitBalance       \* what every wallet holds at the start

ASSUME CountsAssumption ==
  /\ NumUsers \in Nat /\ MaxOrders \in Nat /\ MaxTrans \in Nat
  /\ MaxInFlight \in Nat /\ Attempts \in Nat \ {0} /\ FeeBase \in Nat \ {0}
  /\ InitBalance \in Nat /\ UnlockBatch \in Nat \ {0}
ASSUME AmountsAssumption == Amounts \subseteq Nat \ {0} /\ TradeAmounts \subseteq Nat \ {0}
ASSUME BoundsAssumption  == TradeBounds \subseteq [min : Nat \ {0}, max : Nat]
ASSUME FeesAssumption    == FeeSettings \subseteq [transaction : Nat, smartref : Nat]
ASSUME OutcomesAssumption == ScheduleOutcomes \subseteq BOOLEAN

VARIABLES
  orders,      \* order_books rows
  trans,       \* transactions rows
  balance,     \* uw_balance
  lock,        \* uw_lock_balance
  fees,        \* transaction and smartref fee percents in the admin settings
  disputes,    \* OPEN disputes rows per transaction
  jobs,        \* the expiry queue: attempts left of each job
  confirming,  \* confirmPayment requests between findOne and save
  disputing,   \* createDispute requests that have begun
  updating     \* updateOrderBook requests between findOne and save

requests == <<confirming, disputing, updating>>
vars == <<orders, trans, balance, lock, fees, disputes, jobs, requests>>

Users    == 1..NumUsers
OrderIds == 1..MaxOrders
TransIds == 1..MaxTrans

OrderStatus == {"none", "pending", "executed", "failed"}
TransStatus == {"none", "pending", "payment_confirmed", "executed", "failed", "cancelled"}
Live        == {"pending", "payment_confirmed"}

Order == [owner : Nat, option : {"buy", "sell"}, amount : Nat, remaining : Nat,
          bounds : [min : Nat, max : Nat], status : OrderStatus]
Trans == [buyer : Nat, seller : Nat, order : Nat, amount : Nat, status : TransStatus,
          dispute : BOOLEAN, unlockAt : BOOLEAN, released : BOOLEAN]

NoOrder == [owner |-> 0, option |-> "buy", amount |-> 0, remaining |-> 0,
            bounds |-> [min |-> 0, max |-> 0], status |-> "none"]
NoTrans == [buyer |-> 0, seller |-> 0, order |-> 0, amount |-> 0, status |-> "none",
            dispute |-> FALSE, unlockAt |-> FALSE, released |-> FALSE]

\* A job is named after its transaction and the status it expects, so that
\* adding it twice is adding it once.  -1: no such job; 0: it failed for good
\* and BullMQ keeps it; n > 0: it waits with n attempts left.
JobIds == TransIds \X Live
NoJob  == -1

ConfirmRequest == [id : TransIds, row : Trans]
DisputeRequest == [user : Users, id : TransIds, row : Trans, inserted : BOOLEAN]
UpdateRequest  == [id : OrderIds, row : Order, bounds : TradeBounds]

TypeOK ==
  /\ orders \in [OrderIds -> Order]
  /\ trans \in [TransIds -> Trans]
  /\ balance \in [Users -> Nat]
  /\ lock \in [Users -> Nat]
  /\ fees \in [transaction : Nat, smartref : Nat]
  /\ disputes \in [TransIds -> Nat]
  /\ jobs \in [JobIds -> -1..Attempts]
  /\ confirming \subseteq ConfirmRequest
  /\ disputing \subseteq DisputeRequest
  /\ updating \subseteq UpdateRequest

-----------------------------------------------------------------------------
(* Amounts.                                                                *)

\* amount * percent / 100 rounded to 8 decimals, as formatAmount does.
Percent(a, p) == (2 * a * p + FeeBase) \div (2 * FeeBase)

TotalFee(f) == f.transaction + f.smartref

\* What a SELL listing locks for an amount: the amount and both fees.
LockAmount(a, f) == a + Percent(a, TotalFee(f))

\* What settling transaction row r takes from the seller's lock ...
IsSell(r) == orders[r.order].option = "sell"
DebitBuyFree(r, f) == IF IsSell(r) THEN LockAmount(r.amount, f) ELSE 0
Debit(r, f) == IF IsSell(r) THEN LockAmount(r.amount, f) ELSE r.amount

\* ... and what the buyer gets: the amount, or on a BUY listing what is left
\* of it after both fees.
Credit(r, f) ==
  IF IsSell(r)
  THEN r.amount
  ELSE r.amount - Percent(r.amount, f.transaction) - Percent(r.amount, f.smartref)

\* The listing after a transaction takes amount a of it, or gives it back.
Taken(ob, a) ==
  [ob EXCEPT !.remaining = @ - a,
             !.status = IF ob.remaining - a <= 0 THEN "executed" ELSE @]
RestoredReopensAny(ob, a) == [ob EXCEPT !.remaining = @ + a, !.status = "pending"]
Restored(ob, a) ==
  [ob EXCEPT !.remaining = @ + a,
             !.status = IF @ = "executed" THEN "pending" ELSE @]

-----------------------------------------------------------------------------
(* Rows and jobs.                                                          *)

\* Serial keys are given out in order.
NextOrder(o) == orders[o].status = "none" /\ \A p \in OrderIds : p < o => orders[p].status # "none"
NextTrans(t) == trans[t].status = "none" /\ \A s \in TransIds : s < t => trans[s].status # "none"

\* scheduleExpiry runs after the commit; when Redis is away or the process
\* dies first, nothing is queued.
ScheduleExpiryPendingOnly(job) ==
  jobs' = IF job[2] = "pending" THEN [jobs EXCEPT ![job] = Attempts] ELSE jobs
ScheduleExpiry(job) ==
  \E queued \in ScheduleOutcomes :
    jobs' = IF queued /\ jobs[job] = NoJob THEN [jobs EXCEPT ![job] = Attempts] ELSE jobs

\* Guards that the handlers re-check on the row they hold, each after the
\* mistakes (ExpirableLive to AnyDispute) the properties are tried against.
ExpirableLive(r)   == r.status \in Live
ExpirableAny(r)    == r.status # "none"
DueAgain(r)        == r.status = "executed" /\ r.unlockAt
AnyDispute(t)      == disputes[t] \in Nat
Expirable(r)       == r.status = "pending"
Due(r)             == r.status = "executed" /\ r.unlockAt /\ ~r.released
NoActiveDispute(t) == disputes[t] = 0

Participant(u, r) == u \in {r.buyer, r.seller}

InFlight == Cardinality(confirming) + Cardinality(disputing) + Cardinality(updating)

-----------------------------------------------------------------------------
Init ==
  /\ orders = [o \in OrderIds |-> NoOrder]
  /\ trans = [t \in TransIds |-> NoTrans]
  /\ balance = [u \in Users |-> InitBalance]
  /\ lock = [u \in Users |-> 0]
  /\ fees \in FeeSettings
  /\ disputes = [t \in TransIds |-> 0]
  /\ jobs = [j \in JobIds |-> NoJob]
  /\ confirming = {} /\ disputing = {} /\ updating = {}

\* createOrderBook: a SELL listing moves its amount and the fees into the lock.
CreateOrderBook(u, option, a, b) ==
  \E o \in OrderIds :
    LET held == IF option = "sell" THEN LockAmount(a, fees) ELSE 0
    IN  /\ NextOrder(o)
        /\ balance[u] >= held
        /\ balance' = [balance EXCEPT ![u] = @ - held]
        /\ lock' = [lock EXCEPT ![u] = @ + held]
        /\ orders' = [orders EXCEPT ![o] =
             [owner |-> u, option |-> option, amount |-> a, remaining |-> a,
              bounds |-> b, status |-> "pending"]]
        /\ UNCHANGED <<trans, fees, disputes, jobs, requests>>

\* deleteOrderBook: a SELL listing gives back what its remaining amount locks
\* at the fees of now; transactions that took part of it go on.
DeleteOrderBook(o) ==
  LET ob == orders[o]
      held == IF ob.option = "sell" THEN LockAmount(ob.remaining, fees) ELSE 0
  IN  /\ ob.status = "pending"
      /\ lock[ob.owner] >= held
      /\ lock' = [lock EXCEPT ![ob.owner] = @ - held]
      /\ balance' = [balance EXCEPT ![ob.owner] = @ + held]
      /\ orders' = [orders EXCEPT ![o].status = "failed"]
      /\ UNCHANGED <<trans, fees, disputes, jobs, requests>>

\* createTransaction: user u takes amount a of listing o.  On a BUY listing
\* the taker is the seller and locks the bare amount.
CreateTransaction(u, o, a) ==
  \E t \in TransIds :
    LET ob == orders[o]
        held == IF ob.option = "buy" THEN a ELSE 0
    IN  /\ NextTrans(t)
        /\ ob.status = "pending" /\ ob.owner # u
        /\ a >= ob.bounds.min /\ a <= ob.bounds.max
        /\ a <= ob.remaining
        /\ balance[u] >= held
        /\ balance' = [balance EXCEPT ![u] = @ - held]
        /\ lock' = [lock EXCEPT ![u] = @ + held]
        /\ orders' = [orders EXCEPT ![o] = Taken(ob, a)]
        /\ trans' = [trans EXCEPT ![t] =
             [NoTrans EXCEPT !.buyer = IF ob.option = "sell" THEN u ELSE ob.owner,
                             !.seller = IF ob.option = "sell" THEN ob.owner ELSE u,
                             !.order = o, !.amount = a, !.status = "pending"]]
        /\ ScheduleExpiry(<<t, "pending">>)
        /\ UNCHANGED <<fees, disputes, requests>>

-----------------------------------------------------------------------------
(* Settlement, shared by confirmReceived and by the expiry of a paid       *)
(* transaction.                                                            *)

CanSettleUnpaid(r, f) ==
  /\ r.status \in Live
  /\ IsSell(r) \/ Credit(r, f) > 0
  /\ lock[r.seller] >= Debit(r, f)
CanSettleUncovered(r, f) ==
  r.status = "payment_confirmed" /\ (IsSell(r) \/ Credit(r, f) > 0)
CanSettle(r, f) ==
  /\ r.status = "payment_confirmed"
  /\ IsSell(r) \/ Credit(r, f) > 0
  /\ lock[r.seller] >= Debit(r, f)

\* On a SELL listing the buyer's coins arrive locked, to be released by the
\* scheduler; on a BUY listing they arrive available.
Settle(t, f) ==
  LET r == trans[t]
      paid == [lock EXCEPT ![r.seller] = @ - Debit(r, f)]
  IN  /\ CanSettle(r, f)
      /\ IF IsSell(r)
         THEN /\ lock' = [paid EXCEPT ![r.buyer] = @ + Credit(r, f)]
              /\ UNCHANGED balance
         ELSE /\ lock' = paid
              /\ balance' = [balance EXCEPT ![r.buyer] = @ + Credit(r, f)]
      /\ trans' = [trans EXCEPT ![t].status = "executed",
                                ![t].unlockAt = IsSell(r),
                                ![t].released = ~IsSell(r)]

\* confirmReceived, called by either participant.
ConfirmReceived(u, t) ==
  /\ Participant(u, trans[t])
  /\ Settle(t, fees)
  /\ UNCHANGED <<orders, fees, disputes, jobs, requests>>

\* cancelTransaction: the amount goes back to the listing; on a BUY listing
\* the seller's lock is undone.
CancelTransaction(u, t) ==
  LET r == trans[t]
      held == IF IsSell(r) THEN 0 ELSE r.amount
  IN  /\ Participant(u, r)
      /\ r.status = "pending"
      /\ lock[r.seller] >= held
      /\ orders' = [orders EXCEPT ![r.order] = Restored(@, r.amount)]
      /\ lock' = [lock EXCEPT ![r.seller] = @ - held]
      /\ balance' = [balance EXCEPT ![r.seller] = @ + held]
      /\ trans' = [trans EXCEPT ![t].status = "cancelled"]
      /\ UNCHANGED <<fees, disputes, jobs, requests>>

-----------------------------------------------------------------------------
(* The expiry worker.                                                      *)

Complete(job) == jobs' = [jobs EXCEPT ![job] = NoJob]

\* applyExpirationJob for `pending`: undo as cancelTransaction does, except
\* that a lock too small to undo fails the transaction all the same.
ExpirePending(t) ==
  LET r == trans[t]
      held == IF IsSell(r) \/ lock[r.seller] < r.amount THEN 0 ELSE r.amount
  IN  /\ jobs[<<t, "pending">>] > 0
      /\ Complete(<<t, "pending">>)
      /\ IF Expirable(r)
         THEN /\ orders' = [orders EXCEPT ![r.order] = Restored(@, r.amount)]
              /\ lock' = [lock EXCEPT ![r.seller] = @ - held]
              /\ balance' = [balance EXCEPT ![r.seller] = @ + held]
              /\ trans' = [trans EXCEPT ![t].status = "failed"]
         ELSE UNCHANGED <<orders, lock, balance, trans>>
      /\ UNCHANGED <<fees, disputes, requests>>

\* applyExpirationJob for `payment_confirmed`: settle, or do nothing when
\* the transaction moved on.
ExpireConfirmed(t) ==
  /\ jobs[<<t, "payment_confirmed">>] > 0
  /\ Complete(<<t, "payment_confirmed">>)
  /\ \/ Settle(t, fees)
     \/ trans[t].status # "payment_confirmed" /\ UNCHANGED <<trans, balance, lock>>
  /\ UNCHANGED <<orders, fees, disputes, requests>>

\* Settlement threw: the database transaction is rolled back and BullMQ
\* counts the attempt.
ExpireConfirmedFails(t) ==
  LET job == <<t, "payment_confirmed">>
  IN  /\ jobs[job] > 0
      /\ trans[t].status = "payment_confirmed" /\ ~CanSettle(trans[t], fees)
      /\ jobs' = [jobs EXCEPT ![job] = @ - 1]
      /\ UNCHANGED <<orders, trans, balance, lock, fees, disputes, requests>>

\* The first rows that are due, which releaseDueBuyerLocks picks ...
Picked(t) == Due(trans[t]) /\ Cardinality({s \in TransIds : s < t /\ Due(trans[s])}) < UnlockBatch

\* ... and one of them, re-read under its lock.  By then rows with lower ids may
\* have become due.
ReleaseDueBuyerLock(t) ==
  LET r == trans[t]
  IN  /\ Due(r)
      /\ lock[r.buyer] >= r.amount
      /\ lock' = [lock EXCEPT ![r.buyer] = @ - r.amount]
      /\ balance' = [balance EXCEPT ![r.buyer] = @ + r.amount]
      /\ trans' = [trans EXCEPT ![t].released = TRUE]
      /\ UNCHANGED <<orders, fees, disputes, jobs, requests>>

\* An administrator saves other fee percents.
ChangeFees ==
  /\ fees' \in FeeSettings \ {fees}
  /\ UNCHANGED <<orders, trans, balance, lock, disputes, jobs, requests>>

-----------------------------------------------------------------------------
(* The handlers that read without a lock.  repository.save(entity) writes  *)
(* every column in which the entity in memory differs from the row: the    *)
(* row becomes the entity.                                                 *)

ConfirmPaymentRead(t) ==
  /\ InFlight < MaxInFlight
  /\ trans[t].status = "pending"
  /\ confirming' = confirming \cup {[id |-> t, row |-> trans[t]]}
  /\ UNCHANGED <<orders, trans, balance, lock, fees, disputes, jobs, disputing, updating>>

ConfirmPaymentSave(c) ==
  /\ trans' = [trans EXCEPT ![c.id] = [c.row EXCEPT !.status = "payment_confirmed"]]
  /\ ScheduleExpiry(<<c.id, "payment_confirmed">>)
  /\ confirming' = confirming \ {c}
  /\ UNCHANGED <<orders, balance, lock, fees, disputes, disputing, updating>>

\* createDispute: read the transaction, find no active dispute ...
CreateDisputeCheck(u, t) ==
  /\ InFlight < MaxInFlight
  /\ trans[t].status # "none" /\ Participant(u, trans[t])
  /\ NoActiveDispute(t)
  /\ disputing' = disputing \cup
       {[user |-> u, id |-> t, row |-> trans[t], inserted |-> FALSE]}
  /\ UNCHANGED <<orders, trans, balance, lock, fees, disputes, jobs, confirming, updating>>

\* ... insert the dispute ...
CreateDisputeInsert(d) ==
  /\ ~d.inserted
  /\ disputes' = [disputes EXCEPT ![d.id] = @ + 1]
  /\ disputing' = (disputing \ {d}) \cup {[d EXCEPT !.inserted = TRUE]}
  /\ UNCHANGED <<orders, trans, balance, lock, fees, jobs, confirming, updating>>

\* ... and, unless the entity is already marked, mark it and save it.
CreateDisputeMark(d) ==
  /\ d.inserted
  /\ trans' = IF d.row.dispute
              THEN trans
              ELSE [trans EXCEPT ![d.id] = [d.row EXCEPT !.dispute = TRUE]]
  /\ disputing' = disputing \ {d}
  /\ UNCHANGED <<orders, balance, lock, fees, disputes, jobs, confirming, updating>>

UpdateOrderBookRead(o, b) ==
  /\ InFlight < MaxInFlight
  /\ orders[o].status = "pending"
  /\ updating' = updating \cup {[id |-> o, row |-> orders[o], bounds |-> b]}
  /\ UNCHANGED <<orders, trans, balance, lock, fees, disputes, jobs, confirming, disputing>>

UpdateOrderBookSave(w) ==
  /\ orders' = [orders EXCEPT ![w.id] = [w.row EXCEPT !.bounds = w.bounds]]
  /\ updating' = updating \ {w}
  /\ UNCHANGED <<trans, balance, lock, fees, disputes, jobs, confirming, disputing>>

\* The process dies: requests in memory are gone, the rows and Redis stay.
Crash ==
  /\ InFlight > 0
  /\ confirming' = {} /\ disputing' = {} /\ updating' = {}
  /\ UNCHANGED <<orders, trans, balance, lock, fees, disputes, jobs>>

-----------------------------------------------------------------------------
LockedStep ==
  \/ \E u \in Users, option \in {"buy", "sell"}, a \in Amounts, b \in TradeBounds :
       CreateOrderBook(u, option, a, b)
  \/ \E o \in OrderIds : DeleteOrderBook(o)
  \/ \E u \in Users, o \in OrderIds, a \in TradeAmounts :
       CreateTransaction(u, o, a)
  \/ \E u \in Users, t \in TransIds : ConfirmReceived(u, t) \/ CancelTransaction(u, t)
  \/ \E t \in TransIds : \/ ExpirePending(t) \/ ExpireConfirmed(t)
                         \/ ExpireConfirmedFails(t) \/ ReleaseDueBuyerLock(t)

ReadStep ==
  \/ \E t \in TransIds : ConfirmPaymentRead(t)
  \/ \E u \in Users, t \in TransIds : CreateDisputeCheck(u, t)
  \/ \E o \in OrderIds, b \in TradeBounds : UpdateOrderBookRead(o, b)

SaveStep ==
  \/ \E c \in confirming : ConfirmPaymentSave(c)
  \/ \E d \in disputing : CreateDisputeInsert(d) \/ CreateDisputeMark(d)
  \/ \E w \in updating : UpdateOrderBookSave(w)
  \/ Crash

Next == LockedStep \/ ReadStep \/ SaveStep \/ ChangeFees
Spec == Init /\ [][Next]_vars

\* The same system when nothing runs between an unlocked read and its save:
\* what the handlers promise, and what their authors tested.
Idle == confirming = {} /\ disputing = {} /\ updating = {}
SerialNext == (Idle /\ (LockedStep \/ ReadStep)) \/ SaveStep \/ ChangeFees
SerialSpec == Init /\ [][SerialNext]_vars

=============================================================================
