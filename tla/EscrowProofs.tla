---------------------------- MODULE EscrowProofs ----------------------------
(***************************************************************************)
(* Theorems about the escrow, for every number of users, listings and      *)
(* transactions, whatever the amounts and however the fees change: first   *)
(* whatever interleaves, then when nothing runs between an unlocked read   *)
(* and its save, where the escrow implements EscrowPromise.                *)
(***************************************************************************)
EXTENDS EscrowProperties, SumTheorems, TLAPS

-----------------------------------------------------------------------------
(* Amounts.                                                                *)

\* Rounding a fee of a natural amount gives a natural number.
LEMMA PercentNat ==
  ASSUME NEW a \in Nat, NEW p \in Nat
  PROVE  Percent(a, p) \in Nat
<1>1. 2 * a * p + FeeBase \in Nat /\ 2 * FeeBase \in Nat \ {0}
  BY CountsAssumption
<1>2. \A m \in Nat, n \in Nat \ {0} : m \div n \in Nat
  OBVIOUS
<1> QED
  BY <1>1, <1>2 DEF Percent

\* What a listing locks for a natural amount is a natural number, no smaller.
LEMMA LockAmountNat ==
  ASSUME NEW a \in Nat, NEW f \in [transaction : Nat, smartref : Nat]
  PROVE  LockAmount(a, f) \in Nat /\ LockAmount(a, f) >= a
<1>1. TotalFee(f) \in Nat
  BY DEF TotalFee
<1>2. Percent(a, TotalFee(f)) \in Nat
  BY <1>1, PercentNat
<1> QED
  BY <1>2 DEF LockAmount

\* What settling takes from the seller is at least the amount, and is the
\* amount itself on a BUY listing; what it gives the buyer is at most that.
LEMMA SettlementAmounts ==
  ASSUME NEW r \in Trans, NEW f \in [transaction : Nat, smartref : Nat]
  PROVE  /\ Debit(r, f) \in Nat /\ Debit(r, f) >= r.amount
         /\ ~IsSell(r) => Debit(r, f) = r.amount
         /\ Credit(r, f) \in Int /\ Credit(r, f) <= r.amount
         /\ IsSell(r) => Credit(r, f) = r.amount
<1>1. r.amount \in Nat /\ f.transaction \in Nat /\ f.smartref \in Nat
  BY DEF Trans
<1>2. LockAmount(r.amount, f) \in Nat /\ LockAmount(r.amount, f) >= r.amount
  BY <1>1, LockAmountNat
<1>3. Percent(r.amount, f.transaction) \in Nat /\ Percent(r.amount, f.smartref) \in Nat
  BY <1>1, PercentNat
<1> QED
  BY <1>1, <1>2, <1>3 DEF Debit, Credit

-----------------------------------------------------------------------------
(* Type correctness, whatever interleaves.                                 *)

\* The empty database is well-typed.
LEMMA InitType == Init => TypeOK
<1> SUFFICES ASSUME Init PROVE TypeOK
  OBVIOUS
<1>1. NoOrder \in Order /\ NoTrans \in Trans
  BY DEF NoOrder, NoTrans, Order, Trans, OrderStatus, TransStatus
<1>2. fees \in [transaction : Nat, smartref : Nat]
  BY FeesAssumption DEF Init
<1> QED
  BY <1>1, <1>2, CountsAssumption DEF Init, TypeOK, NoJob

\* Listing moves no more into the lock than the owner has.
LEMMA CreateOrderBookType ==
  ASSUME TypeOK, NEW u \in Users, NEW option \in {"buy", "sell"}, NEW a \in Amounts,
         NEW b \in TradeBounds, CreateOrderBook(u, option, a, b)
  PROVE  TypeOK'
<1>1. PICK o \in OrderIds :
        LET held == IF option = "sell" THEN LockAmount(a, fees) ELSE 0
        IN  /\ balance[u] >= held
            /\ balance' = [balance EXCEPT ![u] = @ - held]
            /\ lock' = [lock EXCEPT ![u] = @ + held]
            /\ orders' = [orders EXCEPT ![o] =
                 [owner |-> u, option |-> option, amount |-> a, remaining |-> a,
                  bounds |-> b, status |-> "pending"]]
            /\ UNCHANGED <<trans, fees, disputes, jobs, requests>>
  BY DEF CreateOrderBook
<1> DEFINE held == IF option = "sell" THEN LockAmount(a, fees) ELSE 0
<1>2. a \in Nat /\ b \in [min : Nat, max : Nat]
  BY AmountsAssumption, BoundsAssumption
<1>3. held \in Nat
  BY <1>2, LockAmountNat DEF TypeOK
<1> HIDE DEF held
<1>4. balance' \in [Users -> Nat] /\ lock' \in [Users -> Nat]
  BY <1>1, <1>3 DEF TypeOK, held
<1>5. [owner |-> u, option |-> option, amount |-> a, remaining |-> a,
       bounds |-> b, status |-> "pending"] \in Order
  BY <1>2 DEF Order, OrderStatus, Users
<1>6. orders' \in [OrderIds -> Order]
  BY <1>1, <1>5 DEF TypeOK
<1> QED
  BY <1>1, <1>4, <1>6 DEF TypeOK, requests

\* Taking a part that remains, or giving one back, leaves a listing.
LEMMA OrderEdits ==
  ASSUME NEW ob \in Order, NEW a \in Nat
  PROVE  /\ Restored(ob, a) \in Order
         /\ a <= ob.remaining => Taken(ob, a) \in Order
<1> DEFINE reopened == IF ob.status = "executed" THEN "pending" ELSE ob.status
           left == IF ob.remaining - a <= 0 THEN "executed" ELSE ob.status
<1>1. ob.remaining \in Nat /\ reopened \in OrderStatus /\ left \in OrderStatus
  BY DEF Order, OrderStatus
<1>2. Restored(ob, a) = [ob EXCEPT !.remaining = @ + a, !.status = reopened]
  BY DEF Restored
<1>3. Taken(ob, a) = [ob EXCEPT !.remaining = @ - a, !.status = left]
  BY DEF Taken
<1> HIDE DEF reopened, left
<1> DEFINE Edited(rem, st) ==
             [owner |-> ob.owner, option |-> ob.option, amount |-> ob.amount,
              remaining |-> rem, bounds |-> ob.bounds, status |-> st]
<1>4. \A rem \in Nat, st \in OrderStatus : Edited(rem, st) \in Order
  BY DEF Order
<1>5. /\ Restored(ob, a) = Edited(ob.remaining + a, reopened)
      /\ Taken(ob, a) = Edited(ob.remaining - a, left)
  BY <1>2, <1>3 DEF Order
<1>6. a <= ob.remaining => ob.remaining - a \in Nat
  BY <1>1
<1> HIDE DEF Edited
<1> QED
  BY <1>1, <1>4, <1>5, <1>6

\* Moving a covered amount between the columns of one wallet.
LEMMA MoveType ==
  ASSUME NEW f \in [Users -> Nat], NEW u, NEW h \in Nat
  PROVE  /\ f[u] >= h => [f EXCEPT ![u] = @ - h] \in [Users -> Nat]
         /\ [f EXCEPT ![u] = @ + h] \in [Users -> Nat]
<1>1. CASE u \in Users
  BY <1>1
<1>2. CASE u \notin Users
  BY <1>2
<1> QED
  BY <1>1, <1>2

\* The mark of a missing job is among the values a job takes.
LEMMA NoJobType == NoJob \in -1..Attempts
BY CountsAssumption DEF NoJob

\* Queueing a job leaves the queue well-typed, whether or not Redis answers.
LEMMA ScheduleType ==
  ASSUME TypeOK, NEW job \in JobIds, ScheduleExpiry(job)
  PROVE  jobs' \in [JobIds -> -1..Attempts]
<1>1. Attempts \in -1..Attempts
  BY CountsAssumption
<1> QED
  BY <1>1 DEF TypeOK, ScheduleExpiry

\* Deleting a listing takes no more out of the lock than is in it.
LEMMA DeleteOrderBookType ==
  ASSUME TypeOK, NEW o \in OrderIds, DeleteOrderBook(o)
  PROVE  TypeOK'
<1> DEFINE ob == orders[o]
           held == IF ob.option = "sell" THEN LockAmount(ob.remaining, fees) ELSE 0
<1>1. ob \in Order /\ ob.remaining \in Nat
  BY DEF TypeOK, Order
<1>2. held \in Nat
  BY <1>1, LockAmountNat DEF TypeOK
<1>3. /\ lock[ob.owner] >= held
      /\ lock' = [lock EXCEPT ![ob.owner] = @ - held]
      /\ balance' = [balance EXCEPT ![ob.owner] = @ + held]
  BY DEF DeleteOrderBook
<1>4. lock' \in [Users -> Nat] /\ balance' \in [Users -> Nat]
  <2> HIDE DEF held
  <2> QED  BY <1>2, <1>3, MoveType DEF TypeOK
<1>5. orders' = [orders EXCEPT ![o].status = "failed"] /\ UNCHANGED <<trans, fees, disputes, jobs, requests>>
  BY DEF DeleteOrderBook
<1>6. orders' \in [OrderIds -> Order]
  BY <1>5 DEF TypeOK, Order, OrderStatus
<1> QED
  BY <1>4, <1>5, <1>6 DEF TypeOK, requests

\* Taking a part of a listing leaves a natural remainder and wallet.
LEMMA CreateTransactionType ==
  ASSUME TypeOK, NEW u \in Users, NEW o \in OrderIds, NEW a \in TradeAmounts,
         CreateTransaction(u, o, a)
  PROVE  TypeOK'
<1> DEFINE ob == orders[o]
           held == IF ob.option = "buy" THEN a ELSE 0
           new == [NoTrans EXCEPT !.buyer = IF ob.option = "sell" THEN u ELSE ob.owner,
                                  !.seller = IF ob.option = "sell" THEN ob.owner ELSE u,
                                  !.order = o, !.amount = a, !.status = "pending"]
<1>1. /\ a \in Nat /\ held \in Nat
      /\ ob \in Order /\ o \in Nat /\ u \in Nat
  <2>1. a \in Nat
    BY AmountsAssumption
  <2>2. o \in Nat /\ u \in Nat
    BY DEF OrderIds, Users
  <2> QED
    BY <2>1, <2>2 DEF TypeOK
<1>2. PICK t \in TransIds :
        /\ a <= ob.remaining
        /\ balance[u] >= held
        /\ balance' = [balance EXCEPT ![u] = @ - held]
        /\ lock' = [lock EXCEPT ![u] = @ + held]
        /\ orders' = [orders EXCEPT ![o] = Taken(ob, a)]
        /\ trans' = [trans EXCEPT ![t] = new]
        /\ ScheduleExpiry(<<t, "pending">>)
        /\ UNCHANGED <<fees, disputes, requests>>
  BY DEF CreateTransaction
<1>3. new \in Trans
  BY <1>1 DEF NoTrans, Trans, TransStatus, Order
<1>4. trans' \in [TransIds -> Trans]
  <2> HIDE DEF new
  <2> QED  BY <1>2, <1>3 DEF TypeOK
<1>5. balance' \in [Users -> Nat] /\ lock' \in [Users -> Nat]
  <2> HIDE DEF held
  <2> QED  BY <1>1, <1>2 DEF TypeOK
<1>6. orders' \in [OrderIds -> Order]
  BY <1>1, <1>2, OrderEdits DEF TypeOK
<1>7. jobs' \in [JobIds -> -1..Attempts]
  BY <1>2, ScheduleType DEF JobIds, Live
<1> QED
  BY <1>2, <1>4, <1>5, <1>6, <1>7 DEF TypeOK, requests

\* Settling takes from the seller no more than the lock holds, and gives the
\* buyer a natural amount.
LEMMA SettleType ==
  ASSUME TypeOK, NEW t \in TransIds, Settle(t, fees)
  PROVE  /\ trans' \in [TransIds -> Trans]
         /\ balance' \in [Users -> Nat] /\ lock' \in [Users -> Nat]
<1> DEFINE r == trans[t]
           paid == [lock EXCEPT ![r.seller] = @ - Debit(r, fees)]
<1>1. r \in Trans /\ fees \in [transaction : Nat, smartref : Nat] /\ r.amount \in Nat
  BY DEF TypeOK, Trans
<1>2. Debit(r, fees) \in Nat /\ Credit(r, fees) \in Int /\ (IsSell(r) => Credit(r, fees) \in Nat)
  BY <1>1, SettlementAmounts
<1>3. CanSettle(r, fees)
  BY DEF Settle
<1>4. Credit(r, fees) \in Nat
  BY <1>2, <1>3 DEF CanSettle
<1>5. paid \in [Users -> Nat]
  <2>1. lock \in [Users -> Nat] /\ lock[r.seller] >= Debit(r, fees)
    BY <1>3 DEF CanSettle, TypeOK
  <2> QED
    BY <1>2, <2>1, MoveType
<1>6. /\ IF IsSell(r)
         THEN lock' = [paid EXCEPT ![r.buyer] = @ + Credit(r, fees)] /\ UNCHANGED balance
         ELSE lock' = paid /\ balance' = [balance EXCEPT ![r.buyer] = @ + Credit(r, fees)]
      /\ trans' = [trans EXCEPT ![t].status = "executed",
                                ![t].unlockAt = IsSell(r),
                                ![t].released = ~IsSell(r)]
  BY DEF Settle
<1>7. balance' \in [Users -> Nat] /\ lock' \in [Users -> Nat]
  <2> HIDE DEF paid
  <2> QED  BY <1>4, <1>5, <1>6 DEF TypeOK
<1>8. IsSell(r) \in BOOLEAN
  BY DEF IsSell
<1>9. trans' \in [TransIds -> Trans]
  BY <1>1, <1>6, <1>8 DEF TypeOK, Trans, TransStatus
<1> QED
  BY <1>7, <1>9

\* Cancelling takes no more out of the seller's lock than is in it.
LEMMA CancelTransactionType ==
  ASSUME TypeOK, NEW u \in Users, NEW t \in TransIds, CancelTransaction(u, t)
  PROVE  TypeOK'
<1> DEFINE r == trans[t]
           held == IF IsSell(r) THEN 0 ELSE r.amount
<1>1. r \in Trans /\ r.amount \in Nat /\ held \in Nat
  BY DEF TypeOK, Trans
<1>2. /\ lock[r.seller] >= held
      /\ orders' = [orders EXCEPT ![r.order] = Restored(@, r.amount)]
      /\ lock' = [lock EXCEPT ![r.seller] = @ - held]
      /\ balance' = [balance EXCEPT ![r.seller] = @ + held]
      /\ trans' = [trans EXCEPT ![t].status = "cancelled"]
      /\ UNCHANGED <<fees, disputes, jobs, requests>>
  BY DEF CancelTransaction
<1>3. orders' \in [OrderIds -> Order]
  BY <1>1, <1>2, OrderEdits DEF TypeOK
<1>4. lock' \in [Users -> Nat] /\ balance' \in [Users -> Nat]
  <2> HIDE DEF held
  <2> QED  BY <1>1, <1>2, MoveType DEF TypeOK
<1>5. trans' \in [TransIds -> Trans]
  BY <1>2 DEF TypeOK, Trans, TransStatus
<1> QED
  BY <1>2, <1>3, <1>4, <1>5 DEF TypeOK, requests

\* Nor does expiry, which skips a lock that is too small.
LEMMA ExpirePendingType ==
  ASSUME TypeOK, NEW t \in TransIds, ExpirePending(t)
  PROVE  TypeOK'
<1> DEFINE r == trans[t]
           held == IF IsSell(r) \/ lock[r.seller] < r.amount THEN 0 ELSE r.amount
<1>1. r \in Trans /\ r.amount \in Nat /\ held \in Nat
  BY DEF TypeOK, Trans
<1>2. /\ jobs' = [jobs EXCEPT ![<<t, "pending">>] = NoJob]
      /\ IF Expirable(r)
         THEN /\ orders' = [orders EXCEPT ![r.order] = Restored(@, r.amount)]
              /\ lock' = [lock EXCEPT ![r.seller] = @ - held]
              /\ balance' = [balance EXCEPT ![r.seller] = @ + held]
              /\ trans' = [trans EXCEPT ![t].status = "failed"]
         ELSE UNCHANGED <<orders, lock, balance, trans>>
      /\ UNCHANGED <<fees, disputes, requests>>
  BY DEF ExpirePending, Complete
<1>3. orders' \in [OrderIds -> Order]
  <2>1. [orders EXCEPT ![r.order] = Restored(@, r.amount)] \in [OrderIds -> Order]
    BY <1>1, OrderEdits DEF TypeOK
  <2> QED
    BY <1>2, <2>1 DEF TypeOK
<1>4. lock' \in [Users -> Nat] /\ balance' \in [Users -> Nat]
  <2>1. CASE r.seller \notin Users
    BY <1>2, <2>1 DEF TypeOK
  <2>2. CASE r.seller \in Users
    <3>1. lock[r.seller] >= held
      BY <1>1, <2>2 DEF TypeOK
    <3> HIDE DEF held
    <3> QED  BY <1>1, <1>2, <3>1, MoveType DEF TypeOK
  <2> QED
    BY <2>1, <2>2
<1>5. trans' \in [TransIds -> Trans]
  <2>1. trans \in [TransIds -> Trans]
    BY DEF TypeOK
  <2>2. r \in Trans => [r EXCEPT !.status = "failed"] \in Trans
    BY DEF Trans, TransStatus
  <2>3. trans' = trans \/ trans' = [trans EXCEPT ![t] = [r EXCEPT !.status = "failed"]]
    BY <1>2
  <2> HIDE DEF r
  <2> QED
    BY ONLY <1>1, <2>1, <2>2, <2>3
<1>6. jobs' \in [JobIds -> -1..Attempts]
  BY <1>2, NoJobType DEF TypeOK
<1> QED
  BY <1>2, <1>3, <1>4, <1>5, <1>6 DEF TypeOK, requests

\* The expiry of a paid transaction settles it, or leaves the rows alone.
LEMMA ExpireConfirmedType ==
  ASSUME TypeOK, NEW t \in TransIds, ExpireConfirmed(t) \/ ExpireConfirmedFails(t)
  PROVE  TypeOK'
<1>1. CASE ExpireConfirmed(t)
  <2>1. jobs' = [jobs EXCEPT ![<<t, "payment_confirmed">>] = NoJob]
    BY <1>1 DEF ExpireConfirmed, Complete
  <2>2. jobs' \in [JobIds -> -1..Attempts]
    BY <2>1, NoJobType DEF TypeOK
  <2>3. UNCHANGED <<orders, fees, disputes, requests>>
    BY <1>1 DEF ExpireConfirmed
  <2>4. /\ trans' \in [TransIds -> Trans]
        /\ balance' \in [Users -> Nat] /\ lock' \in [Users -> Nat]
    <3>1. CASE Settle(t, fees)
      BY <3>1, SettleType
    <3>2. CASE UNCHANGED <<trans, balance, lock>>
      BY <3>2 DEF TypeOK
    <3> QED
      BY <1>1, <3>1, <3>2 DEF ExpireConfirmed
  <2> QED
    BY <2>2, <2>3, <2>4 DEF TypeOK, requests
<1>2. CASE ExpireConfirmedFails(t)
  <2> DEFINE job == <<t, "payment_confirmed">>
  <2>1. /\ jobs[job] > 0 /\ jobs' = [jobs EXCEPT ![job] = @ - 1]
        /\ UNCHANGED <<orders, trans, balance, lock, fees, disputes, requests>>
    BY <1>2 DEF ExpireConfirmedFails
  <2>2. job \in JobIds /\ jobs[job] \in -1..Attempts
    BY DEF JobIds, Live, TypeOK
  <2>3. jobs[job] - 1 \in -1..Attempts
    BY <2>1, <2>2, CountsAssumption
  <2>4. jobs' \in [JobIds -> -1..Attempts]
    <3> HIDE DEF job
    <3> QED  BY <2>1, <2>3 DEF TypeOK
  <2> QED
    BY <2>1, <2>4 DEF TypeOK, requests
<1> QED
  BY <1>1, <1>2

\* The scheduler releases no more than the buyer's lock holds.
LEMMA ReleaseDueBuyerLockType ==
  ASSUME TypeOK, NEW t \in TransIds, ReleaseDueBuyerLock(t)
  PROVE  TypeOK'
<1> DEFINE r == trans[t]
<1>1. r \in Trans /\ r.amount \in Nat
  BY DEF TypeOK, Trans
<1>2. /\ lock[r.buyer] >= r.amount
      /\ lock' = [lock EXCEPT ![r.buyer] = @ - r.amount]
      /\ balance' = [balance EXCEPT ![r.buyer] = @ + r.amount]
      /\ trans' = [trans EXCEPT ![t].released = TRUE]
      /\ UNCHANGED <<orders, fees, disputes, jobs, requests>>
  BY DEF ReleaseDueBuyerLock
<1>3. lock' \in [Users -> Nat] /\ balance' \in [Users -> Nat]
  BY <1>1, <1>2, MoveType DEF TypeOK
<1>4. trans' \in [TransIds -> Trans]
  BY <1>2 DEF TypeOK, Trans
<1> QED
  BY <1>2, <1>3, <1>4 DEF TypeOK, requests

\* Every handler that locks its rows keeps the types.
LEMMA LockedStepType == ASSUME TypeOK, LockedStep PROVE TypeOK'
<1>1. CASE \E u \in Users, option \in {"buy", "sell"}, a \in Amounts, b \in TradeBounds :
             CreateOrderBook(u, option, a, b)
  BY <1>1, CreateOrderBookType
<1>2. CASE \E o \in OrderIds : DeleteOrderBook(o)
  BY <1>2, DeleteOrderBookType
<1>3. CASE \E u \in Users, o \in OrderIds, a \in TradeAmounts : CreateTransaction(u, o, a)
  BY <1>3, CreateTransactionType
<1>4. ASSUME NEW u \in Users, NEW t \in TransIds, ConfirmReceived(u, t)  PROVE TypeOK'
  <2>1. Settle(t, fees) /\ UNCHANGED <<orders, fees, disputes, jobs, requests>>
    BY <1>4 DEF ConfirmReceived
  <2> QED
    BY <2>1, SettleType DEF TypeOK, requests
<1>5. ASSUME NEW u \in Users, NEW t \in TransIds, CancelTransaction(u, t)  PROVE TypeOK'
  BY <1>5, CancelTransactionType
<1>6. ASSUME NEW t \in TransIds,
             \/ ExpirePending(t) \/ ExpireConfirmed(t)
             \/ ExpireConfirmedFails(t) \/ ReleaseDueBuyerLock(t)
      PROVE  TypeOK'
  BY <1>6, ExpirePendingType, ExpireConfirmedType, ReleaseDueBuyerLockType
<1> QED
  BY <1>1, <1>2, <1>3, <1>4, <1>5, <1>6 DEF LockedStep

\* What an unlocked read keeps in memory is a row.
LEMMA ReadStepType == ASSUME TypeOK, ReadStep PROVE TypeOK'
<1>1. ASSUME NEW t \in TransIds, ConfirmPaymentRead(t)  PROVE TypeOK'
  <2>1. [id |-> t, row |-> trans[t]] \in ConfirmRequest
    BY DEF TypeOK, ConfirmRequest
  <2> QED
    BY <1>1, <2>1 DEF ConfirmPaymentRead, TypeOK
<1>2. ASSUME NEW u \in Users, NEW t \in TransIds, CreateDisputeCheck(u, t)  PROVE TypeOK'
  <2>1. [user |-> u, id |-> t, row |-> trans[t], inserted |-> FALSE] \in DisputeRequest
    BY DEF TypeOK, DisputeRequest
  <2> QED
    BY <1>2, <2>1 DEF CreateDisputeCheck, TypeOK
<1>3. ASSUME NEW o \in OrderIds, NEW b \in TradeBounds, UpdateOrderBookRead(o, b)  PROVE TypeOK'
  <2>1. [id |-> o, row |-> orders[o], bounds |-> b] \in UpdateRequest
    BY DEF TypeOK, UpdateRequest
  <2> QED
    BY <1>3, <2>1 DEF UpdateOrderBookRead, TypeOK
<1> QED
  BY <1>1, <1>2, <1>3 DEF ReadStep

\* Saving an entity, however stale, writes a well-typed row.
LEMMA SaveStepType == ASSUME TypeOK, SaveStep PROVE TypeOK'
<1>1. ASSUME NEW c \in confirming, ConfirmPaymentSave(c)  PROVE TypeOK'
  <2>1. c.id \in TransIds /\ c.row \in Trans
    BY DEF TypeOK, ConfirmRequest
  <2>2. [c.row EXCEPT !.status = "payment_confirmed"] \in Trans
    BY <2>1 DEF Trans, TransStatus
  <2>3. jobs' \in [JobIds -> -1..Attempts]
    <3>1. <<c.id, "payment_confirmed">> \in JobIds
      BY <2>1 DEF JobIds, Live
    <3> QED
      BY <1>1, <3>1, ScheduleType DEF ConfirmPaymentSave
  <2> QED
    BY <1>1, <2>2, <2>3 DEF ConfirmPaymentSave, TypeOK
<1>2. ASSUME NEW d \in disputing, CreateDisputeInsert(d)  PROVE TypeOK'
  <2>1. d \in DisputeRequest
    BY DEF TypeOK
  <2>2. [d EXCEPT !.inserted = TRUE] \in DisputeRequest
    BY <2>1 DEF DisputeRequest
  <2>3. disputing' \subseteq DisputeRequest
    BY <1>2, <2>2 DEF CreateDisputeInsert, TypeOK
  <2>4. disputes' \in [TransIds -> Nat]
    <3>1. disputes' = [disputes EXCEPT ![d.id] = @ + 1]
      BY <1>2 DEF CreateDisputeInsert
    <3>2. disputes \in [TransIds -> Nat] /\ d.id \in TransIds
      BY <2>1 DEF TypeOK, DisputeRequest
    <3>3. disputes[d.id] + 1 \in Nat
      BY <3>2
    <3> QED
      BY <3>1, <3>2, <3>3
  <2> QED
    BY <1>2, <2>3, <2>4 DEF CreateDisputeInsert, TypeOK
<1>3. ASSUME NEW d \in disputing, CreateDisputeMark(d)  PROVE TypeOK'
  <2>1. d.row \in Trans
    BY DEF TypeOK, DisputeRequest
  <2>2. [d.row EXCEPT !.dispute = TRUE] \in Trans
    BY <2>1 DEF Trans
  <2>3. trans' \in [TransIds -> Trans]
    BY <1>3, <2>2 DEF CreateDisputeMark, TypeOK
  <2> QED
    BY <1>3, <2>3 DEF CreateDisputeMark, TypeOK
<1>4. ASSUME NEW w \in updating, UpdateOrderBookSave(w)  PROVE TypeOK'
  <2>1. w.row \in Order /\ w.bounds \in TradeBounds
    BY DEF TypeOK, UpdateRequest
  <2>2. [w.row EXCEPT !.bounds = w.bounds] \in Order
    BY <2>1, BoundsAssumption DEF Order
  <2> QED
    BY <1>4, <2>2 DEF UpdateOrderBookSave, TypeOK
<1>5. CASE Crash
  BY <1>5 DEF Crash, TypeOK
<1> QED
  BY <1>1, <1>2, <1>3, <1>4, <1>5 DEF SaveStep

\* The new fee percents are among those the settings may take.
LEMMA ChangeFeesType == ASSUME TypeOK, ChangeFees PROVE TypeOK'
BY FeesAssumption DEF ChangeFees, TypeOK, requests

\* No interleaving of the handlers, no crash and no change of the fees makes
\* a wallet column negative or breaks a row.
THEOREM TypeCorrect == Spec => []TypeOK
<1>1. Init => TypeOK
  BY InitType
<1>2. TypeOK /\ [Next]_vars => TypeOK'
  <2>1. ASSUME TypeOK, Next  PROVE TypeOK'
    BY <2>1, LockedStepType, ReadStepType, SaveStepType, ChangeFeesType DEF Next
  <2>2. ASSUME TypeOK, UNCHANGED vars  PROVE TypeOK'
    BY <2>2 DEF vars, requests, TypeOK
  <2> QED
    BY <2>1, <2>2
<1> QED
  BY <1>1, <1>2, PTL DEF Spec

-----------------------------------------------------------------------------
(* The inductive invariant: rows in use are good, and a request in memory   *)
(* holds the row as it is.                                                  *)

\* The handlers that lock their rows leave requests in memory alone.
LEMMA LockedKeepsRequests == ASSUME LockedStep PROVE UNCHANGED requests
<1>1. ASSUME NEW u, NEW option, NEW a, NEW b, CreateOrderBook(u, option, a, b)
      PROVE  UNCHANGED requests
  BY <1>1 DEF CreateOrderBook
<1>2. ASSUME NEW o, DeleteOrderBook(o)  PROVE UNCHANGED requests
  BY <1>2 DEF DeleteOrderBook
<1>3. ASSUME NEW u, NEW o, NEW a, CreateTransaction(u, o, a)  PROVE UNCHANGED requests
  BY <1>3 DEF CreateTransaction
<1>4. ASSUME NEW u, NEW t, ConfirmReceived(u, t) \/ CancelTransaction(u, t)
      PROVE  UNCHANGED requests
  BY <1>4 DEF ConfirmReceived, CancelTransaction
<1>5. ASSUME NEW t, \/ ExpirePending(t) \/ ExpireConfirmed(t)
                    \/ ExpireConfirmedFails(t) \/ ReleaseDueBuyerLock(t)
      PROVE  UNCHANGED requests
  BY <1>5 DEF ExpirePending, ExpireConfirmed, ExpireConfirmedFails, ReleaseDueBuyerLock
<1> QED
  BY <1>1, <1>2, <1>3, <1>4, <1>5 DEF LockedStep

\* A good listing stays good when it is taken from, given back to or deleted.
LEMMA OrderStaysGood ==
  ASSUME NEW ob \in Order, GoodOrder(ob), NEW a \in Nat
  PROVE  /\ GoodOrder(Restored(ob, a))
         /\ ob.status # "none" => GoodOrder(Taken(ob, a))
         /\ ob.status # "none" => GoodOrder([ob EXCEPT !.status = "failed"])
<1>1. Restored(ob, a).owner = ob.owner
      /\ (Restored(ob, a).status # "none" => ob.status # "none")
  BY DEF Restored, Order
<1>2. Taken(ob, a).owner = ob.owner
  BY DEF Taken, Order
<1> QED
  BY <1>1, <1>2 DEF GoodOrder, Order

\* So does a good transaction whose parties, listing and amount are kept.
LEMMA TransStaysGood ==
  ASSUME NEW r \in Trans, NEW s \in Trans, GoodTrans(r), r.status # "none",
         Terms(s) = Terms(r), s.order = r.order
  PROVE  GoodTrans(s)
<1>1. s.buyer = r.buyer /\ s.seller = r.seller /\ s.amount = r.amount
  BY DEF Terms
<1> QED
  BY <1>1 DEF GoodTrans

\* One step that rewrites at most one listing and one transaction.
LEMMA RowsStayGood ==
  ASSUME TypeOK, TypeOK', GoodRows,
         NEW o, NEW ob, NEW t, NEW r,
         orders' = orders \/ (orders' = [orders EXCEPT ![o] = ob] /\ GoodOrder(ob)),
         trans' = trans \/ (trans' = [trans EXCEPT ![t] = r] /\ GoodTrans(r))
  PROVE  GoodRows'
<1>1. \A p \in OrderIds : GoodOrder(orders'[p])
  BY DEF TypeOK, GoodRows
<1>2. \A s \in TransIds : GoodTrans(trans'[s])
  BY DEF TypeOK, GoodRows
<1> QED
  BY <1>1, <1>2 DEF GoodRows, GoodOrder, GoodTrans

-----------------------------------------------------------------------------
(* What a step looks like from the promise.                                *)

PromiseStep == [Promise!Next]_(Promise!promiseVars)

\* Moving coins between the columns of one wallet is no change of wealth.
LEMMA MoveKeepsWealth ==
  ASSUME TypeOK, NEW u, NEW h \in Nat,
         \/ /\ balance' = [balance EXCEPT ![u] = @ - h]
            /\ lock' = [lock EXCEPT ![u] = @ + h]
         \/ /\ balance' = [balance EXCEPT ![u] = @ + h]
            /\ lock' = [lock EXCEPT ![u] = @ - h]
  PROVE  Wealth' = Wealth
<1>1. ASSUME NEW v \in Users  PROVE balance'[v] + lock'[v] = balance[v] + lock[v]
  <2>1. balance[v] \in Nat /\ lock[v] \in Nat
    BY DEF TypeOK
  <2>2. CASE u = v
    BY <2>1, <2>2 DEF TypeOK
  <2>3. CASE u # v
    BY <2>1, <2>3 DEF TypeOK
  <2> QED
    BY <2>2, <2>3
<1> QED
  BY <1>1 DEF Wealth

\* A step that rewrites one transaction moves that deal only.
LEMMA DealMoves ==
  ASSUME TypeOK, NEW t \in TransIds, NEW r, trans' = [trans EXCEPT ![t] = r]
  PROVE  /\ DealStage' = [DealStage EXCEPT ![t] = Stage(r.status)]
         /\ DealTerms' = [DealTerms EXCEPT ![t] = Terms(r)]
BY DEF TypeOK, DealStage, DealTerms

\* A step that keeps every stage, the terms and the wealth stutters.
LEMMA Stutter ==
  ASSUME DealStage' = DealStage, DealTerms' = DealTerms, Wealth' = Wealth
  PROVE  PromiseStep
BY DEF PromiseStep, Promise!promiseVars

\* In particular a step that does not touch the transactions stutters when it
\* keeps the wealth.
LEMMA TransKeptStutters ==
  ASSUME trans' = trans, Wealth' = Wealth
  PROVE  PromiseStep
<1>1. DealStage' = DealStage /\ DealTerms' = DealTerms
  BY DEF DealStage, DealTerms
<1> QED
  BY <1>1, Stutter

\* Listing coins moves them inside the owner's wallet: the promise stutters.
LEMMA CreateOrderBookStep ==
  ASSUME TypeOK, TypeOK', GoodRows, NEW u \in Users, NEW option \in {"buy", "sell"},
         NEW a \in Amounts, NEW b \in TradeBounds, CreateOrderBook(u, option, a, b)
  PROVE  GoodRows' /\ PromiseStep
<1> DEFINE held == IF option = "sell" THEN LockAmount(a, fees) ELSE 0
           ob == [owner |-> u, option |-> option, amount |-> a, remaining |-> a,
                  bounds |-> b, status |-> "pending"]
<1>1. PICK o \in OrderIds : orders' = [orders EXCEPT ![o] = ob]
  BY DEF CreateOrderBook
<1>2. GoodOrder(ob) /\ trans' = trans
  BY DEF GoodOrder, CreateOrderBook
<1>3. GoodRows'
  <2> HIDE DEF ob
  <2> QED  BY <1>1, <1>2, RowsStayGood
<1>4. held \in Nat
  BY AmountsAssumption, LockAmountNat DEF TypeOK
<1>5. /\ balance' = [balance EXCEPT ![u] = @ - held]
      /\ lock' = [lock EXCEPT ![u] = @ + held]
  BY DEF CreateOrderBook
<1>6. Wealth' = Wealth
  <2> HIDE DEF held
  <2> QED  BY <1>4, <1>5, MoveKeepsWealth
<1> QED
  BY <1>2, <1>3, <1>6, TransKeptStutters

\* So does taking a listing down.
LEMMA DeleteOrderBookStep ==
  ASSUME TypeOK, TypeOK', GoodRows, NEW o \in OrderIds, DeleteOrderBook(o)
  PROVE  GoodRows' /\ PromiseStep
<1> DEFINE ob == orders[o]
           held == IF ob.option = "sell" THEN LockAmount(ob.remaining, fees) ELSE 0
<1>1. /\ ob \in Order /\ ob.remaining \in Nat /\ GoodOrder(ob)
  BY DEF TypeOK, Order, GoodRows
<1>2. GoodOrder([ob EXCEPT !.status = "failed"])
  <2>1. ob.status # "none"
    BY DEF DeleteOrderBook
  <2> QED
    BY <1>1, <2>1, OrderStaysGood
<1>3. orders' = [orders EXCEPT ![o] = [ob EXCEPT !.status = "failed"]] /\ trans' = trans
  BY DEF DeleteOrderBook
<1>4. GoodRows'
  BY <1>2, <1>3, RowsStayGood
<1>5. held \in Nat
  BY <1>1, LockAmountNat DEF TypeOK
<1>6. /\ lock' = [lock EXCEPT ![ob.owner] = @ - held]
      /\ balance' = [balance EXCEPT ![ob.owner] = @ + held]
  BY DEF DeleteOrderBook
<1>7. Wealth' = Wealth
  <2> HIDE DEF held, ob
  <2> QED  BY <1>5, <1>6, MoveKeepsWealth
<1> QED
  BY <1>3, <1>4, <1>7, TransKeptStutters

\* Taking a part of a listing is the promise's Open.
LEMMA CreateTransactionStep ==
  ASSUME TypeOK, TypeOK', GoodRows, NEW u \in Users, NEW o \in OrderIds,
         NEW a \in TradeAmounts, CreateTransaction(u, o, a)
  PROVE  GoodRows' /\ PromiseStep
<1> DEFINE ob == orders[o]
           held == IF ob.option = "buy" THEN a ELSE 0
           new == [NoTrans EXCEPT !.buyer = IF ob.option = "sell" THEN u ELSE ob.owner,
                                  !.seller = IF ob.option = "sell" THEN ob.owner ELSE u,
                                  !.order = o, !.amount = a, !.status = "pending"]
<1>1. PICK t \in TransIds :
        /\ NextTrans(t)
        /\ ob.status = "pending" /\ ob.owner # u
        /\ balance' = [balance EXCEPT ![u] = @ - held]
        /\ lock' = [lock EXCEPT ![u] = @ + held]
        /\ orders' = [orders EXCEPT ![o] = Taken(ob, a)]
        /\ trans' = [trans EXCEPT ![t] = new]
  BY DEF CreateTransaction
<1>2. ob \in Order /\ GoodOrder(ob) /\ a \in Nat \ {0} /\ held \in Nat
  BY AmountsAssumption DEF TypeOK, GoodRows
<1>3. ob.owner \in Users
  BY <1>1, <1>2 DEF GoodOrder
<1>4. /\ new.buyer \in Users /\ new.seller \in Users /\ new.buyer # new.seller
      /\ new.order = o /\ new.amount = a /\ new.status = "pending"
  BY <1>1, <1>3 DEF NoTrans
<1> HIDE DEF new, held
<1>5. GoodTrans(new) /\ GoodOrder(Taken(ob, a))
  <2>1. GoodTrans(new)
    BY <1>2, <1>4 DEF GoodTrans
  <2>2. ob.status # "none" /\ a \in Nat
    BY <1>1, <1>2
  <2>3. GoodOrder(Taken(ob, a))
    <3> HIDE DEF ob
    <3> QED  BY <1>2, <2>2, OrderStaysGood
  <2> QED
    BY <2>1, <2>3
<1>6. GoodRows'
  BY <1>1, <1>5, RowsStayGood
<1>7. Wealth' = Wealth
  BY <1>1, <1>2, MoveKeepsWealth
<1>8. /\ DealStage' = [DealStage EXCEPT ![t] = "open"]
      /\ DealTerms' = [DealTerms EXCEPT ![t] = Terms(new)]
  BY <1>1, <1>4, DealMoves DEF Stage
<1>9. DealStage[t] = "none"
  BY <1>1 DEF NextTrans, DealStage, Stage
<1>10. DealTerms'[t] = Terms(new) /\ \A s \in TransIds \ {t} : DealTerms'[s] = DealTerms[s]
  BY <1>8 DEF DealTerms
<1>11. Promise!Open(t)
  BY <1>2, <1>4, <1>7, <1>8, <1>9, <1>10 DEF Promise!Open, Terms
<1> QED
  BY <1>6, <1>11 DEF PromiseStep, Promise!Next

\* Settling is the promise's Settle: the parties' wealth moves by the amount
\* and one side's fees, nobody else's moves.
LEMMA SettleStep ==
  ASSUME TypeOK, GoodRows, NEW t \in TransIds, Settle(t, fees)
  PROVE  /\ Promise!Settle(t)
         /\ \E r \in Trans : trans' = [trans EXCEPT ![t] = r] /\ GoodTrans(r)
<1> DEFINE r == trans[t]
           D == Debit(r, fees)
           C == Credit(r, fees)
           new == [r EXCEPT !.status = "executed", !.unlockAt = IsSell(r), !.released = ~IsSell(r)]
<1>1. r \in Trans /\ GoodTrans(r) /\ fees \in [transaction : Nat, smartref : Nat]
  BY DEF TypeOK, GoodRows
<1>2. CanSettle(r, fees)
  BY DEF Settle
<1>3. r.status = "payment_confirmed" /\ (IsSell(r) \/ C > 0) /\ lock[r.seller] >= D
  BY <1>2 DEF CanSettle
<1>4. r.buyer \in Users /\ r.seller \in Users /\ r.buyer # r.seller /\ r.amount \in Nat \ {0}
  BY <1>1, <1>3 DEF GoodTrans, Trans
<1>5. /\ D \in Nat /\ D >= r.amount /\ (~IsSell(r) => D = r.amount)
      /\ C \in Int /\ C <= r.amount /\ (IsSell(r) => C = r.amount)
  BY <1>1, SettlementAmounts
<1>6. new \in Trans /\ new.status = "executed" /\ Terms(new) = Terms(r) /\ new.order = r.order
  <2>1. IsSell(r) \in BOOLEAN
    BY DEF IsSell
  <2> QED
    BY <1>1, <2>1 DEF Trans, TransStatus, Terms
<1>7. trans' = [trans EXCEPT ![t] = new]
  BY DEF Settle
<1>8. GoodTrans(new)
  <2> HIDE DEF new
  <2> QED  BY <1>1, <1>3, <1>6, TransStaysGood
<1>9. /\ \A u \in Users \ {r.buyer, r.seller} : Wealth'[u] = Wealth[u]
      /\ Wealth'[r.seller] = Wealth[r.seller] - D
      /\ Wealth'[r.buyer] = Wealth[r.buyer] + C
  <2> HIDE DEF D, C
  <2>1. balance \in [Users -> Nat] /\ lock \in [Users -> Nat]
    BY DEF TypeOK
  <2>2. CASE IsSell(r)
    <3>1. /\ lock' = [[lock EXCEPT ![r.seller] = @ - D] EXCEPT ![r.buyer] = @ + C]
          /\ balance' = balance
      BY <2>2 DEF Settle, D, C
    <3> HIDE DEF r
    <3> QED  BY <1>4, <1>5, <2>1, <3>1 DEF Wealth
  <2>3. CASE ~IsSell(r)
    <3>1. /\ lock' = [lock EXCEPT ![r.seller] = @ - D]
          /\ balance' = [balance EXCEPT ![r.buyer] = @ + C]
      BY <2>3 DEF Settle, D, C
    <3> HIDE DEF r
    <3> QED  BY <1>4, <1>5, <2>1, <3>1 DEF Wealth
  <2> QED
    BY <2>2, <2>3
<1>10. /\ DealStage' = [DealStage EXCEPT ![t] = "done"] /\ DealStage[t] = "paid"
       /\ DealTerms' = DealTerms /\ DealTerms[t] = Terms(r)
  <2>1. DealStage' = [DealStage EXCEPT ![t] = Stage("executed")]
        /\ DealTerms' = [DealTerms EXCEPT ![t] = Terms(r)]
    <3> HIDE DEF new
    <3>1. /\ DealStage' = [DealStage EXCEPT ![t] = Stage(new.status)]
          /\ DealTerms' = [DealTerms EXCEPT ![t] = Terms(new)]
      BY <1>7, DealMoves
    <3> QED
      BY <1>6, <3>1
  <2>2. Stage("executed") = "done" /\ Stage("payment_confirmed") = "paid"
    BY DEF Stage
  <2> QED
    BY <1>3, <2>1, <2>2 DEF DealStage, DealTerms
<1>11. Promise!Settle(t)
  <2> DEFINE given == Wealth[r.seller] - Wealth'[r.seller]
             received == Wealth'[r.buyer] - Wealth[r.buyer]
  <2>1. Wealth[r.seller] \in Int /\ Wealth[r.buyer] \in Int
    BY <1>4 DEF Wealth, TypeOK
  <2>2. given = D /\ received = C
    <3> HIDE DEF D, C, r
    <3> QED  BY <1>5, <1>9, <2>1
  <2>3. \/ given >= r.amount /\ received = r.amount
        \/ given = r.amount /\ received \in 1..r.amount
    <3> HIDE DEF D, C, given, received
    <3> QED  BY <1>3, <1>4, <1>5, <2>2
  <2>4. Terms(r).buyer = r.buyer /\ Terms(r).seller = r.seller /\ Terms(r).amount = r.amount
    BY DEF Terms
  <2> HIDE DEF r
  <2> QED  BY <1>9, <1>10, <2>3, <2>4 DEF Promise!Settle
<1> QED
  BY <1>6, <1>7, <1>8, <1>11

\* Confirming receipt is Settle.
LEMMA ConfirmReceivedStep ==
  ASSUME TypeOK, TypeOK', GoodRows, NEW u \in Users, NEW t \in TransIds, ConfirmReceived(u, t)
  PROVE  GoodRows' /\ PromiseStep
<1>1. Settle(t, fees) /\ orders' = orders
  BY DEF ConfirmReceived
<1>2. PICK r \in Trans : trans' = [trans EXCEPT ![t] = r] /\ GoodTrans(r)
  BY <1>1, SettleStep
<1>3. GoodRows'
  BY <1>1, <1>2, RowsStayGood
<1> QED
  BY <1>1, <1>3, SettleStep DEF PromiseStep, Promise!Next

\* Calling a pending transaction off, in whichever way, is CallOff.
LEMMA CallOffStep ==
  ASSUME TypeOK, TypeOK', GoodRows, NEW t \in TransIds, NEW s \in {"cancelled", "failed"},
         NEW h \in Nat, trans[t].status = "pending",
         trans' = [trans EXCEPT ![t].status = s],
         orders' = [orders EXCEPT ![trans[t].order] = Restored(@, trans[t].amount)],
         balance' = [balance EXCEPT ![trans[t].seller] = @ + h],
         lock' = [lock EXCEPT ![trans[t].seller] = @ - h]
  PROVE  GoodRows' /\ PromiseStep
<1> DEFINE r == trans[t]
           new == [r EXCEPT !.status = s]
<1>1. r \in Trans /\ GoodTrans(r) /\ r.amount \in Nat
  BY DEF TypeOK, GoodRows, Trans
<1>2. r.order \in OrderIds
  BY <1>1 DEF GoodTrans
<1>3. new \in Trans /\ new.status = s /\ Terms(new) = Terms(r) /\ new.order = r.order
  BY <1>1 DEF Trans, TransStatus, Terms
<1>4. trans' = [trans EXCEPT ![t] = new]
  OBVIOUS
<1>5. GoodTrans(new)
  <2>1. r.status # "none"
    OBVIOUS
  <2> HIDE DEF new, r
  <2> QED  BY <1>1, <1>3, <2>1, TransStaysGood
<1>6. GoodOrder(Restored(orders[r.order], r.amount))
  <2>1. orders[r.order] \in Order /\ GoodOrder(orders[r.order])
    BY <1>2 DEF TypeOK, GoodRows
  <2> HIDE DEF r
  <2> QED  BY <1>1, <2>1, OrderStaysGood
<1>7. GoodRows'
  <2> HIDE DEF new
  <2> QED  BY <1>4, <1>5, <1>6, RowsStayGood
<1>8. Wealth' = Wealth
  BY MoveKeepsWealth
<1>9. /\ DealStage' = [DealStage EXCEPT ![t] = "off"] /\ DealStage[t] = "open"
      /\ DealTerms' = DealTerms
  <2>1. DealStage' = [DealStage EXCEPT ![t] = Stage(s)]
        /\ DealTerms' = [DealTerms EXCEPT ![t] = Terms(r)]
    <3> HIDE DEF new
    <3>1. /\ DealStage' = [DealStage EXCEPT ![t] = Stage(new.status)]
          /\ DealTerms' = [DealTerms EXCEPT ![t] = Terms(new)]
      BY <1>4, DealMoves
    <3> QED
      BY <1>3, <3>1
  <2>2. Stage(s) = "off" /\ Stage("pending") = "open"
    BY DEF Stage
  <2> QED
    BY <2>1, <2>2 DEF DealStage, DealTerms
<1>10. Promise!CallOff(t)
  BY <1>8, <1>9 DEF Promise!CallOff
<1> QED
  BY <1>7, <1>10 DEF PromiseStep, Promise!Next

\* cancelTransaction calls the deal off.
LEMMA CancelTransactionStep ==
  ASSUME TypeOK, TypeOK', GoodRows, NEW u \in Users, NEW t \in TransIds,
         CancelTransaction(u, t)
  PROVE  GoodRows' /\ PromiseStep
<1> DEFINE held == IF IsSell(trans[t]) THEN 0 ELSE trans[t].amount
<1>1. held \in Nat
  BY DEF TypeOK, Trans
<1> QED
  BY <1>1, CallOffStep DEF CancelTransaction

\* So does the expiry of a pending transaction; a job that comes too late
\* stutters.
LEMMA ExpirePendingStep ==
  ASSUME TypeOK, TypeOK', GoodRows, NEW t \in TransIds, ExpirePending(t)
  PROVE  GoodRows' /\ PromiseStep
<1> DEFINE r == trans[t]
           held == IF IsSell(r) \/ lock[r.seller] < r.amount THEN 0 ELSE r.amount
<1>1. held \in Nat
  BY DEF TypeOK, Trans
<1>2. CASE Expirable(r)
  BY <1>1, <1>2, CallOffStep DEF ExpirePending, Expirable
<1>3. CASE ~Expirable(r)
  <2>1. UNCHANGED <<orders, lock, balance, trans>>
    BY <1>3 DEF ExpirePending
  <2>2. Wealth' = Wealth
    BY <2>1 DEF Wealth
  <2> QED
    BY <2>1, <2>2, TransKeptStutters DEF GoodRows, GoodOrder, GoodTrans
<1> QED
  BY <1>2, <1>3

\* The expiry of a paid transaction settles it or stutters.
LEMMA ExpireConfirmedStep ==
  ASSUME TypeOK, TypeOK', GoodRows, NEW t \in TransIds,
         ExpireConfirmed(t) \/ ExpireConfirmedFails(t)
  PROVE  GoodRows' /\ PromiseStep
<1>1. orders' = orders
  BY DEF ExpireConfirmed, ExpireConfirmedFails
<1>2. CASE Settle(t, fees)
  <2>1. PICK r \in Trans : trans' = [trans EXCEPT ![t] = r] /\ GoodTrans(r)
    BY <1>2, SettleStep
  <2>2. GoodRows'
    BY <1>1, <2>1, RowsStayGood
  <2> QED
    BY <1>2, <2>2, SettleStep DEF PromiseStep, Promise!Next
<1>3. CASE UNCHANGED <<trans, balance, lock>>
  <2>1. Wealth' = Wealth
    BY <1>3 DEF Wealth
  <2> QED
    BY <1>1, <1>3, <2>1, TransKeptStutters DEF GoodRows, GoodOrder, GoodTrans
<1> QED
  BY <1>2, <1>3 DEF ExpireConfirmed, ExpireConfirmedFails

\* A step that keeps the status and the terms of a transaction in use.
LEMMA FlagStep ==
  ASSUME TypeOK, TypeOK', GoodRows, NEW t \in TransIds, NEW r \in Trans,
         trans[t].status # "none", Terms(r) = Terms(trans[t]), r.order = trans[t].order,
         r.status = trans[t].status, trans' = [trans EXCEPT ![t] = r],
         orders' = orders, Wealth' = Wealth
  PROVE  GoodRows' /\ PromiseStep
<1>1. trans[t] \in Trans /\ GoodTrans(trans[t])
  BY DEF TypeOK, GoodRows
<1>2. GoodTrans(r)
  BY <1>1, TransStaysGood
<1>3. GoodRows'
  BY <1>2, RowsStayGood
<1>4. /\ DealStage' = [DealStage EXCEPT ![t] = Stage(trans[t].status)]
      /\ DealTerms' = [DealTerms EXCEPT ![t] = Terms(trans[t])]
  <2>1. /\ DealStage' = [DealStage EXCEPT ![t] = Stage(r.status)]
        /\ DealTerms' = [DealTerms EXCEPT ![t] = Terms(r)]
    BY DealMoves
  <2> QED
    BY <2>1
<1>5. DealStage' = DealStage /\ DealTerms' = DealTerms
  BY <1>4 DEF DealStage, DealTerms
<1> QED
  BY <1>3, <1>5, Stutter

\* Releasing bought coins moves them inside the buyer's wallet.
LEMMA ReleaseDueBuyerLockStep ==
  ASSUME TypeOK, TypeOK', GoodRows, NEW t \in TransIds, ReleaseDueBuyerLock(t)
  PROVE  GoodRows' /\ PromiseStep
<1> DEFINE r == trans[t]
           new == [r EXCEPT !.released = TRUE]
<1>1. r \in Trans /\ r.amount \in Nat /\ r.status = "executed"
  BY DEF TypeOK, Trans, ReleaseDueBuyerLock, Due
<1>2. /\ lock' = [lock EXCEPT ![r.buyer] = @ - r.amount]
      /\ balance' = [balance EXCEPT ![r.buyer] = @ + r.amount]
      /\ trans' = [trans EXCEPT ![t] = new] /\ orders' = orders
  BY DEF ReleaseDueBuyerLock
<1>3. Wealth' = Wealth
  <2> HIDE DEF r
  <2> QED  BY <1>1, <1>2, MoveKeepsWealth
<1>4. new \in Trans /\ Terms(new) = Terms(r) /\ new.order = r.order /\ new.status = r.status
  BY <1>1 DEF Trans, Terms
<1> HIDE DEF new
<1> QED
  BY <1>1, <1>2, <1>3, <1>4, FlagStep

\* Every handler that locks its rows keeps them good and keeps the promise.
LEMMA LockedStepStep ==
  ASSUME TypeOK, TypeOK', GoodRows, LockedStep
  PROVE  GoodRows' /\ PromiseStep
<1>1. CASE \E u \in Users, option \in {"buy", "sell"}, a \in Amounts, b \in TradeBounds :
             CreateOrderBook(u, option, a, b)
  BY <1>1, CreateOrderBookStep
<1>2. CASE \E o \in OrderIds : DeleteOrderBook(o)
  BY <1>2, DeleteOrderBookStep
<1>3. CASE \E u \in Users, o \in OrderIds, a \in TradeAmounts : CreateTransaction(u, o, a)
  BY <1>3, CreateTransactionStep
<1>4. CASE \E u \in Users, t \in TransIds : ConfirmReceived(u, t) \/ CancelTransaction(u, t)
  BY <1>4, ConfirmReceivedStep, CancelTransactionStep
<1>5. CASE \E t \in TransIds : \/ ExpirePending(t) \/ ExpireConfirmed(t)
                               \/ ExpireConfirmedFails(t) \/ ReleaseDueBuyerLock(t)
  BY <1>5, ExpirePendingStep, ExpireConfirmedStep, ReleaseDueBuyerLockStep
<1> QED
  BY <1>1, <1>2, <1>3, <1>4, <1>5 DEF LockedStep

\* Saving a fresh entity: confirming a payment is Pay, the rest stutters.
LEMMA SaveStepStep ==
  ASSUME TypeOK, TypeOK', GoodRows, Fresh, SaveStep
  PROVE  GoodRows' /\ PromiseStep
<1>1. ASSUME NEW c \in confirming, ConfirmPaymentSave(c)  PROVE GoodRows' /\ PromiseStep
  <2> DEFINE t == c.id
             r == trans[t]
             new == [r EXCEPT !.status = "payment_confirmed"]
  <2>1. t \in TransIds /\ r \in Trans /\ GoodTrans(r) /\ r.status = "pending"
    BY DEF TypeOK, ConfirmRequest, Fresh, GoodRows
  <2>2. trans' = [trans EXCEPT ![t] = new] /\ UNCHANGED <<orders, balance, lock>>
    BY <1>1 DEF ConfirmPaymentSave, Fresh
  <2>3. /\ new \in Trans /\ new.status = "payment_confirmed"
        /\ Terms(new) = Terms(r) /\ new.order = r.order
    BY <2>1 DEF Trans, TransStatus, Terms
  <2> HIDE DEF new
  <2>4. GoodTrans(new)
    <3>1. r.status # "none"
      BY <2>1
    <3> HIDE DEF r
    <3> QED  BY <2>1, <2>3, <3>1, TransStaysGood
  <2>5. GoodRows'
    BY <2>2, <2>4, RowsStayGood
  <2>6. Wealth' = Wealth
    BY <2>2 DEF Wealth
  <2>7. /\ DealStage' = [DealStage EXCEPT ![t] = Stage(new.status)]
        /\ DealTerms' = [DealTerms EXCEPT ![t] = Terms(new)]
    BY <2>1, <2>2, DealMoves
  <2>8. Stage("payment_confirmed") = "paid" /\ Stage("pending") = "open"
    BY DEF Stage
  <2>9. /\ DealStage' = [DealStage EXCEPT ![t] = "paid"] /\ DealStage[t] = "open"
        /\ DealTerms' = DealTerms
    BY <2>1, <2>3, <2>7, <2>8 DEF DealStage, DealTerms
  <2>10. Promise!Pay(t)
    BY <2>6, <2>9 DEF Promise!Pay
  <2> QED
    BY <2>1, <2>5, <2>10 DEF PromiseStep, Promise!Next
<1>2. ASSUME UNCHANGED <<orders, trans, balance, lock>>  PROVE GoodRows' /\ PromiseStep
  <2>1. Wealth' = Wealth
    BY <1>2 DEF Wealth
  <2> QED
    BY <1>2, <2>1, TransKeptStutters DEF GoodRows, GoodOrder, GoodTrans
<1>3. ASSUME NEW d \in disputing, CreateDisputeMark(d)  PROVE GoodRows' /\ PromiseStep
  <2>1. CASE d.row.dispute
    BY <1>2, <1>3, <2>1 DEF CreateDisputeMark
  <2>2. CASE ~d.row.dispute
    <3> DEFINE t == d.id
               r == trans[t]
               new == [r EXCEPT !.dispute = TRUE]
    <3>1. t \in TransIds /\ r \in Trans /\ r.status # "none"
      BY DEF TypeOK, DisputeRequest, Fresh
    <3>2. trans' = [trans EXCEPT ![t] = new] /\ UNCHANGED <<orders, balance, lock>>
      BY <1>3, <2>2 DEF CreateDisputeMark, Fresh
    <3>3. new \in Trans /\ new.status = r.status /\ Terms(new) = Terms(r) /\ new.order = r.order
      BY <3>1 DEF Trans, Terms
    <3>4. Wealth' = Wealth
      BY <3>2 DEF Wealth
    <3> HIDE DEF new
    <3> QED
      BY <3>1, <3>2, <3>3, <3>4, FlagStep
  <2> QED
    BY <2>1, <2>2
<1>4. ASSUME NEW w \in updating, UpdateOrderBookSave(w)  PROVE GoodRows' /\ PromiseStep
  <2> DEFINE new == [orders[w.id] EXCEPT !.bounds = w.bounds]
  <2>1. w.id \in OrderIds /\ orders[w.id] \in Order /\ GoodOrder(orders[w.id])
    BY DEF TypeOK, UpdateRequest, GoodRows
  <2>2. orders' = [orders EXCEPT ![w.id] = new] /\ UNCHANGED <<trans, balance, lock>>
    BY <1>4 DEF UpdateOrderBookSave, Fresh
  <2>3. GoodOrder(new)
    BY <2>1 DEF GoodOrder, Order
  <2>4. GoodRows'
    <3> HIDE DEF new
    <3> QED  BY <2>2, <2>3, RowsStayGood
  <2>5. Wealth' = Wealth
    BY <2>2 DEF Wealth
  <2> QED
    BY <2>2, <2>4, <2>5, TransKeptStutters
<1> QED
  BY <1>1, <1>2, <1>3, <1>4 DEF SaveStep, CreateDisputeInsert, Crash

-----------------------------------------------------------------------------
(* Requests.                                                               *)

\* A read that begins when no request is in flight holds a fresh entity.
LEMMA ReadStepRequests ==
  ASSUME TypeOK, Idle, ReadStep
  PROVE  OneRequest' /\ Fresh'
<1>1. ASSUME NEW t \in TransIds, ConfirmPaymentRead(t)  PROVE OneRequest' /\ Fresh'
  BY <1>1 DEF ConfirmPaymentRead, Idle, OneRequest, Fresh
<1>2. ASSUME NEW u \in Users, NEW t \in TransIds, CreateDisputeCheck(u, t)
      PROVE  OneRequest' /\ Fresh'
  BY <1>2 DEF CreateDisputeCheck, Idle, OneRequest, Fresh
<1>3. ASSUME NEW o \in OrderIds, NEW b \in TradeBounds, UpdateOrderBookRead(o, b)
      PROVE  OneRequest' /\ Fresh'
  BY <1>3 DEF UpdateOrderBookRead, Idle, OneRequest, Fresh
<1> QED
  BY <1>1, <1>2, <1>3 DEF ReadStep

\* The request that ends was the only one, and what it leaves behind is fresh.
LEMMA SaveStepRequests ==
  ASSUME TypeOK, OneRequest, Fresh, SaveStep
  PROVE  OneRequest' /\ Fresh'
<1>1. ASSUME NEW c \in confirming, ConfirmPaymentSave(c)  PROVE OneRequest' /\ Fresh'
  BY <1>1 DEF ConfirmPaymentSave, OneRequest, Fresh
<1>2. ASSUME NEW d \in disputing, CreateDisputeInsert(d)  PROVE OneRequest' /\ Fresh'
  <2>1. d \in DisputeRequest
    BY DEF TypeOK
  <2>2. [d EXCEPT !.inserted = TRUE].row = d.row /\ [d EXCEPT !.inserted = TRUE].id = d.id
    BY <2>1 DEF DisputeRequest
  <2> QED
    <3> DEFINE e == [d EXCEPT !.inserted = TRUE]
    <3>1. /\ disputing' = (disputing \ {d}) \cup {e}
          /\ UNCHANGED <<trans, orders, confirming, updating>>
      BY <1>2 DEF CreateDisputeInsert
    <3>2. e.row = d.row /\ e.id = d.id
      BY <2>2
    <3> HIDE DEF e
    <3>3. OneRequest'
      BY <3>1 DEF OneRequest
    <3>4. Fresh'
      BY <3>1, <3>2 DEF Fresh
    <3> QED  BY <3>3, <3>4
<1>3. ASSUME NEW d \in disputing, CreateDisputeMark(d)  PROVE OneRequest' /\ Fresh'
  BY <1>3 DEF CreateDisputeMark, OneRequest, Fresh
<1>4. ASSUME NEW w \in updating, UpdateOrderBookSave(w)  PROVE OneRequest' /\ Fresh'
  BY <1>4 DEF UpdateOrderBookSave, OneRequest, Fresh
<1>5. CASE Crash
  BY <1>5 DEF Crash, OneRequest, Fresh
<1> QED
  BY <1>1, <1>2, <1>3, <1>4, <1>5 DEF SaveStep

\* The empty database satisfies the invariant.
LEMMA SerialInvInit == Init => SerialInv
<1> SUFFICES ASSUME Init PROVE SerialInv
  OBVIOUS
<1>1. TypeOK
  BY InitType
<1>2. GoodRows
  BY DEF Init, GoodRows, GoodOrder, GoodTrans, NoOrder, NoTrans
<1> QED
  BY <1>1, <1>2 DEF Init, SerialInv, OneRequest, Fresh

\* One step of SerialSpec keeps the invariant and is a step of the promise.
LEMMA SerialStep ==
  ASSUME SerialInv, SerialNext
  PROVE  SerialInv' /\ PromiseStep
<1>1. TypeOK /\ GoodRows /\ OneRequest /\ Fresh
  BY DEF SerialInv
<1>2. CASE Idle /\ LockedStep
  <2>1. TypeOK'
    BY <1>1, <1>2, LockedStepType
  <2>2. OneRequest' /\ Fresh'
    BY <1>2, LockedKeepsRequests DEF Idle, requests, OneRequest, Fresh
  <2> QED
    BY <1>1, <1>2, <2>1, <2>2, LockedStepStep DEF SerialInv
<1>3. CASE Idle /\ ReadStep
  <2>1. TypeOK'
    BY <1>1, <1>3, ReadStepType
  <2>2. UNCHANGED <<orders, trans, balance, lock>>
    BY <1>3 DEF ReadStep, ConfirmPaymentRead, CreateDisputeCheck, UpdateOrderBookRead
  <2>3. GoodRows' /\ Wealth' = Wealth
    BY <1>1, <2>2 DEF GoodRows, GoodOrder, GoodTrans, Wealth
  <2> QED
    BY <1>1, <1>3, <2>1, <2>2, <2>3, ReadStepRequests, TransKeptStutters DEF SerialInv
<1>4. CASE SaveStep
  <2>1. TypeOK'
    BY <1>1, <1>4, SaveStepType
  <2> QED
    BY <1>1, <1>4, <2>1, SaveStepStep, SaveStepRequests DEF SerialInv
<1>5. CASE ChangeFees
  <2>1. TypeOK'
    BY <1>1, <1>5, ChangeFeesType
  <2>2. UNCHANGED <<orders, trans, balance, lock, requests>>
    BY <1>5 DEF ChangeFees
  <2>3. GoodRows' /\ OneRequest' /\ Fresh' /\ Wealth' = Wealth
    BY <1>1, <2>2 DEF GoodRows, GoodOrder, GoodTrans, OneRequest, Fresh, Wealth, requests
  <2> QED
    BY <1>1, <2>1, <2>2, <2>3, TransKeptStutters DEF SerialInv
<1> QED
  BY <1>2, <1>3, <1>4, <1>5 DEF SerialNext

\* A step that changes nothing keeps it.
LEMMA SerialStutter ==
  ASSUME SerialInv, UNCHANGED vars
  PROVE  SerialInv' /\ PromiseStep
<1>1. SerialInv'
  BY DEF SerialInv, TypeOK, GoodRows, GoodOrder, GoodTrans, OneRequest, Fresh, vars, requests
<1>2. trans' = trans /\ Wealth' = Wealth
  BY DEF vars, Wealth
<1> QED
  BY <1>1, <1>2, TransKeptStutters

-----------------------------------------------------------------------------
\* While nothing runs between an unlocked read and its save, rows name real
\* and different parties and no entity in memory is stale.
THEOREM SerialInvariant == SerialSpec => []SerialInv
<1>1. SerialInv /\ [SerialNext]_vars => SerialInv'
  BY SerialStep, SerialStutter
<1> QED
  BY <1>1, SerialInvInit, PTL DEF SerialSpec

\* The handlers implement the promise of the escrow: coins change hands only
\* when a deal that was opened and paid for settles, once, at the cost of its
\* two parties only.
THEOREM PromiseKept == SerialSpec => KeepsPromise
<1>1. ASSUME Init  PROVE Promise!Init
  <2>1. DealStage = [t \in TransIds |-> "none"]
    BY <1>1 DEF Init, DealStage, Stage, NoTrans
  <2>2. DealTerms \in [TransIds -> [buyer : {0}, seller : {0}, amount : {0}]]
    BY <1>1 DEF Init, DealTerms, Terms, NoTrans
  <2>3. Wealth = [u \in Users |-> InitBalance]
    BY <1>1, CountsAssumption DEF Init, Wealth
  <2> QED
    BY <2>1, <2>2, <2>3 DEF Promise!Init
<1>2. SerialInv /\ [SerialNext]_vars => PromiseStep
  BY SerialStep, SerialStutter
<1> QED
  BY <1>1, <1>2, SerialInvariant, PTL DEF SerialSpec, KeepsPromise, Promise!Spec, PromiseStep

-----------------------------------------------------------------------------
\* A request that has yet to insert its dispute has found none open.
DisputeInv ==
  /\ OneOpenDispute
  /\ \A d \in disputing : ~d.inserted => disputes[d.id] = 0

LEMMA DisputeStep ==
  ASSUME SerialInv, DisputeInv, [SerialNext]_vars
  PROVE  DisputeInv'
<1>1. disputes \in [TransIds -> Nat] /\ disputing \subseteq DisputeRequest /\ \A c, d \in disputing : c = d
  BY DEF SerialInv, TypeOK, OneRequest
<1>2. ASSUME UNCHANGED <<disputes, disputing>> PROVE DisputeInv'
  BY <1>2 DEF DisputeInv, OneOpenDispute
<1>3. CASE LockedStep
  <2>1. UNCHANGED disputing
    BY <1>3, LockedKeepsRequests DEF requests
  <2>2. UNCHANGED disputes
    <3>1. ASSUME NEW u \in Users, NEW option \in {"buy", "sell"}, NEW a \in Amounts, NEW b \in TradeBounds,
                 CreateOrderBook(u, option, a, b)
          PROVE  UNCHANGED disputes
      BY <3>1 DEF CreateOrderBook
    <3>2. ASSUME NEW u \in Users, NEW o \in OrderIds, NEW a \in TradeAmounts, CreateTransaction(u, o, a)
          PROVE  UNCHANGED disputes
      BY <3>2 DEF CreateTransaction
    <3>3. ASSUME NEW u \in Users, NEW t \in TransIds, ConfirmReceived(u, t) \/ CancelTransaction(u, t)
          PROVE  UNCHANGED disputes
      BY <3>3 DEF ConfirmReceived, CancelTransaction
    <3>4. ASSUME NEW t \in TransIds, \/ ExpirePending(t) \/ ExpireConfirmed(t)
                                    \/ ExpireConfirmedFails(t) \/ ReleaseDueBuyerLock(t)
          PROVE  UNCHANGED disputes
      BY <3>4 DEF ExpirePending, ExpireConfirmed, ExpireConfirmedFails, ReleaseDueBuyerLock
    <3>5. ASSUME NEW o \in OrderIds, DeleteOrderBook(o) PROVE UNCHANGED disputes
      BY <3>5 DEF DeleteOrderBook
    <3>6. QED BY <1>3, <3>1, <3>2, <3>3, <3>4, <3>5 DEF LockedStep
  <2>3. QED BY <1>2, <2>1, <2>2
<1>4. CASE ReadStep
  <2>1. ASSUME NEW u \in Users, NEW t \in TransIds, CreateDisputeCheck(u, t) PROVE DisputeInv'
    <3>1. /\ disputes[t] = 0 /\ disputes' = disputes
          /\ disputing' = disputing \cup {[user |-> u, id |-> t, row |-> trans[t], inserted |-> FALSE]}
      BY <2>1 DEF CreateDisputeCheck, NoActiveDispute
    <3>2. QED BY <3>1 DEF DisputeInv, OneOpenDispute
  <2>2. QED BY <1>2, <1>4, <2>1 DEF ReadStep, ConfirmPaymentRead, UpdateOrderBookRead
<1>5. ASSUME NEW d \in disputing, CreateDisputeInsert(d) PROVE DisputeInv'
  <2>1. /\ d.id \in TransIds /\ disputes[d.id] = 0
        /\ disputes' = [disputes EXCEPT ![d.id] = @ + 1]
        /\ disputing' = (disputing \ {d}) \cup {[d EXCEPT !.inserted = TRUE]}
    BY <1>1, <1>5 DEF CreateDisputeInsert, DisputeInv, DisputeRequest
  <2>2. [d EXCEPT !.inserted = TRUE].inserted
    BY <1>1 DEF DisputeRequest
  <2>3. disputing' = {[d EXCEPT !.inserted = TRUE]}
    BY <1>1, <2>1
  <2>4. OneOpenDispute'
    BY <1>1, <2>1 DEF DisputeInv, OneOpenDispute
  <2>5. QED BY <2>2, <2>3, <2>4 DEF DisputeInv
<1>6. ASSUME NEW d \in disputing, CreateDisputeMark(d) PROVE DisputeInv'
  BY <1>6 DEF CreateDisputeMark, DisputeInv, OneOpenDispute
<1>7. CASE Crash
  BY <1>7 DEF Crash, DisputeInv, OneOpenDispute
<1>8. CASE (\E c \in confirming : ConfirmPaymentSave(c)) \/ (\E w \in updating : UpdateOrderBookSave(w))
  BY <1>2, <1>8 DEF ConfirmPaymentSave, UpdateOrderBookSave
<1>9. CASE ChangeFees
  BY <1>2, <1>9 DEF ChangeFees, requests
<1>10. CASE UNCHANGED vars
  BY <1>2, <1>10 DEF vars, requests
<1>11. QED BY <1>3, <1>4, <1>5, <1>6, <1>7, <1>8, <1>9, <1>10 DEF SerialNext, SaveStep

\* createDispute finds the dispute another request has opened, if the two take
\* turns: no transaction has two, whatever settles, expires or dies meanwhile.
THEOREM OneDispute == SerialSpec => []OneOpenDispute
<1>1. Init => DisputeInv
  BY DEF Init, DisputeInv, OneOpenDispute
<1>2. SerialInv /\ DisputeInv /\ [SerialNext]_vars => DisputeInv'
  BY DisputeStep
<1>3. DisputeInv => OneOpenDispute
  BY DEF DisputeInv
<1>4. QED BY <1>1, <1>2, <1>3, SerialInvariant, PTL DEF SerialSpec

-----------------------------------------------------------------------------
\* Only deleting makes a listing `failed`, and no other step changes one that is.
LEMMA DeletedStep ==
  ASSUME SerialInv, [SerialNext]_vars, NEW o \in OrderIds, orders[o].status = "failed"
  PROVE  orders'[o].status = "failed"
<1>1. /\ orders \in [OrderIds -> Order]
      /\ \A w \in updating : w.id \in OrderIds /\ orders[w.id].status = "pending"
  BY DEF SerialInv, TypeOK, Fresh, UpdateRequest
<1>2. ASSUME NEW p \in OrderIds, NEW row, orders' = [orders EXCEPT ![p] = row],
             p = o => row.status = "failed"
      PROVE  orders'[o].status = "failed"
  BY <1>1, <1>2
<1>3. ASSUME UNCHANGED orders PROVE orders'[o].status = "failed"
  BY <1>3
<1>4. ASSUME NEW u \in Users, NEW option \in {"buy", "sell"}, NEW a \in Amounts, NEW b \in TradeBounds,
             CreateOrderBook(u, option, a, b)
      PROVE  orders'[o].status = "failed"
  BY <1>2, <1>4 DEF CreateOrderBook, NextOrder
<1>5. ASSUME NEW p \in OrderIds, DeleteOrderBook(p) PROVE orders'[o].status = "failed"
  BY <1>1, <1>5 DEF DeleteOrderBook
<1>6. ASSUME NEW u \in Users, NEW p \in OrderIds, NEW a \in TradeAmounts, CreateTransaction(u, p, a)
      PROVE  orders'[o].status = "failed"
  BY <1>2, <1>6 DEF CreateTransaction
<1>7. ASSUME NEW p, NEW a, orders' = [orders EXCEPT ![p] = Restored(@, a)]
      PROVE  orders'[o].status = "failed"
  <2>1. Restored(orders[o], a).status = "failed"
    BY <1>1 DEF Restored, Order
  <2>2. QED BY <1>1, <1>7, <2>1
<1>8. ASSUME NEW u \in Users, NEW t \in TransIds, ConfirmReceived(u, t) \/ CancelTransaction(u, t)
      PROVE  orders'[o].status = "failed"
  BY <1>3, <1>7, <1>8 DEF ConfirmReceived, CancelTransaction
<1>9. ASSUME NEW t \in TransIds, \/ ExpirePending(t) \/ ExpireConfirmed(t)
                                \/ ExpireConfirmedFails(t) \/ ReleaseDueBuyerLock(t)
      PROVE  orders'[o].status = "failed"
  BY <1>3, <1>7, <1>9 DEF ExpirePending, ExpireConfirmed, ExpireConfirmedFails, ReleaseDueBuyerLock
<1>10. ASSUME NEW w \in updating, UpdateOrderBookSave(w) PROVE orders'[o].status = "failed"
  BY <1>1, <1>2, <1>10 DEF UpdateOrderBookSave
<1>11. CASE ReadStep
  BY <1>3, <1>11 DEF ReadStep, ConfirmPaymentRead, CreateDisputeCheck, UpdateOrderBookRead
<1>12. CASE (\E c \in confirming : ConfirmPaymentSave(c)) \/ Crash
            \/ (\E d \in disputing : CreateDisputeInsert(d) \/ CreateDisputeMark(d))
  BY <1>3, <1>12 DEF ConfirmPaymentSave, Crash, CreateDisputeInsert, CreateDisputeMark
<1>13. CASE ChangeFees \/ UNCHANGED vars
  BY <1>3, <1>13 DEF ChangeFees, vars
<1>14. CASE LockedStep
  BY <1>4, <1>5, <1>6, <1>8, <1>9, <1>14 DEF LockedStep
<1>15. QED BY <1>10, <1>11, <1>12, <1>13, <1>14 DEF SerialNext, SaveStep

\* A listing that was deleted stays so: an update that takes its turn saves a row
\* that is still pending, and a part that is given back does not reopen it.
THEOREM DeletedStays == SerialSpec => DeletedStaysDeleted
<1>1. SerialInv /\ [SerialNext]_vars
        => [\A o \in OrderIds : orders[o].status = "failed" => orders'[o].status = "failed"]_vars
  BY DeletedStep
<1>2. QED BY <1>1, SerialInvariant, PTL DEF SerialSpec, DeletedStaysDeleted

-----------------------------------------------------------------------------
\* Only the save of confirmPayment makes a transaction `payment_confirmed`, and
\* the entity it saves is the row as it is, which was pending when it was read.
LEMMA ConfirmedStep ==
  ASSUME SerialInv, [SerialNext]_vars, NEW t \in TransIds,
         trans[t].status # "payment_confirmed", trans'[t].status = "payment_confirmed"
  PROVE  trans[t].status = "pending"
<1>1. /\ trans \in [TransIds -> Trans]
      /\ \A c \in confirming : c.id \in TransIds /\ c.row = trans[c.id] /\ trans[c.id].status = "pending"
      /\ \A d \in disputing : d.id \in TransIds /\ d.row = trans[d.id]
  BY DEF SerialInv, TypeOK, Fresh, ConfirmRequest, DisputeRequest
<1>2. ASSUME NEW s \in TransIds, NEW row, trans' = [trans EXCEPT ![s] = row]
      PROVE  s = t /\ row.status = "payment_confirmed"
  BY <1>1, <1>2
<1>3. trans' # trans
  OBVIOUS
<1>4. ASSUME NEW s \in TransIds, NEW f, Settle(s, f) PROVE FALSE
  <2>1. trans' = [trans EXCEPT ![s] = [trans[s] EXCEPT !.status = "executed",
                                                       !.unlockAt = IsSell(trans[s]),
                                                       !.released = ~IsSell(trans[s])]]
    BY <1>4 DEF Settle
  <2>2. [trans[s] EXCEPT !.status = "executed", !.unlockAt = IsSell(trans[s]),
                         !.released = ~IsSell(trans[s])].status # "payment_confirmed"
    BY <1>1 DEF Trans
  <2>3. QED BY <1>2, <2>1, <2>2
<1>5. ASSUME NEW u \in Users, NEW o \in OrderIds, NEW a \in TradeAmounts, CreateTransaction(u, o, a)
      PROVE  FALSE
  BY <1>2, <1>5 DEF CreateTransaction, NoTrans
<1>6. ASSUME NEW u \in Users, NEW s \in TransIds, ConfirmReceived(u, s) \/ CancelTransaction(u, s)
      PROVE  FALSE
  BY <1>1, <1>2, <1>4, <1>6 DEF ConfirmReceived, CancelTransaction, Trans
<1>7. ASSUME NEW s \in TransIds, \/ ExpirePending(s) \/ ExpireConfirmed(s)
                                \/ ExpireConfirmedFails(s) \/ ReleaseDueBuyerLock(s)
      PROVE  FALSE
  <2>1. CASE ExpirePending(s)
    BY <1>1, <1>2, <1>3, <2>1 DEF ExpirePending, Trans
  <2>2. CASE ExpireConfirmed(s) \/ ExpireConfirmedFails(s)
    BY <1>3, <1>4, <2>2 DEF ExpireConfirmed, ExpireConfirmedFails
  <2>3. CASE ReleaseDueBuyerLock(s)
    BY <1>1, <1>2, <2>3 DEF ReleaseDueBuyerLock, Due, Trans
  <2>4. QED BY <1>7, <2>1, <2>2, <2>3
<1>8. ASSUME NEW c \in confirming, ConfirmPaymentSave(c) PROVE trans[t].status = "pending"
  BY <1>1, <1>2, <1>8 DEF ConfirmPaymentSave
<1>9. ASSUME NEW d \in disputing, CreateDisputeInsert(d) \/ CreateDisputeMark(d) PROVE FALSE
  <2>1. trans' = [trans EXCEPT ![d.id] = [d.row EXCEPT !.dispute = TRUE]]
    BY <1>3, <1>9 DEF CreateDisputeInsert, CreateDisputeMark
  <2>2. [d.row EXCEPT !.dispute = TRUE].status = trans[d.id].status
    BY <1>1 DEF Trans
  <2>3. QED BY <1>1, <1>2, <2>1, <2>2
<1>10. ~ReadStep
  BY <1>3 DEF ReadStep, ConfirmPaymentRead, CreateDisputeCheck, UpdateOrderBookRead
<1>11. ~LockedStep
  <2>1. ~\E u \in Users, option \in {"buy", "sell"}, a \in Amounts, b \in TradeBounds :
           CreateOrderBook(u, option, a, b)
    BY <1>3 DEF CreateOrderBook
  <2>2. ~\E o \in OrderIds : DeleteOrderBook(o)
    BY <1>3 DEF DeleteOrderBook
  <2>3. QED BY <1>5, <1>6, <1>7, <2>1, <2>2 DEF LockedStep
<1>12. CASE SaveStep
  BY <1>3, <1>8, <1>9, <1>12 DEF SaveStep, UpdateOrderBookSave, Crash
<1>13. ~ChangeFees /\ ~UNCHANGED vars
  BY <1>3 DEF ChangeFees, vars
<1>14. QED BY <1>10, <1>11, <1>12, <1>13 DEF SerialNext

\* "Only pending transaction can be confirmed" is true of requests that take
\* turns: the status that confirmPayment checked is still there when it saves.
THEOREM OnlyPendingWhenSerial == SerialSpec => OnlyPendingConfirmed
<1>1. SerialInv /\ [SerialNext]_vars
        => [\A t \in TransIds :
              trans[t].status # "payment_confirmed" /\ trans'[t].status = "payment_confirmed"
                => trans[t].status = "pending"]_vars
  BY ConfirmedStep
<1>2. QED BY <1>1, SerialInvariant, PTL DEF SerialSpec, OnlyPendingConfirmed

-----------------------------------------------------------------------------
(* No coin is created, whatever interleaves: an entity saved late may undo  *)
(* what others did to the row, but it names real parties and moves nothing. *)

\* Rows in use, and the copies of them held in memory, name real parties.
HeldGood ==
  /\ TypeOK /\ GoodRows
  /\ \A c \in confirming : c.row.status # "none" /\ GoodTrans(c.row)
  /\ \A d \in disputing : d.row.status # "none" /\ GoodTrans(d.row)
  /\ \A w \in updating : w.row.status # "none" /\ GoodOrder(w.row)

\* A step the promise allows makes nobody richer than it makes others poorer.
LEMMA PromiseCreatesNone ==
  ASSUME TypeOK, TypeOK', GoodRows, PromiseStep
  PROVE  Total(Wealth', NumUsers) <= Total(Wealth, NumUsers)
<1>1. \A u \in 1..NumUsers : Wealth[u] \in Int /\ Wealth'[u] \in Int
  <2>1. /\ balance \in [Users -> Nat] /\ lock \in [Users -> Nat]
        /\ balance' \in [Users -> Nat] /\ lock' \in [Users -> Nat]
    BY DEF TypeOK
  <2>2. \A u \in Users : /\ Wealth[u] = balance[u] + lock[u]
                         /\ Wealth'[u] = balance'[u] + lock'[u]
    BY DEF Wealth
  <2> QED  BY <2>1, <2>2 DEF Users
<1>2. NumUsers \in Nat
  BY CountsAssumption
<1>3. Total(Wealth, NumUsers) \in Int
  <2> HIDE DEF Wealth
  <2> QED  BY <1>1, <1>2, TotalInt
<1>4. CASE Wealth' = Wealth
  BY <1>3, <1>4
<1>5. ASSUME NEW t \in TransIds, Promise!Settle(t)
      PROVE  Total(Wealth', NumUsers) <= Total(Wealth, NumUsers)
  <2> DEFINE r == trans[t]
  <2>1. DealStage[t] = "paid" /\ DealTerms[t] = Terms(r)
    BY <1>5 DEF Promise!Settle, DealTerms
  <2>2. r.status # "none"
    BY <2>1 DEF DealStage, Stage
  <2>3. r.buyer \in Users /\ r.seller \in Users /\ r.buyer # r.seller /\ r.amount \in Nat
    BY <2>2 DEF GoodRows, GoodTrans, TypeOK, Trans
  <2>4. Terms(r).buyer = r.buyer /\ Terms(r).seller = r.seller /\ Terms(r).amount = r.amount
    BY DEF Terms
  <2> HIDE DEF r
  <2>5. /\ \A u \in Users \ {r.buyer, r.seller} : Wealth'[u] = Wealth[u]
        /\ Wealth[r.seller] - Wealth'[r.seller] >= Wealth'[r.buyer] - Wealth[r.buyer]
    <3>1. /\ \A u \in Users \ {r.buyer, r.seller} : Wealth'[u] = Wealth[u]
          /\ \/ /\ Wealth[r.seller] - Wealth'[r.seller] >= r.amount
                /\ Wealth'[r.buyer] - Wealth[r.buyer] = r.amount
             \/ /\ Wealth[r.seller] - Wealth'[r.seller] = r.amount
                /\ Wealth'[r.buyer] - Wealth[r.buyer] \in 1..r.amount
      BY <1>5, <2>1, <2>4 DEF Promise!Settle
    <3> HIDE DEF Wealth
    <3>2. Wealth[r.seller] \in Int /\ Wealth'[r.seller] \in Int
          /\ Wealth[r.buyer] \in Int /\ Wealth'[r.buyer] \in Int
      BY <1>1, <2>3 DEF Users
    <3> QED  BY <2>3, <3>1, <3>2
  <2> HIDE DEF Wealth
  <2>6. Total(Wealth', NumUsers) = Total(Wealth, NumUsers)
          + (Wealth'[r.seller] - Wealth[r.seller]) + (Wealth'[r.buyer] - Wealth[r.buyer])
    <3>1. \A u \in 1..NumUsers : u \notin {r.seller, r.buyer} => Wealth'[u] = Wealth[u]
      BY <2>5 DEF Users
    <3>2. r.seller \in 1..NumUsers /\ r.buyer \in 1..NumUsers
      BY <2>3 DEF Users
    <3>3. r.seller # r.buyer
      BY <2>3
    <3>4. \A f, g : (\A u \in 1..NumUsers : /\ f[u] \in Int /\ g[u] \in Int
                                            /\ u \notin {r.seller, r.buyer} => g[u] = f[u])
             => Total(g, NumUsers) = Total(f, NumUsers) + (g[r.seller] - f[r.seller])
                                                        + (g[r.buyer] - f[r.buyer])
      <4> DEFINE j == r.seller
                 k == r.buyer
      <4>1. NumUsers \in Nat /\ j \in 1..NumUsers /\ k \in 1..NumUsers /\ j # k
        BY <1>2, <3>2, <3>3
      <4> HIDE DEF j, k
      <4>2. ASSUME NEW f, NEW g,
                   \A u \in 1..NumUsers : f[u] \in Int /\ g[u] \in Int /\ (u \notin {j, k} => g[u] = f[u])
            PROVE  Total(g, NumUsers) = Total(f, NumUsers) + (g[j] - f[j]) + (g[k] - f[k])
        BY ONLY <4>1, <4>2, TotalChangeTwo
      <4> QED  BY <4>2 DEF j, k
    <3> QED  BY <1>1, <3>1, <3>4
  <2>7. Wealth[r.seller] \in Int /\ Wealth'[r.seller] \in Int
        /\ Wealth[r.buyer] \in Int /\ Wealth'[r.buyer] \in Int
    BY <1>1, <2>3 DEF Users
  <2> QED  BY <1>3, <2>5, <2>6, <2>7
<1>6. Wealth' = Wealth \/ \E t \in TransIds : Promise!Settle(t)
  BY DEF PromiseStep, Promise!Next, Promise!Open, Promise!Pay, Promise!CallOff, Promise!promiseVars
<1> QED
  BY <1>4, <1>5, <1>6

\* Any one step, stale saves included, keeps HeldGood and creates no coin.
LEMMA HeldGoodStep ==
  ASSUME HeldGood, [Next]_vars
  PROVE  HeldGood' /\ Total(Wealth', NumUsers) <= Total(Wealth, NumUsers)
<1>1. TypeOK /\ GoodRows
  BY DEF HeldGood
<1>2. TypeOK'
  <2>1. CASE Next
    BY <1>1, <2>1, LockedStepType, ReadStepType, SaveStepType, ChangeFeesType DEF Next
  <2>2. CASE UNCHANGED vars
    BY <1>1, <2>2 DEF vars, requests, TypeOK
  <2> QED  BY <2>1, <2>2
<1>3. ASSUME Wealth' = Wealth
      PROVE  Total(Wealth', NumUsers) <= Total(Wealth, NumUsers)
  <2>1. \A u \in 1..NumUsers : Wealth[u] \in Int
    <3>1. balance \in [Users -> Nat] /\ lock \in [Users -> Nat]
      BY <1>1 DEF TypeOK
    <3> QED  BY ONLY <3>1 DEF Wealth, Users
  <2> HIDE DEF Wealth
  <2>2. Total(Wealth, NumUsers) \in Int
    BY <2>1, CountsAssumption, TotalInt
  <2> QED  BY <1>3, <2>2
<1>4. CASE LockedStep
  <2>1. GoodRows' /\ PromiseStep
    BY <1>1, <1>2, <1>4, LockedStepStep
  <2>2. HeldGood'
    BY <1>2, <1>4, <2>1, LockedKeepsRequests DEF HeldGood, requests, GoodTrans, GoodOrder
  <2> QED  BY <1>1, <1>2, <2>1, <2>2, PromiseCreatesNone
<1>5. ASSUME UNCHANGED <<orders, trans, balance, lock>>
      PROVE  GoodRows' /\ Wealth' = Wealth
  BY <1>1, <1>5 DEF GoodRows, GoodOrder, GoodTrans, Wealth
<1>6. CASE ReadStep
  <2>1. UNCHANGED <<orders, trans, balance, lock>>
    BY <1>6 DEF ReadStep, ConfirmPaymentRead, CreateDisputeCheck, UpdateOrderBookRead
  <2>2. ASSUME NEW t \in TransIds, ConfirmPaymentRead(t)  PROVE HeldGood'
    BY <1>1, <1>2, <1>5, <2>1, <2>2 DEF ConfirmPaymentRead, HeldGood, GoodRows, GoodTrans, GoodOrder
  <2>3. ASSUME NEW u \in Users, NEW t \in TransIds, CreateDisputeCheck(u, t)  PROVE HeldGood'
    BY <1>1, <1>2, <1>5, <2>1, <2>3 DEF CreateDisputeCheck, HeldGood, GoodRows, GoodTrans, GoodOrder
  <2>4. ASSUME NEW o \in OrderIds, NEW b \in TradeBounds, UpdateOrderBookRead(o, b)  PROVE HeldGood'
    BY <1>1, <1>2, <1>5, <2>1, <2>4 DEF UpdateOrderBookRead, HeldGood, GoodRows, GoodTrans, GoodOrder
  <2> QED  BY <1>3, <1>5, <1>6, <2>1, <2>2, <2>3, <2>4 DEF ReadStep
<1>7. ASSUME NEW r \in Trans, NEW s \in Trans, GoodTrans(r), r.status # "none",
             s.buyer = r.buyer, s.seller = r.seller, s.amount = r.amount, s.order = r.order
      PROVE  GoodTrans(s)
  BY <1>7 DEF GoodTrans
<1>8. ASSUME NEW t \in TransIds, NEW r, GoodTrans(r), trans' = [trans EXCEPT ![t] = r],
             orders' = orders, UNCHANGED <<balance, lock>>
      PROVE  GoodRows' /\ Wealth' = Wealth
  <2>1. Wealth' = Wealth
    BY <1>8 DEF Wealth
  <2> QED  BY <1>1, <1>2, <1>8, <2>1, RowsStayGood
<1>9. ASSUME NEW c \in confirming, ConfirmPaymentSave(c)
      PROVE  HeldGood' /\ Wealth' = Wealth
  <2> DEFINE new == [c.row EXCEPT !.status = "payment_confirmed"]
  <2>1. c.id \in TransIds /\ c.row \in Trans /\ GoodTrans(c.row) /\ c.row.status # "none"
    BY <1>1 DEF HeldGood, TypeOK, ConfirmRequest
  <2>2. GoodTrans(new)
    <3>1. new \in Trans /\ new.buyer = c.row.buyer /\ new.seller = c.row.seller
          /\ new.amount = c.row.amount /\ new.order = c.row.order
      BY <2>1 DEF Trans, TransStatus
    <3> HIDE DEF new
    <3> QED  BY <1>7, <2>1, <3>1
  <2>3. /\ trans' = [trans EXCEPT ![c.id] = new] /\ UNCHANGED <<orders, balance, lock, disputing, updating>>
        /\ confirming' \subseteq confirming
    BY <1>9 DEF ConfirmPaymentSave
  <2> HIDE DEF new
  <2>4. GoodRows' /\ Wealth' = Wealth
    BY <1>8, <2>1, <2>2, <2>3
  <2> QED  BY <1>2, <2>3, <2>4 DEF HeldGood, GoodTrans, GoodOrder
<1>10. ASSUME NEW d \in disputing, CreateDisputeInsert(d)
       PROVE  HeldGood' /\ Wealth' = Wealth
  <2>1. [d EXCEPT !.inserted = TRUE].row = d.row
    BY <1>1 DEF TypeOK, DisputeRequest
  <2>2. /\ UNCHANGED <<orders, trans, balance, lock, confirming, updating>>
        /\ disputing' = (disputing \ {d}) \cup {[d EXCEPT !.inserted = TRUE]}
    BY <1>10 DEF CreateDisputeInsert
  <2>3. \A e \in disputing' : e.row.status # "none" /\ GoodTrans(e.row)
    BY <2>1, <2>2 DEF HeldGood
  <2> QED  BY <1>2, <1>5, <2>2, <2>3 DEF HeldGood, GoodTrans, GoodOrder
<1>11. ASSUME NEW d \in disputing, CreateDisputeMark(d)
       PROVE  HeldGood' /\ Wealth' = Wealth
  <2> DEFINE new == [d.row EXCEPT !.dispute = TRUE]
  <2>1. d.id \in TransIds /\ d.row \in Trans /\ GoodTrans(d.row) /\ d.row.status # "none"
    BY <1>1 DEF HeldGood, TypeOK, DisputeRequest
  <2>2. GoodTrans(new)
    <3>1. new \in Trans /\ new.buyer = d.row.buyer /\ new.seller = d.row.seller
          /\ new.amount = d.row.amount /\ new.order = d.row.order
      BY <2>1 DEF Trans
    <3> HIDE DEF new
    <3> QED  BY <1>7, <2>1, <3>1
  <2>3. /\ trans' = trans \/ trans' = [trans EXCEPT ![d.id] = new]
        /\ UNCHANGED <<orders, balance, lock, confirming, updating>>
        /\ disputing' \subseteq disputing
    BY <1>11 DEF CreateDisputeMark
  <2> HIDE DEF new
  <2>4. GoodRows' /\ Wealth' = Wealth
    BY <1>5, <1>8, <2>1, <2>2, <2>3
  <2> QED  BY <1>2, <2>3, <2>4 DEF HeldGood, GoodTrans, GoodOrder
<1>12. ASSUME NEW w \in updating, UpdateOrderBookSave(w)
       PROVE  HeldGood' /\ Wealth' = Wealth
  <2> DEFINE new == [w.row EXCEPT !.bounds = w.bounds]
  <2>1. w.row \in Order /\ GoodOrder(w.row) /\ w.row.status # "none"
    BY <1>1 DEF HeldGood, TypeOK, UpdateRequest
  <2>2. GoodOrder(new)
    BY <2>1 DEF GoodOrder, Order
  <2>3. /\ orders' = [orders EXCEPT ![w.id] = new]
        /\ UNCHANGED <<trans, balance, lock, confirming, disputing>>
        /\ updating' \subseteq updating
    BY <1>12 DEF UpdateOrderBookSave
  <2> HIDE DEF new
  <2>4. GoodRows'
    BY <1>1, <1>2, <2>2, <2>3, RowsStayGood
  <2>5. Wealth' = Wealth
    BY <2>3 DEF Wealth
  <2> QED  BY <1>2, <2>3, <2>4, <2>5 DEF HeldGood, GoodTrans, GoodOrder
<1>13. CASE Crash
  <2>1. HeldGood' /\ Wealth' = Wealth
    BY <1>2, <1>5, <1>13 DEF Crash, HeldGood
  <2> QED  BY <1>3, <2>1
<1>14. CASE ChangeFees \/ UNCHANGED vars
  <2>1. UNCHANGED <<orders, trans, balance, lock, confirming, disputing, updating>>
    BY <1>14 DEF ChangeFees, vars, requests
  <2>2. HeldGood' /\ Wealth' = Wealth
    BY <1>2, <1>5, <2>1 DEF HeldGood, GoodTrans, GoodOrder
  <2> QED  BY <1>3, <2>2
<1> QED
  BY <1>3, <1>4, <1>6, <1>9, <1>10, <1>11, <1>12, <1>13, <1>14 DEF Next, SaveStep

\* Whatever interleaves and whatever the fees become, the wallets together never
\* hold more than before: no settlement credits more than it debits, and a stale
\* entity that is saved moves no coin.
THEOREM NoneCreated == Spec => NoCoinCreated
<1>1. Init => HeldGood
  BY SerialInvInit DEF Init, SerialInv, HeldGood
<1>2. HeldGood /\ [Next]_vars => HeldGood'
  BY HeldGoodStep
<1>3. HeldGood /\ [Next]_vars => [Total(Wealth', NumUsers) <= Total(Wealth, NumUsers)]_vars
  BY HeldGoodStep
<1> QED
  BY <1>1, <1>2, <1>3, PTL DEF Spec, NoCoinCreated

-----------------------------------------------------------------------------
(* What remains of a listing and what was taken of it add up to its size.  *)

\* What transaction row r takes of listing o.
Taking(o, r) == IF r.order = o /\ r.status \in Live \cup {"executed"} THEN r.amount ELSE 0

\* A transaction in use is of a listing in use.
BalanceInv ==
  /\ ListingBalanced
  /\ \A t \in TransIds : trans[t].status # "none" => orders[trans[t].order].status # "none"

\* Rewriting one transaction changes what is taken by what that one takes.
LEMMA TakenChanges ==
  ASSUME TypeOK, NEW t \in TransIds, NEW r \in Trans, trans' = [trans EXCEPT ![t] = r], NEW o
  PROVE  TakenOf(o) \in Int /\ TakenOf(o)' = TakenOf(o) + Taking(o, r) - Taking(o, trans[t])
<1> DEFINE f == [s \in TransIds |-> IF trans[s].order = o /\ trans[s].status \in Live \cup {"executed"}
                                   THEN trans[s].amount ELSE 0]
           g == [s \in TransIds |-> IF trans'[s].order = o /\ trans'[s].status \in Live \cup {"executed"}
                                   THEN trans'[s].amount ELSE 0]
<1>1. TakenOf(o) = Total(f, MaxTrans) /\ TakenOf(o)' = Total(g, MaxTrans)
  BY DEF TakenOf
<1>2. /\ trans \in [TransIds -> Trans] /\ trans'[t] = r
      /\ \A s \in TransIds \ {t} : trans'[s] = trans[s]
      /\ \A x \in Trans : x.amount \in Int
  BY DEF TypeOK, Trans
<1>3. /\ \A s \in TransIds : f[s] \in Int /\ g[s] \in Int /\ (s # t => g[s] = f[s])
      /\ f[t] = Taking(o, trans[t]) /\ g[t] = Taking(o, r)
  BY <1>2 DEF Taking
<1> HIDE DEF f, g
<1>4. Total(f, MaxTrans) \in Int
  BY <1>3, CountsAssumption, TotalInt DEF TransIds
<1>5. Total(g, MaxTrans) = Total(f, MaxTrans) + g[t] - f[t]
  <2>1. MaxTrans \in Nat /\ t \in 1..MaxTrans
    BY CountsAssumption DEF TransIds
  <2>2. \A s \in 1..MaxTrans : f[s] \in Int /\ g[s] \in Int /\ (s # t => g[s] = f[s])
    BY <1>3 DEF TransIds
  <2> QED  BY ONLY <2>1, <2>2, TotalChange
<1> QED
  BY <1>1, <1>3, <1>4, <1>5

\* A step that rewrites one transaction and its listing, and moves between the
\* two what the transaction takes.
LEMMA BalanceMoves ==
  ASSUME TypeOK, GoodRows, BalanceInv,
         NEW t \in TransIds, NEW r \in Trans, trans' = [trans EXCEPT ![t] = r],
         NEW o \in OrderIds, NEW ob, orders' = [orders EXCEPT ![o] = ob],
         ob.status # "none", ob.amount = orders[o].amount, ob.remaining \in Int, r.order = o,
         trans[t].status # "none" => trans[t].order = o,
         ob.remaining + Taking(o, r) = orders[o].remaining + Taking(o, trans[t])
  PROVE  BalanceInv'
<1>1. /\ trans \in [TransIds -> Trans] /\ orders \in [OrderIds -> Order]
      /\ \A p \in OrderIds : orders[p].remaining \in Int /\ orders[p].amount \in Int
      /\ \A p \in OrderIds, x \in Trans : Taking(p, x) \in Int
  BY DEF TypeOK, Order, Trans, Taking
<1>2. /\ orders'[o] = ob /\ \A p \in OrderIds \ {o} : orders'[p] = orders[p]
      /\ trans'[t] = r /\ \A s \in TransIds \ {t} : trans'[s] = trans[s]
  BY <1>1
<1>3. ASSUME NEW p \in OrderIds
      PROVE  orders'[p].remaining + TakenOf(p)' = orders'[p].amount
  <2>1. /\ TakenOf(p) \in Int /\ TakenOf(p)' = TakenOf(p) + Taking(p, r) - Taking(p, trans[t])
        /\ orders[p].remaining + TakenOf(p) = orders[p].amount
    BY TakenChanges DEF BalanceInv, ListingBalanced
  <2>2. Taking(p, r) \in Int /\ Taking(p, trans[t]) \in Int
        /\ orders[p].remaining \in Int /\ orders[p].amount \in Int
    BY <1>1
  <2>3. CASE p = o
    BY <1>2, <2>1, <2>2, <2>3
  <2>4. CASE p # o
    <3>1. Taking(p, r) = 0 /\ Taking(p, trans[t]) = 0
      BY <2>4 DEF Taking, Live
    <3> QED  BY <1>2, <2>1, <2>2, <2>4, <3>1
  <2> QED  BY <2>3, <2>4
<1>4. ASSUME NEW s \in TransIds, trans'[s].status # "none"
      PROVE  orders'[trans'[s].order].status # "none"
  <2>1. CASE s = t
    BY <1>2, <2>1
  <2>2. CASE s # t
    <3>1. trans'[s] = trans[s] /\ trans[s].order \in OrderIds /\ orders[trans[s].order].status # "none"
      BY <1>2, <1>4, <2>2 DEF BalanceInv, GoodRows, GoodTrans
    <3> QED  BY <1>2, <3>1
  <2> QED  BY <2>1, <2>2
<1> QED
  BY <1>3, <1>4 DEF BalanceInv, ListingBalanced

\* A step that rewrites a transaction but not how much it takes.
LEMMA BalanceKept ==
  ASSUME TypeOK, GoodRows, BalanceInv, UNCHANGED orders,
         NEW t \in TransIds, NEW r \in Trans, trans' = [trans EXCEPT ![t] = r],
         trans[t].status # "none", r.order = trans[t].order, r.amount = trans[t].amount,
         r.status \in Live \cup {"executed"} <=> trans[t].status \in Live \cup {"executed"}
  PROVE  BalanceInv'
<1> DEFINE o == trans[t].order
<1>1. o \in OrderIds /\ orders[o].status # "none"
  BY DEF BalanceInv, GoodRows, GoodTrans
<1>2. orders' = [orders EXCEPT ![o] = orders[o]] /\ orders[o].remaining \in Int /\ orders[o].amount \in Int
  BY <1>1 DEF TypeOK, Order
<1>3. Taking(o, r) = Taking(o, trans[t])
  BY DEF Taking
<1> QED
  BY <1>1, <1>2, <1>3, BalanceMoves

\* A step that rewrites a listing but neither its size nor what remains of it.
LEMMA BalanceEdited ==
  ASSUME TypeOK, GoodRows, BalanceInv, UNCHANGED trans,
         NEW o \in OrderIds, NEW ob, orders' = [orders EXCEPT ![o] = ob],
         ob.status # "none", ob.remaining + TakenOf(o) = ob.amount
  PROVE  BalanceInv'
<1>1. orders \in [OrderIds -> Order] /\ trans' = trans
  BY DEF TypeOK
<1>2. orders'[o] = ob /\ \A p \in OrderIds \ {o} : orders'[p] = orders[p]
  BY <1>1
<1>3. \A p : TakenOf(p)' = TakenOf(p)
  BY DEF TakenOf
<1>4. \A p \in OrderIds : orders'[p].remaining + TakenOf(p)' = orders'[p].amount
  BY <1>2, <1>3 DEF BalanceInv, ListingBalanced
<1>5. ASSUME NEW s \in TransIds, trans[s].status # "none"
      PROVE  orders'[trans[s].order].status # "none"
  BY <1>2, <1>5 DEF BalanceInv, GoodRows, GoodTrans
<1> QED
  BY <1>1, <1>4, <1>5 DEF BalanceInv, ListingBalanced

\* Posting a listing: no transaction is of one that was not in use.
LEMMA PostBalanced ==
  ASSUME TypeOK, GoodRows, BalanceInv, NEW u \in Users, NEW option \in {"buy", "sell"},
         NEW a \in Amounts, NEW b \in TradeBounds, CreateOrderBook(u, option, a, b)
  PROVE  BalanceInv'
<1> DEFINE ob == [owner |-> u, option |-> option, amount |-> a, remaining |-> a,
                  bounds |-> b, status |-> "pending"]
<1>1. PICK o \in OrderIds : NextOrder(o) /\ orders' = [orders EXCEPT ![o] = ob] /\ trans' = trans
  BY DEF CreateOrderBook
<1>2. TakenOf(o) = 0
  <2> DEFINE f == [s \in TransIds |-> IF trans[s].order = o /\ trans[s].status \in Live \cup {"executed"}
                                     THEN trans[s].amount ELSE 0]
  <2>1. \A s \in TransIds : f[s] = 0
    BY <1>1 DEF NextOrder, BalanceInv, Live
  <2>2. TakenOf(o) = Total(f, MaxTrans)
    BY DEF TakenOf
  <2> HIDE DEF f
  <2> QED  BY <2>1, <2>2, CountsAssumption, TotalZero DEF TransIds
<1>3. ob.status # "none" /\ ob.remaining + TakenOf(o) = ob.amount
  BY <1>2, AmountsAssumption
<1> HIDE DEF ob
<1> QED
  BY <1>1, <1>3, BalanceEdited

\* Taking a part of a listing, and giving one back.
LEMMA TakeBalanced ==
  ASSUME TypeOK, TypeOK', GoodRows, BalanceInv, NEW u \in Users, NEW o \in OrderIds,
         NEW a \in TradeAmounts, CreateTransaction(u, o, a)
  PROVE  BalanceInv'
<1> DEFINE ob == orders[o]
           new == [NoTrans EXCEPT !.buyer = IF ob.option = "sell" THEN u ELSE ob.owner,
                                  !.seller = IF ob.option = "sell" THEN ob.owner ELSE u,
                                  !.order = o, !.amount = a, !.status = "pending"]
<1>1. PICK t \in TransIds :
        /\ NextTrans(t) /\ ob.status = "pending"
        /\ orders' = [orders EXCEPT ![o] = Taken(ob, a)]
        /\ trans' = [trans EXCEPT ![t] = new]
  BY DEF CreateTransaction
<1>2. ob \in Order /\ a \in Nat /\ ob.remaining \in Int
  BY AmountsAssumption DEF TypeOK, Order
<1>3. /\ Taken(ob, a).remaining = ob.remaining - a /\ Taken(ob, a).amount = ob.amount
      /\ Taken(ob, a).status # "none"
  BY <1>1, <1>2 DEF Taken, Order
<1>4. new.order = o /\ new.amount = a /\ new.status = "pending" /\ trans[t].status = "none"
  BY <1>1 DEF NoTrans, NextTrans
<1>5. new \in Trans
  <2> HIDE DEF new
  <2> QED  BY <1>1 DEF TypeOK
<1> HIDE DEF new
<1>6. Taking(o, new) = a /\ Taking(o, trans[t]) = 0
  BY <1>4 DEF Taking, Live
<1>7. /\ Taken(ob, a).remaining \in Int
      /\ Taken(ob, a).remaining + Taking(o, new) = ob.remaining + Taking(o, trans[t])
  <2>1. \A x \in Int, y \in Nat : x - y \in Int /\ (x - y) + y = x + 0
    OBVIOUS
  <2> QED  BY <1>2, <1>3, <1>6, <2>1
<1> QED
  BY <1>1, <1>3, <1>4, <1>5, <1>7, BalanceMoves

\* So does giving a part back, in whichever way.
LEMMA GiveBackBalanced ==
  ASSUME TypeOK, GoodRows, BalanceInv, NEW t \in TransIds, NEW st \in {"cancelled", "failed"},
         trans[t].status = "pending", trans' = [trans EXCEPT ![t].status = st],
         orders' = [orders EXCEPT ![trans[t].order] = Restored(@, trans[t].amount)]
  PROVE  BalanceInv'
<1> DEFINE r == trans[t]
           o == r.order
           ob == orders[o]
           new == [r EXCEPT !.status = st]
<1>1. r \in Trans /\ GoodTrans(r) /\ r.amount \in Nat
  BY DEF TypeOK, GoodRows, Trans
<1>2. o \in OrderIds /\ ob.status # "none"
  BY <1>1 DEF GoodTrans, BalanceInv
<1>3. ob \in Order /\ ob.remaining \in Int
  BY <1>2 DEF TypeOK, Order
<1>4. /\ Restored(ob, r.amount).remaining = ob.remaining + r.amount
      /\ Restored(ob, r.amount).amount = ob.amount /\ Restored(ob, r.amount).status # "none"
  BY <1>2, <1>3 DEF Restored, Order
<1>5. new \in Trans /\ new.order = o /\ new.status = st
  BY <1>1 DEF Trans, TransStatus
<1>6. Taking(o, new) = 0 /\ Taking(o, r) = r.amount
  BY <1>5 DEF Taking, Live
<1>7. trans' = [trans EXCEPT ![t] = new] /\ orders' = [orders EXCEPT ![o] = Restored(ob, r.amount)]
  OBVIOUS
<1>8. /\ Restored(ob, r.amount).remaining \in Int
      /\ Restored(ob, r.amount).remaining + Taking(o, new) = ob.remaining + Taking(o, r)
  <2>1. \A x \in Int, y \in Nat : x + y \in Int /\ (x + y) + 0 = x + y
    OBVIOUS
  <2> QED  BY <1>1, <1>3, <1>4, <1>6, <2>1
<1> DEFINE back == Restored(ob, r.amount)
<1>9. trans[t].order = o /\ ob = orders[o] /\ r = trans[t]
  OBVIOUS
<1>10. back.status # "none" /\ back.amount = orders[o].amount /\ back.remaining \in Int
  BY <1>4, <1>8
<1>11. orders' = [orders EXCEPT ![o] = back]
  BY <1>7
<1>12. back.remaining + Taking(o, new) = orders[o].remaining + Taking(o, trans[t])
  BY <1>8
<1> HIDE DEF new, r, o, ob, back
<1>13. TypeOK /\ GoodRows /\ BalanceInv /\ t \in TransIds
  OBVIOUS
<1>14. trans' = [trans EXCEPT ![t] = new]
  BY <1>7
<1>15. o \in OrderIds
  BY <1>2
<1> QED
  BY ONLY <1>5, <1>9, <1>10, <1>11, <1>12, <1>13, <1>14, <1>15, BalanceMoves

\* Settling takes what the transaction had taken.
LEMMA SettleBalanced ==
  ASSUME TypeOK, GoodRows, BalanceInv, UNCHANGED orders, NEW t \in TransIds, Settle(t, fees)
  PROVE  BalanceInv'
<1> DEFINE r == trans[t]
           new == [r EXCEPT !.status = "executed", !.unlockAt = IsSell(r), !.released = ~IsSell(r)]
<1>1. r \in Trans /\ r.status = "payment_confirmed" /\ trans' = [trans EXCEPT ![t] = new]
  BY DEF TypeOK, Settle, CanSettle
<1>2. new \in Trans /\ new.order = r.order /\ new.amount = r.amount /\ new.status = "executed"
  <2>1. IsSell(r) \in BOOLEAN
    BY DEF IsSell
  <2> QED  BY <1>1, <2>1 DEF Trans, TransStatus
<1> HIDE DEF new
<1> QED
  BY <1>1, <1>2, BalanceKept DEF Live

\* One step of SerialSpec keeps every listing balanced.
LEMMA BalanceStep ==
  ASSUME SerialInv, BalanceInv, [SerialNext]_vars
  PROVE  BalanceInv'
<1>1. TypeOK /\ GoodRows /\ Fresh /\ TypeOK'
  BY SerialStep, SerialStutter DEF SerialInv
<1>2. ASSUME UNCHANGED <<orders, trans>> PROVE BalanceInv'
  BY <1>2 DEF BalanceInv, ListingBalanced, TakenOf
<1>3. ASSUME NEW u \in Users, NEW option \in {"buy", "sell"}, NEW a \in Amounts, NEW b \in TradeBounds,
             CreateOrderBook(u, option, a, b)
      PROVE  BalanceInv'
  BY <1>1, <1>3, PostBalanced
<1>4. ASSUME NEW o \in OrderIds, NEW ob, orders' = [orders EXCEPT ![o] = ob], UNCHANGED trans,
             orders[o].status # "none", ob.status # "none",
             ob.remaining = orders[o].remaining, ob.amount = orders[o].amount
      PROVE  BalanceInv'
  <2>1. ob.remaining + TakenOf(o) = ob.amount
    BY <1>4 DEF BalanceInv, ListingBalanced
  <2> QED  BY <1>1, <1>4, <2>1, BalanceEdited
<1>5. ASSUME NEW o \in OrderIds, DeleteOrderBook(o) PROVE BalanceInv'
  <2> DEFINE ob == [orders[o] EXCEPT !.status = "failed"]
  <2>1. /\ orders' = [orders EXCEPT ![o] = ob] /\ UNCHANGED trans /\ orders[o].status # "none"
        /\ ob.status # "none" /\ ob.remaining = orders[o].remaining /\ ob.amount = orders[o].amount
    BY <1>1, <1>5 DEF DeleteOrderBook, TypeOK, Order
  <2> HIDE DEF ob
  <2> QED  BY <1>4, <2>1
<1>6. ASSUME NEW u \in Users, NEW o \in OrderIds, NEW a \in TradeAmounts, CreateTransaction(u, o, a)
      PROVE  BalanceInv'
  BY <1>1, <1>6, TakeBalanced
<1>7. ASSUME NEW u \in Users, NEW t \in TransIds, ConfirmReceived(u, t) PROVE BalanceInv'
  BY <1>1, <1>7, SettleBalanced DEF ConfirmReceived
<1>8. ASSUME NEW u \in Users, NEW t \in TransIds, CancelTransaction(u, t) PROVE BalanceInv'
  BY <1>1, <1>8, GiveBackBalanced DEF CancelTransaction
<1>9. ASSUME NEW t \in TransIds, ExpirePending(t) PROVE BalanceInv'
  BY <1>1, <1>2, <1>9, GiveBackBalanced DEF ExpirePending, Expirable
<1>10. ASSUME NEW t \in TransIds, ExpireConfirmed(t) PROVE BalanceInv'
  BY <1>1, <1>2, <1>10, SettleBalanced DEF ExpireConfirmed
<1>11. ASSUME NEW t \in TransIds, ReleaseDueBuyerLock(t) PROVE BalanceInv'
  <2> DEFINE new == [trans[t] EXCEPT !.released = TRUE]
  <2>1. trans[t] \in Trans /\ trans[t].status # "none" /\ trans' = [trans EXCEPT ![t] = new] /\ UNCHANGED orders
    BY <1>1, <1>11 DEF TypeOK, ReleaseDueBuyerLock, Due
  <2>2. new \in Trans /\ new.order = trans[t].order /\ new.amount = trans[t].amount /\ new.status = trans[t].status
    BY <2>1 DEF Trans
  <2> HIDE DEF new
  <2> QED  BY <1>1, <2>1, <2>2, BalanceKept
<1>12. ASSUME NEW c \in confirming, ConfirmPaymentSave(c) PROVE BalanceInv'
  <2> DEFINE r == trans[c.id]
             new == [r EXCEPT !.status = "payment_confirmed"]
  <2>1. c.id \in TransIds /\ r \in Trans /\ r.status = "pending" /\ c.row = r
    BY <1>1 DEF TypeOK, ConfirmRequest, Fresh
  <2>2. trans' = [trans EXCEPT ![c.id] = new] /\ UNCHANGED orders
    BY <1>12, <2>1 DEF ConfirmPaymentSave
  <2>3. new \in Trans /\ new.order = r.order /\ new.amount = r.amount /\ new.status = "payment_confirmed"
    BY <2>1 DEF Trans, TransStatus
  <2> HIDE DEF new
  <2> QED  BY <1>1, <2>1, <2>2, <2>3, BalanceKept DEF Live
<1>13. ASSUME NEW d \in disputing, CreateDisputeMark(d) PROVE BalanceInv'
  <2> DEFINE r == trans[d.id]
             new == [r EXCEPT !.dispute = TRUE]
  <2>1. d.id \in TransIds /\ r \in Trans /\ r.status # "none" /\ d.row = r
    BY <1>1 DEF TypeOK, DisputeRequest, Fresh
  <2>2. (trans' = [trans EXCEPT ![d.id] = new] \/ UNCHANGED trans) /\ UNCHANGED orders
    BY <1>13, <2>1 DEF CreateDisputeMark
  <2>3. new \in Trans /\ new.order = r.order /\ new.amount = r.amount /\ new.status = r.status
    BY <2>1 DEF Trans
  <2> HIDE DEF new
  <2> QED  BY <1>1, <1>2, <2>1, <2>2, <2>3, BalanceKept
<1>14. ASSUME NEW w \in updating, UpdateOrderBookSave(w) PROVE BalanceInv'
  <2> DEFINE ob == [orders[w.id] EXCEPT !.bounds = w.bounds]
  <2>1. w.id \in OrderIds /\ orders[w.id] \in Order /\ orders[w.id].status = "pending" /\ w.row = orders[w.id]
    BY <1>1 DEF TypeOK, UpdateRequest, Fresh
  <2>2. /\ orders' = [orders EXCEPT ![w.id] = ob] /\ UNCHANGED trans
        /\ ob.status # "none" /\ ob.remaining = orders[w.id].remaining /\ ob.amount = orders[w.id].amount
    BY <1>14, <2>1 DEF UpdateOrderBookSave, Order
  <2> HIDE DEF ob
  <2> QED  BY <1>4, <2>1, <2>2
<1>15. CASE ReadStep \/ Crash \/ ChangeFees \/ UNCHANGED vars
  BY <1>2, <1>15 DEF ReadStep, ConfirmPaymentRead, CreateDisputeCheck, UpdateOrderBookRead,
                     Crash, ChangeFees, vars
<1>16. ASSUME NEW d \in disputing, CreateDisputeInsert(d) PROVE BalanceInv'
  BY <1>2, <1>16 DEF CreateDisputeInsert
<1>17. ASSUME NEW t \in TransIds, ExpireConfirmedFails(t) PROVE BalanceInv'
  BY <1>2, <1>17 DEF ExpireConfirmedFails
<1>18. CASE LockedStep
  BY <1>3, <1>5, <1>6, <1>7, <1>8, <1>9, <1>10, <1>11, <1>17, <1>18 DEF LockedStep
<1> QED
  BY <1>12, <1>13, <1>14, <1>15, <1>16, <1>18 DEF SerialNext, SaveStep

\* BalanceInv holds from the empty tables on.
LEMMA BalanceAlways == SerialSpec => []BalanceInv
<1>1. Init => BalanceInv
  <2> SUFFICES ASSUME Init PROVE BalanceInv
    OBVIOUS
  <2>1. ASSUME NEW o \in OrderIds PROVE orders[o].remaining + TakenOf(o) = orders[o].amount
    <3> DEFINE f == [s \in TransIds |-> IF trans[s].order = o /\ trans[s].status \in Live \cup {"executed"}
                                       THEN trans[s].amount ELSE 0]
    <3>1. \A s \in TransIds : f[s] = 0
      BY DEF Init, NoTrans, Live
    <3>2. TakenOf(o) = Total(f, MaxTrans)
      BY DEF TakenOf
    <3> HIDE DEF f
    <3>3. TakenOf(o) = 0
      BY <3>1, <3>2, CountsAssumption, TotalZero DEF TransIds
    <3> QED  BY <3>3 DEF Init, NoOrder
  <2> QED  BY <2>1 DEF Init, BalanceInv, ListingBalanced, NoTrans
<1>2. SerialInv /\ BalanceInv /\ [SerialNext]_vars => BalanceInv'
  BY BalanceStep
<1> QED
  BY <1>1, <1>2, SerialInvariant, PTL DEF SerialSpec

\* When no handler runs between an unlocked read and its save, no listing is
\* oversold and none loses a part of its amount, whatever is taken, cancelled,
\* expired or settled.
THEOREM ListingsBalance == SerialSpec => []ListingBalanced
<1>1. BalanceInv => ListingBalanced
  BY DEF BalanceInv
<1> QED
  BY <1>1, BalanceAlways, PTL

-----------------------------------------------------------------------------
(* Every coin promised is there, where fees are fixed and come to a whole   *)
(* number of units: locking two parts is then locking their sum.            *)

FeesFixed == \A f, g \in FeeSettings : f = g
FeesExact ==
  \A f \in FeeSettings : \A a \in Amounts \cup TradeAmounts : \E k \in Nat : a * TotalFee(f) = k * FeeBase

\* The fee of amount a is k units exactly.
FeeIs(a, k) == k \in Nat /\ a * TotalFee(fees) = k * FeeBase
Exact(a)    == \E k \in Nat : FeeIs(a, k)

\* On a SELL listing the seller is who posted it.
SellerOwns(r) ==
  r.status # "none" /\ orders[r.order].option = "sell" => r.seller = orders[r.order].owner

PartsInv ==
  /\ fees \in FeeSettings
  /\ \A o \in OrderIds : Exact(orders[o].remaining)
  /\ \A t \in TransIds : Exact(trans[t].amount) /\ SellerOwns(trans[t])

\* A division that leaves less than the divisor.
LEMMA QuotientOf ==
  ASSUME NEW n \in Nat \ {0}, NEW q \in Nat, NEW m \in 0..(n - 1), NEW x \in Nat, x = q * n + m
  PROVE  x \div n = q
<1>1. x \div n \in Int /\ x % n \in 0..(n - 1) /\ x = n * (x \div n) + (x % n)
  OBVIOUS
<1> DEFINE d == x \div n
           e == x % n
<1>2. d \in Int /\ e \in 0..(n - 1) /\ q * n + m = d * n + e
  BY <1>1
<1> HIDE DEF d, e
<1>3. CASE d > q
  <2>1. d * n >= (q + 1) * n /\ (q + 1) * n = q * n + n
    BY <1>2, <1>3
  <2> QED  BY <1>2, <2>1
<1>4. CASE d < q
  <2>1. q * n >= (d + 1) * n /\ (d + 1) * n = d * n + n
    BY <1>2, <1>4
  <2> QED  BY <1>2, <2>1
<1> QED
  BY <1>2, <1>3, <1>4 DEF d

\* Rounding does nothing to a fee that is exact.
LEMMA ExactLock ==
  ASSUME fees \in [transaction : Nat, smartref : Nat], NEW a \in Nat, NEW k, FeeIs(a, k)
  PROVE  LockAmount(a, fees) = a + k
<1> DEFINE p == TotalFee(fees)
<1>1. p \in Nat /\ FeeBase \in Nat \ {0} /\ k \in Nat /\ a * p = k * FeeBase
  BY CountsAssumption DEF TotalFee, FeeIs
<1> HIDE DEF p
<1>2. 2 * a * p = 2 * (a * p) /\ k * (2 * FeeBase) = 2 * (k * FeeBase)
  BY <1>1
<1>3. /\ 2 * FeeBase \in Nat \ {0} /\ FeeBase \in 0..(2 * FeeBase - 1)
      /\ 2 * a * p + FeeBase \in Nat /\ 2 * a * p + FeeBase = k * (2 * FeeBase) + FeeBase
  BY <1>1, <1>2
<1>4. (2 * a * p + FeeBase) \div (2 * FeeBase) = k
  BY ONLY <1>1, <1>3, QuotientOf
<1> QED
  BY <1>4 DEF LockAmount, Percent, p

\* The sum and the difference of exact amounts are exact, and lock as much as
\* the two.
LEMMA ExactParts ==
  ASSUME fees \in [transaction : Nat, smartref : Nat], NEW a \in Nat, NEW b \in Nat, Exact(a), Exact(b)
  PROVE  /\ Exact(a + b) /\ LockAmount(a + b, fees) = LockAmount(a, fees) + LockAmount(b, fees)
         /\ a <= b => /\ Exact(b - a)
                      /\ LockAmount(b, fees) = LockAmount(b - a, fees) + LockAmount(a, fees)
<1>1. PICK k \in Nat, m \in Nat : FeeIs(a, k) /\ FeeIs(b, m)
  BY DEF Exact
<1> DEFINE p == TotalFee(fees)
<1>2. p \in Nat /\ FeeBase \in Nat \ {0} /\ a * p = k * FeeBase /\ b * p = m * FeeBase
  BY <1>1, CountsAssumption DEF TotalFee, FeeIs
<1> HIDE DEF p
<1>3. FeeIs(a + b, k + m)
  <2>1. (a + b) * p = a * p + b * p /\ (k + m) * FeeBase = k * FeeBase + m * FeeBase
    BY <1>2
  <2> QED  BY <1>2, <2>1 DEF FeeIs, p
<1>4. ASSUME a <= b
      PROVE  FeeIs(b - a, m - k)
  <2>1. (b - a) * p = b * p - a * p /\ (m - k) * FeeBase = m * FeeBase - k * FeeBase
    BY <1>2
  <2>2. (b - a) * p \in Nat
    BY <1>2, <1>4
  <2>3. (m - k) * FeeBase >= 0
    BY <1>2, <2>1, <2>2
  <2>4. m - k >= 0
    <3>1. \A x \in Int, y \in Nat \ {0} : x * y >= 0 => x >= 0
      OBVIOUS
    <3> QED  BY <1>2, <2>3, <3>1
  <2> QED  BY <1>2, <2>1, <2>4 DEF FeeIs, p
<1>5. k + m \in Nat /\ a + b \in Nat
  OBVIOUS
<1>6. Exact(a + b) /\ LockAmount(a + b, fees) = LockAmount(a, fees) + LockAmount(b, fees)
  BY <1>1, <1>3, <1>5, ExactLock DEF Exact
<1>7. ASSUME a <= b
      PROVE  Exact(b - a) /\ LockAmount(b, fees) = LockAmount(b - a, fees) + LockAmount(a, fees)
  <2>1. m - k \in Nat /\ b - a \in Nat
    BY <1>4, <1>7 DEF FeeIs
  <2>2. LockAmount(a, fees) = a + k /\ LockAmount(b, fees) = b + m /\ LockAmount(b - a, fees) = (b - a) + (m - k)
    BY <1>1, <1>4, <1>7, <2>1, ExactLock
  <2> QED  BY <1>4, <1>7, <2>1, <2>2 DEF Exact
<1> QED
  BY <1>6, <1>7

\* What the rows of listings and of transactions hold of user u's lock.
OHold(u, ob) ==
  IF ob.owner = u /\ ob.option = "sell" /\ ob.status # "failed" THEN LockAmount(ob.remaining, fees) ELSE 0
DHold(u, r, option) ==
  (IF r.status \in Live /\ r.seller = u
   THEN (IF option = "sell" THEN LockAmount(r.amount, fees) ELSE r.amount) ELSE 0)
  + (IF r.status = "executed" /\ r.unlockAt /\ ~r.released /\ r.buyer = u THEN r.amount ELSE 0)

OrdersHeld(u) == Total([o \in OrderIds |-> OrderHold(u, o)], MaxOrders)
DealsHeld(u)  == Total([t \in TransIds |-> SaleHold(u, t) + PurchaseHold(u, t)], MaxTrans)

\* A listing in use stays in use and keeps its owner and option.
TermsKept ==
  \A o \in OrderIds : orders[o].status # "none" =>
    orders'[o].owner = orders[o].owner /\ orders'[o].option = orders[o].option

LEMMA HoldsNat ==
  ASSUME TypeOK, NEW u
  PROVE  /\ \A ob \in Order : OHold(u, ob) \in Nat
         /\ \A r \in Trans : \A option : DHold(u, r, option) \in Nat
<1>1. fees \in [transaction : Nat, smartref : Nat]
  BY DEF TypeOK
<1>2. \A a \in Nat : LockAmount(a, fees) \in Nat
  BY <1>1, LockAmountNat
<1>3. \A ob \in Order : ob.remaining \in Nat
  BY DEF Order
<1>4. \A r \in Trans : r.amount \in Nat
  BY DEF Trans
<1>5. \A ob \in Order : OHold(u, ob) \in Nat
  BY <1>2, <1>3 DEF OHold
<1>6. ASSUME NEW r \in Trans, NEW option  PROVE DHold(u, r, option) \in Nat
  BY <1>2, <1>4 DEF DHold
<1> QED
  BY <1>5, <1>6

\* When one listing is rewritten, what listings hold changes by what it holds.
LEMMA OrdersHeldChange ==
  ASSUME TypeOK, TypeOK', fees' = fees, NEW o \in OrderIds, NEW ob, orders' = [orders EXCEPT ![o] = ob], NEW u
  PROVE  OrdersHeld(u) \in Int /\ OrdersHeld(u)' = OrdersHeld(u) + OHold(u, ob) - OHold(u, orders[o])
<1> DEFINE f == [p \in OrderIds |-> OrderHold(u, p)]
           g == [p \in OrderIds |-> OrderHold(u, p)']
<1>1. OrdersHeld(u) = Total(f, MaxOrders) /\ OrdersHeld(u)' = Total(g, MaxOrders)
  BY DEF OrdersHeld
<1>2. /\ orders \in [OrderIds -> Order] /\ orders'[o] = ob /\ ob \in Order
      /\ \A p \in OrderIds \ {o} : orders'[p] = orders[p]
  BY DEF TypeOK
<1>3. \A p \in OrderIds : OrderHold(u, p) = OHold(u, orders[p]) /\ OrderHold(u, p)' = OHold(u, orders'[p])
  BY DEF OrderHold, OHold
<1>4. \A p \in OrderIds : f[p] = OHold(u, orders[p]) /\ g[p] = OHold(u, orders'[p])
  BY <1>3
<1>5. /\ \A p \in OrderIds : f[p] \in Int /\ g[p] \in Int /\ (p # o => g[p] = f[p])
      /\ f[o] = OHold(u, orders[o]) /\ g[o] = OHold(u, ob)
  BY <1>2, <1>4, HoldsNat
<1> HIDE DEF f, g
<1>6. Total(f, MaxOrders) \in Int
  BY <1>5, CountsAssumption, TotalInt DEF OrderIds
<1>7. Total(g, MaxOrders) = Total(f, MaxOrders) + g[o] - f[o]
  <2>1. MaxOrders \in Nat /\ o \in 1..MaxOrders
    BY CountsAssumption DEF OrderIds
  <2>2. \A p \in 1..MaxOrders : f[p] \in Int /\ g[p] \in Int /\ (p # o => g[p] = f[p])
    BY <1>5 DEF OrderIds
  <2> QED  BY ONLY <2>1, <2>2, TotalChange
<1> QED
  BY <1>1, <1>5, <1>6, <1>7

\* What one transaction holds, as the row and the option of its listing say.
LEMMA DealHolds ==
  ASSUME fees' = fees, NEW u, NEW t \in TransIds
  PROVE  /\ SaleHold(u, t) + PurchaseHold(u, t) = DHold(u, trans[t], orders[trans[t].order].option)
         /\ (SaleHold(u, t) + PurchaseHold(u, t))' = DHold(u, trans'[t], orders'[trans'[t].order].option)
  BY DEF SaleHold, PurchaseHold, DHold, Debit, IsSell

\* A transaction whose row stays holds what it held.
LEMMA DealStays ==
  ASSUME TypeOK, GoodRows, BalanceInv, TermsKept, NEW u, NEW t \in TransIds, trans'[t] = trans[t]
  PROVE  DHold(u, trans'[t], orders'[trans'[t].order].option) = DHold(u, trans[t], orders[trans[t].order].option)
<1>1. CASE trans[t].status = "none"
  BY <1>1 DEF DHold, Live
<1>2. CASE trans[t].status # "none"
  <2>1. trans[t].order \in OrderIds /\ orders[trans[t].order].status # "none"
    BY <1>2 DEF GoodRows, GoodTrans, BalanceInv
  <2>2. orders'[trans[t].order].option = orders[trans[t].order].option
    BY <2>1 DEF TermsKept
  <2> QED  BY <2>2
<1> QED
  BY <1>1, <1>2

\* When one transaction is rewritten, what transactions hold changes by what it
\* holds; and if none is, not at all.
LEMMA DealsHeldChange ==
  ASSUME TypeOK, TypeOK', GoodRows, BalanceInv, fees' = fees, TermsKept,
         NEW t \in TransIds, NEW r, trans' = [trans EXCEPT ![t] = r], NEW u
  PROVE  /\ DealsHeld(u) \in Int
         /\ DealsHeld(u)' = DealsHeld(u) + DHold(u, r, orders'[r.order].option)
                                         - DHold(u, trans[t], orders[trans[t].order].option)
<1> DEFINE f == [s \in TransIds |-> SaleHold(u, s) + PurchaseHold(u, s)]
           g == [s \in TransIds |-> (SaleHold(u, s) + PurchaseHold(u, s))']
<1>1. DealsHeld(u) = Total(f, MaxTrans) /\ DealsHeld(u)' = Total(g, MaxTrans)
  BY DEF DealsHeld
<1>2. /\ trans \in [TransIds -> Trans] /\ trans'[t] = r /\ r \in Trans
      /\ \A s \in TransIds \ {t} : trans'[s] = trans[s]
  BY DEF TypeOK
<1>3. \A s \in TransIds : /\ f[s] = DHold(u, trans[s], orders[trans[s].order].option)
                          /\ g[s] = DHold(u, trans'[s], orders'[trans'[s].order].option)
  BY DealHolds
<1> HIDE DEF f, g
<1>4. /\ \A s \in TransIds : f[s] \in Int /\ g[s] \in Int
      /\ f[t] = DHold(u, trans[t], orders[trans[t].order].option)
      /\ g[t] = DHold(u, r, orders'[r.order].option)
  <2>1. \A x \in Trans : \A option : DHold(u, x, option) \in Int
    BY HoldsNat
  <2>2. \A s \in TransIds : trans[s] \in Trans /\ trans'[s] \in Trans
    BY <1>2
  <2> QED  BY ONLY <1>2, <1>3, <2>1, <2>2
<1>5. ASSUME NEW s \in TransIds, s # t  PROVE g[s] = f[s]
  BY <1>2, <1>3, <1>5, DealStays
<1>6. Total(f, MaxTrans) \in Int
  BY <1>4, CountsAssumption, TotalInt DEF TransIds
<1>7. Total(g, MaxTrans) = Total(f, MaxTrans) + g[t] - f[t]
  <2>1. MaxTrans \in Nat /\ t \in 1..MaxTrans
    BY CountsAssumption DEF TransIds
  <2>2. \A s \in 1..MaxTrans : f[s] \in Int /\ g[s] \in Int /\ (s # t => g[s] = f[s])
    BY <1>4, <1>5 DEF TransIds
  <2> QED  BY ONLY <2>1, <2>2, TotalChange
<1> QED
  BY <1>1, <1>4, <1>6, <1>7

LEMMA HeldSame ==
  ASSUME TypeOK, GoodRows, BalanceInv, fees' = fees, NEW u
  PROVE  /\ OrdersHeld(u) \in Int /\ DealsHeld(u) \in Int /\ Hold(u) = OrdersHeld(u) + DealsHeld(u)
         /\ Hold(u)' = OrdersHeld(u)' + DealsHeld(u)'
         /\ orders' = orders => OrdersHeld(u)' = OrdersHeld(u)
         /\ trans' = trans /\ TermsKept => DealsHeld(u)' = DealsHeld(u)
<1>1. Hold(u) = OrdersHeld(u) + DealsHeld(u) /\ Hold(u)' = OrdersHeld(u)' + DealsHeld(u)'
  BY DEF Hold, OrdersHeld, DealsHeld
<1>2. orders' = orders => OrdersHeld(u)' = OrdersHeld(u)
  BY DEF OrdersHeld, OrderHold
<1>3. OrdersHeld(u) \in Int
  <2> DEFINE f == [p \in OrderIds |-> OrderHold(u, p)]
  <2>1. \A p \in OrderIds : f[p] = OHold(u, orders[p])
    BY DEF OrderHold, OHold
  <2>2. OrdersHeld(u) = Total(f, MaxOrders)
    BY DEF OrdersHeld
  <2> HIDE DEF f
  <2>3. \A p \in OrderIds : f[p] \in Int
    BY <2>1, HoldsNat DEF TypeOK
  <2> QED  BY <2>2, <2>3, CountsAssumption, TotalInt DEF OrderIds
<1> DEFINE g == [s \in TransIds |-> SaleHold(u, s) + PurchaseHold(u, s)]
           h == [s \in TransIds |-> (SaleHold(u, s) + PurchaseHold(u, s))']
<1>4. DealsHeld(u) = Total(g, MaxTrans) /\ DealsHeld(u)' = Total(h, MaxTrans)
  BY DEF DealsHeld
<1>5. \A s \in TransIds : /\ g[s] = DHold(u, trans[s], orders[trans[s].order].option)
                          /\ h[s] = DHold(u, trans'[s], orders'[trans'[s].order].option)
  BY DealHolds
<1> HIDE DEF g, h
<1>6. DealsHeld(u) \in Int
  <2>1. \A s \in TransIds : g[s] \in Int
    <3>1. \A x \in Trans : \A option : DHold(u, x, option) \in Int
      BY HoldsNat
    <3>2. \A s \in TransIds : trans[s] \in Trans
      BY DEF TypeOK
    <3> QED  BY ONLY <1>5, <3>1, <3>2
  <2> QED  BY <1>4, <2>1, CountsAssumption, TotalInt DEF TransIds
<1>7. ASSUME trans' = trans, TermsKept  PROVE DealsHeld(u)' = DealsHeld(u)
  <2>1. \A s \in TransIds : g[s] = h[s]
    BY <1>5, <1>7, DealStays
  <2> QED  BY <1>4, <2>1, CountsAssumption, TotalSame DEF TransIds
<1> QED
  BY <1>1, <1>2, <1>3, <1>6, <1>7

\* What a step starts from.
Ready == TypeOK /\ GoodRows /\ BalanceInv /\ PartsInv /\ Backed

\* What a user's rows hold changes by what the rewritten rows hold.
LEMMA HoldByOrder ==
  ASSUME Ready, TypeOK', fees' = fees, trans' = trans, TermsKept,
         NEW o \in OrderIds, NEW ob, orders' = [orders EXCEPT ![o] = ob], NEW u \in Users
  PROVE  Hold(u) \in Int /\ Hold(u)' \in Int /\ Hold(u)' - Hold(u) = OHold(u, ob) - OHold(u, orders[o])
<1>1. /\ OrdersHeld(u) \in Int /\ DealsHeld(u) \in Int /\ Hold(u) = OrdersHeld(u) + DealsHeld(u)
      /\ Hold(u)' = OrdersHeld(u)' + DealsHeld(u)' /\ DealsHeld(u)' = DealsHeld(u)
  BY HeldSame DEF Ready
<1>2. OrdersHeld(u)' = OrdersHeld(u) + OHold(u, ob) - OHold(u, orders[o])
  BY OrdersHeldChange DEF Ready
<1>3. OHold(u, ob) \in Int /\ OHold(u, orders[o]) \in Int
  <2>1. ob \in Order /\ orders[o] \in Order /\ \A x \in Order : OHold(u, x) \in Nat
    BY HoldsNat DEF Ready, TypeOK
  <2> QED  BY <2>1
<1> QED
  BY ONLY <1>1, <1>2, <1>3

LEMMA HoldByDeal ==
  ASSUME Ready, TypeOK', fees' = fees, orders' = orders,
         NEW t \in TransIds, NEW r, trans' = [trans EXCEPT ![t] = r], NEW u \in Users
  PROVE  /\ Hold(u) \in Int /\ Hold(u)' \in Int
         /\ Hold(u)' - Hold(u) = DHold(u, r, orders[r.order].option)
                                   - DHold(u, trans[t], orders[trans[t].order].option)
<1> DEFINE after == DHold(u, r, orders[r.order].option)
           before == DHold(u, trans[t], orders[trans[t].order].option)
<1>1. /\ OrdersHeld(u) \in Int /\ DealsHeld(u) \in Int /\ Hold(u) = OrdersHeld(u) + DealsHeld(u)
      /\ Hold(u)' = OrdersHeld(u)' + DealsHeld(u)' /\ OrdersHeld(u)' = OrdersHeld(u)
  BY HeldSame DEF Ready
<1>2. DealsHeld(u)' = DealsHeld(u) + after - before
  <2>1. TermsKept
    BY DEF TermsKept
  <2>2. orders'[r.order].option = orders[r.order].option
    OBVIOUS
  <2> QED  BY <2>1, <2>2, DealsHeldChange DEF Ready
<1>3. after \in Int /\ before \in Int
  <2>1. r \in Trans /\ trans[t] \in Trans /\ \A x \in Trans : \A option : DHold(u, x, option) \in Nat
    BY HoldsNat DEF Ready, TypeOK
  <2> QED  BY <2>1
<1> QED
  BY ONLY <1>1, <1>2, <1>3

\* Listing o is rewritten, and transaction t; and what they then hold together of
\* a user's lock more than before.
OrderBecomes(o, ob) == orders' = [orders EXCEPT ![o] = ob]
DealBecomes(t, r)   == trans' = [trans EXCEPT ![t] = r]
BothMore(u, ob, o, r, t) ==
  (OHold(u, ob) - OHold(u, orders[o]))
    + (DHold(u, r, ob.option) - DHold(u, trans[t], orders[trans[t].order].option))

LEMMA HoldByBoth ==
  ASSUME Ready, TypeOK', fees' = fees, TermsKept,
         NEW o \in OrderIds, NEW ob, OrderBecomes(o, ob),
         NEW t \in TransIds, NEW r, DealBecomes(t, r), r.order = o, NEW u \in Users
  PROVE  /\ Hold(u) \in Int /\ Hold(u)' \in Int
         /\ Hold(u)' - Hold(u) = BothMore(u, ob, o, r, t)
<1> DEFINE after == DHold(u, r, ob.option)
           before == DHold(u, trans[t], orders[trans[t].order].option)
<1>1. /\ OrdersHeld(u) \in Int /\ DealsHeld(u) \in Int /\ Hold(u) = OrdersHeld(u) + DealsHeld(u)
      /\ Hold(u)' = OrdersHeld(u)' + DealsHeld(u)'
  BY HeldSame DEF Ready
<1>2. DealsHeld(u)' = DealsHeld(u) + after - before
  <2>1. orders'[r.order].option = ob.option
    BY DEF Ready, TypeOK, OrderBecomes
  <2> QED  BY <2>1, DealsHeldChange DEF Ready, DealBecomes
<1>3. OrdersHeld(u)' = OrdersHeld(u) + OHold(u, ob) - OHold(u, orders[o])
  BY OrdersHeldChange DEF Ready, OrderBecomes
<1>4. after \in Int /\ before \in Int /\ OHold(u, ob) \in Int /\ OHold(u, orders[o]) \in Int
  <2>1. /\ r \in Trans /\ trans[t] \in Trans /\ \A x \in Trans : \A option : DHold(u, x, option) \in Nat
        /\ ob \in Order /\ orders[o] \in Order /\ \A x \in Order : OHold(u, x) \in Nat
    BY HoldsNat DEF Ready, TypeOK, OrderBecomes, DealBecomes
  <2> QED  BY <2>1
<1> QED
  BY ONLY <1>1, <1>2, <1>3, <1>4 DEF BothMore

\* A lock that changes by no less than what it covers goes on covering it, and
\* one that changes by just that strands nothing.
LEMMA LockFollows ==
  ASSUME Ready, TypeOK', \A u \in Users : Hold(u) \in Int /\ Hold(u)' \in Int
  PROVE  /\ (\A u \in Users : Hold(u)' - Hold(u) <= lock'[u] - lock[u]) => Backed'
         /\ (\A u \in Users : Hold(u)' - Hold(u) = lock'[u] - lock[u])
              => Backed' /\ (NothingStranded => NothingStranded')
<1>1. \A u \in Users : lock[u] \in Int /\ lock'[u] \in Int /\ lock[u] >= Hold(u)
  BY DEF Ready, TypeOK, Backed
<1>2. ASSUME \A u \in Users : Hold(u)' - Hold(u) <= lock'[u] - lock[u]
      PROVE  Backed'
  <2>1. ASSUME NEW u \in Users PROVE lock'[u] >= Hold(u)'
    BY <1>1, <1>2
  <2> QED  BY <2>1 DEF Backed
<1>3. ASSUME \A u \in Users : Hold(u)' - Hold(u) = lock'[u] - lock[u]
      PROVE  Backed' /\ (NothingStranded => NothingStranded')
  <2>1. ASSUME NEW u \in Users PROVE lock'[u] >= Hold(u)'
    BY <1>1, <1>3
  <2>2. ASSUME NothingStranded, NEW u \in Users PROVE lock'[u] <= Hold(u)'
    BY <1>1, <1>3, <2>2 DEF NothingStranded
  <2> QED  BY <2>1, <2>2 DEF Backed, NothingStranded
<1> QED
  BY <1>2, <1>3

LEMMA BackedByOrder ==
  ASSUME Ready, TypeOK', fees' = fees, trans' = trans, TermsKept,
         NEW o \in OrderIds, NEW ob, orders' = [orders EXCEPT ![o] = ob]
  PROVE  /\ (\A u \in Users : OHold(u, ob) - OHold(u, orders[o]) <= lock'[u] - lock[u]) => Backed'
         /\ (\A u \in Users : OHold(u, ob) - OHold(u, orders[o]) = lock'[u] - lock[u])
              => Backed' /\ (NothingStranded => NothingStranded')
<1>1. \A u \in Users : /\ Hold(u) \in Int /\ Hold(u)' \in Int
                       /\ Hold(u)' - Hold(u) = OHold(u, ob) - OHold(u, orders[o])
  BY HoldByOrder
<1> QED
  BY <1>1, LockFollows

LEMMA BackedByDeal ==
  ASSUME Ready, TypeOK', fees' = fees, orders' = orders,
         NEW t \in TransIds, NEW r, trans' = [trans EXCEPT ![t] = r],
         \A u \in Users : DHold(u, r, orders[r.order].option)
                           - DHold(u, trans[t], orders[trans[t].order].option) = lock'[u] - lock[u]
  PROVE  Backed' /\ (NothingStranded => NothingStranded')
<1>1. \A u \in Users : /\ Hold(u) \in Int /\ Hold(u)' \in Int
                       /\ Hold(u)' - Hold(u) = DHold(u, r, orders[r.order].option)
                                                 - DHold(u, trans[t], orders[trans[t].order].option)
  BY HoldByDeal
<1> QED
  BY <1>1, LockFollows

\* The amounts of rows stay exact and the sellers of SELL listings their owners
\* when every row that changes sees to it.
PartKept(ob)   == Exact(ob.remaining)
DealKept(r, o) == Exact(r.amount) /\ (r.status # "none" /\ o.option = "sell" => r.seller = o.owner)

LEMMA PartsStay ==
  ASSUME Ready, fees' = fees, TermsKept,
         \A o \in OrderIds : orders'[o] = orders[o] \/ PartKept(orders'[o]),
         \A t \in TransIds : trans'[t] = trans[t] \/ DealKept(trans'[t], orders'[trans'[t].order])
  PROVE  PartsInv'
<1>1. \A a : Exact(a)' <=> Exact(a)
  BY DEF Exact, FeeIs
<1>2. \A o \in OrderIds : Exact(orders'[o].remaining)
  BY DEF Ready, PartsInv, PartKept
<1>3. ASSUME NEW t \in TransIds
      PROVE  DealKept(trans'[t], orders'[trans'[t].order])
  <2>1. CASE trans'[t] = trans[t]
    <3>1. Exact(trans[t].amount) /\ SellerOwns(trans[t])
      BY DEF Ready, PartsInv
    <3>2. CASE trans[t].status = "none"
      BY <2>1, <3>1, <3>2 DEF DealKept
    <3>3. CASE trans[t].status # "none"
      <4>1. trans[t].order \in OrderIds /\ orders[trans[t].order].status # "none"
        BY <3>3 DEF Ready, GoodRows, GoodTrans, BalanceInv
      <4>2. /\ orders'[trans[t].order].option = orders[trans[t].order].option
            /\ orders'[trans[t].order].owner = orders[trans[t].order].owner
        BY <4>1 DEF TermsKept
      <4> QED  BY <2>1, <3>1, <4>2 DEF DealKept, SellerOwns
    <3> QED  BY <3>2, <3>3
  <2>2. CASE DealKept(trans'[t], orders'[trans'[t].order])
    BY <2>2
  <2> QED  BY <2>1, <2>2
<1>4. \A o \in OrderIds : Exact(orders[o].remaining)'
  BY <1>2 DEF Exact, FeeIs
<1>5. \A t \in TransIds : Exact(trans[t].amount)' /\ SellerOwns(trans[t])'
  BY <1>3 DEF DealKept, SellerOwns, Exact, FeeIs
<1>6. (fees \in FeeSettings)'
  BY DEF Ready, PartsInv
<1> QED
  BY <1>4, <1>5, <1>6 DEF PartsInv

\* A listing or an offer for a part of one has an exact amount.
LEMMA AskedIsExact ==
  ASSUME Ready, FeesExact, NEW a \in Amounts \cup TradeAmounts
  PROVE  Exact(a)
  BY DEF Ready, PartsInv, FeesExact, Exact, FeeIs

\* No user owns a listing that is not in use, and no sale that is not over is of
\* a deleted listing.
UnusedAreNobodys == \A o \in OrderIds : orders[o].status = "none" => orders[o].owner \notin Users
SalesHaveListings ==
  \A t \in TransIds :
    trans[t].status \in Live /\ IsSell(trans[t]) => orders[trans[t].order].status # "failed"

\* Posting: the lock grows by what the new listing holds.
LEMMA PostBacked ==
  ASSUME Ready, TypeOK', FeesExact, NEW u \in Users, NEW option \in {"buy", "sell"},
         NEW a \in Amounts, NEW b \in TradeBounds, CreateOrderBook(u, option, a, b)
  PROVE  /\ PartsInv' /\ Backed'
         /\ NothingStranded /\ UnusedAreNobodys => NothingStranded'
<1> DEFINE ob == [owner |-> u, option |-> option, amount |-> a, remaining |-> a,
                  bounds |-> b, status |-> "pending"]
           held == IF option = "sell" THEN LockAmount(a, fees) ELSE 0
<1>1. PICK o \in OrderIds : /\ NextOrder(o) /\ orders' = [orders EXCEPT ![o] = ob]
                           /\ trans' = trans /\ fees' = fees
                           /\ lock' = [lock EXCEPT ![u] = @ + held]
  BY DEF CreateOrderBook
<1>2. orders \in [OrderIds -> Order] /\ lock \in [Users -> Nat] /\ fees \in [transaction : Nat, smartref : Nat] /\ a \in Nat
  BY AmountsAssumption DEF Ready, TypeOK
<1>3. TermsKept
  BY <1>1, <1>2 DEF TermsKept, NextOrder
<1>4. \A p \in OrderIds : orders'[p] = orders[p] \/ PartKept(orders'[p])
  BY <1>1, <1>2, AskedIsExact DEF PartKept
<1>5. PartsInv'
  BY <1>1, <1>3, <1>4, PartsStay
<1>6. \A v \in Users : OHold(v, ob) = IF v = u THEN held ELSE 0
  BY DEF OHold
<1>7. held \in Nat
  BY <1>2, LockAmountNat
<1>8. \A v \in Users : lock'[v] - lock[v] = IF v = u THEN held ELSE 0
  <2> HIDE DEF held
  <2> QED  BY <1>1, <1>2, <1>7
<1>9. \A v \in Users : OHold(v, orders[o]) \in Nat
  BY <1>2, HoldsNat DEF Ready
<1> HIDE DEF ob, held
<1>10. \A v \in Users : OHold(v, ob) - OHold(v, orders[o]) <= lock'[v] - lock[v]
  BY <1>6, <1>7, <1>8, <1>9
<1>11. ASSUME UnusedAreNobodys
       PROVE  \A v \in Users : OHold(v, ob) - OHold(v, orders[o]) = lock'[v] - lock[v]
  <2>1. \A v \in Users : OHold(v, orders[o]) = 0
    BY <1>1, <1>11 DEF UnusedAreNobodys, NextOrder, OHold
  <2> QED  BY <1>6, <1>7, <1>8, <2>1
<1> QED
  BY <1>1, <1>3, <1>5, <1>10, <1>11, BackedByOrder

\* Deleting: the lock shrinks by what the listing held.
LEMMA DeleteBacked ==
  ASSUME Ready, TypeOK', NEW o \in OrderIds, DeleteOrderBook(o)
  PROVE  PartsInv' /\ Backed' /\ (NothingStranded => NothingStranded')
<1> DEFINE ob == [orders[o] EXCEPT !.status = "failed"]
           held == IF orders[o].option = "sell" THEN LockAmount(orders[o].remaining, fees) ELSE 0
<1>1. /\ orders' = [orders EXCEPT ![o] = ob] /\ trans' = trans /\ fees' = fees
      /\ lock' = [lock EXCEPT ![orders[o].owner] = @ - held] /\ orders[o].status = "pending"
  BY DEF DeleteOrderBook
<1>2. /\ orders \in [OrderIds -> Order] /\ lock \in [Users -> Nat] /\ orders[o] \in Order
      /\ fees \in [transaction : Nat, smartref : Nat] /\ orders[o].remaining \in Nat
  BY DEF Ready, TypeOK, Order
<1>3. /\ ob.status = "failed" /\ ob.owner = orders[o].owner /\ ob.option = orders[o].option
      /\ ob.remaining = orders[o].remaining
  BY <1>2 DEF Order
<1>4. held \in Nat
  BY <1>2, LockAmountNat
<1>5. \A v \in Users : OHold(v, orders[o]) = IF v = orders[o].owner THEN held ELSE 0
  BY <1>1 DEF OHold
<1> HIDE DEF ob, held
<1>6. \A v \in Users : OHold(v, ob) = 0
  BY <1>3 DEF OHold
<1>7. \A v \in Users : lock'[v] - lock[v] = IF v = orders[o].owner THEN 0 - held ELSE 0
  BY <1>1, <1>2, <1>4
<1>8. TermsKept
  BY <1>1, <1>2, <1>3 DEF TermsKept
<1>9. \A p \in OrderIds : orders'[p] = orders[p] \/ PartKept(orders'[p])
  BY <1>1, <1>2, <1>3 DEF PartKept, Ready, PartsInv
<1>10. \A v \in Users : OHold(v, ob) - OHold(v, orders[o]) = lock'[v] - lock[v]
  BY <1>4, <1>5, <1>6, <1>7
<1> QED
  BY <1>1, <1>8, <1>9, <1>10, PartsStay, BackedByOrder

\* Taking a part: a SELL listing holds less by what the sale holds, a BUY
\* listing makes the seller lock it.
LEMMA TakeBacked ==
  ASSUME Ready, TypeOK', FeesExact, NEW u \in Users, NEW o \in OrderIds, NEW a \in TradeAmounts,
         CreateTransaction(u, o, a)
  PROVE  PartsInv' /\ Backed' /\ (NothingStranded => NothingStranded')
<1> DEFINE ob == orders[o]
           ot == Taken(ob, a)
           held == IF ob.option = "buy" THEN a ELSE 0
           new == [NoTrans EXCEPT !.buyer = IF ob.option = "sell" THEN u ELSE ob.owner,
                                  !.seller = IF ob.option = "sell" THEN ob.owner ELSE u,
                                  !.order = o, !.amount = a, !.status = "pending"]
<1>1. PICK t \in TransIds :
        /\ NextTrans(t) /\ ob.status = "pending" /\ a <= ob.remaining
        /\ orders' = [orders EXCEPT ![o] = ot] /\ trans' = [trans EXCEPT ![t] = new]
        /\ lock' = [lock EXCEPT ![u] = @ + held] /\ fees' = fees
  BY DEF CreateTransaction
<1>2. /\ orders \in [OrderIds -> Order] /\ trans \in [TransIds -> Trans] /\ lock \in [Users -> Nat]
      /\ fees \in [transaction : Nat, smartref : Nat]
      /\ ob \in Order /\ a \in Nat /\ ob.remaining \in Nat /\ ob.option \in {"buy", "sell"}
  BY AmountsAssumption DEF Ready, TypeOK, Order
<1>3. /\ ot.remaining = ob.remaining - a /\ ot.owner = ob.owner /\ ot.option = ob.option
      /\ ot.status # "failed"
  BY <1>1, <1>2 DEF Taken, Order
<1>4. /\ new.order = o /\ new.amount = a /\ new.status = "pending"
      /\ new.seller = IF ob.option = "sell" THEN ob.owner ELSE u
  BY DEF NoTrans
<1>5. trans[t].status = "none"
  BY <1>1 DEF NextTrans
<1> HIDE DEF ot, new
<1>6. Exact(a) /\ Exact(ob.remaining)
  BY AskedIsExact DEF Ready, PartsInv
<1>7. /\ Exact(ob.remaining - a)
      /\ LockAmount(ob.remaining, fees) = LockAmount(ob.remaining - a, fees) + LockAmount(a, fees)
  BY <1>1, <1>2, <1>6, ExactParts
<1>8. LockAmount(ob.remaining - a, fees) \in Nat /\ LockAmount(a, fees) \in Nat
  <2>1. ob.remaining - a \in Nat
    BY <1>1, <1>2
  <2> QED  BY <1>2, <2>1, LockAmountNat
<1>9. TermsKept
  BY <1>1, <1>2, <1>3 DEF TermsKept
<1>10. \A p \in OrderIds : orders'[p] = orders[p] \/ PartKept(orders'[p])
  BY <1>1, <1>2, <1>3, <1>7 DEF PartKept
<1>11. \A x \in TransIds : trans'[x] = trans[x] \/ DealKept(trans'[x], orders'[trans'[x].order])
  BY <1>1, <1>2, <1>3, <1>4, <1>6 DEF DealKept
<1>12. PartsInv'
  BY <1>1, <1>9, <1>10, <1>11, PartsStay
<1>13. ASSUME NEW v \in Users
       PROVE  BothMore(v, ot, o, new, t) = lock'[v] - lock[v]
  <2>1. DHold(v, trans[t], orders[trans[t].order].option) = 0
    BY <1>5 DEF DHold, Live
  <2>2. lock'[v] - lock[v] = IF v = u THEN held ELSE 0
    BY <1>1, <1>2
  <2>3. CASE ob.option = "sell"
    <3>1. OHold(v, ot) = IF v = ob.owner THEN LockAmount(ob.remaining - a, fees) ELSE 0
      BY <1>3, <2>3 DEF OHold
    <3>2. OHold(v, ob) = IF v = ob.owner THEN LockAmount(ob.remaining, fees) ELSE 0
      BY <1>1, <2>3 DEF OHold
    <3>3. DHold(v, new, ot.option) = IF v = ob.owner THEN LockAmount(a, fees) ELSE 0
      BY <1>3, <1>4, <1>8, <2>3 DEF DHold, Live
    <3>4. held = 0
      BY <2>3
    <3> QED  BY ONLY <1>7, <1>8, <2>1, <2>2, <3>1, <3>2, <3>3, <3>4 DEF BothMore
  <2>4. CASE ob.option = "buy"
    <3>1. OHold(v, ot) = 0 /\ OHold(v, ob) = 0
      BY <1>3, <2>4 DEF OHold
    <3>2. DHold(v, new, ot.option) = IF v = u THEN a ELSE 0
      BY <1>2, <1>3, <1>4, <2>4 DEF DHold, Live
    <3>3. held = a
      BY <2>4
    <3> QED  BY ONLY <1>2, <2>1, <2>2, <3>1, <3>2, <3>3 DEF BothMore
  <2> QED  BY <1>2, <2>3, <2>4
<1>14. OrderBecomes(o, ot) /\ DealBecomes(t, new)
  BY <1>1 DEF OrderBecomes, DealBecomes
<1>15. ASSUME NEW v \in Users
       PROVE  Hold(v) \in Int /\ Hold(v)' \in Int /\ Hold(v)' - Hold(v) = BothMore(v, ot, o, new, t)
  BY <1>1, <1>4, <1>9, <1>14, HoldByBoth
<1> QED
  BY <1>12, <1>13, <1>15, LockFollows

\* Giving a part back: a SELL listing holds it again, the seller on a BUY listing
\* gets back no more than was locked.
LEMMA GiveBackBacked ==
  ASSUME Ready, TypeOK', fees' = fees, NEW t \in TransIds, NEW st \in {"cancelled", "failed"}, NEW held \in Nat,
         trans[t].status = "pending", trans' = [trans EXCEPT ![t].status = st],
         orders' = [orders EXCEPT ![trans[t].order] = Restored(@, trans[t].amount)],
         lock' = [lock EXCEPT ![trans[t].seller] = @ - held],
         held <= trans[t].amount, IsSell(trans[t]) => held = 0
  PROVE  /\ PartsInv' /\ Backed'
         /\ NothingStranded /\ SalesHaveListings /\ (IsSell(trans[t]) \/ held = trans[t].amount)
              => NothingStranded'
<1> DEFINE r == trans[t]
           o == r.order
           ob == orders[o]
           back == Restored(ob, r.amount)
           new == [r EXCEPT !.status = st]
<1>1. /\ orders \in [OrderIds -> Order] /\ trans \in [TransIds -> Trans] /\ lock \in [Users -> Nat]
      /\ fees \in [transaction : Nat, smartref : Nat] /\ r \in Trans /\ r.amount \in Nat
  BY DEF Ready, TypeOK, Trans
<1>2. o \in OrderIds /\ ob.status # "none" /\ r.seller \in Users
  BY DEF Ready, GoodRows, GoodTrans, BalanceInv
<1>3. ob \in Order /\ ob.remaining \in Nat /\ ob.option \in {"buy", "sell"}
  BY <1>1, <1>2 DEF Order
<1>4. /\ back.remaining = ob.remaining + r.amount /\ back.owner = ob.owner /\ back.option = ob.option
      /\ back.status = "failed" <=> ob.status = "failed"
  BY <1>3 DEF Restored, Order
<1>5. new.status = st /\ new.order = o /\ new.amount = r.amount /\ new.seller = r.seller
  BY <1>1 DEF Trans
<1>6. orders' = [orders EXCEPT ![o] = back] /\ trans' = [trans EXCEPT ![t] = new]
  OBVIOUS
<1>7. Exact(r.amount) /\ Exact(ob.remaining) /\ (ob.option = "sell" => r.seller = ob.owner)
  BY <1>2 DEF Ready, PartsInv, SellerOwns
<1> HIDE DEF back, new
<1>8. /\ Exact(ob.remaining + r.amount)
      /\ LockAmount(ob.remaining + r.amount, fees) = LockAmount(ob.remaining, fees) + LockAmount(r.amount, fees)
  BY <1>1, <1>3, <1>7, ExactParts
<1>9. LockAmount(ob.remaining, fees) \in Nat /\ LockAmount(r.amount, fees) \in Nat
  BY <1>1, <1>3, LockAmountNat
<1>10. TermsKept
  BY <1>1, <1>4, <1>6 DEF TermsKept
<1>11. \A p \in OrderIds : orders'[p] = orders[p] \/ PartKept(orders'[p])
  BY <1>1, <1>4, <1>6, <1>8 DEF PartKept
<1>12. \A x \in TransIds : trans'[x] = trans[x] \/ DealKept(trans'[x], orders'[trans'[x].order])
  BY <1>1, <1>2, <1>4, <1>5, <1>6, <1>7 DEF DealKept
<1>13. PartsInv'
  BY <1>10, <1>11, <1>12, PartsStay
<1>14. ASSUME NEW v \in Users
       PROVE  /\ BothMore(v, back, o, new, t) <= lock'[v] - lock[v]
              /\ SalesHaveListings /\ (IsSell(r) \/ held = r.amount)
                   => BothMore(v, back, o, new, t) = lock'[v] - lock[v]
  <2>1. DHold(v, new, back.option) = 0
    BY <1>5 DEF DHold, Live
  <2>2. lock'[v] - lock[v] = IF v = r.seller THEN 0 - held ELSE 0
    BY <1>1
  <2>3. CASE ob.option = "sell"
    <3>1. DHold(v, r, ob.option) = IF v = r.seller THEN LockAmount(r.amount, fees) ELSE 0
      BY <1>9, <2>3 DEF DHold, Live
    <3>2. held = 0 /\ r.seller = ob.owner
      BY <1>7, <2>3 DEF IsSell
    <3>3. CASE ob.status = "failed"
      <4>1. OHold(v, back) = 0 /\ OHold(v, ob) = 0
        BY <1>4, <3>3 DEF OHold
      <4>2. ~SalesHaveListings
        BY <2>3, <3>3 DEF SalesHaveListings, IsSell, Live
      <4> QED  BY ONLY <1>9, <2>1, <2>2, <3>1, <3>2, <4>1, <4>2 DEF BothMore
    <3>4. CASE ob.status # "failed"
      <4>1. OHold(v, back) = IF v = ob.owner THEN LockAmount(ob.remaining + r.amount, fees) ELSE 0
        BY <1>4, <2>3, <3>4 DEF OHold
      <4>2. OHold(v, ob) = IF v = ob.owner THEN LockAmount(ob.remaining, fees) ELSE 0
        BY <2>3, <3>4 DEF OHold
      <4> QED  BY ONLY <1>8, <1>9, <2>1, <2>2, <3>1, <3>2, <4>1, <4>2 DEF BothMore
    <3> QED  BY <3>3, <3>4
  <2>4. CASE ob.option = "buy"
    <3>1. OHold(v, back) = 0 /\ OHold(v, ob) = 0
      BY <1>4, <2>4 DEF OHold
    <3>2. DHold(v, r, ob.option) = IF v = r.seller THEN r.amount ELSE 0
      BY <1>1, <2>4 DEF DHold, Live
    <3>3. held \in Nat /\ held <= r.amount
      OBVIOUS
    <3>4. ~IsSell(r)
      BY <2>4 DEF IsSell
    <3> QED  BY ONLY <1>1, <2>1, <2>2, <3>1, <3>2, <3>3, <3>4 DEF BothMore
  <2> QED  BY <1>3, <2>3, <2>4
<1>15. Ready /\ fees' = fees
  OBVIOUS
<1>16. OrderBecomes(o, back) /\ DealBecomes(t, new)
  BY <1>6 DEF OrderBecomes, DealBecomes
<1>17. ASSUME NEW v \in Users
       PROVE  Hold(v) \in Int /\ Hold(v)' \in Int /\ Hold(v)' - Hold(v) = BothMore(v, back, o, new, t)
  BY <1>2, <1>5, <1>10, <1>15, <1>16, HoldByBoth
<1>18. Backed'
  BY <1>14, <1>17, LockFollows
<1>19. ASSUME NothingStranded, SalesHaveListings, IsSell(r) \/ held = r.amount
       PROVE  NothingStranded'
  BY <1>14, <1>17, <1>19, LockFollows
<1> QED
  BY <1>13, <1>18, <1>19

\* A step that rewrites a transaction and neither its amount nor its parties.
LEMMA DealBacked ==
  ASSUME Ready, TypeOK', fees' = fees, orders' = orders, NEW t \in TransIds, NEW r \in Trans,
         trans' = [trans EXCEPT ![t] = r], r.order = trans[t].order, r.amount = trans[t].amount,
         r.seller = trans[t].seller, trans[t].status # "none",
         \A u \in Users : DHold(u, r, orders[r.order].option)
                           - DHold(u, trans[t], orders[r.order].option) = lock'[u] - lock[u]
  PROVE  PartsInv' /\ Backed' /\ (NothingStranded => NothingStranded')
<1>1. TermsKept
  BY DEF TermsKept
<1>2. \A x \in TransIds : trans'[x] = trans[x] \/ DealKept(trans'[x], orders'[trans'[x].order])
  BY DEF DealKept, Ready, PartsInv, SellerOwns, TypeOK
<1>3. PartsInv'
  BY <1>1, <1>2, PartsStay
<1>4. Backed' /\ (NothingStranded => NothingStranded')
  BY BackedByDeal
<1> QED
  BY <1>3, <1>4

\* Settling: the seller's lock pays for the sale, and on a SELL listing the
\* buyer's lock receives the purchase it holds.
LEMMA SettleBacked ==
  ASSUME Ready, TypeOK', fees' = fees, orders' = orders, NEW t \in TransIds, Settle(t, fees)
  PROVE  PartsInv' /\ Backed' /\ (NothingStranded => NothingStranded')
<1> DEFINE r == trans[t]
           opt == orders[r.order].option
           sell == opt = "sell"
           new == [r EXCEPT !.status = "executed", !.unlockAt = sell, !.released = ~sell]
           debit == IF sell THEN LockAmount(r.amount, fees) ELSE r.amount
           credit == IF sell THEN r.amount ELSE 0
<1>1. /\ trans \in [TransIds -> Trans] /\ lock \in [Users -> Nat] /\ r \in Trans /\ r.amount \in Nat
      /\ fees \in [transaction : Nat, smartref : Nat]
  BY DEF Ready, TypeOK, Trans
<1>2. r.status = "payment_confirmed" /\ trans' = [trans EXCEPT ![t] = new]
  BY DEF Settle, CanSettle, IsSell
<1>3. r.seller \in Users /\ r.buyer \in Users /\ r.seller # r.buyer
  BY <1>2 DEF Ready, GoodRows, GoodTrans
<1>4. debit \in Nat /\ credit \in Nat
  BY <1>1, LockAmountNat
<1>5. \A v \in Users : lock'[v] - lock[v] = IF v = r.seller THEN 0 - debit ELSE IF v = r.buyer THEN credit ELSE 0
  <2>1. CASE sell
    <3>1. lock' = [[lock EXCEPT ![r.seller] = @ - debit] EXCEPT ![r.buyer] = @ + credit]
      BY <2>1 DEF Settle, Debit, Credit, IsSell
    <3> HIDE DEF debit, credit
    <3> QED  BY <1>1, <1>3, <1>4, <3>1
  <2>2. CASE ~sell
    <3>1. lock' = [lock EXCEPT ![r.seller] = @ - debit] /\ credit = 0
      BY <2>2 DEF Settle, Debit, IsSell
    <3> HIDE DEF debit, credit
    <3> QED  BY <1>1, <1>3, <1>4, <3>1
  <2> QED  BY <2>1, <2>2
<1>6. /\ new \in Trans /\ new.order = r.order /\ new.amount = r.amount /\ new.seller = r.seller
      /\ new.buyer = r.buyer /\ new.status = "executed" /\ new.unlockAt = sell /\ new.released = ~sell
  <2>1. sell \in BOOLEAN
    OBVIOUS
  <2> HIDE DEF sell
  <2> QED  BY <1>1, <2>1 DEF Trans, TransStatus
<1>7. \A v \in Users : DHold(v, r, opt) = IF v = r.seller THEN debit ELSE 0
  BY <1>2, <1>4 DEF DHold, Live
<1> HIDE DEF new
<1>8. \A v \in Users : DHold(v, new, opt) = IF v = r.buyer THEN credit ELSE 0
  <2>1. \A v \in Users : DHold(v, new, opt) = 0 + (IF sell /\ r.buyer = v THEN r.amount ELSE 0)
    <3> HIDE DEF sell
    <3> QED  BY <1>6 DEF DHold, Live
  <2> QED  BY <1>1, <2>1
<1>9. \A v \in Users : DHold(v, new, opt) - DHold(v, r, opt) = lock'[v] - lock[v]
  <2> HIDE DEF debit, credit
  <2> QED  BY ONLY <1>3, <1>4, <1>5, <1>7, <1>8
<1> HIDE DEF sell, debit, credit
<1> QED
  BY <1>2, <1>6, <1>9, DealBacked

\* A sale that is not over finds in the seller's lock what settling it debits.
LEMMA SaleIsCovered ==
  ASSUME TypeOK, GoodRows, Backed, NEW t \in TransIds, trans[t].status \in Live
  PROVE  lock[trans[t].seller] >= Debit(trans[t], fees)
<1> DEFINE u == trans[t].seller
           d == Debit(trans[t], fees)
           f == [o \in OrderIds |-> OrderHold(u, o)]
           g == [s \in TransIds |-> SaleHold(u, s) + PurchaseHold(u, s)]
           one == [s \in TransIds |-> IF s = t THEN d ELSE 0]
<1>1. /\ orders \in [OrderIds -> Order] /\ trans \in [TransIds -> Trans]
      /\ fees \in [transaction : Nat, smartref : Nat]
      /\ \A o \in OrderIds : orders[o].remaining \in Nat
      /\ \A s \in TransIds : trans[s].amount \in Nat
  BY DEF TypeOK, Order, Trans
<1>2. \A a \in Nat : LockAmount(a, fees) \in Nat
  BY <1>1, LockAmountNat
<1>3. \A s \in TransIds : Debit(trans[s], fees) \in Nat
  BY <1>1, <1>2 DEF Debit
<1>4. \A o \in OrderIds : f[o] \in Nat
  BY <1>1, <1>2 DEF OrderHold
<1>5. \A s \in TransIds : SaleHold(u, s) \in Nat /\ PurchaseHold(u, s) \in Nat
  BY <1>1, <1>3 DEF SaleHold, PurchaseHold
<1>6. SaleHold(u, t) = d
  BY DEF SaleHold
<1>7. \A s \in TransIds : one[s] \in Int /\ g[s] \in Int /\ one[s] <= g[s]
  <2>1. d \in Nat
    BY <1>3
  <2> HIDE DEF u, d
  <2> QED  BY <1>5, <1>6, <2>1
<1>8. /\ one[t] = d /\ d \in Int /\ \A s \in TransIds : s # t => one[s] = 0
  BY <1>3
<1>9. Hold(u) = Total(f, MaxOrders) + Total(g, MaxTrans) /\ lock[u] >= Hold(u) /\ lock[u] \in Int
  BY DEF Hold, Backed, GoodRows, GoodTrans, Live, TypeOK
<1> HIDE DEF u, d, f, g, one
<1>10. Total(f, MaxOrders) \in Nat
  BY <1>4, CountsAssumption, TotalNat DEF OrderIds
<1>11. Total(one, MaxTrans) = d
  BY <1>8, CountsAssumption, TotalOne DEF TransIds
<1>12. Total(one, MaxTrans) <= Total(g, MaxTrans)
  BY <1>7, CountsAssumption, TotalMonotone DEF TransIds
<1>13. Total(g, MaxTrans) \in Int
  BY <1>7, CountsAssumption, TotalInt DEF TransIds
<1>14. lock[u] >= d
  BY <1>8, <1>9, <1>10, <1>11, <1>12, <1>13
<1> QED
  BY <1>14 DEF u, d

\* A step keeps every lock large enough; and where no sale has lost its listing, it
\* strands nothing.
Tight   == UnusedAreNobodys /\ SalesHaveListings /\ NothingStranded
Covered == PartsInv' /\ Backed' /\ (Tight => NothingStranded')

\* One step of SerialSpec does.
LEMMA BackedStep ==
  ASSUME SerialInv, BalanceInv, PartsInv, Backed, FeesFixed, FeesExact, [SerialNext]_vars
  PROVE  Covered
<1>1. TypeOK /\ GoodRows /\ Fresh /\ TypeOK' /\ Ready
  BY SerialStep, SerialStutter DEF SerialInv, Ready
<1>2. ASSUME UNCHANGED <<orders, trans, lock, fees>>  PROVE  Covered
  <2>1. TermsKept
    BY <1>2 DEF TermsKept
  <2>2. PartsInv'
    BY <1>1, <1>2, <2>1, PartsStay
  <2>3. \A u \in Users : lock'[u] = lock[u] /\ Hold(u)' = Hold(u)
    BY <1>1, <1>2, <2>1, HeldSame
  <2> QED  BY <2>2, <2>3 DEF Backed, Covered, Tight, NothingStranded
<1>3. ASSUME NEW u \in Users, NEW option \in {"buy", "sell"}, NEW a \in Amounts, NEW b \in TradeBounds,
             CreateOrderBook(u, option, a, b)
      PROVE  Covered
  BY <1>1, <1>3, PostBacked DEF Covered, Tight
<1>4. ASSUME NEW o \in OrderIds, DeleteOrderBook(o)  PROVE  Covered
  BY <1>1, <1>4, DeleteBacked DEF Covered, Tight
<1>5. ASSUME NEW u \in Users, NEW o \in OrderIds, NEW a \in TradeAmounts, CreateTransaction(u, o, a)
      PROVE  Covered
  BY <1>1, <1>5, TakeBacked DEF Covered, Tight
<1>6. ASSUME NEW u \in Users, NEW t \in TransIds, ConfirmReceived(u, t)  PROVE  Covered
  BY <1>1, <1>6, SettleBacked DEF ConfirmReceived, Covered, Tight
<1>7. ASSUME NEW t \in TransIds  PROVE trans[t].amount \in Nat
  BY <1>1 DEF TypeOK, Trans
<1>8. ASSUME NEW u \in Users, NEW t \in TransIds, CancelTransaction(u, t)  PROVE  Covered
  <2> DEFINE held == IF IsSell(trans[t]) THEN 0 ELSE trans[t].amount
  <2>1. /\ fees' = fees /\ trans[t].status = "pending" /\ trans' = [trans EXCEPT ![t].status = "cancelled"]
        /\ orders' = [orders EXCEPT ![trans[t].order] = Restored(@, trans[t].amount)]
        /\ lock' = [lock EXCEPT ![trans[t].seller] = @ - held]
    BY <1>8 DEF CancelTransaction
  <2>2. /\ held \in Nat /\ held <= trans[t].amount /\ (IsSell(trans[t]) => held = 0)
        /\ IsSell(trans[t]) \/ held = trans[t].amount
    BY <1>7
  <2> HIDE DEF held
  <2> QED  BY <1>1, <2>1, <2>2, GiveBackBacked DEF Covered, Tight
<1>9. ASSUME NEW t \in TransIds, ExpirePending(t)  PROVE  Covered
  <2> DEFINE held == IF IsSell(trans[t]) \/ lock[trans[t].seller] < trans[t].amount THEN 0 ELSE trans[t].amount
  <2>1. CASE trans[t].status = "pending"
    <3>1. /\ fees' = fees /\ trans' = [trans EXCEPT ![t].status = "failed"]
          /\ orders' = [orders EXCEPT ![trans[t].order] = Restored(@, trans[t].amount)]
          /\ lock' = [lock EXCEPT ![trans[t].seller] = @ - held]
      BY <1>9, <2>1 DEF ExpirePending, Expirable
    <3>2. held \in Nat /\ held <= trans[t].amount /\ (IsSell(trans[t]) => held = 0)
      BY <1>7
    <3>3. ~IsSell(trans[t]) => lock[trans[t].seller] >= trans[t].amount
      BY <1>1, <2>1, SaleIsCovered DEF Live, Debit, Ready
    <3>4. lock[trans[t].seller] \in Int
      BY <1>1, <2>1 DEF TypeOK, GoodRows, GoodTrans
    <3>5. IsSell(trans[t]) \/ held = trans[t].amount
      BY <1>7, <3>3, <3>4
    <3> HIDE DEF held
    <3> QED  BY <1>1, <2>1, <3>1, <3>2, <3>5, GiveBackBacked DEF Covered, Tight
  <2>2. CASE trans[t].status # "pending"
    BY <1>2, <1>9, <2>2 DEF ExpirePending, Expirable
  <2> QED  BY <2>1, <2>2
<1>10. ASSUME NEW t \in TransIds, ExpireConfirmed(t)  PROVE  Covered
  BY <1>1, <1>2, <1>10, SettleBacked DEF ExpireConfirmed, Covered, Tight
<1>11. ASSUME NEW t \in TransIds, ReleaseDueBuyerLock(t)  PROVE  Covered
  <2> DEFINE r == trans[t]
             new == [r EXCEPT !.released = TRUE]
             opt == orders[r.order].option
  <2>1. /\ r \in Trans /\ r.amount \in Nat /\ r.status = "executed" /\ r.unlockAt /\ ~r.released
        /\ trans' = [trans EXCEPT ![t] = new] /\ fees' = fees /\ orders' = orders
        /\ lock' = [lock EXCEPT ![r.buyer] = @ - r.amount] /\ lock \in [Users -> Nat]
    BY <1>1, <1>7, <1>11 DEF TypeOK, ReleaseDueBuyerLock, Due
  <2>2. /\ new \in Trans /\ new.order = r.order /\ new.amount = r.amount /\ new.seller = r.seller
        /\ new.status = r.status /\ new.released
    BY <2>1 DEF Trans
  <2> HIDE DEF new
  <2>3. \A v \in Users : DHold(v, r, opt) = IF v = r.buyer THEN r.amount ELSE 0
    BY <2>1 DEF DHold, Live
  <2>4. \A v \in Users : DHold(v, new, opt) = 0
    BY <2>1, <2>2 DEF DHold, Live
  <2>5. \A v \in Users : lock'[v] - lock[v] = IF v = r.buyer THEN 0 - r.amount ELSE 0
    BY <2>1
  <2>6. \A v \in Users : DHold(v, new, opt) - DHold(v, r, opt) = lock'[v] - lock[v]
    BY <2>1, <2>3, <2>4, <2>5
  <2> QED  BY <1>1, <2>1, <2>2, <2>6, DealBacked DEF Covered, Tight
<1>12. ASSUME NEW t \in TransIds, NEW r \in Trans, trans' = [trans EXCEPT ![t] = r], UNCHANGED <<orders, lock, fees>>,
              (trans[t].status \in Live /\ r.status \in Live) \/ r.status = trans[t].status,
              trans[t].status # "none",
              r.order = trans[t].order, r.amount = trans[t].amount, r.seller = trans[t].seller,
              r.buyer = trans[t].buyer, r.unlockAt = trans[t].unlockAt, r.released = trans[t].released
       PROVE  Covered
  <2> DEFINE opt == orders[r.order].option
  <2>1. \A u \in Users : DHold(u, r, opt) = DHold(u, trans[t], opt)
    BY <1>12 DEF DHold, Live
  <2>2. \A u \in Users : lock'[u] - lock[u] = 0 /\ DHold(u, trans[t], opt) \in Nat
    <3>1. \A x \in Trans : \A option, u : DHold(u, x, option) \in Nat
      BY <1>1, HoldsNat
    <3> QED  BY <1>1, <1>12, <3>1 DEF TypeOK
  <2>3. \A u \in Users : DHold(u, r, opt) - DHold(u, trans[t], opt) = lock'[u] - lock[u]
    BY <2>1, <2>2
  <2> QED  BY <1>1, <1>12, <2>3, DealBacked DEF Covered, Tight
<1>13. ASSUME NEW c \in confirming, ConfirmPaymentSave(c)  PROVE  Covered
  <2> DEFINE r == trans[c.id]
             new == [r EXCEPT !.status = "payment_confirmed"]
  <2>1. c.id \in TransIds /\ r \in Trans /\ r.status = "pending" /\ c.row = r
    BY <1>1 DEF TypeOK, ConfirmRequest, Fresh
  <2>2. trans' = [trans EXCEPT ![c.id] = new] /\ UNCHANGED <<orders, lock, fees>>
    BY <1>13, <2>1 DEF ConfirmPaymentSave
  <2>3. /\ new \in Trans /\ new.order = r.order /\ new.amount = r.amount /\ new.status = "payment_confirmed"
        /\ new.seller = r.seller /\ new.buyer = r.buyer /\ new.unlockAt = r.unlockAt /\ new.released = r.released
    BY <2>1 DEF Trans, TransStatus
  <2> HIDE DEF new
  <2> QED  BY <1>12, <2>1, <2>2, <2>3 DEF Live
<1>14. ASSUME NEW d \in disputing, CreateDisputeMark(d)  PROVE  Covered
  <2> DEFINE r == trans[d.id]
             new == [r EXCEPT !.dispute = TRUE]
  <2>1. d.id \in TransIds /\ r \in Trans /\ r.status # "none" /\ d.row = r
    BY <1>1 DEF TypeOK, DisputeRequest, Fresh
  <2>2. (trans' = [trans EXCEPT ![d.id] = new] \/ UNCHANGED trans) /\ UNCHANGED <<orders, lock, fees>>
    BY <1>14, <2>1 DEF CreateDisputeMark
  <2>3. /\ new \in Trans /\ new.order = r.order /\ new.amount = r.amount /\ new.status = r.status
        /\ new.seller = r.seller /\ new.buyer = r.buyer /\ new.unlockAt = r.unlockAt /\ new.released = r.released
    BY <2>1 DEF Trans
  <2> HIDE DEF new
  <2> QED  BY <1>2, <1>12, <2>1, <2>2, <2>3
<1>15. ASSUME NEW w \in updating, UpdateOrderBookSave(w)  PROVE  Covered
  <2> DEFINE ob == [orders[w.id] EXCEPT !.bounds = w.bounds]
  <2>1. w.id \in OrderIds /\ orders \in [OrderIds -> Order] /\ orders[w.id] \in Order /\ w.row = orders[w.id]
    BY <1>1 DEF TypeOK, UpdateRequest, Fresh
  <2>2. /\ orders' = [orders EXCEPT ![w.id] = ob] /\ UNCHANGED <<trans, lock, fees>>
        /\ ob.owner = orders[w.id].owner /\ ob.option = orders[w.id].option
        /\ ob.status = orders[w.id].status /\ ob.remaining = orders[w.id].remaining
    BY <1>15, <2>1 DEF UpdateOrderBookSave, Order
  <2> HIDE DEF ob
  <2>3. TermsKept
    BY <2>1, <2>2 DEF TermsKept
  <2>4. \A o \in OrderIds : orders'[o] = orders[o] \/ PartKept(orders'[o])
    BY <1>1, <2>1, <2>2 DEF PartKept, Ready, PartsInv
  <2>5. \A u \in Users : OHold(u, ob) - OHold(u, orders[w.id]) = lock'[u] - lock[u]
    <3>1. \A u \in Users : OHold(u, ob) = OHold(u, orders[w.id])
      BY <2>2 DEF OHold
    <3>2. \A u \in Users : OHold(u, orders[w.id]) \in Nat
      BY <1>1, <2>1, HoldsNat
    <3>3. \A u \in Users : lock'[u] = lock[u] /\ lock[u] \in Nat
      BY <1>1, <2>2 DEF TypeOK
    <3> QED  BY ONLY <3>1, <3>2, <3>3
  <2>6. PartsInv'
    BY <1>1, <2>2, <2>3, <2>4, PartsStay
  <2>7. Backed' /\ (NothingStranded => NothingStranded')
    BY <1>1, <2>1, <2>2, <2>3, <2>5, BackedByOrder
  <2> QED  BY <2>6, <2>7 DEF Covered, Tight
<1>16. CASE ReadStep \/ Crash \/ UNCHANGED vars
  BY <1>2, <1>16 DEF ReadStep, ConfirmPaymentRead, CreateDisputeCheck, UpdateOrderBookRead, Crash, vars
<1>17. CASE ChangeFees
  BY <1>17 DEF ChangeFees, FeesFixed, PartsInv, Covered
<1>18. ASSUME NEW d \in disputing, CreateDisputeInsert(d)  PROVE  Covered
  BY <1>2, <1>18 DEF CreateDisputeInsert
<1>19. ASSUME NEW t \in TransIds, ExpireConfirmedFails(t)  PROVE  Covered
  BY <1>2, <1>19 DEF ExpireConfirmedFails
<1>20. CASE LockedStep
  BY <1>3, <1>4, <1>5, <1>6, <1>8, <1>9, <1>10, <1>11, <1>19, <1>20 DEF LockedStep
<1> QED
  BY <1>13, <1>14, <1>15, <1>16, <1>17, <1>18, <1>20 DEF SerialNext, SaveStep

LEMMA BackedInit == ASSUME Init PROVE PartsInv /\ Backed /\ NothingStranded
<1>1. Exact(0)
  <2>1. fees \in [transaction : Nat, smartref : Nat] /\ FeeBase \in Nat
    BY InitType, CountsAssumption DEF TypeOK
  <2>2. TotalFee(fees) \in Nat
    BY <2>1 DEF TotalFee
  <2>3. 0 * TotalFee(fees) = 0 * FeeBase
    BY <2>1, <2>2
  <2> QED  BY <2>3 DEF Exact, FeeIs
<1>2. PartsInv
  BY <1>1 DEF Init, PartsInv, SellerOwns, NoOrder, NoTrans
<1>3. ASSUME NEW u \in Users  PROVE lock[u] = 0 /\ Hold(u) = 0
  <2> DEFINE f == [o \in OrderIds |-> OrderHold(u, o)]
             g == [t \in TransIds |-> SaleHold(u, t) + PurchaseHold(u, t)]
  <2>1. \A o \in OrderIds : f[o] = 0
    BY DEF Init, NoOrder, OrderHold
  <2>2. \A t \in TransIds : g[t] = 0
    BY DEF Init, NoTrans, SaleHold, PurchaseHold, Live
  <2>3. Hold(u) = Total(f, MaxOrders) + Total(g, MaxTrans)
    BY DEF Hold
  <2> HIDE DEF f, g
  <2>4. Total(f, MaxOrders) = 0 /\ Total(g, MaxTrans) = 0
    BY <2>1, <2>2, CountsAssumption, TotalZero DEF OrderIds, TransIds
  <2> QED  BY <2>3, <2>4 DEF Init
<1> QED  BY <1>2, <1>3 DEF Backed, NothingStranded

\* Where fees are fixed and exact and no handler runs between an unlocked read
\* and its save, the lock of every user covers the user's listings, running
\* sales and unreleased purchases together: nothing is ever paid out of what
\* was locked for something else.
THEOREM LocksAreBacked == ASSUME FeesFixed, FeesExact PROVE SerialSpec => []Backed
<1>1. Init => PartsInv /\ Backed
  BY BackedInit
<1>2. SerialInv /\ BalanceInv /\ PartsInv /\ Backed /\ [SerialNext]_vars => PartsInv' /\ Backed'
  BY BackedStep DEF Covered
<1> QED
  BY <1>1, <1>2, SerialInvariant, BalanceAlways, PTL DEF SerialSpec

-----------------------------------------------------------------------------
(* What strands coins.  With fees as above, and no request between its read *)
(* and its save, it takes the deletion of a listing whose deals go on: what *)
(* an undone sale gives back to it stays locked, and no step looks there.   *)

\* A step that deletes a listing of which no deal is going on.
DeletesNoneTaken ==
  \A o \in OrderIds : orders[o].status # "failed" /\ orders'[o].status = "failed" =>
    ~\E t \in TransIds : trans[t].status \in Live /\ trans[t].order = o

\* Deals that go on went on before, about the same listing.
DealsGoOn ==
  \A t \in TransIds : trans'[t].status \in Live => trans[t].status \in Live /\ trans'[t].order = trans[t].order

LEMMA TightStep ==
  ASSUME SerialInv, BalanceInv, UnusedAreNobodys, SalesHaveListings,
         [SerialNext]_vars, [DeletesNoneTaken]_vars
  PROVE  UnusedAreNobodys' /\ SalesHaveListings'
<1>1. /\ orders \in [OrderIds -> Order] /\ trans \in [TransIds -> Trans]
      /\ \A c \in confirming : c.id \in TransIds /\ c.row = trans[c.id] /\ trans[c.id].status = "pending"
      /\ \A d \in disputing : d.id \in TransIds /\ d.row = trans[d.id]
      /\ \A w \in updating : w.id \in OrderIds /\ w.row = orders[w.id] /\ orders[w.id].status = "pending"
  BY DEF SerialInv, TypeOK, Fresh, ConfirmRequest, DisputeRequest, UpdateRequest
<1>2. \A t \in TransIds : trans[t].status \in Live =>
        trans[t].order \in OrderIds /\ orders[trans[t].order].status # "none"
  BY DEF SerialInv, GoodRows, GoodTrans, BalanceInv, Live
<1>3. ASSUME NEW p \in OrderIds, NEW row, orders' = [orders EXCEPT ![p] = row], DealsGoOn,
             row.status = "none" => orders[p].status = "none" /\ row.owner = orders[p].owner,
             row.status = "failed" =>
               \/ ~\E t \in TransIds : trans[t].status \in Live /\ trans[t].order = p
               \/ orders[p].status = "failed" /\ row.option = orders[p].option
      PROVE  UnusedAreNobodys' /\ SalesHaveListings'
  <2>1. orders'[p] = row /\ \A o \in OrderIds \ {p} : orders'[o] = orders[o]
    BY <1>1, <1>3
  <2>2. UnusedAreNobodys'
    BY <1>3, <2>1 DEF UnusedAreNobodys
  <2>3. ASSUME NEW t \in TransIds, trans'[t].status \in Live, orders'[trans'[t].order].option = "sell",
               orders'[trans'[t].order].status = "failed"
        PROVE  FALSE
    <3>1. trans[t].status \in Live /\ trans'[t].order = trans[t].order /\ trans[t].order \in OrderIds
      BY <1>2, <1>3, <2>3 DEF DealsGoOn
    <3>2. orders[trans[t].order].status = "failed" /\ orders[trans[t].order].option = "sell"
      BY <1>3, <2>1, <2>3, <3>1
    <3> QED  BY <3>1, <3>2 DEF SalesHaveListings, IsSell
  <2> QED  BY <2>2, <2>3 DEF SalesHaveListings, IsSell
<1>4. ASSUME orders' = orders, DealsGoOn PROVE UnusedAreNobodys' /\ SalesHaveListings'
  BY <1>4 DEF UnusedAreNobodys, SalesHaveListings, IsSell, DealsGoOn
<1>5. ASSUME trans' = trans PROVE DealsGoOn
  BY <1>5 DEF DealsGoOn
<1>6. ASSUME NEW t \in TransIds, NEW row, trans' = [trans EXCEPT ![t] = row],
             row.status \in Live => trans[t].status \in Live /\ row.order = trans[t].order
      PROVE  DealsGoOn
  BY <1>1, <1>6 DEF DealsGoOn
<1>7. ASSUME NEW t \in TransIds, NEW st \in {"cancelled", "failed"}, trans' = [trans EXCEPT ![t].status = st]
      PROVE  DealsGoOn
  <2>1. [trans[t] EXCEPT !.status = st].status = st
    BY <1>1 DEF Trans
  <2> QED  BY <1>6, <1>7, <2>1 DEF Live
<1>8. ASSUME NEW t \in TransIds, NEW f, Settle(t, f) PROVE DealsGoOn
  <2> DEFINE row == [trans[t] EXCEPT !.status = "executed", !.unlockAt = IsSell(trans[t]),
                                     !.released = ~IsSell(trans[t])]
  <2>1. trans' = [trans EXCEPT ![t] = row]
    BY <1>8 DEF Settle
  <2>2. row.status = "executed"
    BY <1>1 DEF Trans
  <2> HIDE DEF row
  <2> QED  BY <1>6, <2>1, <2>2 DEF Live
<1>9. ASSUME NEW p \in OrderIds, NEW a, orders' = [orders EXCEPT ![p] = Restored(@, a)], DealsGoOn
      PROVE  UnusedAreNobodys' /\ SalesHaveListings'
  <2>1. /\ Restored(orders[p], a).owner = orders[p].owner /\ Restored(orders[p], a).option = orders[p].option
        /\ Restored(orders[p], a).status = "none" => orders[p].status = "none"
        /\ Restored(orders[p], a).status = "failed" => orders[p].status = "failed"
    BY <1>1 DEF Restored, Order
  <2> QED  BY <1>3, <1>9, <2>1
<1>10. ASSUME NEW u \in Users, NEW option \in {"buy", "sell"}, NEW a \in Amounts, NEW b \in TradeBounds,
              CreateOrderBook(u, option, a, b)
       PROVE  UnusedAreNobodys' /\ SalesHaveListings'
  BY <1>3, <1>5, <1>10 DEF CreateOrderBook
<1>11. ASSUME NEW o \in OrderIds, DeleteOrderBook(o) PROVE UnusedAreNobodys' /\ SalesHaveListings'
  <2>1. /\ orders' = [orders EXCEPT ![o] = [orders[o] EXCEPT !.status = "failed"]] /\ trans' = trans
        /\ orders[o].status = "pending"
    BY <1>11 DEF DeleteOrderBook
  <2>2. [orders[o] EXCEPT !.status = "failed"].status = "failed" /\ orders'[o].status = "failed"
    BY <1>1, <2>1 DEF Order
  <2>3. DeletesNoneTaken
    BY <2>1, <2>2 DEF vars
  <2>4. ~\E t \in TransIds : trans[t].status \in Live /\ trans[t].order = o
    BY <2>1, <2>2, <2>3 DEF DeletesNoneTaken
  <2> QED  BY <1>3, <1>5, <2>1, <2>2, <2>4
<1>12. ASSUME NEW u \in Users, NEW o \in OrderIds, NEW a \in TradeAmounts, CreateTransaction(u, o, a)
       PROVE  UnusedAreNobodys' /\ SalesHaveListings'
  <2> DEFINE ob == orders[o]
             row == [NoTrans EXCEPT !.buyer = IF ob.option = "sell" THEN u ELSE ob.owner,
                                    !.seller = IF ob.option = "sell" THEN ob.owner ELSE u,
                                    !.order = o, !.amount = a, !.status = "pending"]
  <2>0. row.order = o
    BY DEF NoTrans
  <2>1. PICK t \in TransIds :
          /\ orders[o].status = "pending" /\ orders' = [orders EXCEPT ![o] = Taken(orders[o], a)]
          /\ trans' = [trans EXCEPT ![t] = row]
    BY <1>12 DEF CreateTransaction
  <2> HIDE DEF ob, row
  <2>2. Taken(orders[o], a).status \notin {"none", "failed"}
    BY <1>1, <2>1 DEF Taken, Order
  <2>3. orders'[o] = Taken(orders[o], a) /\ \A p \in OrderIds \ {o} : orders'[p] = orders[p]
    BY <1>1, <2>1
  <2>4. UnusedAreNobodys'
    BY <2>2, <2>3 DEF UnusedAreNobodys
  <2>5. ASSUME NEW s \in TransIds, trans'[s].status \in Live, orders'[trans'[s].order].option = "sell"
        PROVE  orders'[trans'[s].order].status # "failed"
    <3>1. CASE trans'[s].order = o
      BY <2>2, <2>3, <3>1
    <3>2. CASE trans'[s].order # o
      <4>1. trans'[s] = trans[s]
        BY <1>1, <2>0, <2>1, <3>2
      <4> QED  BY <1>2, <2>3, <2>5, <3>2, <4>1 DEF SalesHaveListings, IsSell
    <3> QED  BY <3>1, <3>2
  <2> QED  BY <2>4, <2>5 DEF SalesHaveListings, IsSell
<1>13. ASSUME NEW t \in TransIds PROVE trans[t].status = "pending" => trans[t].order \in OrderIds
  BY <1>2 DEF Live
<1>14. ASSUME NEW u \in Users, NEW t \in TransIds, ConfirmReceived(u, t) \/ CancelTransaction(u, t)
       PROVE  UnusedAreNobodys' /\ SalesHaveListings'
  <2>1. CASE ConfirmReceived(u, t)
    BY <1>4, <1>8, <2>1 DEF ConfirmReceived
  <2>2. CASE CancelTransaction(u, t)
    <3>1. /\ trans[t].order \in OrderIds /\ trans' = [trans EXCEPT ![t].status = "cancelled"]
          /\ orders' = [orders EXCEPT ![trans[t].order] = Restored(@, trans[t].amount)]
      BY <1>13, <2>2 DEF CancelTransaction
    <3>2. DealsGoOn
      BY <1>7, <3>1
    <3> QED  BY <1>9, <3>1, <3>2
  <2> QED  BY <1>14, <2>1, <2>2
<1>15. ASSUME NEW t \in TransIds, \/ ExpirePending(t) \/ ExpireConfirmed(t)
                                 \/ ExpireConfirmedFails(t) \/ ReleaseDueBuyerLock(t)
       PROVE  UnusedAreNobodys' /\ SalesHaveListings'
  <2>1. CASE ExpirePending(t) /\ Expirable(trans[t])
    <3>1. /\ trans[t].order \in OrderIds /\ trans' = [trans EXCEPT ![t].status = "failed"]
          /\ orders' = [orders EXCEPT ![trans[t].order] = Restored(@, trans[t].amount)]
      BY <1>13, <2>1 DEF ExpirePending, Expirable
    <3>2. DealsGoOn
      BY <1>7, <3>1
    <3> QED  BY <1>9, <3>1, <3>2
  <2>2. CASE ExpirePending(t) /\ ~Expirable(trans[t])
    BY <1>4, <1>5, <2>2 DEF ExpirePending
  <2>3. CASE ExpireConfirmed(t) \/ ExpireConfirmedFails(t)
    BY <1>4, <1>5, <1>8, <2>3 DEF ExpireConfirmed, ExpireConfirmedFails
  <2>4. CASE ReleaseDueBuyerLock(t)
    <3>1. orders' = orders /\ trans' = [trans EXCEPT ![t] = [trans[t] EXCEPT !.released = TRUE]]
      BY <2>4 DEF ReleaseDueBuyerLock
    <3>2. [trans[t] EXCEPT !.released = TRUE].status = trans[t].status
          /\ [trans[t] EXCEPT !.released = TRUE].order = trans[t].order
      BY <1>1 DEF Trans
    <3> QED  BY <1>4, <1>6, <3>1, <3>2
  <2> QED  BY <1>15, <2>1, <2>2, <2>3, <2>4
<1>16. ASSUME NEW c \in confirming, ConfirmPaymentSave(c) PROVE UnusedAreNobodys' /\ SalesHaveListings'
  <2>1. orders' = orders /\ trans' = [trans EXCEPT ![c.id] = [trans[c.id] EXCEPT !.status = "payment_confirmed"]]
    BY <1>1, <1>16 DEF ConfirmPaymentSave
  <2>2. [trans[c.id] EXCEPT !.status = "payment_confirmed"].order = trans[c.id].order
    BY <1>1 DEF Trans
  <2> QED  BY <1>1, <1>4, <1>6, <2>1, <2>2 DEF Live
<1>17. ASSUME NEW d \in disputing, CreateDisputeInsert(d) \/ CreateDisputeMark(d)
       PROVE  UnusedAreNobodys' /\ SalesHaveListings'
  <2>1. orders' = orders /\ (trans' = trans \/ trans' = [trans EXCEPT ![d.id] = [trans[d.id] EXCEPT !.dispute = TRUE]])
    BY <1>1, <1>17 DEF CreateDisputeInsert, CreateDisputeMark
  <2>2. /\ [trans[d.id] EXCEPT !.dispute = TRUE].order = trans[d.id].order
        /\ [trans[d.id] EXCEPT !.dispute = TRUE].status = trans[d.id].status
    BY <1>1 DEF Trans
  <2> QED  BY <1>1, <1>4, <1>5, <1>6, <2>1, <2>2
<1>18. ASSUME NEW w \in updating, UpdateOrderBookSave(w) PROVE UnusedAreNobodys' /\ SalesHaveListings'
  <2>1. trans' = trans /\ orders' = [orders EXCEPT ![w.id] = [orders[w.id] EXCEPT !.bounds = w.bounds]]
    BY <1>1, <1>18 DEF UpdateOrderBookSave
  <2>2. [orders[w.id] EXCEPT !.bounds = w.bounds].status = "pending"
    BY <1>1 DEF Order
  <2> QED  BY <1>1, <1>3, <1>5, <2>1, <2>2
<1>19. CASE ReadStep \/ Crash \/ ChangeFees \/ UNCHANGED vars
  BY <1>4, <1>5, <1>19
     DEF ReadStep, ConfirmPaymentRead, CreateDisputeCheck, UpdateOrderBookRead, Crash, ChangeFees, vars
<1>20. CASE LockedStep
  BY <1>10, <1>11, <1>12, <1>14, <1>15, <1>20 DEF LockedStep
<1> QED
  BY <1>16, <1>17, <1>18, <1>19, <1>20 DEF SerialNext, SaveStep

\* With fixed and exact fees and one request at a time, nothing stays locked that is
\* locked for nothing, through every expiry, cancelling and settlement, as long as
\* deleteOrderBook meets no listing of which a deal is going on.  It checks for
\* none, and that is the one way left to strand coins.
THEOREM OnlyDeletingStrands ==
  ASSUME FeesFixed, FeesExact
  PROVE  SerialSpec /\ [][DeletesNoneTaken]_vars => []NothingStranded
<1> DEFINE Inv == PartsInv /\ Backed /\ Tight
<1>1. Init => Inv
  <2> SUFFICES ASSUME Init PROVE Inv
    OBVIOUS
  <2>1. PartsInv /\ Backed /\ NothingStranded
    BY BackedInit
  <2>2. UnusedAreNobodys
    BY CountsAssumption DEF Init, NoOrder, UnusedAreNobodys, Users
  <2>3. SalesHaveListings
    BY DEF Init, NoTrans, SalesHaveListings, Live
  <2> QED  BY <2>1, <2>2, <2>3 DEF Tight
<1>2. SerialInv /\ BalanceInv /\ Inv /\ [SerialNext]_vars /\ [DeletesNoneTaken]_vars => Inv'
  BY BackedStep, TightStep DEF Covered, Tight
<1>3. Inv => NothingStranded
  BY DEF Tight
<1> HIDE DEF Inv
<1> QED
  BY <1>1, <1>2, <1>3, SerialInvariant, BalanceAlways, PTL DEF SerialSpec

\* "Execute debits the same": under the same conditions settling a transaction whose
\* payment was confirmed never fails for coins that are missing in the seller's
\* lock, whatever else was settled, released or given back before.
THEOREM ExecuteFindsTheLock == ASSUME FeesFixed, FeesExact PROVE SerialSpec => []ExecuteDebitsTheLock
<1>1. SerialInv /\ Backed => ExecuteDebitsTheLock
  BY SaleIsCovered DEF SerialInv, ExecuteDebitsTheLock, Live
<1> QED
  BY <1>1, SerialInvariant, LocksAreBacked, PTL

=============================================================================
