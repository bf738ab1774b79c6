------------------------- MODULE WalletLedgerProofs -------------------------
(***************************************************************************)
(* A withdrawal's row says what the chain did, for any number of users,    *)
(* withdrawals, URLs and refreshes, as long as the server notices every    *)
(* payment the chain takes.  The stage of the background work decides how  *)
(* often the chain can have paid; sums of coins play no part.  And when    *)
(* refreshes take turns with everything else and no trade is settled, the  *)
(* wallets hold no more than came in: sums of coins are the whole matter.  *)
(***************************************************************************)
EXTENDS WalletLedger, SumTheorems, TLAPS

Closing == [success |-> 1, failed |-> 0]

\* What the stage says of the row and of the chain.
StageOK(w) ==
  LET wd == withdrawals[w]
  IN  /\ wd.stage \in {"none", "checked"} => paid[w] = 0 /\ wd.status = "none"
      /\ wd.stage \in {"accepted", "reserved", "failing"} => paid[w] = 0 /\ wd.status = "pending"
      /\ wd.stage = "sent" => paid[w] = 1 /\ wd.status = "pending"
      /\ wd.stage = "lost" => paid[w] \in {0, 1} /\ wd.status = "pending"
      /\ wd.stage = "done" => /\ wd.status \in {"success", "failed"}
                              /\ paid[w] = Closing[wd.status]

PaidInv ==
  /\ withdrawals \in [Withdrawals -> Withdrawal]
  /\ paid \in [Withdrawals -> Nat]
  /\ \A w \in Withdrawals : StageOK(w)

\* A step in which no payment goes unnoticed.
Noticed == \A w \in Withdrawals : ~Unnoticed(w)

NoticedNext ==
  \/ UserStep \/ Crash
  \/ \E u, v \in Users : SettleTrade(u, v)
  \/ \E w \in Withdrawals : WithdrawStep(w)
  \/ \E r \in Refreshes : RefreshStep(r) \/ \E u \in Users : RefreshCredits(r, u)

-----------------------------------------------------------------------------
\* The invariant is about rows that have only the fields of Withdrawal: what
\* a step does to one row decides whether it holds afterwards.
LEMMA OneRow ==
  ASSUME PaidInv, NEW w \in Withdrawals, NEW row \in Withdrawal, NEW n \in Nat,
         withdrawals' = [withdrawals EXCEPT ![w] = row], paid' = [paid EXCEPT ![w] = n],
         StageOK(w)'
  PROVE  PaidInv'
<1>1. withdrawals' \in [Withdrawals -> Withdrawal] /\ paid' \in [Withdrawals -> Nat]
  BY DEF PaidInv
<1>2. ASSUME NEW x \in Withdrawals, x # w PROVE StageOK(x)'
  <2>1. withdrawals'[x] = withdrawals[x] /\ paid'[x] = paid[x]
    BY <1>2 DEF PaidInv
  <2> QED BY <2>1 DEF PaidInv, StageOK
<1> QED BY <1>1, <1>2 DEF PaidInv

\* The steps of a request and of its background work.
LEMMA WorkKeepsPaidInv ==
  ASSUME PaidInv, NEW w \in Withdrawals,
         WithdrawCheck(w) \/ WithdrawAccept(w) \/ WithdrawStep(w)
  PROVE  PaidInv'
<1> DEFINE wd == withdrawals[w]
<1>0. wd \in Withdrawal /\ paid[w] \in Nat /\ StageOK(w)
  BY DEF PaidInv
<1>p. UNCHANGED paid => paid' = [paid EXCEPT ![w] = paid[w]]
  BY DEF PaidInv
<1>1. CASE WithdrawCheck(w)
  <2>1. PICK u \in Users, a \in Amounts :
          withdrawals' = [withdrawals EXCEPT ![w] = [NoWithdrawal EXCEPT !.user = u, !.amount = a,
                                                                         !.stage = "checked"]]
    BY <1>1 DEF WithdrawCheck
  <2> DEFINE row == [NoWithdrawal EXCEPT !.user = u, !.amount = a, !.stage = "checked"]
  <2>2. row \in Withdrawal
    BY AmountsAssumption DEF Withdrawal, NoWithdrawal, Status, Stage
  <2>3. StageOK(w)'
    BY <1>0, <1>1, <2>1 DEF WithdrawCheck, StageOK, NoWithdrawal, PaidInv
  <2> HIDE DEF row
  <2> QED BY <1>0, <1>1, <1>p, <2>1, <2>2, <2>3, OneRow DEF WithdrawCheck, row
<1>2. CASE WithdrawAccept(w)
  <2> DEFINE row == [wd EXCEPT !.status = "pending", !.stage = "accepted"]
  <2>1. row \in Withdrawal
    BY <1>0 DEF Withdrawal, Status, Stage
  <2>2. withdrawals' = [withdrawals EXCEPT ![w] = row]
    BY <1>0, <1>2 DEF WithdrawAccept, PaidInv, Withdrawal
  <2>3. StageOK(w)'
    BY <1>0, <1>2, <2>2 DEF WithdrawAccept, StageOK, PaidInv, Withdrawal
  <2> QED BY <1>0, <1>2, <1>p, <2>1, <2>2, <2>3, OneRow DEF WithdrawAccept
<1>3. CASE Reserve(w)
  <2> DEFINE kept   == [wd EXCEPT !.stage = "reserved", !.reserved = TRUE]
             missed == [wd EXCEPT !.stage = "failing"]
  <2>1. kept \in Withdrawal /\ missed \in Withdrawal
    BY <1>0 DEF Withdrawal, Status, Stage
  <2>2. \/ withdrawals' = [withdrawals EXCEPT ![w] = kept]
        \/ withdrawals' = [withdrawals EXCEPT ![w] = missed]
    BY <1>0, <1>3 DEF Reserve, PaidInv, Withdrawal
  <2>3. StageOK(w)'
    BY <1>0, <1>3, <2>2 DEF Reserve, StageOK, PaidInv, Withdrawal
  <2> QED BY <1>0, <1>3, <1>p, <2>1, <2>2, <2>3, OneRow DEF Reserve
<1>4. CASE Send(w)
  <2> DEFINE row == [wd EXCEPT !.stage = "sent"]
  <2>1. row \in Withdrawal
    BY <1>0 DEF Withdrawal, Status, Stage
  <2>2. withdrawals' = [withdrawals EXCEPT ![w] = row] /\ paid' = [paid EXCEPT ![w] = paid[w] + 1]
    BY <1>0, <1>4 DEF Send, PaidInv, Withdrawal
  <2>3. StageOK(w)'
    BY <1>0, <1>4, <2>2 DEF Send, StageOK, PaidInv, Withdrawal
  <2>4. paid[w] + 1 \in Nat
    BY <1>0
  <2> HIDE DEF row
  <2> QED BY <2>1, <2>2, <2>3, <2>4, OneRow
<1>5. CASE SendThrows(w)
  <2> DEFINE row == [wd EXCEPT !.stage = AfterThrow(w),
                               !.tries = IF wd.tries + 1 < Rpcs THEN wd.tries + 1 ELSE wd.tries]
  <2>0. AfterThrow(w) \in {"reserved", "failing"}
    BY DEF AfterThrow
  <2>a. /\ AfterThrow(w) \in Stage
        /\ (IF wd.tries + 1 < Rpcs THEN wd.tries + 1 ELSE wd.tries) \in Nat
    BY <1>0, <2>0, CountsAssumption DEF Withdrawal, Stage
  <2>1. row \in Withdrawal
    BY <1>0, <2>a DEF Withdrawal
  <2>2. withdrawals' = [withdrawals EXCEPT ![w] = row]
    BY <1>0, <1>5 DEF SendThrows, PaidInv, Withdrawal
  <2>3. StageOK(w)'
    BY <1>0, <1>5, <2>0, <2>2 DEF SendThrows, StageOK, PaidInv, Withdrawal
  <2> QED BY <1>0, <1>5, <1>p, <2>1, <2>2, <2>3, OneRow DEF SendThrows
<1>6. CASE Record(w)
  <2> DEFINE row == [wd EXCEPT !.status = "success", !.stage = "done"]
  <2>1. row \in Withdrawal
    BY <1>0 DEF Withdrawal, Status, Stage
  <2>2. withdrawals' = [withdrawals EXCEPT ![w] = row]
    BY <1>0, <1>6 DEF Record, PaidInv, Withdrawal
  <2>3. StageOK(w)'
    BY <1>0, <1>6, <2>2 DEF Record, StageOK, Closing, PaidInv, Withdrawal
  <2> QED BY <1>0, <1>6, <1>p, <2>1, <2>2, <2>3, OneRow DEF Record
<1>7. CASE Fail(w)
  <2> DEFINE row == [wd EXCEPT !.status = "failed", !.stage = "done"]
  <2>1. row \in Withdrawal
    BY <1>0 DEF Withdrawal, Status, Stage
  <2>2. withdrawals' = [withdrawals EXCEPT ![w] = row]
    BY <1>0, <1>7 DEF Fail, PaidInv, Withdrawal
  <2>3. StageOK(w)'
    BY <1>0, <1>7, <2>2 DEF Fail, StageOK, Closing, PaidInv, Withdrawal
  <2> QED BY <1>0, <1>7, <1>p, <2>1, <2>2, <2>3, OneRow DEF Fail
<1> QED BY <1>1, <1>2, <1>3, <1>4, <1>5, <1>6, <1>7 DEF WithdrawStep

\* A crash loses the work and keeps the rows.
LEMMA CrashKeepsPaidInv ==
  ASSUME PaidInv, Crash
  PROVE  PaidInv'
<1>1. paid' = paid /\ withdrawals' = [w \in Withdrawals |-> AfterCrash(withdrawals[w])]
  BY DEF Crash
<1>2. ASSUME NEW w \in Withdrawals
      PROVE  AfterCrash(withdrawals[w]) \in Withdrawal /\ StageOK(w)'
  <2> DEFINE wd == withdrawals[w]
  <2>0. wd \in Withdrawal /\ StageOK(w) /\ withdrawals'[w] = AfterCrash(wd) /\ paid'[w] = paid[w]
    BY <1>1, <1>2 DEF PaidInv
  <2>1. CASE wd.stage = "checked"
    <3>1. AfterCrash(wd) = NoWithdrawal
      BY <2>1 DEF AfterCrash, Underway
    <3>2. NoWithdrawal \in Withdrawal
      BY DEF NoWithdrawal, Withdrawal, Status, Stage
    <3> QED BY <2>0, <2>1, <3>1, <3>2 DEF StageOK, NoWithdrawal
  <2>2. CASE wd.stage \in Underway
    <3>1. AfterCrash(wd) = [wd EXCEPT !.stage = "lost"]
      BY <2>2 DEF AfterCrash, Underway
    <3>2. [wd EXCEPT !.stage = "lost"] \in Withdrawal
      BY <2>0 DEF Withdrawal, Status, Stage
    <3> QED BY <2>0, <2>2, <3>1, <3>2 DEF StageOK, Underway, Withdrawal
  <2>3. CASE wd.stage # "checked" /\ wd.stage \notin Underway
    <3>1. AfterCrash(wd) = wd
      BY <2>3 DEF AfterCrash
    <3> QED BY <2>0, <3>1 DEF StageOK
  <2> QED BY <2>1, <2>2, <2>3
<1> QED BY <1>1, <1>2 DEF PaidInv

LEMMA PaidInvStep ==
  ASSUME PaidInv, [NoticedNext]_vars
  PROVE  PaidInv'
<1>1. CASE UNCHANGED <<withdrawals, paid>>
  BY <1>1 DEF PaidInv, StageOK
<1>2. CASE Crash
  BY <1>2, CrashKeepsPaidInv
<1>3. CASE \E w \in Withdrawals : WithdrawCheck(w) \/ WithdrawAccept(w) \/ WithdrawStep(w)
  BY <1>3, WorkKeepsPaidInv
<1>4. CASE \E u \in Users : Deposit(u) \/ TradeLock(u) \/ TradeUnlock(u)
  BY <1>1, <1>4 DEF Deposit, TradeLock, TradeUnlock
<1>5. CASE \E u, v \in Users : InternalTransfer(u, v) \/ SettleTrade(u, v)
  BY <1>1, <1>5 DEF InternalTransfer, Move, SettleTrade
<1>6. CASE \E r \in Refreshes : RefreshStep(r) \/ \E u \in Users : RefreshCredits(r, u)
  BY <1>1, <1>6 DEF RefreshStep, RefreshCredits, RefreshDebits, RefreshRow, RefreshSave
<1>7. CASE UNCHANGED vars
  BY <1>1, <1>7 DEF vars
<1> QED BY <1>2, <1>3, <1>4, <1>5, <1>6, <1>7 DEF NoticedNext, UserStep

LEMMA PaidInvInit == Init => PaidInv
<1> SUFFICES ASSUME Init PROVE PaidInv
  OBVIOUS
<1>1. NoWithdrawal \in Withdrawal
  BY DEF NoWithdrawal, Withdrawal, Status, Stage
<1> QED BY <1>1 DEF Init, PaidInv, StageOK, NoWithdrawal

LEMMA PaidInvImplies == PaidInv => PaidAsRecorded
<1> SUFFICES ASSUME PaidInv, NEW w \in Withdrawals
             PROVE  /\ paid[w] <= 1
                    /\ withdrawals[w].status = "success" => paid[w] = 1
                    /\ withdrawals[w].status = "failed"  => paid[w] = 0
  BY DEF PaidAsRecorded
<1>1. withdrawals[w] \in Withdrawal /\ StageOK(w)
  BY DEF PaidInv
<1>2. withdrawals[w].stage \in Stage
  BY <1>1 DEF Withdrawal
<1> QED BY <1>1, <1>2 DEF StageOK, Stage, Closing

-----------------------------------------------------------------------------
(* A withdrawal marked SUCCESS was paid once, one marked FAILED was not    *)
(* paid and none is paid twice: whatever trades, overlapping refreshes and *)
(* crashes do, if every payment is noticed.  This is what                  *)
(* processWithdrawInBackground relies on when its catch block refunds.     *)
THEOREM PaidWhenNoticed == Spec /\ [][Noticed]_vars => []PaidAsRecorded
<1>1. Init => PaidInv
  BY PaidInvInit
<1>2. PaidInv /\ [Next]_vars /\ [Noticed]_vars => PaidInv'
  <2>1. [Next]_vars /\ [Noticed]_vars => [NoticedNext]_vars
    BY DEF Next, Noticed, NoticedNext
  <2> QED BY <2>1, PaidInvStep
<1>3. PaidInv => PaidAsRecorded
  BY PaidInvImplies
<1> QED BY <1>1, <1>2, <1>3, PTL DEF Spec

(* The same of the behaviours in which nothing comes between the steps of  *)
(* a refresh, which is what the run LedgerSerial checks.                   *)
THEOREM PaidWhenSerial == SerialSpec => []PaidAsRecorded
<1>1. Init => PaidInv
  BY PaidInvInit
<1>2. PaidInv /\ [RefreshedNext]_vars => PaidInv'
  <2>1. [RefreshedNext]_vars => [NoticedNext]_vars
    BY DEF RefreshedNext, NoticedNext
  <2> QED BY <2>1, PaidInvStep
<1>3. PaidInv => PaidAsRecorded
  BY PaidInvImplies
<1> QED BY <1>1, <1>2, <1>3, PTL DEF SerialSpec

-----------------------------------------------------------------------------
(* Type correctness, whatever interleaves.                                 *)

\* A refresh under way is of a user.
TypeInv ==
  /\ TypeOK
  /\ \A r \in Refreshes : refresh[r].stage # "idle" => refresh[r].user \in Users

\* The amounts that count against a user, and what they add up to.
Counted(u) == [w \in Withdrawals |-> IF Counts(w, u) THEN withdrawals[w].amount ELSE 0]

LEMMA WithdrawnType ==
  ASSUME TypeOK, NEW u \in Users
  PROVE  /\ Withdrawn(u) = debits[u] + Total(Counted(u), NumWithdrawals)
         /\ Total(Counted(u), NumWithdrawals) \in Nat /\ Withdrawn(u) \in Nat
<1>1. Withdrawn(u) = debits[u] + Total(Counted(u), NumWithdrawals)
  BY DEF Withdrawn, Counted
<1>2. \A w \in 1..NumWithdrawals : Counted(u)[w] \in Nat
  BY DEF Counted, TypeOK, Withdrawal, Withdrawals
<1>3. Total(Counted(u), NumWithdrawals) \in Nat
  BY <1>2, CountsAssumption, TotalNat
<1>4. debits[u] \in Nat
  BY DEF TypeOK
<1> QED  BY <1>1, <1>3, <1>4

\* What is added to, or taken from, a column that can bear it is a column.
LEMMA ColumnType ==
  ASSUME NEW f \in [Users -> Nat], NEW u, NEW a \in Nat
  PROVE  /\ [f EXCEPT ![u] = @ + a] \in [Users -> Nat]
         /\ f[u] >= a => [f EXCEPT ![u] = @ - a] \in [Users -> Nat]
         /\ [f EXCEPT ![u] = Positive(@ - a)] \in [Users -> Nat]
<1>1. CASE u \in Users
  BY <1>1 DEF Positive
<1>2. CASE u \notin Users
  BY <1>2
<1> QED  BY <1>1, <1>2

\* The rows and the background work of one withdrawal.
LEMMA WorkType ==
  ASSUME TypeInv, NEW w \in Withdrawals,
         WithdrawCheck(w) \/ WithdrawAccept(w) \/ WithdrawStep(w) \/ Unnoticed(w)
  PROVE  TypeInv'
<1> DEFINE wd == withdrawals[w]
<1>0. wd \in Withdrawal /\ wd.amount \in Nat /\ wd.tries \in Nat /\ Refund(w) \in Nat
  BY DEF TypeInv, TypeOK, Withdrawal, Refund
<1>1. /\ UNCHANGED <<lock, rows, refresh>>
      /\ paid' = paid \/ paid' = [paid EXCEPT ![w] = @ + 1]
  BY DEF WithdrawCheck, WithdrawAccept, WithdrawStep, Unnoticed, Reserve, Send, SendThrows,
         Record, Fail, SendUnseen, RecordThrows, wallets
<1>2. paid' \in [Withdrawals -> Nat]
  BY <1>1 DEF TypeInv, TypeOK
<1>3. balance' \in [Users -> Nat]
  <2>1. \/ UNCHANGED balance
        \/ balance' = [balance EXCEPT ![wd.user] = Positive(@ - wd.amount)]
        \/ balance' = [balance EXCEPT ![wd.user] = @ + Refund(w)]
    BY DEF WithdrawCheck, WithdrawAccept, WithdrawStep, Unnoticed, Reserve, Send, SendThrows,
           Record, Fail, SendUnseen, RecordThrows, wallets
  <2>2. balance \in [Users -> Nat]
    BY DEF TypeInv, TypeOK
  <2> HIDE DEF wd
  <2>3. CASE balance' = [balance EXCEPT ![wd.user] = Positive(@ - wd.amount)]
    BY <1>0, <2>2, <2>3, ColumnType
  <2>4. CASE balance' = [balance EXCEPT ![wd.user] = @ + Refund(w)]
    BY <1>0, <2>2, <2>4, ColumnType
  <2> QED  BY <2>1, <2>2, <2>3, <2>4
<1>4. AfterThrow(w) \in Stage /\ (IF wd.tries + 1 < Rpcs THEN wd.tries + 1 ELSE wd.tries) \in Nat
  BY <1>0 DEF AfterThrow, Stage
<1>5. \E row \in Withdrawal : withdrawals' = [withdrawals EXCEPT ![w] = row]
  <2>1. CASE WithdrawCheck(w)
    <3>1. PICK u \in Users, a \in Amounts :
            withdrawals' = [withdrawals EXCEPT ![w] = [NoWithdrawal EXCEPT !.user = u, !.amount = a,
                                                                           !.stage = "checked"]]
      BY <2>1 DEF WithdrawCheck
    <3>2. [NoWithdrawal EXCEPT !.user = u, !.amount = a, !.stage = "checked"] \in Withdrawal
      BY AmountsAssumption DEF Withdrawal, NoWithdrawal, Status, Stage
    <3> QED  BY <3>1, <3>2
  <2>2. ASSUME NEW st \in Stage, withdrawals' = [withdrawals EXCEPT ![w].stage = st]
        PROVE  \E row \in Withdrawal : withdrawals' = [withdrawals EXCEPT ![w] = row]
    <3>1. [wd EXCEPT !.stage = st] \in Withdrawal
      BY <1>0 DEF Withdrawal
    <3> QED  BY <2>2, <3>1
  <2>3. ASSUME NEW st \in Stage, NEW s \in Status,
               withdrawals' = [withdrawals EXCEPT ![w].status = s, ![w].stage = st]
        PROVE  \E row \in Withdrawal : withdrawals' = [withdrawals EXCEPT ![w] = row]
    <3>1. [wd EXCEPT !.status = s, !.stage = st] \in Withdrawal
      BY <1>0 DEF Withdrawal
    <3> QED  BY <2>3, <3>1 DEF TypeInv, TypeOK
  <2>4. CASE WithdrawAccept(w) \/ Record(w) \/ Fail(w)
    BY <2>3, <2>4 DEF WithdrawAccept, Record, Fail, Stage, Status
  <2>5. CASE Reserve(w)
    <3>1. CASE withdrawals' = [withdrawals EXCEPT ![w].stage = "reserved", ![w].reserved = TRUE]
      <4>1. [wd EXCEPT !.stage = "reserved", !.reserved = TRUE] \in Withdrawal
        BY <1>0 DEF Withdrawal, Stage
      <4> QED  BY <3>1, <4>1 DEF TypeInv, TypeOK
    <3> QED  BY <2>2, <2>5, <3>1 DEF Reserve, Stage
  <2>6. CASE Send(w) \/ RecordThrows(w)
    BY <2>2, <2>6 DEF Send, RecordThrows, Stage
  <2>7. CASE SendThrows(w) \/ SendUnseen(w)
    <3> DEFINE row == [wd EXCEPT !.stage = AfterThrow(w),
                                 !.tries = IF wd.tries + 1 < Rpcs THEN wd.tries + 1 ELSE wd.tries]
    <3>1. row \in Withdrawal
      BY <1>0, <1>4 DEF Withdrawal
    <3>2. withdrawals' = [withdrawals EXCEPT ![w] = row]
      BY <2>7 DEF SendThrows, SendUnseen, TypeInv, TypeOK
    <3> QED  BY <3>1, <3>2
  <2> QED  BY <2>1, <2>4, <2>5, <2>6, <2>7 DEF WithdrawStep, Unnoticed
<1>6. withdrawals' \in [Withdrawals -> Withdrawal]
  BY <1>5 DEF TypeInv, TypeOK
<1> QED
  BY <1>1, <1>2, <1>3, <1>6 DEF TypeInv, TypeOK, rows

\* The steps of a refresh.
LEMMA RefreshType ==
  ASSUME TypeInv, NEW r \in Refreshes, RefreshStep(r) \/ \E u \in Users : RefreshCredits(r, u)
  PROVE  TypeInv'
<1> DEFINE rf == refresh[r]
           Rec == [stage : RefreshStage, user : Users \cup {0}, sum : Nat, row : [balance : Nat, lock : Nat]]
<1>0. /\ refresh \in [Refreshes -> Rec] /\ rf \in Rec
      /\ balance \in [Users -> Nat] /\ lock \in [Users -> Nat] /\ credits \in [Users -> Nat]
  BY DEF TypeInv, TypeOK
<1>1. ASSUME NEW new \in Rec, refresh' = [refresh EXCEPT ![r] = new], UNCHANGED <<rows, withdrawals, paid>>,
             balance' \in [Users -> Nat], lock' \in [Users -> Nat],
             new.stage # "idle" => new.user \in Users
      PROVE  TypeInv'
  BY <1>1 DEF TypeInv, TypeOK, rows
<1>2. IdleRefresh \in Rec /\ IdleRefresh.stage = "idle"
  BY DEF IdleRefresh, RefreshStage
<1>3. ASSUME NEW u \in Users, RefreshCredits(r, u) PROVE TypeInv'
  <2> DEFINE new == [IdleRefresh EXCEPT !.stage = "credits", !.user = u, !.sum = credits[u]]
  <2>1. credits[u] \in Nat
    BY <1>0
  <2>2. new \in Rec /\ new.user = u
    BY <1>2, <2>1 DEF RefreshStage, IdleRefresh
  <2>3. refresh' = [refresh EXCEPT ![r] = new] /\ UNCHANGED <<wallets, rows, withdrawals, paid>>
    BY <1>3 DEF RefreshCredits
  <2> HIDE DEF new, Rec
  <2> QED  BY <1>0, <1>1, <2>2, <2>3 DEF wallets
<1>4. CASE RefreshDebits(r)
  <2> DEFINE s == Positive(rf.sum - Withdrawn(rf.user))
             new == [rf EXCEPT !.stage = "ledger", !.sum = s]
  <2>1. rf.stage = "credits" /\ rf.user \in Users
    BY <1>4 DEF RefreshDebits, TypeInv
  <2>2. Withdrawn(rf.user) \in Nat /\ rf.sum \in Nat
    BY <1>0, <2>1, WithdrawnType DEF TypeInv
  <2>3. s \in Nat
    BY <2>2 DEF Positive
  <2>4. new \in Rec /\ new.user = rf.user
    BY <1>0, <2>3 DEF RefreshStage
  <2>5. refresh' = [refresh EXCEPT ![r] = new] /\ UNCHANGED <<wallets, rows, withdrawals, paid>>
    BY <1>0, <1>4 DEF RefreshDebits
  <2> HIDE DEF new, Rec
  <2> QED  BY <1>0, <1>1, <2>1, <2>4, <2>5 DEF wallets
<1>5. CASE RefreshRow(r)
  <2> DEFINE u == rf.user
             new == [rf EXCEPT !.stage = "row", !.row = [balance |-> balance[u], lock |-> lock[u]]]
  <2>1. u \in Users
    BY <1>5 DEF RefreshRow, TypeInv
  <2>2. new \in Rec /\ new.user = u
    BY <1>0, <2>1 DEF RefreshStage
  <2>3. refresh' = [refresh EXCEPT ![r] = new] /\ UNCHANGED <<wallets, rows, withdrawals, paid>>
    BY <1>0, <1>5 DEF RefreshRow
  <2> HIDE DEF new, Rec
  <2> QED  BY <1>0, <1>1, <2>1, <2>2, <2>3 DEF wallets
<1>6. CASE RefreshSave(r)
  <2> DEFINE available == Available(rf.sum, rf.row.lock)
  <2>1. available \in Nat /\ rf.row.lock \in Nat
    BY <1>0 DEF Available, Positive
  <2>2. /\ \/ /\ balance' = [balance EXCEPT ![rf.user] = available]
              /\ lock' = [lock EXCEPT ![rf.user] = rf.row.lock]
           \/ UNCHANGED wallets
        /\ refresh' = [refresh EXCEPT ![r] = IdleRefresh]
        /\ UNCHANGED <<rows, withdrawals, paid>>
    BY <1>6 DEF RefreshSave
  <2> HIDE DEF available
  <2>3. balance' \in [Users -> Nat] /\ lock' \in [Users -> Nat]
    BY <1>0, <2>1, <2>2 DEF wallets
  <2> HIDE DEF Rec
  <2> QED  BY <1>1, <1>2, <2>2, <2>3
<1> QED
  BY <1>3, <1>4, <1>5, <1>6 DEF RefreshStep

\* Any one step.
LEMMA TypeStep ==
  ASSUME TypeInv, [Next]_vars
  PROVE  TypeInv'
<1>0. /\ balance \in [Users -> Nat] /\ lock \in [Users -> Nat]
      /\ credits \in [Users -> Nat] /\ debits \in [Users -> Nat] /\ Amounts \subseteq Nat
  BY AmountsAssumption DEF TypeInv, TypeOK
<1>1. ASSUME UNCHANGED <<withdrawals, paid, refresh>>,
             balance' \in [Users -> Nat], lock' \in [Users -> Nat],
             credits' \in [Users -> Nat], debits' \in [Users -> Nat]
      PROVE  TypeInv'
  BY <1>1 DEF TypeInv, TypeOK
<1>2. ASSUME NEW u \in Users, Deposit(u) PROVE TypeInv'
  BY <1>0, <1>1, <1>2, ColumnType DEF Deposit, wallets
<1>3. ASSUME NEW u \in Users, TradeLock(u) \/ TradeUnlock(u) PROVE TypeInv'
  <2>1. balance' \in [Users -> Nat] /\ lock' \in [Users -> Nat]
    BY <1>0, <1>3, ColumnType DEF TradeLock, TradeUnlock
  <2> QED  BY <1>0, <1>1, <1>3, <2>1 DEF TradeLock, TradeUnlock, rows
<1>4. ASSUME NEW u \in Users, NEW v \in Users, SettleTrade(u, v) PROVE TypeInv'
  <2>1. balance' \in [Users -> Nat] /\ lock' \in [Users -> Nat]
    BY <1>0, <1>4, ColumnType DEF SettleTrade
  <2> QED  BY <1>0, <1>1, <1>4, <2>1 DEF SettleTrade, rows
<1>5. ASSUME NEW u \in Users, NEW v \in Users, InternalTransfer(u, v) PROVE TypeInv'
  <2>1. PICK a \in Amounts :
          /\ balance[u] >= a
          /\ balance' = [balance EXCEPT ![u] = @ - a, ![v] = @ + a]
          /\ debits' = [debits EXCEPT ![u] = @ + a]
          /\ credits' = [credits EXCEPT ![v] = @ + a]
          /\ UNCHANGED <<lock, withdrawals, paid, refresh>>
    BY <1>5 DEF InternalTransfer, Move
  <2>2. balance[u] - a \in Nat /\ \A n \in Nat : n + a \in Nat
    BY <1>0, <2>1
  <2>3. balance' \in [Users -> Nat]
    BY <1>0, <2>1, <2>2
  <2>4. balance' \in [Users -> Nat] /\ debits' \in [Users -> Nat] /\ credits' \in [Users -> Nat]
    BY <1>0, <2>1, <2>3, ColumnType
  <2> QED  BY <1>0, <1>1, <2>1, <2>4
<1>6. CASE Crash
  <2>1. withdrawals' \in [Withdrawals -> Withdrawal]
    <3>1. ASSUME NEW wd \in Withdrawal PROVE AfterCrash(wd) \in Withdrawal
      <4>1. NoWithdrawal \in Withdrawal /\ [wd EXCEPT !.stage = "lost"] \in Withdrawal
        BY <3>1 DEF NoWithdrawal, Withdrawal, Status, Stage
      <4>2. AfterCrash(wd) \in {NoWithdrawal, [wd EXCEPT !.stage = "lost"], wd}
        BY DEF AfterCrash, Underway
      <4> QED  BY <3>1, <4>1, <4>2
    <3> QED  BY <1>6, <3>1 DEF Crash, TypeInv, TypeOK
  <2>2. IdleRefresh \in [stage : RefreshStage, user : Users \cup {0}, sum : Nat,
                         row : [balance : Nat, lock : Nat]] /\ IdleRefresh.stage = "idle"
    BY DEF IdleRefresh, RefreshStage
  <2> QED  BY <1>6, <2>1, <2>2 DEF Crash, TypeInv, TypeOK, wallets, rows
<1>7. CASE UNCHANGED vars
  BY <1>7 DEF vars, wallets, rows, TypeInv, TypeOK
<1> QED
  BY <1>2, <1>3, <1>4, <1>5, <1>6, <1>7, WorkType, RefreshType DEF Next, UserStep

LEMMA TypeInit == Init => TypeInv
<1> SUFFICES ASSUME Init PROVE TypeInv
  OBVIOUS
<1>1. NoWithdrawal \in Withdrawal
  BY DEF NoWithdrawal, Withdrawal, Status, Stage
<1>2. IdleRefresh \in [stage : RefreshStage, user : Users \cup {0}, sum : Nat,
                       row : [balance : Nat, lock : Nat]] /\ IdleRefresh.stage = "idle"
  BY DEF IdleRefresh, RefreshStage
<1> QED  BY <1>1, <1>2 DEF Init, TypeInv, TypeOK

\* No interleaving of trades, transfers, withdrawals, refreshes and crashes makes
\* a wallet column, or a sum of rows, negative.
THEOREM LedgerTypes == Spec => []TypeOK
<1>1. TypeInv => TypeOK
  BY DEF TypeInv
<1> QED  BY <1>1, TypeInit, TypeStep, PTL DEF Spec

-----------------------------------------------------------------------------
(* Solvency, when a refresh is not interrupted and no trade is settled: it  *)
(* holds of each user, and the sums of the users follow.                    *)

\* What has gone out, or waits to, of user u.
Owed(u, w) == IF withdrawals[w].user = u THEN Outgoing(w) ELSE 0
OwedBy(u)  == Total([w \in Withdrawals |-> Owed(u, w)], NumWithdrawals)

UserSolvent(u) == balance[u] + lock[u] + debits[u] + OwedBy(u) <= credits[u]

\* When the amount of a withdrawal is out of the wallet.
ReservedOK(w) ==
  LET wd == withdrawals[w]
  IN  /\ wd.stage # "none" => wd.user \in Users
      /\ wd.stage \in {"none", "checked", "accepted"} => ~wd.reserved
      /\ wd.stage \in {"reserved", "sent"} => wd.reserved

\* The one refresh under way has read what is still there.
RefreshFresh ==
  /\ \A r, s \in Refreshes : refresh[r].stage # "idle" /\ refresh[s].stage # "idle" => r = s
  /\ \A r \in Refreshes :
       LET rf == refresh[r]
       IN  /\ rf.stage = "credits" => rf.sum = credits[rf.user]
           /\ rf.stage \in {"ledger", "row"} => rf.sum = Ledger(rf.user)
           /\ rf.stage = "row" => rf.row = [balance |-> balance[rf.user], lock |-> lock[rf.user]]

SolventInv ==
  /\ TypeInv /\ PaidInv /\ RefreshFresh
  /\ \A w \in Withdrawals : ReservedOK(w)
  /\ \A u \in Users : UserSolvent(u)

\* What one withdrawal has taken out is a natural amount; it is at most what
\* counts against its user, since a closed one was paid if and only if it counts.
LEMMA OutgoingBounds ==
  ASSUME TypeInv, PaidInv, NEW w \in Withdrawals
  PROVE  /\ Outgoing(w) \in Nat
         /\ \A u \in Users : Owed(u, w) \in Nat /\ Counted(u)[w] \in Nat /\ Owed(u, w) <= Counted(u)[w]
         /\ withdrawals[w].stage \in {"none", "checked"} => Outgoing(w) = 0
<1> DEFINE wd == withdrawals[w]
<1>1. wd \in Withdrawal /\ wd.amount \in Nat /\ wd.stage \in Stage /\ StageOK(w)
  BY DEF TypeInv, TypeOK, Withdrawal, PaidInv
<1>2. /\ paid[w] = 0 \/ (paid[w] = 1 /\ wd.status \in {"pending", "success"})
      /\ wd.stage \in {"none", "checked"} => paid[w] = 0 /\ wd.status = "none"
  BY <1>1 DEF StageOK, Stage, Closing
<1>3. 1 * wd.amount = wd.amount
  BY <1>1
<1>4. Outgoing(w) = IF paid[w] = 1 \/ (wd.status = "pending" /\ wd.reserved) THEN wd.amount ELSE 0
  BY <1>1, <1>2, <1>3 DEF Outgoing
<1>5. \A u \in Users : Counted(u)[w] = IF wd.user = u /\ wd.status \in {"pending", "success"}
                                      THEN wd.amount ELSE 0
  BY DEF Counted, Counts
<1> QED  BY <1>1, <1>2, <1>4, <1>5 DEF Owed

OutgoingNat == \A w \in Withdrawals : Outgoing(w) \in Nat
LEMMA OutgoingType == TypeInv /\ PaidInv => OutgoingNat
BY OutgoingBounds DEF OutgoingNat

LEMMA OwedByBounds ==
  ASSUME TypeInv, PaidInv, NEW u \in Users
  PROVE  OwedBy(u) \in Nat /\ OwedBy(u) <= Total(Counted(u), NumWithdrawals)
<1> DEFINE f == [w \in Withdrawals |-> Owed(u, w)]
           g == Counted(u)
<1>1. \A w \in 1..NumWithdrawals : f[w] \in Nat /\ g[w] \in Nat /\ f[w] <= g[w]
  BY OutgoingBounds DEF Withdrawals
<1>2. OwedBy(u) = Total(f, NumWithdrawals)
  BY DEF OwedBy
<1> HIDE DEF f, g
<1>3. Total(f, NumWithdrawals) \in Nat /\ Total(f, NumWithdrawals) <= Total(g, NumWithdrawals)
  BY <1>1, CountsAssumption, TotalNat, TotalMonotone
<1> QED  BY <1>2, <1>3 DEF g

\* A step that changes what one withdrawal has out changes its user's sum so.
LEMMA OwedByChanges ==
  ASSUME TypeInv, PaidInv, TypeInv', PaidInv', NEW w \in Withdrawals, NEW u \in Users,
         \A x \in Withdrawals \ {w} : withdrawals'[x] = withdrawals[x] /\ paid'[x] = paid[x]
  PROVE  OwedBy(u)' = OwedBy(u) + Owed(u, w)' - Owed(u, w)
<1> DEFINE f == [x \in Withdrawals |-> Owed(u, x)]
           g == [x \in Withdrawals |-> Owed(u, x)']
<1>1. OwedBy(u) = Total(f, NumWithdrawals) /\ OwedBy(u)' = Total(g, NumWithdrawals)
  BY DEF OwedBy
<1>2. \A x \in Withdrawals : Owed(u, x) \in Int /\ Owed(u, x)' \in Int
  <2>1. \A x \in Withdrawals : Outgoing(x) \in Nat
    BY OutgoingBounds
  <2>2. OutgoingNat'
    BY OutgoingType, PTL
  <2> QED  BY <2>1, <2>2 DEF Owed, OutgoingNat
<1>3. \A x \in Withdrawals \ {w} : Owed(u, x)' = Owed(u, x)
  BY DEF Owed, Outgoing
<1>4. /\ \A x \in 1..NumWithdrawals : f[x] \in Int /\ g[x] \in Int /\ (x # w => g[x] = f[x])
      /\ f[w] = Owed(u, w) /\ g[w] = Owed(u, w)' /\ w \in 1..NumWithdrawals
  BY <1>2, <1>3 DEF Withdrawals
<1> HIDE DEF f, g
<1>5. Total(g, NumWithdrawals) = Total(f, NumWithdrawals) + g[w] - f[w]
  BY ONLY <1>4, CountsAssumption, TotalChange
<1> QED  BY <1>1, <1>4, <1>5

\* Steps that move coins between the columns and the sums of rows.
LEMMA CoinsStaySolvent ==
  ASSUME SolventInv, TypeInv', PaidInv', Still, UNCHANGED <<withdrawals, paid, refresh>>,
         \A u \in Users : balance'[u] + lock'[u] + debits'[u] - credits'[u]
                          <= balance[u] + lock[u] + debits[u] - credits[u]
  PROVE  SolventInv'
<1>1. ASSUME NEW u \in Users PROVE UserSolvent(u)'
  <2>1. OwedBy(u)' = OwedBy(u)
    BY DEF OwedBy, Owed, Outgoing
  <2>2. OwedBy(u) \in Nat
    BY OwedByBounds DEF SolventInv
  <2>3. /\ balance[u] \in Nat /\ lock[u] \in Nat /\ debits[u] \in Nat /\ credits[u] \in Nat
        /\ balance'[u] \in Nat /\ lock'[u] \in Nat /\ debits'[u] \in Nat /\ credits'[u] \in Nat
    BY DEF SolventInv, TypeInv, TypeOK
  <2>4. balance[u] + lock[u] + debits[u] + OwedBy(u) <= credits[u]
    BY DEF SolventInv, UserSolvent
  <2>5. balance'[u] + lock'[u] + debits'[u] - credits'[u]
          <= balance[u] + lock[u] + debits[u] - credits[u]
    OBVIOUS
  <2>6. balance'[u] + lock'[u] + debits'[u] + OwedBy(u)' <= credits'[u]
    BY ONLY <2>1, <2>2, <2>3, <2>4, <2>5
  <2> QED  BY <2>6 DEF UserSolvent
<1>2. RefreshFresh'
  BY DEF Still, RefreshFresh
<1>3. \A w \in Withdrawals : ReservedOK(w)'
  BY DEF SolventInv, ReservedOK
<1> QED  BY <1>1, <1>2, <1>3 DEF SolventInv

\* Deposits, trades and transfers.
LEMMA UserMovesSolvent ==
  ASSUME SolventInv, TypeInv', PaidInv', Still, NEW u \in Users,
         \/ Deposit(u) \/ TradeLock(u) \/ TradeUnlock(u)
         \/ \E v \in Users : InternalTransfer(u, v)
  PROVE  SolventInv'
<1>0. /\ balance \in [Users -> Nat] /\ lock \in [Users -> Nat] /\ Amounts \subseteq Nat
      /\ credits \in [Users -> Nat] /\ debits \in [Users -> Nat]
  BY AmountsAssumption DEF SolventInv, TypeInv, TypeOK
<1>1. CASE Deposit(u)
  <2>1. PICK a \in Amounts : /\ credits' = [credits EXCEPT ![u] = @ + a]
                             /\ UNCHANGED <<balance, lock, debits, withdrawals, paid, refresh>>
    BY <1>1 DEF Deposit, wallets
  <2>2. \A v \in Users : balance'[v] + lock'[v] + debits'[v] - credits'[v]
                          <= balance[v] + lock[v] + debits[v] - credits[v]
    BY <1>0, <2>1
  <2> QED  BY <2>1, <2>2, CoinsStaySolvent
<1>2. CASE TradeLock(u)
  <2>1. PICK a \in Amounts : /\ balance' = [balance EXCEPT ![u] = @ - a] /\ lock' = [lock EXCEPT ![u] = @ + a]
                             /\ UNCHANGED <<debits, credits, withdrawals, paid, refresh>>
    BY <1>2 DEF TradeLock, rows
  <2>2. \A v \in Users : balance'[v] + lock'[v] + debits'[v] - credits'[v]
                          <= balance[v] + lock[v] + debits[v] - credits[v]
    BY <1>0, <2>1
  <2> QED  BY <2>1, <2>2, CoinsStaySolvent
<1>3. CASE TradeUnlock(u)
  <2>1. PICK a \in Amounts : /\ balance' = [balance EXCEPT ![u] = @ + a] /\ lock' = [lock EXCEPT ![u] = @ - a]
                             /\ UNCHANGED <<debits, credits, withdrawals, paid, refresh>>
    BY <1>3 DEF TradeUnlock, rows
  <2>2. \A v \in Users : balance'[v] + lock'[v] + debits'[v] - credits'[v]
                          <= balance[v] + lock[v] + debits[v] - credits[v]
    BY <1>0, <2>1
  <2> QED  BY <2>1, <2>2, CoinsStaySolvent
<1>4. ASSUME NEW v \in Users, InternalTransfer(u, v) PROVE SolventInv'
  <2>1. PICK a \in Amounts :
          /\ u # v
          /\ balance' = [balance EXCEPT ![u] = @ - a, ![v] = @ + a]
          /\ debits' = [debits EXCEPT ![u] = @ + a]
          /\ credits' = [credits EXCEPT ![v] = @ + a]
          /\ UNCHANGED <<lock, withdrawals, paid, refresh>>
    BY <1>4 DEF InternalTransfer, Move
  <2>2. ASSUME NEW x \in Users
        PROVE  balance'[x] + lock'[x] + debits'[x] - credits'[x]
                 <= balance[x] + lock[x] + debits[x] - credits[x]
    <3>1. CASE x = u
      BY <1>0, <2>1, <3>1
    <3>2. CASE x = v
      BY <1>0, <2>1, <3>2
    <3>3. CASE x # u /\ x # v
      BY <1>0, <2>1, <3>3
    <3> QED  BY <3>1, <3>2, <3>3
  <2> QED  BY <2>1, <2>2, CoinsStaySolvent
<1> QED  BY <1>1, <1>2, <1>3, <1>4

\* Steps of one withdrawal: what its user's wallet loses goes out.
LEMMA WorkStaysSolvent ==
  ASSUME SolventInv, TypeInv', PaidInv', Still, NEW w \in Withdrawals, ReservedOK(w)',
         UNCHANGED <<lock, rows, refresh>>,
         \A x \in Withdrawals \ {w} : withdrawals'[x] = withdrawals[x] /\ paid'[x] = paid[x],
         \A u \in Users : balance'[u] + Owed(u, w)' <= balance[u] + Owed(u, w)
  PROVE  SolventInv'
<1>1. ASSUME NEW u \in Users PROVE UserSolvent(u)'
  <2>1. OwedBy(u)' = OwedBy(u) + Owed(u, w)' - Owed(u, w)
    BY OwedByChanges DEF SolventInv
  <2>2. OwedBy(u) \in Nat /\ Owed(u, w) \in Nat
    BY OwedByBounds, OutgoingBounds DEF SolventInv
  <2>3. Owed(u, w)' \in Nat
    <3>1. OutgoingNat'
      BY OutgoingType, PTL
    <3> QED  BY <3>1 DEF OutgoingNat, Owed
  <2>4. /\ balance[u] \in Nat /\ lock[u] \in Nat /\ debits[u] \in Nat /\ credits[u] \in Nat
        /\ balance'[u] \in Nat /\ lock' = lock /\ debits' = debits /\ credits' = credits
    BY DEF SolventInv, TypeInv, TypeOK, rows
  <2>5. balance[u] + lock[u] + debits[u] + OwedBy(u) <= credits[u]
    BY DEF SolventInv, UserSolvent
  <2>6. balance'[u] + Owed(u, w)' <= balance[u] + Owed(u, w)
    OBVIOUS
  <2>7. balance'[u] + lock'[u] + debits'[u] + OwedBy(u)' <= credits'[u]
    BY ONLY <2>1, <2>2, <2>3, <2>4, <2>5, <2>6
  <2> QED  BY <2>7 DEF UserSolvent
<1>2. RefreshFresh'
  BY DEF Still, RefreshFresh
<1>3. \A x \in Withdrawals : ReservedOK(x)'
  BY DEF SolventInv, ReservedOK
<1> QED  BY <1>1, <1>2, <1>3 DEF SolventInv

\* The request and the background work, step by step.
LEMMA WithdrawStaysSolvent ==
  ASSUME SolventInv, TypeInv', PaidInv', Still, NEW w \in Withdrawals,
         WithdrawCheck(w) \/ WithdrawAccept(w) \/ WithdrawStep(w)
  PROVE  SolventInv'
<1> DEFINE wd == withdrawals[w]
           wx == withdrawals'[w]
           Kept == \A x \in Withdrawals \ {w} : withdrawals'[x] = withdrawals[x] /\ paid'[x] = paid[x]
<1>0. /\ wd \in Withdrawal /\ wd.amount \in Nat /\ paid[w] \in Nat /\ StageOK(w) /\ ReservedOK(w)
      /\ withdrawals \in [Withdrawals -> Withdrawal] /\ paid \in [Withdrawals -> Nat]
      /\ balance \in [Users -> Nat]
  BY DEF SolventInv, TypeInv, TypeOK, PaidInv, Withdrawal
<1>a. ASSUME UNCHANGED balance, Kept, UNCHANGED <<lock, rows, refresh>>, ReservedOK(w)',
             \/ wx.user = wd.user /\ Outgoing(w)' = Outgoing(w)
             \/ Outgoing(w) = 0 /\ Outgoing(w)' = 0
      PROVE  SolventInv'
  <2>1. ASSUME NEW u \in Users PROVE balance'[u] + Owed(u, w)' <= balance[u] + Owed(u, w)
    <3>1. Owed(u, w)' = Owed(u, w)
      BY <1>a DEF Owed
    <3>2. balance[u] \in Nat /\ Owed(u, w) \in Nat
      BY <1>0, OutgoingBounds DEF SolventInv
    <3> QED  BY <1>a, <3>1, <3>2
  <2> QED  BY <1>a, <2>1, WorkStaysSolvent
<1>1. CASE WithdrawCheck(w)
  <2>1. PICK u \in Users, a \in Amounts :
          withdrawals' = [withdrawals EXCEPT ![w] = [NoWithdrawal EXCEPT !.user = u, !.amount = a,
                                                                         !.stage = "checked"]]
    BY <1>1 DEF WithdrawCheck
  <2>2. /\ wd.stage = "none" /\ paid' = paid /\ UNCHANGED <<balance, lock, rows, refresh>> /\ Kept
        /\ wx.user = u /\ wx.stage = "checked" /\ wx.status = "none" /\ ~wx.reserved
    BY <1>0, <1>1, <2>1 DEF WithdrawCheck, NoWithdrawal, wallets
  <2>3. paid[w] = 0 /\ wd.status = "none"
    BY <1>0, <2>2 DEF StageOK
  <2>4. Outgoing(w) = 0 /\ Outgoing(w)' = 0 /\ ReservedOK(w)'
    BY <2>2, <2>3 DEF Outgoing, ReservedOK
  <2> QED  BY <1>a, <2>2, <2>4
<1>2. CASE WithdrawAccept(w)
  <2>1. /\ wd.stage = "checked" /\ paid' = paid /\ UNCHANGED <<balance, lock, rows, refresh>> /\ Kept
        /\ wx.user = wd.user /\ wx.stage = "accepted" /\ wx.reserved = wd.reserved
    BY <1>0, <1>2 DEF WithdrawAccept, Withdrawal, wallets
  <2>2. paid[w] = 0 /\ wd.status = "none" /\ ~wd.reserved /\ wd.user \in Users
    BY <1>0, <2>1 DEF StageOK, ReservedOK
  <2>3. Outgoing(w) = 0 /\ Outgoing(w)' = 0 /\ ReservedOK(w)'
    BY <2>1, <2>2 DEF Outgoing, ReservedOK
  <2> QED  BY <1>a, <2>1, <2>3
<1>3. CASE Reserve(w)
  <2>1. /\ wd.stage = "accepted" /\ paid' = paid /\ UNCHANGED <<lock, rows, refresh>> /\ Kept
        /\ wx.user = wd.user /\ wx.status = wd.status /\ wx.amount = wd.amount
        /\ \/ /\ balance[wd.user] >= wd.amount
              /\ balance' = [balance EXCEPT ![wd.user] = Positive(@ - wd.amount)]
              /\ wx.stage = "reserved" /\ wx.reserved
           \/ wx.stage = "failing" /\ wx.reserved = wd.reserved /\ UNCHANGED balance
    BY <1>0, <1>3 DEF Reserve, Enough, Withdrawal
  <2>2. paid[w] = 0 /\ wd.status = "pending" /\ ~wd.reserved /\ wd.user \in Users
    BY <1>0, <2>1 DEF StageOK, ReservedOK
  <2>3. Outgoing(w) = 0 /\ ReservedOK(w)'
    BY <2>1, <2>2 DEF Outgoing, ReservedOK
  <2>4. CASE wx.stage = "failing" /\ wx.reserved = wd.reserved /\ UNCHANGED balance
    <3>1. Outgoing(w)' = 0
      BY <2>1, <2>2, <2>4 DEF Outgoing
    <3> QED  BY <1>a, <2>1, <2>3, <2>4, <3>1
  <2>5. CASE /\ balance[wd.user] >= wd.amount
             /\ balance' = [balance EXCEPT ![wd.user] = Positive(@ - wd.amount)]
             /\ wx.reserved
    <3>1. Outgoing(w)' = wd.amount
      BY <2>1, <2>2, <2>5 DEF Outgoing
    <3>2. ASSUME NEW u \in Users PROVE balance'[u] + Owed(u, w)' <= balance[u] + Owed(u, w)
      <4>1. Owed(u, w) = 0 /\ Owed(u, w)' = IF wd.user = u THEN wd.amount ELSE 0
        BY <2>1, <2>3, <3>1 DEF Owed
      <4>2. balance'[u] = IF wd.user = u THEN balance[u] - wd.amount ELSE balance[u]
        BY <1>0, <2>2, <2>5 DEF Positive
      <4>3. balance[u] \in Nat
        BY <1>0
      <4> HIDE DEF wd
      <4> QED  BY <1>0, <4>1, <4>2, <4>3
    <3> QED  BY <2>1, <2>3, <3>2, WorkStaysSolvent
  <2> QED  BY <2>1, <2>4, <2>5
<1>4. CASE Send(w)
  <2>1. /\ wd.stage = "reserved" /\ paid'[w] = paid[w] + 1 /\ UNCHANGED <<balance, lock, rows, refresh>> /\ Kept
        /\ wx.user = wd.user /\ wx.amount = wd.amount /\ wx.stage = "sent" /\ wx.reserved = wd.reserved
    BY <1>0, <1>4 DEF Send, Withdrawal, wallets
  <2>2. paid[w] = 0 /\ wd.status = "pending" /\ wd.reserved /\ wd.user \in Users
    BY <1>0, <2>1 DEF StageOK, ReservedOK
  <2>3. Outgoing(w) = wd.amount /\ Outgoing(w)' = 1 * wd.amount /\ 1 * wd.amount = wd.amount
    BY <1>0, <2>1, <2>2 DEF Outgoing
  <2>4. ReservedOK(w)'
    BY <2>1, <2>2 DEF ReservedOK
  <2> QED  BY <1>a, <2>1, <2>3, <2>4
<1>5. CASE SendThrows(w)
  <2>1. /\ wd.stage = "reserved" /\ paid' = paid /\ UNCHANGED <<balance, lock, rows, refresh>> /\ Kept
        /\ wx.user = wd.user /\ wx.amount = wd.amount /\ wx.status = wd.status
        /\ wx.stage = AfterThrow(w) /\ wx.reserved = wd.reserved
    BY <1>0, <1>5 DEF SendThrows, Withdrawal, wallets
  <2>2. AfterThrow(w) \in {"reserved", "failing"} /\ wd.reserved /\ wd.user \in Users
    BY <1>0, <2>1 DEF ReservedOK, AfterThrow
  <2>3. Outgoing(w)' = Outgoing(w) /\ ReservedOK(w)'
    BY <2>1, <2>2 DEF Outgoing, ReservedOK
  <2> QED  BY <1>a, <2>1, <2>3
<1>6. CASE Record(w)
  <2>1. /\ wd.stage = "sent" /\ paid' = paid /\ UNCHANGED <<balance, lock, rows, refresh>> /\ Kept
        /\ wx.user = wd.user /\ wx.amount = wd.amount /\ wx.stage = "done"
    BY <1>0, <1>6 DEF Record, Withdrawal, wallets
  <2>2. paid[w] = 1 /\ wd.user \in Users
    BY <1>0, <2>1 DEF StageOK, ReservedOK
  <2>3. Outgoing(w)' = Outgoing(w) /\ ReservedOK(w)'
    BY <2>1, <2>2 DEF Outgoing, ReservedOK
  <2> QED  BY <1>a, <2>1, <2>3
<1>7. CASE Fail(w)
  <2>1. /\ wd.stage = "failing" /\ paid' = paid /\ UNCHANGED <<lock, rows, refresh>> /\ Kept
        /\ wx.user = wd.user /\ wx.status = "failed" /\ wx.stage = "done"
        /\ balance' = [balance EXCEPT ![wd.user] = @ + Refund(w)]
    BY <1>0, <1>7 DEF Fail, Withdrawal
  <2>2. paid[w] = 0 /\ wd.status = "pending" /\ wd.user \in Users
    BY <1>0, <2>1 DEF StageOK, ReservedOK
  <2>3. Outgoing(w) = Refund(w) /\ Outgoing(w)' = 0 /\ Refund(w) \in Nat /\ ReservedOK(w)'
    BY <1>0, <2>1, <2>2 DEF Outgoing, Refund, ReservedOK
  <2>4. ASSUME NEW u \in Users PROVE balance'[u] + Owed(u, w)' <= balance[u] + Owed(u, w)
    <3>1. Owed(u, w)' = 0 /\ Owed(u, w) = IF wd.user = u THEN Refund(w) ELSE 0
      BY <2>3 DEF Owed
    <3>2. balance'[u] = IF wd.user = u THEN balance[u] + Refund(w) ELSE balance[u]
      BY <1>0, <2>1
    <3>3. balance[u] \in Nat
      BY <1>0
    <3> HIDE DEF wd
    <3> QED  BY <2>3, <3>1, <3>2, <3>3
  <2> QED  BY <2>1, <2>3, <2>4, WorkStaysSolvent
<1> QED  BY <1>1, <1>2, <1>3, <1>4, <1>5, <1>6, <1>7 DEF WithdrawStep

\* A crash takes nothing out: a reserved amount stays out of the wallet.
LEMMA CrashStaysSolvent ==
  ASSUME SolventInv, TypeInv', PaidInv', Crash
  PROVE  SolventInv'
<1>1. /\ withdrawals' = [w \in Withdrawals |-> AfterCrash(withdrawals[w])]
      /\ refresh' = [r \in Refreshes |-> IdleRefresh]
      /\ UNCHANGED <<balance, lock, credits, debits, paid>>
  BY DEF Crash, wallets, rows
<1>2. ASSUME NEW w \in Withdrawals
      PROVE  /\ ReservedOK(w)'
             /\ \A u \in Users : Owed(u, w)' = Owed(u, w)
  <2> DEFINE wd == withdrawals[w]
  <2>0. /\ wd \in Withdrawal /\ StageOK(w) /\ ReservedOK(w)
        /\ withdrawals'[w] = AfterCrash(wd) /\ paid'[w] = paid[w]
    BY <1>1 DEF SolventInv, PaidInv
  <2>1. CASE wd.stage = "checked"
    <3>1. withdrawals'[w] = NoWithdrawal
      BY <2>0, <2>1 DEF AfterCrash, Underway
    <3>2. paid[w] = 0 /\ wd.status = "none"
      BY <2>0, <2>1 DEF StageOK
    <3>3. Outgoing(w) = 0 /\ Outgoing(w)' = 0
      BY <2>0, <3>1, <3>2 DEF Outgoing, NoWithdrawal
    <3>4. ReservedOK(w)'
      BY <3>1 DEF ReservedOK, NoWithdrawal
    <3> QED  BY <3>3, <3>4 DEF Owed
  <2>2. CASE wd.stage \in Underway
    <3>1. AfterCrash(wd) = [wd EXCEPT !.stage = "lost"]
      BY <2>2 DEF AfterCrash, Underway
    <3>2. /\ withdrawals'[w].user = wd.user /\ withdrawals'[w].amount = wd.amount
          /\ withdrawals'[w].status = wd.status /\ withdrawals'[w].reserved = wd.reserved
          /\ withdrawals'[w].stage = "lost"
      BY <2>0, <3>1 DEF Withdrawal
    <3>3. Outgoing(w)' = Outgoing(w)
      BY <2>0, <3>2 DEF Outgoing
    <3>4. ReservedOK(w)'
      BY <2>0, <2>2, <3>2 DEF ReservedOK, Underway
    <3> QED  BY <3>2, <3>3, <3>4 DEF Owed
  <2>3. CASE wd.stage # "checked" /\ wd.stage \notin Underway
    <3>1. withdrawals'[w] = wd
      BY <2>0, <2>3 DEF AfterCrash
    <3> QED  BY <2>0, <3>1 DEF ReservedOK, Owed, Outgoing
  <2> QED  BY <2>1, <2>2, <2>3
<1>3. ASSUME NEW u \in Users PROVE UserSolvent(u)'
  <2> DEFINE f == [w \in Withdrawals |-> Owed(u, w)]
             g == [w \in Withdrawals |-> Owed(u, w)']
  <2>1. f = g
    BY <1>2
  <2>2. OwedBy(u) = Total(f, NumWithdrawals) /\ OwedBy(u)' = Total(g, NumWithdrawals)
    BY DEF OwedBy
  <2>3. OwedBy(u)' = OwedBy(u)
    <3> HIDE DEF f, g
    <3> QED  BY <2>1, <2>2
  <2> QED  BY <1>1, <2>3 DEF SolventInv, UserSolvent
<1>4. RefreshFresh'
  BY <1>1 DEF RefreshFresh, IdleRefresh
<1> QED  BY <1>2, <1>3, <1>4 DEF SolventInv

\* A refresh that has its turn reads what is there, and what it saves is what the
\* rows leave: pending withdrawals count against the user, taken out or not.
LEMMA RefreshStaysSolvent ==
  ASSUME SolventInv, TypeInv', PaidInv', NEW r \in Refreshes,
         RefreshStep(r) \/ (Still /\ \E u \in Users : RefreshCredits(r, u))
  PROVE  SolventInv'
<1> DEFINE rf == refresh[r]
<1>0. UNCHANGED <<credits, debits, withdrawals, paid>>
  BY DEF RefreshStep, RefreshCredits, RefreshDebits, RefreshRow, RefreshSave, rows
<1>1. \A u : OwedBy(u)' = OwedBy(u) /\ Ledger(u)' = Ledger(u)
  BY <1>0 DEF OwedBy, Owed, Outgoing, Ledger, Withdrawn, Counts
<1>2. \A w \in Withdrawals : ReservedOK(w)'
  BY <1>0 DEF SolventInv, ReservedOK
<1>3. ASSUME UNCHANGED wallets, RefreshFresh' PROVE SolventInv'
  <2>1. \A u \in Users : UserSolvent(u)'
    BY <1>0, <1>1, <1>3 DEF SolventInv, UserSolvent, wallets
  <2> QED  BY <1>2, <1>3, <2>1 DEF SolventInv
<1>4. /\ refresh \in [Refreshes -> [stage : RefreshStage, user : Users \cup {0}, sum : Nat,
                                   row : [balance : Nat, lock : Nat]]]
      /\ (rf.stage # "idle" => rf.user \in Users) /\ RefreshFresh
  BY DEF SolventInv, TypeInv, TypeOK
<1>5. ASSUME NEW u \in Users, Still, RefreshCredits(r, u) PROVE SolventInv'
  <2>1. /\ refresh' = [refresh EXCEPT ![r] = [IdleRefresh EXCEPT !.stage = "credits", !.user = u,
                                                                 !.sum = credits[u]]]
        /\ UNCHANGED wallets
    BY <1>5 DEF RefreshCredits
  <2>2. /\ refresh'[r].stage = "credits" /\ refresh'[r].user = u /\ refresh'[r].sum = credits[u]
        /\ \A s \in Refreshes \ {r} : refresh'[s].stage = "idle"
    BY <1>4, <1>5, <2>1 DEF Still, IdleRefresh
  <2>3. RefreshFresh'
    BY <1>0, <2>2 DEF RefreshFresh
  <2> QED  BY <1>3, <2>1, <2>3
<1>6. ASSUME rf.stage # "idle" PROVE \A s \in Refreshes \ {r} : refresh[s].stage = "idle"
  BY <1>4, <1>6 DEF RefreshFresh
<1>7. CASE RefreshDebits(r)
  <2>1. /\ rf.stage = "credits" /\ UNCHANGED wallets
        /\ refresh' = [refresh EXCEPT ![r].stage = "ledger",
                                      ![r].sum = Positive(@ - Withdrawn(refresh[r].user))]
    BY <1>7 DEF RefreshDebits
  <2>2. /\ refresh'[r].stage = "ledger" /\ refresh'[r].user = rf.user
        /\ refresh'[r].sum = Positive(rf.sum - Withdrawn(rf.user))
        /\ \A s \in Refreshes \ {r} : refresh'[s].stage = "idle"
    BY <1>4, <1>6, <2>1
  <2>3. PICK v \in Users : v = rf.user
    BY <1>4, <2>1
  <2>4. rf.sum = credits[v]
    BY <1>4, <2>1, <2>3 DEF RefreshFresh
  <2>5. refresh'[r].user = v /\ refresh'[r].sum = Ledger(v)
    BY <2>2, <2>3, <2>4 DEF Ledger
  <2>6. refresh'[r].sum = Ledger(v)'
    BY <1>1, <2>5
  <2>7. RefreshFresh'
    BY <2>2, <2>5, <2>6 DEF RefreshFresh
  <2> QED  BY <1>3, <2>1, <2>7
<1>8. CASE RefreshRow(r)
  <2>1. /\ rf.stage = "ledger" /\ UNCHANGED wallets
        /\ refresh' = [refresh EXCEPT ![r].stage = "row",
                       ![r].row = [balance |-> balance[rf.user], lock |-> lock[rf.user]]]
    BY <1>8 DEF RefreshRow
  <2>2. /\ refresh'[r].stage = "row" /\ refresh'[r].user = rf.user /\ refresh'[r].sum = rf.sum
        /\ refresh'[r].row = [balance |-> balance[rf.user], lock |-> lock[rf.user]]
        /\ \A s \in Refreshes \ {r} : refresh'[s].stage = "idle"
    BY <1>4, <1>6, <2>1
  <2>3. refresh'[r].sum = Ledger(rf.user)' /\ balance' = balance /\ lock' = lock
    BY <1>1, <1>4, <2>1, <2>2 DEF RefreshFresh, wallets
  <2>4. RefreshFresh'
    BY <2>2, <2>3 DEF RefreshFresh
  <2> QED  BY <1>3, <2>1, <2>4
<1>9. CASE RefreshSave(r)
  <2> DEFINE v == rf.user
             available == Available(rf.sum, rf.row.lock)
  <2>1. /\ rf.stage = "row"
        /\ \/ UNCHANGED wallets
           \/ /\ balance' = [balance EXCEPT ![v] = available]
              /\ lock' = [lock EXCEPT ![v] = rf.row.lock]
        /\ refresh' = [refresh EXCEPT ![r] = IdleRefresh]
    BY <1>9 DEF RefreshSave
  <2>2. \A s \in Refreshes : refresh'[s].stage = "idle"
    BY <1>4, <1>6, <2>1 DEF IdleRefresh
  <2>3. RefreshFresh'
    BY <2>2 DEF RefreshFresh
  <2>4. CASE UNCHANGED wallets
    BY <1>3, <2>3, <2>4
  <2>5. CASE /\ balance' = [balance EXCEPT ![v] = available]
             /\ lock' = [lock EXCEPT ![v] = rf.row.lock]
    <3>1. v \in Users /\ rf.sum = Ledger(v) /\ rf.row.lock = lock[v]
      <4>1. v \in Users /\ rf.sum = Ledger(v)
        BY <1>4, <2>1 DEF RefreshFresh
      <4>2. rf.row = [balance |-> balance[v], lock |-> lock[v]]
        BY <1>4, <2>1 DEF RefreshFresh
      <4> HIDE DEF rf
      <4> QED  BY <4>1, <4>2
    <3>2. /\ balance \in [Users -> Nat] /\ lock \in [Users -> Nat]
          /\ debits \in [Users -> Nat] /\ credits \in [Users -> Nat]
      BY DEF SolventInv, TypeInv, TypeOK
    <3>3. available = Positive(Positive(credits[v] - Withdrawn(v)) - lock[v])
      BY <3>1 DEF Available, Ledger
    <3>4. ASSUME NEW u \in Users PROVE UserSolvent(u)'
      <4>1. balance[u] + lock[u] + debits[u] + OwedBy(u) <= credits[u]
        BY DEF SolventInv, UserSolvent
      <4>2. CASE u # v
        <5>1. balance'[u] = balance[u] /\ lock'[u] = lock[u]
          BY <2>5, <3>2, <4>2
        <5> QED  BY <1>0, <1>1, <4>1, <5>1 DEF UserSolvent
      <4>3. CASE u = v
        <5>1. balance'[u] = available /\ lock'[u] = lock[u]
          BY <2>5, <3>1, <3>2, <4>3
        <5>2. /\ Withdrawn(u) = debits[u] + Total(Counted(u), NumWithdrawals)
              /\ Total(Counted(u), NumWithdrawals) \in Nat
              /\ OwedBy(u) \in Nat /\ OwedBy(u) <= Total(Counted(u), NumWithdrawals)
          BY WithdrawnType, OwedByBounds DEF SolventInv, TypeInv
        <5>3. balance[u] \in Nat /\ lock[u] \in Nat /\ debits[u] \in Nat /\ credits[u] \in Nat
          BY <3>2
        <5>4. available = Positive(Positive(credits[u] - Withdrawn(u)) - lock[u])
          BY <3>3, <4>3
        <5> HIDE DEF available
        <5>5. available + lock[u] + debits[u] + OwedBy(u) <= credits[u]
          BY ONLY <4>1, <5>2, <5>3, <5>4 DEF Positive
        <5>6. debits'[u] = debits[u] /\ credits'[u] = credits[u] /\ OwedBy(u)' = OwedBy(u)
          BY <1>0, <1>1
        <5> QED  BY <5>1, <5>5, <5>6 DEF UserSolvent
      <4> QED  BY <4>2, <4>3
    <3> QED  BY <1>2, <2>3, <3>4 DEF SolventInv
  <2> QED  BY <2>1, <2>4, <2>5
<1> QED  BY <1>5, <1>7, <1>8, <1>9 DEF RefreshStep

LEMMA SolventStep ==
  ASSUME SolventInv, [RefreshedNext]_vars
  PROVE  SolventInv'
<1>1. TypeInv'
  BY TypeStep DEF SolventInv, RefreshedNext, Next
<1>2. PaidInv'
  <2>1. [NoticedNext]_vars
    BY DEF RefreshedNext, NoticedNext
  <2> QED  BY <2>1, PaidInvStep DEF SolventInv
<1>3. CASE Still /\ UserStep
  BY <1>1, <1>2, <1>3, UserMovesSolvent, WithdrawStaysSolvent DEF UserStep
<1>4. CASE Crash
  BY <1>1, <1>2, <1>4, CrashStaysSolvent
<1>5. CASE \E w \in Withdrawals : Still /\ WithdrawStep(w)
  BY <1>1, <1>2, <1>5, WithdrawStaysSolvent
<1>6. CASE \E r \in Refreshes : RefreshStep(r) \/ \E u \in Users : Still /\ RefreshCredits(r, u)
  BY <1>1, <1>2, <1>6, RefreshStaysSolvent
<1>7. CASE UNCHANGED vars
  <2>1. UNCHANGED <<balance, lock, credits, debits, withdrawals, paid, refresh>>
    BY <1>7 DEF vars, wallets, rows
  <2>2. \A u : OwedBy(u)' = OwedBy(u) /\ Ledger(u)' = Ledger(u)
    BY <2>1 DEF OwedBy, Owed, Outgoing, Ledger, Withdrawn, Counts
  <2>3. RefreshFresh'
    BY <2>1, <2>2 DEF SolventInv, RefreshFresh
  <2>4. \A u \in Users : UserSolvent(u)'
    BY <2>1, <2>2 DEF SolventInv, UserSolvent
  <2>5. \A w \in Withdrawals : ReservedOK(w)'
    BY <2>1 DEF SolventInv, ReservedOK
  <2> QED  BY <1>1, <1>2, <2>3, <2>4, <2>5 DEF SolventInv
<1> QED  BY <1>3, <1>4, <1>5, <1>6, <1>7 DEF RefreshedNext

LEMMA SolventInit == Init => SolventInv
<1> SUFFICES ASSUME Init PROVE SolventInv
  OBVIOUS
<1>1. TypeInv /\ PaidInv
  BY TypeInit, PaidInvInit
<1>2. RefreshFresh /\ \A w \in Withdrawals : ReservedOK(w)
  BY DEF Init, RefreshFresh, ReservedOK, IdleRefresh, NoWithdrawal
<1>3. ASSUME NEW u \in Users PROVE UserSolvent(u)
  <2> DEFINE f == [w \in Withdrawals |-> Owed(u, w)]
  <2>1. \A w \in 1..NumWithdrawals : f[w] = 0
    BY DEF Init, Owed, Outgoing, NoWithdrawal, Withdrawals
  <2>2. OwedBy(u) = Total(f, NumWithdrawals)
    BY DEF OwedBy
  <2> HIDE DEF f
  <2>3. OwedBy(u) = 0
    BY <2>1, <2>2, CountsAssumption, TotalZero
  <2> QED  BY <2>3 DEF Init, UserSolvent
<1> QED  BY <1>1, <1>2, <1>3 DEF SolventInv

\* What is true of each user is true of them all together.
LEMMA SolventTogether == SolventInv => Solvent
<1> SUFFICES ASSUME SolventInv PROVE Solvent
  OBVIOUS
<1> DEFINE held  == [u \in Users |-> balance[u] + lock[u] + debits[u]]
           owed  == [u \in Users |-> OwedBy(u)]
           both  == [u \in Users |-> balance[u] + lock[u] + debits[u] + OwedBy(u)]
           out   == [w \in Withdrawals |-> Outgoing(w)]
           owner == [w \in Withdrawals |-> withdrawals[w].user]
           part  == [u \in Users |-> [w \in Withdrawals |-> Owed(u, w)]]
<1>0. NumUsers \in Nat /\ NumWithdrawals \in Nat
  BY CountsAssumption
<1>1. ASSUME NEW u \in 1..NumUsers
      PROVE  /\ held[u] \in Int /\ owed[u] \in Int /\ both[u] \in Int /\ credits[u] \in Int
             /\ both[u] = held[u] + owed[u] /\ both[u] <= credits[u]
  <2>1. OwedBy(u) \in Nat
    BY OwedByBounds DEF SolventInv, Users
  <2>2. balance[u] \in Nat /\ lock[u] \in Nat /\ debits[u] \in Nat /\ credits[u] \in Nat
    BY DEF SolventInv, TypeInv, TypeOK, Users
  <2>3. balance[u] + lock[u] + debits[u] + OwedBy(u) <= credits[u]
    BY DEF SolventInv, UserSolvent, Users
  <2> QED  BY <2>1, <2>2, <2>3 DEF Users
<1>2. /\ \A w \in 1..NumWithdrawals : out[w] \in Int /\ (owner[w] \in 1..NumUsers \/ out[w] = 0)
      /\ \A u \in 1..NumUsers :
           /\ \A w \in 1..NumWithdrawals : part[u][w] = IF owner[w] = u THEN out[w] ELSE 0
           /\ owed[u] = Total(part[u], NumWithdrawals)
  <2>1. ASSUME NEW w \in 1..NumWithdrawals
        PROVE  out[w] \in Int /\ (owner[w] \in 1..NumUsers \/ out[w] = 0)
    BY OutgoingBounds DEF SolventInv, ReservedOK, Withdrawals, Users
  <2>2. ASSUME NEW u \in 1..NumUsers, NEW w \in 1..NumWithdrawals
        PROVE  part[u][w] = IF owner[w] = u THEN out[w] ELSE 0
    BY DEF Owed, Withdrawals, Users
  <2>3. \A u \in 1..NumUsers : owed[u] = Total(part[u], NumWithdrawals)
    BY DEF OwedBy, Users
  <2> QED  BY <2>1, <2>2, <2>3
<1>3. Solvent <=> Total(held, NumUsers) + Total(out, NumWithdrawals) <= Total(credits, NumUsers)
  BY DEF Solvent
<1> HIDE DEF held, owed, both, out, owner, part
<1>4. Total(both, NumUsers) = Total(held, NumUsers) + Total(owed, NumUsers)
  BY <1>0, <1>1, TotalPlus
<1>5. Total(both, NumUsers) <= Total(credits, NumUsers)
  BY <1>0, <1>1, TotalMonotone
<1>6. Total(owed, NumUsers) = Total(out, NumWithdrawals)
  <2>1. ByOwner(owed, NumUsers, part, owner, out, NumWithdrawals)
    BY <1>2 DEF ByOwner
  <2> QED  BY <1>0, <2>1, TotalByOwner
<1> QED  BY <1>3, <1>4, <1>5, <1>6

\* When a refresh is not interrupted, every payment is noticed and no trade is
\* settled, the wallets, with what was sent to other users and what was paid or
\* waits to be, never hold more than came in: whatever is deposited, locked,
\* transferred, withdrawn, refunded or lost in a crash.
THEOREM StaysSolvent == SerialSpec => []Solvent
BY SolventInit, SolventStep, SolventTogether, PTL DEF SerialSpec

-----------------------------------------------------------------------------
(* What a refresh leaves, when it is not interrupted.                      *)

\* A withdrawal that counts against its user and is still in the wallet.
Untaken(u) ==
  \E w \in Withdrawals : withdrawals[w].user = u /\ withdrawals[w].status = "pending"
                         /\ ~withdrawals[w].reserved

\* Without one, all that counts against a user has left the wallet, and the
\* locked coins are among those that the rows leave.
LEMMA LockWithinLedger ==
  ASSUME SolventInv, NEW u \in Users, ~Untaken(u)
  PROVE  Ledger(u) \in Nat /\ lock[u] \in Nat /\ lock[u] <= Ledger(u)
<1> DEFINE f == [w \in Withdrawals |-> Owed(u, w)]
           g == Counted(u)
<1>0. TypeInv /\ PaidInv /\ TypeOK
  BY DEF SolventInv, TypeInv
<1>1. ASSUME NEW w \in Withdrawals PROVE g[w] <= f[w] /\ g[w] \in Nat /\ f[w] \in Nat
  <2> DEFINE wd == withdrawals[w]
  <2>1. wd \in Withdrawal /\ wd.amount \in Nat /\ wd.stage \in Stage /\ StageOK(w)
    BY <1>0 DEF TypeOK, Withdrawal, PaidInv
  <2>2. /\ paid[w] = 0 \/ paid[w] = 1
        /\ wd.status = "success" => paid[w] = 1
    BY <2>1 DEF StageOK, Stage, Closing
  <2>3. 1 * wd.amount = wd.amount
    BY <2>1
  <2>4. ~(wd.user = u /\ wd.status = "pending" /\ ~wd.reserved)
    BY DEF Untaken
  <2>5. Counts(w, u) => Owed(u, w) = wd.amount
    BY <2>2, <2>3, <2>4 DEF Counts, Owed, Outgoing
  <2>6. /\ g[w] = IF Counts(w, u) THEN wd.amount ELSE 0
        /\ g[w] \in Nat /\ Owed(u, w) \in Nat
    BY <1>0, OutgoingBounds DEF Counted
  <2> QED  BY <2>1, <2>5, <2>6
<1>2. OwedBy(u) = Total(f, NumWithdrawals)
  BY DEF OwedBy
<1>3. Total(g, NumWithdrawals) <= Total(f, NumWithdrawals)
  <2>1. \A w \in 1..NumWithdrawals : g[w] \in Nat /\ f[w] \in Nat /\ g[w] <= f[w]
    BY <1>1 DEF Withdrawals
  <2> HIDE DEF f, g
  <2> QED  BY <2>1, CountsAssumption, TotalMonotone
<1>4. Withdrawn(u) = debits[u] + Total(g, NumWithdrawals) /\ Withdrawn(u) \in Nat
  BY <1>0, WithdrawnType
<1>5. OwedBy(u) \in Nat /\ OwedBy(u) <= Total(g, NumWithdrawals) /\ Total(g, NumWithdrawals) \in Nat
  BY <1>0, OwedByBounds, WithdrawnType
<1>6. balance[u] \in Nat /\ lock[u] \in Nat /\ debits[u] \in Nat /\ credits[u] \in Nat
  BY <1>0 DEF TypeOK
<1>7. balance[u] + lock[u] + debits[u] + OwedBy(u) <= credits[u]
  BY DEF SolventInv, UserSolvent
<1>8. Ledger(u) = Positive(credits[u] - Withdrawn(u))
  BY DEF Ledger
<1> HIDE DEF f, g
<1> QED  BY <1>2, <1>3, <1>4, <1>5, <1>6, <1>7, <1>8 DEF Positive

\* What the save of a refresh leaves in a wallet is what the rows leave its user.
SaveReconciles(r) ==
  LET u == refresh[r].user
  IN  balance'[u] + lock'[u] = Ledger(u) \/ Untaken(u)

LEMMA SaveStepReconciles ==
  ASSUME SolventInv, NEW r \in Refreshes, RefreshSave(r)
  PROVE  SaveReconciles(r)
<1> DEFINE rf == refresh[r]
           u  == rf.user
           available == Available(rf.sum, rf.row.lock)
<1>1. /\ rf.stage = "row"
      /\ \/ available = rf.row.balance /\ UNCHANGED wallets
         \/ /\ balance' = [balance EXCEPT ![u] = available]
            /\ lock' = [lock EXCEPT ![u] = rf.row.lock]
  BY DEF RefreshSave
<1>2. u \in Users /\ rf.sum = Ledger(u)
  BY <1>1 DEF SolventInv, TypeInv, RefreshFresh
<1>3. rf.row = [balance |-> balance[u], lock |-> lock[u]]
  BY <1>1 DEF SolventInv, RefreshFresh
<1>4. rf.row.lock = lock[u] /\ rf.row.balance = balance[u]
  <2> HIDE DEF rf, u
  <2> QED  BY <1>3
<1>5. balance \in [Users -> Nat] /\ lock \in [Users -> Nat]
  BY DEF SolventInv, TypeInv, TypeOK
<1>6. available = Positive(Ledger(u) - lock[u])
  BY <1>2, <1>4 DEF Available
<1> HIDE DEF rf, u, available
<1>7. balance'[u] = available /\ lock'[u] = lock[u]
  BY <1>1, <1>2, <1>4, <1>5 DEF wallets
<1>8. ASSUME ~Untaken(u) PROVE balance'[u] + lock'[u] = Ledger(u)
  <2>1. Ledger(u) \in Nat /\ lock[u] \in Nat /\ lock[u] <= Ledger(u)
    BY <1>2, <1>8, LockWithinLedger
  <2>2. available = Ledger(u) - lock[u]
    BY <1>6, <2>1 DEF Positive
  <2> QED  BY <1>7, <2>1, <2>2
<1> QED  BY <1>8 DEF SaveReconciles, u, rf

\* "Invariant: the coins in the wallet are totalDeposit - totalWithdraw =
\* uw_balance + uw_lock_balance" (wallets-scheduler.service.ts:901), for every
\* save of a refresh that is not interrupted: unless a withdrawal of that user
\* is accepted and its amount still in the wallet, balance and lock together are
\* just what the rows leave.
THEOREM RefreshReconciles ==
  SerialSpec => [][\A r \in Refreshes : RefreshSave(r) => SaveReconciles(r)]_vars
<1>1. SolventInv /\ [RefreshedNext]_vars
        => [\A r \in Refreshes : RefreshSave(r) => SaveReconciles(r)]_vars
  BY SaveStepReconciles
<1> QED  BY <1>1, SolventInit, SolventStep, PTL DEF SerialSpec

=============================================================================
