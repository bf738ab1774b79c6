---------------------------- MODULE WalletLedger ----------------------------
(***************************************************************************)
(* One coin, the two wallet columns uw_balance and uw_lock_balance of each *)
(* user, and the rows of wallet_histories they are recomputed from:        *)
(* withdrawals to the chain, transfers between users, the lock P2P trades  *)
(* take, and the refresh that overwrites uw_balance with what the rows say *)
(* less the lock.                                                          *)
(*                                                                         *)
(* A withdrawal is accepted by a request and carried out in the background *)
(* of the process: reserve, send through one RPC URL after another, then   *)
(* record the success or refund.  Nothing resumes it after a crash.        *)
(*                                                                         *)
(* AfterThrowRestarts and other definitions no action uses are slips the   *)
(* properties are tried against.                                           *)
(***************************************************************************)
EXTENDS Integers, Sums

CONSTANTS
  NumUsers,        \* users, in the order of their keys
  NumWithdrawals,  \* withdrawal requests
  Amounts,         \* what may be deposited, withdrawn, transferred or traded
  MaxCredits,      \* bound on the sum of each user's deposit rows
  Fund,            \* fund_amount, negative if fund_type is always_profitable
  Rpcs,            \* RPC URLs a withdrawal is tried on
  Refreshes        \* refreshes that may be under way at the same time

Users       == 1..NumUsers
Withdrawals == 1..NumWithdrawals

ASSUME CountsAssumption ==
  /\ NumUsers \in Nat /\ NumWithdrawals \in Nat /\ MaxCredits \in [Users -> Nat]
  /\ Rpcs \in Nat \ {0}
ASSUME AmountsAssumption == Amounts \subseteq Nat \ {0} /\ Fund \in Int

VARIABLES
  balance,      \* uw_balance
  lock,         \* uw_lock_balance
  credits,      \* sum of the user's SUCCESS deposit rows
  debits,       \* sum of the SUCCESS withdraw rows of transfers to other users
  withdrawals,  \* the withdraw rows and the background work on each
  paid,         \* how often the chain has paid each withdrawal
  refresh       \* the refreshes: what each has read

wallets == <<balance, lock>>
rows    == <<credits, debits>>
vars    == <<wallets, rows, withdrawals, paid, refresh>>

Status == {"none", "pending", "success", "failed"}
\* "lost": the process died with the work undone.
Stage  == {"none", "checked", "accepted", "reserved", "sent", "failing", "done", "lost"}

Withdrawal == [user : Users \cup {0}, amount : Nat, status : Status, stage : Stage,
               reserved : BOOLEAN, tries : Nat]
NoWithdrawal == [user |-> 0, amount |-> 0, status |-> "none", stage |-> "none",
                 reserved |-> FALSE, tries |-> 0]

RefreshStage == {"idle", "credits", "ledger", "row"}
IdleRefresh  == [stage |-> "idle", user |-> 0, sum |-> 0, row |-> [balance |-> 0, lock |-> 0]]

TypeOK ==
  /\ balance \in [Users -> Nat] /\ lock \in [Users -> Nat]
  /\ credits \in [Users -> Nat] /\ debits \in [Users -> Nat]
  /\ withdrawals \in [Withdrawals -> Withdrawal]
  /\ paid \in [Withdrawals -> Nat]
  /\ refresh \in [Refreshes -> [stage : RefreshStage, user : Users \cup {0}, sum : Nat,
                                row : [balance : Nat, lock : Nat]]]

Positive(n) == IF n > 0 THEN n ELSE 0

\* Withdraw rows that count against the user: pending and successful ones.
Counts(w, u) == withdrawals[w].user = u /\ withdrawals[w].status \in {"pending", "success"}
Withdrawn(u) ==
  debits[u] + Total([w \in Withdrawals |-> IF Counts(w, u) THEN withdrawals[w].amount ELSE 0],
                    NumWithdrawals)

\* What the rows say the user has, uw_balance and uw_lock_balance together.
Ledger(u) == Positive(credits[u] - Withdrawn(u))

\* What the fund of the exchange lets out.  (The rows of sweeps, which the code
\* counts among the deposits, and the fee of a withdrawal are left out.)
MaxWithdraw ==
  Total(credits, NumUsers) + Fund - Total([u \in Users |-> Withdrawn(u)], NumUsers)

-----------------------------------------------------------------------------
Init ==
  /\ balance = [u \in Users |-> 0] /\ lock = [u \in Users |-> 0]
  /\ credits = [u \in Users |-> 0] /\ debits = [u \in Users |-> 0]
  /\ withdrawals = [w \in Withdrawals |-> NoWithdrawal]
  /\ paid = [w \in Withdrawals |-> 0]
  /\ refresh = [r \in Refreshes |-> IdleRefresh]

\* A deposit gets its row (DepositSync); the balance follows at the next refresh.
Deposit(u) ==
  \E a \in Amounts :
    /\ credits[u] + a <= MaxCredits[u]
    /\ credits' = [credits EXCEPT ![u] = @ + a]
    /\ UNCHANGED <<wallets, debits, withdrawals, paid, refresh>>

\* P2P trades move coins between the columns ...
TradeLock(u) ==
  \E a \in Amounts :
    /\ balance[u] >= a
    /\ balance' = [balance EXCEPT ![u] = @ - a] /\ lock' = [lock EXCEPT ![u] = @ + a]
    /\ UNCHANGED <<rows, withdrawals, paid, refresh>>
TradeUnlock(u) ==
  \E a \in Amounts :
    /\ lock[u] >= a
    /\ balance' = [balance EXCEPT ![u] = @ + a] /\ lock' = [lock EXCEPT ![u] = @ - a]
    /\ UNCHANGED <<rows, withdrawals, paid, refresh>>

\* ... and between users, without a row of wallet_histories.
SettleTrade(seller, buyer) ==
  \E a \in Amounts :
    /\ seller # buyer /\ lock[seller] >= a
    /\ lock' = [lock EXCEPT ![seller] = @ - a]
    /\ balance' = [balance EXCEPT ![buyer] = @ + a]
    /\ UNCHANGED <<rows, withdrawals, paid, refresh>>

\* internalExchangeTransfer: both wallets and both rows in one transaction.
Move(u, v, a) ==
  /\ balance[u] >= a
  /\ balance' = [balance EXCEPT ![u] = @ - a, ![v] = @ + a]
  /\ debits' = [debits EXCEPT ![u] = @ + a]
  /\ credits' = [credits EXCEPT ![v] = @ + a]
  /\ UNCHANGED <<lock, withdrawals, paid, refresh>>
InternalTransfer(u, v) ==
  \E a \in Amounts : u # v /\ credits[v] + a <= MaxCredits[v] /\ a <= MaxWithdraw /\ Move(u, v, a)

-----------------------------------------------------------------------------
(* A withdrawal: the request.                                              *)

\* The balance and the fund are read without a lock ...
WithdrawCheck(w) ==
  \E u \in Users, a \in Amounts :
    /\ withdrawals[w].stage = "none" /\ \A x \in Withdrawals : x < w => withdrawals[x].stage # "none"
    /\ balance[u] >= a /\ a <= MaxWithdraw
    /\ withdrawals' = [withdrawals EXCEPT ![w] = [NoWithdrawal EXCEPT !.user = u, !.amount = a,
                                                                      !.stage = "checked"]]
    /\ UNCHANGED <<wallets, rows, paid, refresh>>

\* ... and a pending row is inserted.
WithdrawAccept(w) ==
  /\ withdrawals[w].stage = "checked"
  /\ withdrawals' = [withdrawals EXCEPT ![w].status = "pending", ![w].stage = "accepted"]
  /\ UNCHANGED <<wallets, rows, paid, refresh>>

-----------------------------------------------------------------------------
(* A withdrawal: processWithdrawInBackground.                              *)

\* Debit the wallet, if it still has the amount.
Enough(u, a)       == balance[u] >= a
EnoughOrLock(u, a) == balance[u] + lock[u] >= a

Reserve(w) ==
  LET u == withdrawals[w].user
      a == withdrawals[w].amount
  IN  /\ withdrawals[w].stage = "accepted"
      /\ \/ /\ Enough(u, a)
            /\ balance' = [balance EXCEPT ![u] = Positive(@ - a)]
            /\ withdrawals' = [withdrawals EXCEPT ![w].stage = "reserved", ![w].reserved = TRUE]
         \/ /\ ~Enough(u, a)
            /\ withdrawals' = [withdrawals EXCEPT ![w].stage = "failing"]
            /\ UNCHANGED balance
      /\ UNCHANGED <<lock, rows, paid, refresh>>

\* The stage after an RPC URL has thrown: the next one is tried, or none is left.
AfterThrowRestarts(w) == IF withdrawals[w].tries + 1 < Rpcs THEN "reserved" ELSE "accepted"
AfterThrowAsSent(w)   == IF withdrawals[w].tries + 1 < Rpcs THEN "reserved" ELSE "sent"
AfterThrow(w)         == IF withdrawals[w].tries + 1 < Rpcs THEN "reserved" ELSE "failing"

\* The chain takes the transfer and the node confirms it.
Send(w) ==
  /\ withdrawals[w].stage = "reserved"
  /\ paid' = [paid EXCEPT ![w] = @ + 1]
  /\ withdrawals' = [withdrawals EXCEPT ![w].stage = "sent"]
  /\ UNCHANGED <<wallets, rows, refresh>>

\* The URL throws before the chain has taken the transfer ...
SendThrows(w) ==
  /\ withdrawals[w].stage = "reserved"
  /\ withdrawals' = [withdrawals EXCEPT ![w].stage = AfterThrow(w),
                                        ![w].tries = IF @ + 1 < Rpcs THEN @ + 1 ELSE @]
  /\ UNCHANGED <<wallets, rows, paid, refresh>>

\* ... or after: sendTransaction has returned, and waiting for it throws.
SendUnseen(w) ==
  /\ withdrawals[w].stage = "reserved"
  /\ paid' = [paid EXCEPT ![w] = @ + 1]
  /\ withdrawals' = [withdrawals EXCEPT ![w].stage = AfterThrow(w),
                                        ![w].tries = IF @ + 1 < Rpcs THEN @ + 1 ELSE @]
  /\ UNCHANGED <<wallets, rows, refresh>>

Record(w) ==
  /\ withdrawals[w].stage = "sent"
  /\ withdrawals' = [withdrawals EXCEPT ![w].status = "success", ![w].stage = "done"]
  /\ UNCHANGED <<wallets, rows, paid, refresh>>

\* Saving the success throws inside the same try block.
RecordThrows(w) ==
  /\ withdrawals[w].stage = "sent"
  /\ withdrawals' = [withdrawals EXCEPT ![w].stage = "failing"]
  /\ UNCHANGED <<wallets, rows, paid, refresh>>

\* Give the amount back if it was reserved, and close the row.
RefundAlways(w) == withdrawals[w].amount
Refund(w)       == IF withdrawals[w].reserved THEN withdrawals[w].amount ELSE 0

Fail(w) ==
  /\ withdrawals[w].stage = "failing"
  /\ balance' = [balance EXCEPT ![withdrawals[w].user] = @ + Refund(w)]
  /\ withdrawals' = [withdrawals EXCEPT ![w].status = "failed", ![w].stage = "done"]
  /\ UNCHANGED <<lock, rows, paid, refresh>>

-----------------------------------------------------------------------------
(* updateUserBalanceIfChanged: two sums, the wallet, then the whole row.   *)

RefreshCredits(r, u) ==
  /\ refresh[r].stage = "idle"
  /\ refresh' = [refresh EXCEPT ![r] = [IdleRefresh EXCEPT !.stage = "credits", !.user = u,
                                                           !.sum = credits[u]]]
  /\ UNCHANGED <<wallets, rows, withdrawals, paid>>

RefreshDebits(r) ==
  /\ refresh[r].stage = "credits"
  /\ refresh' = [refresh EXCEPT ![r].stage = "ledger",
                                ![r].sum = Positive(@ - Withdrawn(refresh[r].user))]
  /\ UNCHANGED <<wallets, rows, withdrawals, paid>>

RefreshRow(r) ==
  /\ refresh[r].stage = "ledger"
  /\ LET u == refresh[r].user
     IN  refresh' = [refresh EXCEPT ![r].stage = "row",
                                    ![r].row = [balance |-> balance[u], lock |-> lock[u]]]
  /\ UNCHANGED <<wallets, rows, withdrawals, paid>>

\* What is available: the rows' sum less the lock.
AvailableIgnoringLock(sum, locked) == sum
AvailableUnclamped(sum, locked)    == sum - locked
Available(sum, locked)             == Positive(sum - locked)

\* save() writes every column that differs from the entity, the lock included.
RefreshSave(r) ==
  LET u         == refresh[r].user
      row       == refresh[r].row
      available == Available(refresh[r].sum, row.lock)
  IN  /\ refresh[r].stage = "row"
      /\ IF available # row.balance
         THEN balance' = [balance EXCEPT ![u] = available] /\ lock' = [lock EXCEPT ![u] = row.lock]
         ELSE UNCHANGED wallets
      /\ refresh' = [refresh EXCEPT ![r] = IdleRefresh]
      /\ UNCHANGED <<rows, withdrawals, paid>>

-----------------------------------------------------------------------------
\* The process dies and comes back: a pending row stays as it is.
Underway == {"accepted", "reserved", "sent", "failing"}
AfterCrash(wd) ==
  CASE wd.stage = "checked"     -> NoWithdrawal
    [] wd.stage \in Underway    -> [wd EXCEPT !.stage = "lost"]
    [] OTHER                    -> wd
Crash ==
  /\ \/ \E w \in Withdrawals : withdrawals[w].stage \in Underway
     \/ \E r \in Refreshes : refresh[r].stage # "idle"
  /\ withdrawals' = [w \in Withdrawals |-> AfterCrash(withdrawals[w])]
  /\ refresh' = [r \in Refreshes |-> IdleRefresh]
  /\ UNCHANGED <<wallets, rows, paid>>

-----------------------------------------------------------------------------
UserStep ==
  \/ \E u \in Users : Deposit(u) \/ TradeLock(u) \/ TradeUnlock(u)
  \/ \E u, v \in Users : InternalTransfer(u, v)
  \/ \E w \in Withdrawals : WithdrawCheck(w) \/ WithdrawAccept(w)
WithdrawStep(w) == Reserve(w) \/ Send(w) \/ SendThrows(w) \/ Record(w) \/ Fail(w)
RefreshStep(r)  == RefreshDebits(r) \/ RefreshRow(r) \/ RefreshSave(r)

\* Payments the chain takes and the server does not know of.
Unnoticed(w) == SendUnseen(w) \/ RecordThrows(w)

Next ==
  \/ UserStep \/ Crash
  \/ \E u, v \in Users : SettleTrade(u, v)
  \/ \E w \in Withdrawals : WithdrawStep(w) \/ Unnoticed(w)
  \/ \E r \in Refreshes : RefreshStep(r) \/ \E u \in Users : RefreshCredits(r, u)
Spec == Init /\ [][Next]_vars

\* No step comes between those of a refresh ...
Still == \A r \in Refreshes : refresh[r].stage = "idle"
RefreshedNext ==
  \/ Still /\ (UserStep \/ Crash)
  \/ \E w \in Withdrawals : Still /\ WithdrawStep(w)
  \/ \E r \in Refreshes : RefreshStep(r) \/ \E u \in Users : Still /\ RefreshCredits(r, u)

\* ... every payment is noticed, and no trade is settled; or some are.
SerialSpec      == Init /\ [][RefreshedNext]_vars
SerialTradeNext == RefreshedNext \/ \E u, v \in Users : Still /\ SettleTrade(u, v)
SerialTradeSpec == Init /\ [][SerialTradeNext]_vars

-----------------------------------------------------------------------------
(* Properties.                                                             *)

\* What has left the exchange, or has left a wallet in order to.
Outgoing(w) ==
  IF paid[w] > 0 THEN paid[w] * withdrawals[w].amount
  ELSE IF withdrawals[w].status = "pending" /\ withdrawals[w].reserved
       THEN withdrawals[w].amount
       ELSE 0

\* The wallets never hold more than has come in and not gone out.  A refresh
\* "keeps uw_lock_balance ... so that P2P releases are not credited twice"
\* (wallets-scheduler.service.ts:900-902), whatever withdrawals are under way.
Solvent ==
  Total([u \in Users |-> balance[u] + lock[u] + debits[u]], NumUsers)
    + Total([w \in Withdrawals |-> Outgoing(w)], NumWithdrawals)
  <= Total(credits, NumUsers)

\* A withdrawal marked SUCCESS was paid once, one marked FAILED ("withdrawal
\* failed.", wallets.service.ts:2765) was not paid, and none is paid twice.
PaidAsRecorded ==
  \A w \in Withdrawals :
    /\ paid[w] <= 1
    /\ withdrawals[w].status = "success" => paid[w] = 1
    /\ withdrawals[w].status = "failed"  => paid[w] = 0

\* Every accepted withdrawal is closed, unless the process died on it.
EveryWithdrawalEnds ==
  \A w \in Withdrawals :
    withdrawals[w].status = "pending"
      ~> (withdrawals[w].status \in {"success", "failed"} \/ withdrawals[w].stage = "lost")

\* "Invariant: the coins in the wallet are totalDeposit - totalWithdraw =
\* uw_balance + uw_lock_balance" (wallets-scheduler.service.ts:901): it is so in
\* the end, for users whose withdrawals were not lost.
HoldingsMatchLedger ==
  \A u \in Users :
    <>[](\/ balance[u] + lock[u] = Ledger(u)
         \/ \E w \in Withdrawals : withdrawals[w].user = u /\ withdrawals[w].stage = "lost")

\* Background work goes on (it ends by itself: the URLs run out), and every
\* user's wallet is refreshed now and then.
Fairness ==
  /\ \A w \in Withdrawals : SF_vars(WithdrawAccept(w) \/ WithdrawStep(w))
  /\ \A r \in Refreshes : WF_vars(RefreshStep(r))
  /\ \A u \in Users : SF_vars(\E r \in Refreshes : RefreshCredits(r, u))
FairSerialSpec == SerialSpec /\ Fairness

=============================================================================
