---------------------------- MODULE DepositSync ----------------------------
(***************************************************************************)
(* How coins sent to a user's deposit address become a balance, and how    *)
(* the exchange then collects them: the cron job and the on-demand sync    *)
(* that read the chain, the list of known deposits kept in Redis and in a  *)
(* file, the SUCCESS rows of wallet_histories, and the sweep of the        *)
(* address into the exchange's own wallets.  One address, one coin; the    *)
(* user neither trades nor withdraws here (WalletLedger does that), and    *)
(* Redis keeps its list (the file it is read from otherwise, which only    *)
(* grows, is TransferFiles).                                               *)
(*                                                                         *)
(* A transaction may pay the address several times: its transfers have one *)
(* hash and may differ in amount, and hashes are what the list and the     *)
(* rows are compared by.                                                   *)
(*                                                                         *)
(* The cron job runs every two minutes whether or not the last run ended,  *)
(* and a withdrawal syncs on its own, so several syncs may be under way.   *)
(*                                                                         *)
(* FinalForgets and the other definitions no action uses are slips the     *)
(* properties are tried against.                                           *)
(***************************************************************************)
EXTENDS Integers, Sequences, Sums

CONSTANTS
  NumDeposits,  \* transfers to the address, in the order of their keys
  Amount,       \* how much each transfer is
  Hash,         \* the transaction it is part of, named by one of its transfers
  Syncs,        \* syncs that may be under way at the same time
  MinSweep,     \* a balance up to this is not worth sweeping: 10 USDT
  MinLeg,       \* nor is a transfer below this worth sending: 0.01 USDT
  CeoPercent,   \* what part of a sweep goes to the CEO wallet
  Failures      \* whether queries and nodes may fail where nothing tries again

Deposits == 1..NumDeposits

ASSUME DepositsAssumption ==
  NumDeposits \in Nat /\ Amount \in [Deposits -> Nat \ {0}] /\ Hash \in [Deposits -> Deposits]
ASSUME SweepAssumption ==
  /\ MinSweep \in Nat /\ MinLeg \in Nat \ {0} /\ CeoPercent \in 0..100
  /\ Failures \in BOOLEAN

VARIABLES
  sent,       \* transfers that are on the chain
  onAddress,  \* what the address holds on the chain
  watched,    \* the address has an active_wallet_trackers row not yet expired
  cache,      \* transfers listed in Redis
  rows,       \* SUCCESS deposit rows per transfer
  adminRows,  \* sum of ADMIN_DEPOSIT rows, by the kind of their wh_node
  balance,    \* uw_balance
  tracker,    \* wallet_deposit_tracker: no row, wdt_withdraw false, or true
  sync,       \* the syncs: what each has read
  busy,       \* isMainWithdrawProcessing
  sweep       \* the sweep of this address

chainVars == <<sent, onAddress, watched>>
sweepVars == <<adminRows, busy, sweep>>
syncVars  == <<cache, rows, balance, sync>>
vars == <<chainVars, sweepVars, syncVars, tracker>>

SyncStage  == {"idle", "begun", "fetched", "saved", "inserting", "tracking"}
SweepStage == {"idle", "begun", "gas", "read", "sending", "mark"}
Mode       == {"cron", "manual"}

IdleSync  == [stage |-> "idle", mode |-> "cron", conflict |-> FALSE, txs |-> {}, missing |-> {}]
IdleSweep == [stage |-> "idle", legs |-> <<>>]

TypeOK ==
  /\ sent \subseteq Deposits /\ cache \subseteq Deposits
  /\ onAddress \in Nat
  /\ watched \in BOOLEAN /\ busy \in BOOLEAN
  /\ rows \in [Deposits -> Nat]
  /\ adminRows \in [{"network", "leg"} -> Nat]
  /\ balance \in Nat
  /\ tracker \in {"none", "toSweep", "swept"}
  /\ sync \in [Syncs -> [stage : SyncStage, mode : Mode, conflict : BOOLEAN,
                         txs : SUBSET Deposits, missing : SUBSET Deposits]]
  /\ sweep \in [stage : SweepStage, legs : Seq(Nat)]

Credited == Total([d \in Deposits |-> rows[d] * Amount[d]], NumDeposits)

\* What the cron job compares the address with: the deposit rows less the
\* ADMIN_DEPOSIT rows whose wh_node is the network's symbol.
DepositBalance == Credited - adminRows["network"]

Known == {d \in Deposits : rows[d] > 0}

Hashes(txs) == {Hash[d] : d \in txs}
Worth(txs)  == Total([d \in Deposits |-> IF d \in txs THEN Amount[d] ELSE 0], NumDeposits)

-----------------------------------------------------------------------------
Init ==
  /\ sent = {} /\ onAddress = 0 /\ watched = TRUE
  /\ cache = {} /\ rows = [d \in Deposits |-> 0] /\ balance = 0
  /\ adminRows = [k \in {"network", "leg"} |-> 0] /\ tracker = "none"
  /\ sync = [s \in Syncs |-> IdleSync]
  /\ busy = FALSE /\ sweep = IdleSweep

\* A transaction pays to the address, with all its transfers at once.
Arrive ==
  \E d \in Deposits \ sent :
    /\ \A e \in Deposits : e < d => e \in sent
    /\ LET txs == {e \in Deposits : Hash[e] = Hash[d]}
       IN  sent' = sent \cup txs /\ onAddress' = onAddress + Worth(txs)
    /\ UNCHANGED <<watched, syncVars, sweepVars, tracker>>

\* The user opens the wallet page: the address is watched for another hour.
TrackingWallet ==
  /\ ~watched /\ watched' = TRUE
  /\ UNCHANGED <<sent, onAddress, syncVars, sweepVars, tracker>>

TrackerExpires ==
  /\ watched /\ watched' = FALSE
  /\ UNCHANGED <<sent, onAddress, syncVars, sweepVars, tracker>>

-----------------------------------------------------------------------------
(* One sync: processWalletTrackerForCoin, then the refresh of uw_balance.  *)

\* checkCacheConflict looks, for every listed transfer, at the first row with its
\* hash, in no particular order of the rows: one of another amount is a conflict.
Firsts == {f \in SUBSET Known : Hashes(f) = Hashes(Known) /\ \A d, e \in f : Hash[d] = Hash[e] => d = e}
Differ(txs, known) == \E d \in txs, e \in known : Hash[d] = Hash[e] /\ Amount[d] # Amount[e]

\* Start with the transfers that are listed.
Begin(s, mode) ==
  /\ sync[s].stage = "idle"
  /\ \E first \in Firsts :
       sync' = [sync EXCEPT ![s] = [stage |-> "begun", mode |-> mode, conflict |-> Differ(cache, first),
                                    txs |-> cache, missing |-> {}]]
  /\ UNCHANGED <<chainVars, cache, rows, balance, sweepVars, tracker>>

\* The cron job looks at watched addresses only ...
CronBegin(s) == watched /\ Begin(s, "cron")

\* ... and a request to withdraw at an address whose balance is not what the
\* rows say.
ManualBegin(s) == balance # Credited /\ Begin(s, "manual")

SyncBegin(s) == CronBegin(s) \/ ManualBegin(s)

\* Transfers the sync goes on with after it has fetched some: those listed and
\* those of transactions that are not; or, after a conflict, those fetched in
\* the place of those listed, unless there are none.
KeptIfEmpty(listed, found) == IF found = {} THEN listed ELSE found
FinalForgets(listed, found, conflict) == KeptIfEmpty(listed, found)
Final(listed, found, conflict) ==
  IF conflict THEN KeptIfEmpty(listed, found)
  ELSE listed \cup {d \in found : Hash[d] \notin Hashes(listed)}

\* The cron job fetches only when the address does not hold what the rows say;
\* a balance that cannot be read counts as 0.
BalanceSuffices(onchain) == onchain <= DepositBalance
BalanceMatches(onchain)  == onchain = DepositBalance

\* Fetch transfers, recent ones or after a conflict the whole history: all of
\* them, or fewer when the node or the explorer fails or stops at a limit.
FetchSome(s, onchain, found) ==
  /\ sync[s].stage = "begun"
  /\ LET skip == sync[s].mode = "cron" /\ BalanceMatches(onchain)
     IN  sync' = [sync EXCEPT ![s].stage = "fetched",
                              ![s].txs = IF skip THEN @ ELSE Final(@, found, sync[s].conflict)]
  /\ UNCHANGED <<chainVars, cache, rows, balance, sweepVars, tracker>>
Fetch(s) == \E onchain \in {0, onAddress}, found \in SUBSET sent : FetchSome(s, onchain, found)
FetchAll(s) == FetchSome(s, onAddress, sent)

SaveCache(s) ==
  /\ sync[s].stage = "fetched"
  /\ cache' = sync[s].txs
  /\ sync' = [sync EXCEPT ![s].stage = "saved"]
  /\ UNCHANGED <<chainVars, rows, balance, sweepVars, tracker>>

\* syncTransactions: read which transfers have no row with their hash ...
MissingAll(txs) == txs
Missing(txs)    == {d \in txs : Hash[d] \notin Hashes(Known)}

ReadRows(s) ==
  /\ sync[s].stage = "saved"
  /\ sync' = [sync EXCEPT ![s].stage = "inserting", ![s].missing = Missing(sync[s].txs)]
  /\ UNCHANGED <<chainVars, cache, rows, balance, sweepVars, tracker>>

\* ... insert the others one by one; an insert that fails is logged and left to
\* a later sync ...
InsertRow(s) ==
  \E d \in sync[s].missing :
    /\ sync[s].stage = "inserting"
    /\ \/ /\ rows' = [rows EXCEPT ![d] = @ + 1]
          /\ sync' = [sync EXCEPT ![s].stage = "tracking", ![s].missing = @ \ {d}]
       \/ /\ sync' = [sync EXCEPT ![s].missing = @ \ {d}]
          /\ UNCHANGED rows
    /\ UNCHANGED <<chainVars, cache, balance, sweepVars, tracker>>

\* ... and have the address swept again.
TrackDepositOnce(s) ==
  /\ sync[s].stage = "tracking"
  /\ tracker' = IF tracker = "none" THEN "toSweep" ELSE tracker
  /\ sync' = [sync EXCEPT ![s].stage = "inserting"]
  /\ UNCHANGED <<chainVars, cache, rows, balance, sweepVars>>
TrackDeposit(s) ==
  /\ sync[s].stage = "tracking"
  /\ tracker' = "toSweep"
  /\ sync' = [sync EXCEPT ![s].stage = "inserting"]
  /\ UNCHANGED <<chainVars, cache, rows, balance, sweepVars>>

\* The tracker cannot be read or saved: the row is there all the same.
TrackDepositFails(s) ==
  /\ Failures /\ sync[s].stage = "tracking"
  /\ sync' = [sync EXCEPT ![s].stage = "inserting"]
  /\ UNCHANGED <<chainVars, cache, rows, balance, sweepVars, tracker>>

\* A query throws: the sync gives up where it is.
SyncFails(s) ==
  /\ Failures /\ sync[s].stage # "idle"
  /\ sync' = [sync EXCEPT ![s] = IdleSync]
  /\ UNCHANGED <<chainVars, cache, rows, balance, sweepVars, tracker>>

\* updateUserBalanceIfChanged, with no withdrawals and nothing locked.
SyncEnd(s) ==
  /\ sync[s].stage = "inserting" /\ sync[s].missing = {}
  /\ balance' = Credited
  /\ sync' = [sync EXCEPT ![s] = IdleSync]
  /\ UNCHANGED <<chainVars, cache, rows, sweepVars, tracker>>

-----------------------------------------------------------------------------
(* The sweep: processMainWithdraw and processSingleWalletWithdraw.         *)

\* A part that is too small to send goes with the other part.
SplitSweepTwice(a) ==
  LET toCeo == (2 * a * CeoPercent + 100) \div 200
  IN  IF toCeo >= MinLeg THEN <<toCeo, a>> ELSE <<a>>
SplitSweep(a) ==
  LET toCeo == (2 * a * CeoPercent + 100) \div 200
  IN  IF toCeo >= MinLeg /\ a - toCeo >= MinLeg THEN <<toCeo, a - toCeo>> ELSE <<a>>

\* Started by the cron job or an administrator when some tracker asks for it.  It
\* need not be this one: the sweep takes every watched address, also an expired
\* one, of a user with such a tracker on a network with one, be it another's.
SweepStart ==
  /\ ~busy
  /\ busy' = TRUE
  /\ sweep' = [IdleSweep EXCEPT !.stage = "begun"]
  /\ UNCHANGED <<chainVars, syncVars, tracker, adminRows>>

\* A query between setting the flag and the background work throws.
SweepStartThrows ==
  /\ Failures /\ ~busy
  /\ busy' = TRUE
  /\ UNCHANGED <<chainVars, syncVars, tracker, adminRows, sweep>>

\* The address is left as it is: the next sweep comes back to it.
Leave     == sweep' = IdleSweep /\ busy' = FALSE
GoOn(stg) == sweep' = [sweep EXCEPT !.stage = stg] /\ UNCHANGED busy
SweepOnly == UNCHANGED <<chainVars, syncVars, tracker, adminRows>>

\* The wallets that collect on the network are made ready: it may not be set up
\* for the coin, and what throws here ends the work on the network in silence.
SweepSetUp == sweep.stage = "begun" /\ SweepOnly /\ (GoOn("gas") \/ Leave)

\* Gas for the address: topped up if it is short, and given up if that fails or
\* throws ...
GasRefused == Leave
\* ... or topped up a second time, where failing does not matter.
GasSupplied == GoOn("read")
SweepGas == sweep.stage = "gas" /\ SweepOnly /\ (GasSupplied \/ GasRefused)

\* What the address is found to hold: on Solana a balance that cannot be read
\* counts as 0.
Readable == IF Failures THEN {0, onAddress} ELSE {onAddress}

\* Read the balance: send it off, leave it because it is small or because native
\* coin is there, or find the address empty.
SweepSends(found) == sweep' = [stage |-> "sending", legs |-> SplitSweep(found)] /\ UNCHANGED busy
SweepRead ==
  /\ sweep.stage = "read" /\ SweepOnly
  /\ \E found \in Readable :
       \/ found > MinSweep /\ SweepSends(found)
       \/ found <= MinSweep /\ Leave
       \/ found = 0 /\ GoOn("mark")

\* On Solana the wallet is asked again, and left if it lacks the coins or the fee
\* or if the answer is an error; elsewhere an unreadable balance is left.
SweepSkips == sweep.stage = "read" /\ SweepOnly /\ Leave

\* Send one part and write its ADMIN_DEPOSIT row; its wh_node is not the
\* network's symbol but `symbol:role`.
NodeOfLeg == "leg"

SweepLeg ==
  /\ sweep.stage = "sending"
  /\ LET leg == Head(sweep.legs)
     IN  /\ onAddress' = onAddress - leg
         /\ adminRows' = [adminRows EXCEPT ![NodeOfLeg] = @ + leg]
  /\ sweep' = [legs  |-> Tail(sweep.legs),
               stage |-> IF Len(sweep.legs) = 1 THEN "mark" ELSE "sending"]
  /\ UNCHANGED <<sent, watched, syncVars, tracker, busy>>

\* Sending throws: the parts already sent stay sent, the tracker is left alone.
SweepLegFailsBusy ==
  /\ sweep.stage = "sending"
  /\ sweep' = IdleSweep
  /\ UNCHANGED <<chainVars, syncVars, tracker, adminRows, busy>>
SweepLegFails ==
  /\ sweep.stage = "sending"
  /\ sweep' = IdleSweep /\ busy' = FALSE
  /\ UNCHANGED <<chainVars, syncVars, tracker, adminRows>>

\* Sending throws although the node has taken the transfer.
SweepLegUnseen ==
  /\ Failures /\ sweep.stage = "sending"
  /\ onAddress' = onAddress - Head(sweep.legs)
  /\ sweep' = IdleSweep /\ busy' = FALSE
  /\ UNCHANGED <<sent, watched, syncVars, tracker, adminRows>>

\* An update, which leaves an address without a row without one.
SweepMark ==
  /\ sweep.stage = "mark"
  /\ tracker' = IF tracker = "none" THEN "none" ELSE "swept"
  /\ sweep' = IdleSweep /\ busy' = FALSE
  /\ UNCHANGED <<chainVars, syncVars, adminRows>>

\* The process dies and comes back.
Restart ==
  /\ busy \/ \E s \in Syncs : sync[s].stage # "idle"
  /\ sync' = [s \in Syncs |-> IdleSync]
  /\ busy' = FALSE /\ sweep' = IdleSweep
  /\ UNCHANGED <<chainVars, cache, rows, balance, adminRows, tracker>>

-----------------------------------------------------------------------------
SyncStep(s) ==
  \/ Fetch(s) \/ SaveCache(s) \/ ReadRows(s)
  \/ InsertRow(s) \/ TrackDeposit(s) \/ TrackDepositFails(s)
  \/ SyncFails(s) \/ SyncEnd(s)
SweepStep ==
  \/ SweepSetUp \/ SweepGas \/ SweepRead \/ SweepSkips
  \/ SweepLeg \/ SweepLegFails \/ SweepLegUnseen \/ SweepMark
Environment == Arrive \/ TrackingWallet \/ TrackerExpires

Next ==
  \/ Environment \/ SweepStart \/ SweepStartThrows \/ SweepStep \/ Restart
  \/ \E s \in Syncs : SyncBegin(s) \/ SyncStep(s)
Spec == Init /\ [][Next]_vars

\* The same when every sync and every sweep ends before the next one starts,
\* and none is cut short.
Alone == ~busy /\ \A s \in Syncs : sync[s].stage = "idle"
SerialNext ==
  \/ Environment \/ SweepStep
  \/ Alone /\ (SweepStart \/ \E s \in Syncs : SyncBegin(s))
  \/ \E s \in Syncs : SyncStep(s)
SerialSpec == Init /\ [][SerialNext]_vars

-----------------------------------------------------------------------------
(* Properties.                                                             *)

\* However often an address is looked at, a transfer is credited once: the
\* loop "adds the transactions that are missing" (wallets-scheduler.service.ts:755).
CreditedOnce == \A d \in Deposits : rows[d] <= 1

\* A transfer the server has listed stays listed: the window in which the chain
\* reports it may have passed before it has a row, so that the cache of 30 days
\* (wallets-scheduler.service.ts:567) is what it would be credited from.  Only when
\* a listed transfer and a row of its transaction differ in amount is the list
\* replaced by what the chain reports, and then not by nothing.
KnownNotForgotten ==
  [][cache \subseteq cache' \/ (Differ(cache, Known) /\ cache' # {})]_vars

\* A tracker is marked once the address is "nearly empty: counts as processed"
\* (admins-wallet-ops.service.ts:2716) or swept, and unmarked by a new deposit: no
\* credited coins stay on a marked address, where no sweep would look for them.
CreditedIsSwept ==
  tracker = "swept" /\ Alone /\ sent = Known => onAddress = 0

\* Transfers to a watched address are credited, where each has a transaction of
\* its own, unless the address comes to hold, for good, just what the rows say:
\* then the cron job sees nothing to fetch, as when a sweep has taken the coins
\* before they were credited.
EveryDepositCredited ==
  \A d \in Deposits :
    d \in sent ~> \/ ~watched
                  \/ rows[d] > 0 /\ balance = Credited
                  \/ [](onAddress = DepositBalance)

\* What is swept are "active wallets (from wallet_deposit_tracker)"
\* (admins-wallet-ops.service.ts:1936): they have had a deposit credited.
SweptIsTracked == [][onAddress' < onAddress => tracker # "none"]_vars

\* "Main withdraw process is already running. Please wait for the current
\* process to complete" (admins-wallet-ops.service.ts:1842): it completes.
SweepCompletes == busy ~> ~busy

\* What the proof about CreditedOnce needs: at most one sync is under way.  The
\* code has no lock that sees to it.
OneSync == \A s, t \in Syncs : sync[s].stage # "idle" /\ sync[t].stage # "idle" => s = t

\* The cron job keeps running, nodes and database answer now and then, and
\* the background work of a sweep goes on.
Fairness ==
  /\ \A s \in Syncs :
       /\ SF_vars(CronBegin(s))
       /\ WF_vars(SyncStep(s))
       /\ SF_vars(FetchAll(s))
       /\ \A d \in Deposits : SF_vars(InsertRow(s) /\ rows'[d] > rows[d])
  /\ WF_vars(SweepStep)
FairSpec       == Spec /\ Fairness
FairSerialSpec == SerialSpec /\ Fairness

=============================================================================
