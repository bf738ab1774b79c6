------------------------ MODULE DepositSyncProofs ------------------------
(***************************************************************************)
(* While syncs of an address do not overlap, a transfer is credited at     *)
(* most once and stays listed, whatever the sweep, restarts and failing    *)
(* queries do; while syncs and sweeps take turns and answers come, what    *)
(* was credited is swept; and in every interleaving the types hold: a      *)
(* sweep never takes more than the address has.                            *)
(***************************************************************************)
EXTENDS DepositSync, SumTheorems, TLAPS

\* What a sync may have read.
SyncState ==
  [stage : SyncStage, mode : Mode, conflict : BOOLEAN, txs : SUBSET Deposits, missing : SUBSET Deposits]

\* The part of TypeOK the argument needs.
SyncsOK ==
  /\ rows \in [Deposits -> Nat]
  /\ sync \in [Syncs -> SyncState]
  /\ sent \subseteq Deposits /\ cache \subseteq Deposits

\* What a sync is about to insert has no row.
MissingHasNoRow ==
  \A s \in Syncs : \A d \in sync[s].missing : sync[s].stage \in {"inserting", "tracking"} => rows[d] = 0

CreditInv == SyncsOK /\ CreditedOnce /\ MissingHasNoRow

-----------------------------------------------------------------------------
\* At the start nothing is sent, listed or credited.
LEMMA InitCredit == Init => CreditInv
  BY DEF Init, CreditInv, SyncsOK, CreditedOnce, MissingHasNoRow, IdleSync, SyncState, SyncStage, Mode

\* A sync begins with the list; it has found a conflict only if one can be seen.
LEMMA BeginStep ==
  ASSUME NEW s \in Syncs, SyncBegin(s)
  PROVE  /\ UNCHANGED <<chainVars, cache, rows, balance, sweepVars, tracker>> /\ sync[s].stage = "idle"
         /\ \E mode \in Mode, conflict \in BOOLEAN :
              /\ conflict => Differ(cache, Known)
              /\ sync' = [sync EXCEPT ![s] = [stage |-> "begun", mode |-> mode, conflict |-> conflict,
                                             txs |-> cache, missing |-> {}]]
<1>1. PICK mode \in Mode : Begin(s, mode)
  BY DEF SyncBegin, CronBegin, ManualBegin, Mode
<1>2. PICK first \in Firsts :
        sync' = [sync EXCEPT ![s] = [stage |-> "begun", mode |-> mode, conflict |-> Differ(cache, first),
                                     txs |-> cache, missing |-> {}]]
  BY <1>1 DEF Begin
<1> DEFINE conflict == Differ(cache, first)
<1>3. conflict \in BOOLEAN /\ (conflict => Differ(cache, Known))
  BY DEF Differ, Firsts
<1>4. sync' = [sync EXCEPT ![s] = [stage |-> "begun", mode |-> mode, conflict |-> conflict,
                                   txs |-> cache, missing |-> {}]]
  BY <1>2
<1> HIDE DEF conflict
<1>5. UNCHANGED <<chainVars, cache, rows, balance, sweepVars, tracker>> /\ sync[s].stage = "idle"
  BY <1>1 DEF Begin
<1>6. QED BY <1>3, <1>4, <1>5

\* Fetching changes the sync's own list: without a conflict it only adds, and it
\* never leaves nothing of something.
LEMMA FetchStep ==
  ASSUME NEW s \in Syncs, Fetch(s)
  PROVE  /\ UNCHANGED <<chainVars, cache, rows, balance, sweepVars, tracker>> /\ sync[s].stage = "begun"
         /\ \E txs \in SUBSET (sent \cup sync[s].txs) :
              /\ sync[s].txs \subseteq txs \/ (sync[s].conflict /\ txs # {})
              /\ sync' = [sync EXCEPT ![s].stage = "fetched", ![s].txs = txs]
<1>1. PICK onchain \in {0, onAddress}, found \in SUBSET sent : FetchSome(s, onchain, found)
  BY DEF Fetch
<1> DEFINE skip == sync[s].mode = "cron" /\ BalanceMatches(onchain)
           txs  == IF skip THEN sync[s].txs ELSE Final(sync[s].txs, found, sync[s].conflict)
<1>2. sync' = [sync EXCEPT ![s].stage = "fetched", ![s].txs = txs]
  BY <1>1 DEF FetchSome
<1>3. txs \in SUBSET (sent \cup sync[s].txs)
  BY DEF Final, KeptIfEmpty
<1>4. sync[s].txs \subseteq txs \/ (sync[s].conflict /\ txs # {})
  BY DEF Final, KeptIfEmpty
<1>5. UNCHANGED <<chainVars, cache, rows, balance, sweepVars, tracker>> /\ sync[s].stage = "begun"
  BY <1>1 DEF FetchSome
<1> HIDE DEF txs
<1>6. QED BY <1>2, <1>3, <1>4, <1>5

\* Transfers taken for missing are listed and have no row.
LEMMA MissingUnknown == ASSUME NEW txs PROVE Missing(txs) \subseteq txs \ Known
  BY DEF Missing, Hashes

\* The sweep and the users leave the syncs and the rows alone.
LEMMA OthersCredit ==
  ASSUME CreditInv, Environment \/ SweepStart \/ SweepStartThrows
                    \/ (SweepStep /\ UNCHANGED <<sent, syncVars>>)
  PROVE  CreditInv'
<1>1. ASSUME UNCHANGED syncVars, sent' \subseteq Deposits PROVE CreditInv'
  BY <1>1 DEF CreditInv, SyncsOK, CreditedOnce, MissingHasNoRow, syncVars
<1>2. CASE Arrive
  BY <1>1, <1>2 DEF Arrive, syncVars, CreditInv, SyncsOK
<1>3. CASE TrackingWallet \/ TrackerExpires
  BY <1>1, <1>3 DEF TrackingWallet, TrackerExpires, syncVars, CreditInv, SyncsOK
<1>4. CASE SweepStart \/ SweepStartThrows
  BY <1>1, <1>4 DEF SweepStart, SweepStartThrows, chainVars, CreditInv, SyncsOK
<1>5. CASE SweepStep /\ UNCHANGED <<sent, syncVars>>
  BY <1>1, <1>5 DEF CreditInv, SyncsOK
<1>6. QED BY <1>2, <1>3, <1>4, <1>5 DEF Environment

\* No step of the sweep touches a transfer, a sync or a row.
LEMMA SweepLeavesSyncs == SweepStep => UNCHANGED <<sent, syncVars>>
<1>1. SweepSetUp \/ SweepGas \/ SweepRead \/ SweepSkips => UNCHANGED <<sent, syncVars>>
  BY DEF SweepSetUp, SweepGas, SweepRead, SweepSkips, SweepOnly, chainVars
<1>2. SweepLeg \/ SweepLegFails \/ SweepLegUnseen \/ SweepMark => UNCHANGED <<sent, syncVars>>
  BY DEF SweepLeg, SweepLegFails, SweepLegUnseen, SweepMark, chainVars
<1>3. QED BY <1>1, <1>2 DEF SweepStep

\* A restart forgets the syncs and keeps the rows.
LEMMA RestartCredit == ASSUME CreditInv, Restart PROVE CreditInv'
  BY DEF Restart, CreditInv, SyncsOK, CreditedOnce, MissingHasNoRow, IdleSync, SyncState, SyncStage, Mode,
         chainVars

\* Every step of a sync.  Insertion is the only one that adds a row; the rows
\* read by ReadRows are still the rows when it happens, as no other sync runs.
LEMMA SyncCredit ==
  ASSUME CreditInv, OneSync, NEW s \in Syncs, SyncBegin(s) \/ SyncStep(s)
  PROVE  CreditInv'
<1>1. CASE SyncBegin(s)
  <2>1. PICK mode \in Mode, conflict \in BOOLEAN :
          sync' = [sync EXCEPT ![s] = [stage |-> "begun", mode |-> mode, conflict |-> conflict,
                                       txs |-> cache, missing |-> {}]]
    BY <1>1, BeginStep
  <2>2. UNCHANGED <<sent, cache, rows>>
    BY <1>1, BeginStep DEF chainVars
  <2>3. SyncsOK'
    BY <2>1, <2>2 DEF CreditInv, SyncsOK, SyncState, SyncStage
  <2>4. QED
    BY <2>1, <2>2, <2>3 DEF CreditInv, SyncsOK, CreditedOnce, MissingHasNoRow
<1>2. CASE Fetch(s)
  <2>1. PICK txs \in SUBSET (sent \cup sync[s].txs) :
          sync' = [sync EXCEPT ![s].stage = "fetched", ![s].txs = txs]
    BY <1>2, FetchStep
  <2>2. txs \in SUBSET Deposits /\ UNCHANGED <<sent, cache, rows>>
    BY <1>2, FetchStep DEF CreditInv, SyncsOK, SyncState, chainVars
  <2>3. SyncsOK'
    BY <2>1, <2>2 DEF CreditInv, SyncsOK, SyncState, SyncStage
  <2>4. QED
    BY <2>1, <2>2, <2>3 DEF CreditInv, SyncsOK, CreditedOnce, MissingHasNoRow
<1>3. CASE SaveCache(s)
  <2>1. SyncsOK'
    BY <1>3 DEF SaveCache, CreditInv, SyncsOK, SyncState, SyncStage, chainVars
  <2>2. MissingHasNoRow' /\ CreditedOnce'
    BY <1>3 DEF SaveCache, CreditInv, SyncsOK, CreditedOnce, MissingHasNoRow
  <2>3. QED BY <2>1, <2>2 DEF CreditInv
<1>4. CASE ReadRows(s)
  <2>1. PICK missing \in SUBSET (sync[s].txs \ Known) :
          sync' = [sync EXCEPT ![s].stage = "inserting", ![s].missing = missing]
    BY <1>4, MissingUnknown DEF ReadRows
  <2>2. UNCHANGED <<sent, cache, rows>> /\ missing \in SUBSET Deposits /\ \A d \in missing : rows[d] = 0
    BY <1>4, <2>1 DEF ReadRows, CreditInv, SyncsOK, SyncState, Known, chainVars
  <2>3. SyncsOK'
    BY <2>1, <2>2 DEF CreditInv, SyncsOK, SyncState, SyncStage
  <2>4. MissingHasNoRow' /\ CreditedOnce'
    BY <2>1, <2>2 DEF CreditInv, SyncsOK, CreditedOnce, MissingHasNoRow
  <2>5. QED BY <2>3, <2>4 DEF CreditInv
<1>5. CASE InsertRow(s)
  <2>1. PICK d \in sync[s].missing :
          /\ sync[s].stage = "inserting"
          /\ \/ /\ rows' = [rows EXCEPT ![d] = @ + 1]
                /\ sync' = [sync EXCEPT ![s].stage = "tracking", ![s].missing = @ \ {d}]
             \/ /\ sync' = [sync EXCEPT ![s].missing = @ \ {d}]
                /\ UNCHANGED rows
          /\ UNCHANGED <<chainVars, cache>>
    BY <1>5 DEF InsertRow
  <2>2. d \in Deposits /\ rows[d] = 0
    BY <2>1 DEF CreditInv, SyncsOK, SyncState, MissingHasNoRow
  <2>3. \A t \in Syncs \ {s} : sync[t].stage = "idle"
    BY <2>1 DEF OneSync
  <2>4. SyncsOK'
    BY <2>1, <2>2 DEF CreditInv, SyncsOK, SyncState, SyncStage, chainVars
  <2>5. CreditedOnce' /\ MissingHasNoRow'
    BY <2>1, <2>2, <2>3 DEF CreditInv, SyncsOK, SyncState, CreditedOnce, MissingHasNoRow
  <2>6. QED BY <2>4, <2>5 DEF CreditInv
<1>6. CASE TrackDeposit(s) \/ TrackDepositFails(s)
  BY <1>6 DEF TrackDeposit, TrackDepositFails, CreditInv, SyncsOK, CreditedOnce,
              MissingHasNoRow, SyncState, SyncStage, chainVars
<1>7. CASE SyncFails(s) \/ SyncEnd(s)
  <2>1. sync' = [sync EXCEPT ![s] = IdleSync] /\ UNCHANGED <<sent, cache, rows>>
    BY <1>7 DEF SyncFails, SyncEnd, chainVars
  <2>2. SyncsOK'
    BY <2>1 DEF CreditInv, SyncsOK, SyncState, SyncStage, Mode, IdleSync
  <2>3. QED BY <2>1, <2>2 DEF CreditInv, SyncsOK, CreditedOnce, MissingHasNoRow, IdleSync
<1>8. QED BY <1>1, <1>2, <1>3, <1>4, <1>5, <1>6, <1>7 DEF SyncStep

LEMMA CreditStep == ASSUME CreditInv, OneSync, [Next]_vars PROVE CreditInv'
<1>1. CASE Environment \/ SweepStart \/ SweepStartThrows \/ SweepStep
  BY <1>1, OthersCredit, SweepLeavesSyncs
<1>2. CASE Restart
  BY <1>2, RestartCredit
<1>3. CASE \E s \in Syncs : SyncBegin(s) \/ SyncStep(s)
  BY <1>3, SyncCredit
<1>4. CASE UNCHANGED vars
  BY <1>4 DEF vars, chainVars, syncVars, CreditInv, SyncsOK, CreditedOnce, MissingHasNoRow
<1>5. QED BY <1>1, <1>2, <1>3, <1>4 DEF Next

\* While syncs do not overlap, no transfer has two rows: the sweep may run at
\* any time, queries may fail, and the process may die between any two steps.
THEOREM CreditedOnceWithoutOverlap == Spec /\ []OneSync => []CreditedOnce
<1>1. Init => CreditInv
  BY InitCredit
<1>2. CreditInv /\ OneSync /\ [Next]_vars => CreditInv'
  BY CreditStep
<1>3. CreditInv => CreditedOnce
  BY DEF CreditInv
<1>4. QED BY <1>1, <1>2, <1>3, PTL DEF Spec

-----------------------------------------------------------------------------
\* A sync that has yet to save the list has all that is listed, or has found a
\* conflict and something to put in its place.
Keeps(listed, txs) == listed \subseteq txs \/ (Differ(cache, Known) /\ txs # {})
ListInv ==
  /\ sync \in [Syncs -> SyncState]
  /\ \A s \in Syncs :
       /\ sync[s].stage = "begun" => sync[s].txs = cache /\ (sync[s].conflict => Differ(cache, Known))
       /\ sync[s].stage = "fetched" => Keeps(cache, sync[s].txs)

\* A sync replaces the list only as ListInv says, as no other sync has saved or
\* inserted meanwhile.
LEMMA SyncList ==
  ASSUME CreditInv, ListInv, OneSync, NEW s \in Syncs, SyncBegin(s) \/ SyncStep(s), CreditInv'
  PROVE  ListInv' /\ (cache \subseteq cache' \/ (Differ(cache, Known) /\ cache' # {}))
<1>1. sync' \in [Syncs -> SyncState]
  BY DEF CreditInv, SyncsOK
<1>2. CASE SyncBegin(s)
  <2>1. PICK mode \in Mode, conflict \in BOOLEAN :
          /\ conflict => Differ(cache, Known)
          /\ sync' = [sync EXCEPT ![s] = [stage |-> "begun", mode |-> mode, conflict |-> conflict,
                                         txs |-> cache, missing |-> {}]]
    BY <1>2, BeginStep
  <2>2. UNCHANGED <<cache, rows, Known>>
    BY <1>2, BeginStep DEF Known
  <2>3. QED BY <1>1, <2>1, <2>2 DEF ListInv, Keeps, Differ
<1>3. CASE Fetch(s)
  <2>1. PICK txs \in SUBSET (sent \cup sync[s].txs) :
          /\ sync[s].txs \subseteq txs \/ (sync[s].conflict /\ txs # {})
          /\ sync' = [sync EXCEPT ![s].stage = "fetched", ![s].txs = txs]
    BY <1>3, FetchStep
  <2>2. UNCHANGED <<cache, rows, Known>> /\ sync[s].stage = "begun"
    BY <1>3, FetchStep DEF Known
  <2>3. Keeps(cache, txs)
    BY <2>1, <2>2 DEF ListInv, Keeps
  <2>4. QED BY <1>1, <2>1, <2>2, <2>3 DEF ListInv, Keeps, Differ
<1>4. CASE SaveCache(s)
  <2>1. /\ sync[s].stage = "fetched" /\ cache' = sync[s].txs
        /\ sync' = [sync EXCEPT ![s].stage = "saved"]
    BY <1>4 DEF SaveCache
  <2>2. \A t \in Syncs \ {s} : sync[t].stage = "idle"
    BY <2>1 DEF OneSync
  <2>3. QED BY <1>1, <2>1, <2>2 DEF ListInv, Keeps
<1>5. CASE ReadRows(s) \/ InsertRow(s) \/ TrackDeposit(s) \/ TrackDepositFails(s)
  <2>1. UNCHANGED cache /\ sync[s].stage # "idle" /\ \A t \in Syncs : t # s => sync'[t] = sync[t]
    BY <1>5 DEF ReadRows, InsertRow, TrackDeposit, TrackDepositFails, ListInv
  <2>2. sync'[s].stage \notin {"begun", "fetched"}
    BY <1>5 DEF ReadRows, InsertRow, TrackDeposit, TrackDepositFails, ListInv, SyncState
  <2>3. \A t \in Syncs \ {s} : sync[t].stage = "idle"
    BY <2>1 DEF OneSync
  <2>4. QED BY <1>1, <2>1, <2>2, <2>3 DEF ListInv
<1>6. CASE SyncFails(s) \/ SyncEnd(s)
  <2>1. UNCHANGED <<cache, Known>> /\ sync' = [sync EXCEPT ![s] = IdleSync]
    BY <1>6 DEF SyncFails, SyncEnd, Known
  <2>2. QED BY <1>1, <2>1 DEF ListInv, Keeps, Differ, IdleSync
<1>7. QED BY <1>2, <1>3, <1>4, <1>5, <1>6 DEF SyncStep

\* While syncs do not overlap, a transfer once listed stays listed, whatever a
\* node fails to report and whenever the process dies; only a conflict that can be
\* seen in the list and the rows replaces the list, and not by nothing.
THEOREM ListedStaysListed == Spec /\ []OneSync => KnownNotForgotten
<1> DEFINE Kept == cache \subseteq cache' \/ (Differ(cache, Known) /\ cache' # {})
<1>1. Init => CreditInv /\ ListInv
  BY InitCredit DEF Init, CreditInv, SyncsOK, ListInv, IdleSync
<1>2. ASSUME CreditInv, ListInv, OneSync, [Next]_vars
      PROVE  CreditInv' /\ ListInv' /\ Kept
  <2>1. CASE Environment \/ SweepStart \/ SweepStartThrows \/ SweepStep \/ UNCHANGED vars
    <3>1. UNCHANGED <<cache, rows, sync>>
      BY <2>1, SweepLeavesSyncs DEF Environment, Arrive, TrackingWallet, TrackerExpires, SweepStart, SweepStartThrows,
                                    vars, syncVars
    <3>2. UNCHANGED Known BY <3>1 DEF Known
    <3>3. ListInv' BY <1>2, <3>1, <3>2 DEF ListInv, Keeps, Differ
    <3>4. CreditInv' BY <1>2, CreditStep
    <3>5. QED BY <3>1, <3>3, <3>4
  <2>2. CASE Restart
    <3>1. CreditInv' BY <1>2, <2>2, RestartCredit
    <3>2. UNCHANGED cache /\ ListInv'
      BY <2>2, <3>1 DEF Restart, ListInv, IdleSync, CreditInv, SyncsOK
    <3>3. QED BY <3>1, <3>2
  <2>3. CASE \E s \in Syncs : SyncBegin(s) \/ SyncStep(s)
    BY <1>2, <2>3, SyncCredit, SyncList
  <2>4. QED BY <1>2, <2>1, <2>2, <2>3 DEF Next
<1>3. CreditInv /\ ListInv /\ OneSync /\ [Next]_vars => CreditInv' /\ ListInv' /\ [Kept]_vars
  BY <1>2
<1>4. QED BY <1>1, <1>3, PTL DEF Spec, KnownNotForgotten

-----------------------------------------------------------------------------
(* Syncs and sweeps that take turns leave no credited coins behind.        *)

SweepOK ==
  /\ onAddress \in Int
  /\ sweep \in [stage : SweepStage, legs : Seq(Int)]

\* Only what has been sent is listed, fetched or credited.
Real ==
  /\ cache \subseteq sent /\ Known \subseteq sent
  /\ \A s \in Syncs : sync[s].txs \subseteq sent /\ sync[s].missing \subseteq sent

\* A sweep has the address to itself.
Turns ==
  sweep.stage # "idle" => busy /\ \A s \in Syncs : sync[s].stage = "idle"

\* Unless more has arrived, the parts of a sweep add up to what is there, and
\* nothing is sent off from a marked address.
OnePart(a)     == sweep.legs = <<a>> /\ (sent = Known => onAddress = a)
TwoParts(a, b) == sweep.legs = <<a, b>> /\ (sent = Known => onAddress = a + b)
PartsAddUp ==
  /\ sweep.stage = "sending" => \E a, b \in Int : OnePart(a) \/ TwoParts(a, b)
  /\ sweep.stage = "sending" /\ sent = Known => tracker # "swept"
  /\ sweep.stage = "mark" /\ sent = Known => onAddress = 0

\* A marked address is empty, or a transfer is yet to be credited or tracked.
MarkedIsEmpty ==
  tracker = "swept" /\ sent = Known /\ (\A s \in Syncs : sync[s].stage # "tracking") => onAddress = 0

SweptInv == SyncsOK /\ SweepOK /\ Real /\ Turns /\ PartsAddUp /\ MarkedIsEmpty

LEMMA InitSwept == Init => SweptInv
  BY DEF Init, SweptInv, SyncsOK, SweepOK, Real, Turns, PartsAddUp, MarkedIsEmpty, Known, IdleSync, IdleSweep,
         SyncState, SyncStage, SweepStage, Mode

\* What arrives is a transaction that was not there, worth a natural number.
LEMMA WorthNat == ASSUME NEW txs PROVE Worth(txs) \in Nat
<1> DEFINE worth == [d \in Deposits |-> IF d \in txs THEN Amount[d] ELSE 0]
<1>1. NumDeposits \in Nat /\ \A d \in 1..NumDeposits : worth[d] \in Nat
  BY DepositsAssumption DEF Deposits
<1> HIDE DEF worth
<1>2. Total(worth, NumDeposits) \in Nat BY <1>1, TotalNat
<1>3. QED BY <1>2 DEF Worth, worth

LEMMA ArriveStep ==
  ASSUME Arrive
  PROVE  \E d \in Deposits \ sent, txs \in SUBSET Deposits :
           /\ d \in txs /\ sent' = sent \cup txs /\ onAddress' = onAddress + Worth(txs)
           /\ UNCHANGED <<watched, syncVars, sweepVars, tracker>>
<1>1. PICK d \in Deposits \ sent :
        /\ sent' = sent \cup {e \in Deposits : Hash[e] = Hash[d]}
        /\ onAddress' = onAddress + Worth({e \in Deposits : Hash[e] = Hash[d]})
        /\ UNCHANGED <<watched, syncVars, sweepVars, tracker>>
  BY DEF Arrive
<1>2. d \in {e \in Deposits : Hash[e] = Hash[d]} BY <1>1
<1>3. QED BY <1>1, <1>2

\* A transfer that arrives has no row yet.
LEMMA EnvironmentSwept == ASSUME SweptInv, Environment PROVE SweptInv'
<1>1. CASE Arrive
  <2>1. PICK d \in Deposits \ sent, txs \in SUBSET Deposits :
          /\ d \in txs /\ sent' = sent \cup txs /\ onAddress' = onAddress + Worth(txs)
          /\ UNCHANGED <<syncVars, sweepVars, tracker>>
    BY <1>1, ArriveStep
  <2>2. Worth(txs) \in Int BY <2>1, WorthNat
  <2>3. Known' = Known BY <2>1 DEF Known, syncVars
  <2>4. sent' # Known' BY <2>1, <2>3 DEF SweptInv, Real
  <2>5. SyncsOK' /\ SweepOK' /\ Turns'
    BY <2>1, <2>2 DEF SweptInv, SyncsOK, SweepOK, Turns, syncVars, sweepVars
  <2>6. Real' BY <2>1, <2>3 DEF SweptInv, Real, syncVars
  <2>7. PartsAddUp' BY <2>1, <2>4 DEF SweptInv, PartsAddUp, OnePart, TwoParts, sweepVars
  <2>8. QED BY <2>4, <2>5, <2>6, <2>7 DEF SweptInv, MarkedIsEmpty
<1>2. CASE TrackingWallet \/ TrackerExpires
  BY <1>2 DEF TrackingWallet, TrackerExpires, syncVars, sweepVars, SweptInv, SyncsOK, SweepOK, Real, Turns, PartsAddUp,
              OnePart, TwoParts, MarkedIsEmpty, Known
<1>3. QED BY <1>1, <1>2 DEF Environment

\* A sweep that sends what it has found sends it all.
LEMMA SplitAddsUp ==
  ASSUME NEW f \in Int
  PROVE  /\ SplitSweep(f) \in Seq(Int)
         /\ \E a, b \in Int : \/ SplitSweep(f) = <<a>> /\ f = a
                              \/ SplitSweep(f) = <<a, b>> /\ f = a + b
<1> DEFINE toCeo == (2 * f * CeoPercent + 100) \div 200
<1>1. CeoPercent \in Int /\ MinLeg \in Int BY SweepAssumption
<1>2. toCeo \in Int /\ f - toCeo \in Int /\ f = toCeo + (f - toCeo) BY <1>1
<1> HIDE DEF toCeo
<1>3. SplitSweep(f) = <<toCeo, f - toCeo>> \/ SplitSweep(f) = <<f>>
  BY <1>1, <1>2 DEF SplitSweep, toCeo
<1>4. CASE SplitSweep(f) = <<toCeo, f - toCeo>>
  BY <1>2, <1>4
<1>5. CASE SplitSweep(f) = <<f>>
  <2>1. <<f>> \in Seq(Int) OBVIOUS
  <2>2. \E a, b \in Int : SplitSweep(f) = <<a>> /\ f = a BY <1>5
  <2>3. QED BY <1>5, <2>1, <2>2
<1>6. QED BY <1>3, <1>4, <1>5

\* While the sweep runs nothing else changes what is sent, listed or credited.
LEMMA SweepSwept ==
  ASSUME SweptInv, ~Failures, SweepStep \/ (Alone /\ SweepStart)
  PROVE  SweptInv'
<1>1. UNCHANGED <<sent, syncVars>>
  BY SweepLeavesSyncs DEF SweepStart, chainVars
<1>2. SyncsOK' /\ Real' /\ Known' = Known
  BY <1>1 DEF SweptInv, SyncsOK, Real, Known, syncVars
<1>3. sweep.stage \in SweepStage /\ sweep.legs \in Seq(Int) /\ onAddress \in Int
  BY DEF SweptInv, SweepOK
<1>4. CASE Alone /\ SweepStart
  <2>1. /\ sweep' = [stage |-> "begun", legs |-> <<>>] /\ busy' /\ UNCHANGED <<tracker, onAddress>>
        /\ \A s \in Syncs : sync'[s].stage = "idle"
    BY <1>1, <1>4 DEF Alone, SweepStart, IdleSweep, chainVars, syncVars
  <2>2. SweepOK' BY <1>3, <2>1 DEF SweepOK, SweepStage
  <2>3. Turns' BY <1>1, <2>1 DEF Turns, syncVars
  <2>4. PartsAddUp' BY <2>1 DEF PartsAddUp
  <2>5. MarkedIsEmpty'
    BY <1>1, <1>2, <1>4, <2>1 DEF SweptInv, MarkedIsEmpty, Alone, syncVars
  <2>6. QED BY <1>2, <2>2, <2>3, <2>4, <2>5 DEF SweptInv
<1>5. ASSUME UNCHANGED <<onAddress, tracker>>, Leave PROVE SweptInv'
  BY <1>1, <1>2, <1>3, <1>5 DEF Leave, IdleSweep, SweptInv, SweepOK, SweepStage, Turns, PartsAddUp, MarkedIsEmpty, syncVars
<1>6. ASSUME UNCHANGED <<onAddress, tracker>>, sweep.stage # "idle", NEW stg \in {"gas", "read", "mark"}, GoOn(stg),
             stg = "mark" => onAddress = 0
      PROVE  SweptInv'
  BY <1>1, <1>2, <1>3, <1>6 DEF GoOn, SweptInv, SweepOK, SweepStage, Turns, PartsAddUp, MarkedIsEmpty, syncVars
<1>7. CASE SweepSetUp \/ SweepGas \/ SweepSkips
  BY <1>5, <1>6, <1>7 DEF SweepSetUp, SweepGas, SweepSkips, GasRefused, GasSupplied, SweepOnly, chainVars
<1>8. CASE SweepRead
  <2>1. UNCHANGED <<onAddress, tracker>> /\ sweep.stage = "read"
    BY <1>8 DEF SweepRead, SweepOnly, chainVars
  <2>2. (onAddress > MinSweep /\ SweepSends(onAddress)) \/ Leave \/ (onAddress = 0 /\ GoOn("mark"))
    BY <1>8 DEF SweepRead, Readable
  <2>3. CASE onAddress > MinSweep /\ SweepSends(onAddress)
    <3>1. sweep' = [stage |-> "sending", legs |-> SplitSweep(onAddress)] /\ busy' = busy
      BY <2>3 DEF SweepSends
    <3>2. SweepOK' BY <1>3, <2>1, <3>1, SplitAddsUp DEF SweepOK, SweepStage
    <3>3. onAddress # 0 BY <1>3, <2>3, SweepAssumption
    <3>4. sent = Known => tracker # "swept"
      BY <2>1, <3>3 DEF SweptInv, Turns, MarkedIsEmpty
    <3>5. PICK a, b \in Int :
            \/ SplitSweep(onAddress) = <<a>> /\ onAddress = a
            \/ SplitSweep(onAddress) = <<a, b>> /\ onAddress = a + b
      BY <1>3, SplitAddsUp
    <3>6. OnePart(a)' \/ TwoParts(a, b)' BY <2>1, <3>1, <3>5 DEF OnePart, TwoParts
    <3>7. PartsAddUp' BY <1>1, <1>2, <2>1, <3>1, <3>4, <3>6 DEF PartsAddUp
    <3>8. Turns' /\ MarkedIsEmpty'
      BY <1>1, <1>2, <2>1, <3>1 DEF SweptInv, Turns, MarkedIsEmpty, syncVars
    <3>9. QED BY <1>2, <3>2, <3>7, <3>8 DEF SweptInv
  <2>4. QED BY <1>5, <1>6, <2>1, <2>2, <2>3
<1>9. CASE SweepLeg
  <2>1. /\ sweep.stage = "sending" /\ UNCHANGED <<tracker, busy>>
        /\ onAddress' = onAddress - Head(sweep.legs)
        /\ sweep' = [legs |-> Tail(sweep.legs), stage |-> IF Len(sweep.legs) = 1 THEN "mark" ELSE "sending"]
    BY <1>9 DEF SweepLeg
  <2>2. sent' = Known' => tracker' # "swept"
    BY <1>1, <1>2, <2>1 DEF SweptInv, PartsAddUp
  <2>3. Turns' /\ MarkedIsEmpty'
    BY <1>1, <2>1, <2>2 DEF SweptInv, Turns, MarkedIsEmpty, syncVars
  <2>4. PICK a, b \in Int : OnePart(a) \/ TwoParts(a, b)
    BY <2>1 DEF SweptInv, PartsAddUp
  <2>5. CASE OnePart(a)
    <3>1. Head(sweep.legs) = a /\ Len(sweep.legs) = 1 /\ Tail(sweep.legs) = <<>> BY <2>5 DEF OnePart
    <3>2. SweepOK' BY <1>3, <2>1, <3>1 DEF SweepOK, SweepStage
    <3>3. PartsAddUp' BY <1>1, <1>2, <1>3, <2>1, <2>5, <2>2, <3>1 DEF PartsAddUp, OnePart
    <3>4. QED BY <1>2, <2>3, <3>2, <3>3 DEF SweptInv
  <2>6. CASE TwoParts(a, b)
    <3>1. Head(sweep.legs) = a /\ Len(sweep.legs) = 2 /\ Tail(sweep.legs) = <<b>> BY <2>6 DEF TwoParts
    <3>2. SweepOK' BY <1>3, <2>1, <3>1 DEF SweepOK, SweepStage
    <3>3. sent' = Known' => onAddress' = b BY <1>1, <1>2, <1>3, <2>1, <2>6, <3>1 DEF TwoParts
    <3>4. PartsAddUp' BY <2>1, <2>2, <3>1, <3>3 DEF PartsAddUp, OnePart
    <3>5. QED BY <1>2, <2>3, <3>2, <3>4 DEF SweptInv
  <2>7. QED BY <2>4, <2>5, <2>6
<1>10. CASE SweepLegFails
  BY <1>5, <1>10 DEF SweepLegFails, Leave, chainVars
<1>11. CASE SweepMark
  <2>1. sent = Known => onAddress = 0 BY <1>11 DEF SweepMark, SweptInv, PartsAddUp
  <2>2. QED BY <1>1, <1>2, <1>3, <1>11, <2>1 DEF SweepMark, IdleSweep, SweptInv, SweepOK, SweepStage, Turns, PartsAddUp,
               MarkedIsEmpty, chainVars, syncVars
<1>12. QED BY <1>4, <1>7, <1>8, <1>9, <1>10, <1>11 DEF SweepStep, SweepLegUnseen

\* What a sync that has not just added a row may have read.
UntrackedState ==
  [stage : SyncStage \ {"tracking"}, mode : Mode, conflict : BOOLEAN, txs : SUBSET sent, missing : SUBSET sent]

\* A sync that adds a row has the address swept again before it ends.
LEMMA SyncSwept ==
  ASSUME SweptInv, ~Failures, NEW s \in Syncs, (Alone /\ SyncBegin(s)) \/ SyncStep(s)
  PROVE  SweptInv'
<1>1. /\ sync \in [Syncs -> SyncState]
      /\ sent \subseteq Deposits /\ cache \subseteq Deposits /\ rows \in [Deposits -> Nat]
  BY DEF SweptInv, SyncsOK
<1>2. sweep.stage = "idle" /\ sweep' = sweep /\ onAddress' = onAddress /\ sent' = sent
  <2>1. sweep.stage = "idle"
    BY DEF SweptInv, Turns, Alone, SyncStep, Fetch, FetchSome, SaveCache, ReadRows, InsertRow, TrackDeposit,
           TrackDepositFails, SyncFails, SyncEnd
  <2>2. QED BY <2>1 DEF SyncBegin, CronBegin, ManualBegin, Begin, SyncStep, Fetch, FetchSome, SaveCache, ReadRows,
               InsertRow, TrackDeposit, TrackDepositFails, SyncFails, SyncEnd, chainVars, sweepVars
<1>3. SweepOK' /\ Turns' /\ PartsAddUp'
  BY <1>2 DEF SweptInv, SweepOK, Turns, PartsAddUp
<1>4. ASSUME NEW new \in UntrackedState,
             sync' = [sync EXCEPT ![s] = new], sync[s].stage # "tracking", UNCHANGED <<rows, tracker>>,
             cache' \subseteq sent
      PROVE  SweptInv'
  <2>1. SyncsOK' BY <1>1, <1>2, <1>4 DEF SyncsOK, SyncState, UntrackedState
  <2>2. Real' BY <1>1, <1>2, <1>4 DEF SweptInv, Real, Known, UntrackedState
  <2>3. MarkedIsEmpty' BY <1>1, <1>2, <1>4 DEF SweptInv, MarkedIsEmpty, Known, UntrackedState
  <2>4. QED BY <1>3, <2>1, <2>2, <2>3 DEF SweptInv
<1>5. sync[s].txs \subseteq sent /\ sync[s].missing \subseteq sent /\ cache \subseteq sent
  BY DEF SweptInv, Real
<1>6. CASE SyncBegin(s)
  <2>1. PICK mode \in Mode, conflict \in BOOLEAN :
          sync' = [sync EXCEPT ![s] = [stage |-> "begun", mode |-> mode, conflict |-> conflict,
                                       txs |-> cache, missing |-> {}]]
    BY <1>6, BeginStep
  <2>2. UNCHANGED <<cache, rows, tracker>> /\ sync[s].stage = "idle"
    BY <1>6, BeginStep
  <2>3. [stage |-> "begun", mode |-> mode, conflict |-> conflict, txs |-> cache, missing |-> {}] \in UntrackedState
    BY <1>5 DEF UntrackedState, SyncStage
  <2>4. QED BY <1>4, <1>5, <2>1, <2>2, <2>3
<1>7. CASE Fetch(s)
  <2>1. PICK txs \in SUBSET (sent \cup sync[s].txs) :
          sync' = [sync EXCEPT ![s].stage = "fetched", ![s].txs = txs]
    BY <1>7, FetchStep
  <2>2. txs \in SUBSET sent BY <1>5
  <2>3. DEFINE new == [sync[s] EXCEPT !.stage = "fetched", !.txs = txs]
  <2>4. new \in UntrackedState
    BY <1>1, <1>5 DEF SyncState, UntrackedState, SyncStage
  <2>5. sync' = [sync EXCEPT ![s] = new] BY <1>1, <2>1
  <2>6. sync[s].stage # "tracking" /\ UNCHANGED <<cache, rows, tracker>> BY <1>7, FetchStep
  <2> HIDE DEF new
  <2>7. QED BY <1>4, <1>5, <2>4, <2>5, <2>6
<1>8. CASE SaveCache(s)
  <2>1. /\ sync[s].stage = "fetched" /\ cache' = sync[s].txs /\ UNCHANGED <<rows, tracker>>
        /\ sync' = [sync EXCEPT ![s] = [@ EXCEPT !.stage = "saved"]]
    BY <1>8 DEF SaveCache
  <2>2. [sync[s] EXCEPT !.stage = "saved"]
           \in UntrackedState
    BY <1>1, <1>5 DEF SyncState, UntrackedState, SyncStage
  <2>3. QED BY <1>1, <1>4, <1>5, <2>1, <2>2
<1>9. CASE ReadRows(s)
  <2>1. PICK missing \in SUBSET (sync[s].txs \ Known) :
          sync' = [sync EXCEPT ![s].stage = "inserting", ![s].missing = missing]
    BY <1>9, MissingUnknown DEF ReadRows
  <2>2. sync[s].stage = "saved" /\ UNCHANGED <<cache, rows, tracker>>
    BY <1>9 DEF ReadRows
  <2>3. DEFINE new == [sync[s] EXCEPT !.stage = "inserting", !.missing = missing]
  <2>4. new \in UntrackedState
    BY <1>1, <1>5, <2>2 DEF SyncState, UntrackedState, SyncStage
  <2>5. sync' = [sync EXCEPT ![s] = new] BY <1>1, <2>1
  <2> HIDE DEF new
  <2>6. QED BY <1>4, <1>5, <2>2, <2>4, <2>5
<1>10. CASE SyncEnd(s)
  <2>1. IdleSync \in UntrackedState BY DEF IdleSync, UntrackedState, SyncStage, Mode
  <2>2. QED BY <1>4, <1>5, <1>10, <2>1 DEF SyncEnd
<1>11. CASE InsertRow(s)
  <2>1. PICK d \in sync[s].missing :
          /\ sync[s].stage = "inserting" /\ UNCHANGED <<cache, tracker>>
          /\ \/ /\ rows' = [rows EXCEPT ![d] = @ + 1]
                /\ sync' = [sync EXCEPT ![s].stage = "tracking", ![s].missing = @ \ {d}]
             \/ /\ sync' = [sync EXCEPT ![s].missing = @ \ {d}]
                /\ UNCHANGED rows
    BY <1>11 DEF InsertRow
  <2>2. CASE UNCHANGED rows /\ sync' = [sync EXCEPT ![s].missing = @ \ {d}]
    BY <1>1, <1>4, <1>5, <2>1, <2>2 DEF SyncState, UntrackedState, SyncStage
  <2>3. CASE /\ rows' = [rows EXCEPT ![d] = @ + 1]
             /\ sync' = [sync EXCEPT ![s].stage = "tracking", ![s].missing = @ \ {d}]
    <3>1. SyncsOK' BY <1>1, <1>2, <2>1, <2>3 DEF SyncsOK, SyncState, SyncStage
    <3>2. Known' \subseteq Known \cup {d} /\ d \in sent BY <1>1, <1>5, <2>1, <2>3 DEF Known
    <3>3. Real' BY <1>1, <1>2, <2>1, <2>3, <3>2 DEF SweptInv, Real
    <3>4. MarkedIsEmpty' BY <1>1, <2>3 DEF MarkedIsEmpty
    <3>5. QED BY <1>3, <3>1, <3>3, <3>4 DEF SweptInv
  <2>4. QED BY <2>1, <2>2, <2>3
<1>12. CASE TrackDeposit(s)
  <2>1. /\ tracker' = "toSweep" /\ UNCHANGED <<cache, rows>>
        /\ sync' = [sync EXCEPT ![s].stage = "inserting"]
    BY <1>12 DEF TrackDeposit
  <2>2. SyncsOK' BY <1>1, <1>2, <2>1 DEF SyncsOK, SyncState, SyncStage
  <2>3. Real' BY <1>1, <1>2, <2>1 DEF SweptInv, Real, Known
  <2>4. QED BY <1>3, <2>1, <2>2, <2>3 DEF SweptInv, MarkedIsEmpty
<1>13. QED BY <1>6, <1>7, <1>8, <1>9, <1>10, <1>11, <1>12 DEF SyncStep, TrackDepositFails, SyncFails

\* Where syncs and sweeps take turns and what is asked is answered, the address
\* of a marked tracker holds none of the coins that were credited.
THEOREM CreditedAreSwept == ASSUME ~Failures PROVE SerialSpec => []CreditedIsSwept
<1>1. SweptInv /\ UNCHANGED vars => SweptInv'
  <2> SUFFICES ASSUME SweptInv, UNCHANGED vars PROVE SweptInv'
    OBVIOUS
  <2>1. UNCHANGED <<sent, onAddress, cache, rows, tracker, sync, busy, sweep>>
    BY DEF vars, chainVars, sweepVars, syncVars
  <2>2. SyncsOK' /\ SweepOK' /\ Real' /\ Turns'
    BY <2>1 DEF SweptInv, SyncsOK, SweepOK, Real, Turns, Known
  <2>3. PartsAddUp' /\ MarkedIsEmpty'
    BY <2>1 DEF SweptInv, PartsAddUp, OnePart, TwoParts, MarkedIsEmpty, Known
  <2>4. QED BY <2>2, <2>3 DEF SweptInv
<1>2. SweptInv /\ [SerialNext]_vars => SweptInv'
  BY <1>1, EnvironmentSwept, SweepSwept, SyncSwept DEF SerialNext
<1>3. SweptInv => CreditedIsSwept
  BY DEF SweptInv, MarkedIsEmpty, CreditedIsSwept, Alone
<1>4. QED BY <1>2, <1>3, InitSwept, PTL DEF SerialSpec

-----------------------------------------------------------------------------
(* Types, in every interleaving.                                           *)

RestOK ==
  /\ watched \in BOOLEAN /\ busy \in BOOLEAN
  /\ adminRows \in [{"network", "leg"} -> Nat]
  /\ balance \in Nat
  /\ tracker \in {"none", "toSweep", "swept"}

\* A sweep sends no more than the address has.
Affordable(legs, held) ==
  \E a, b \in Nat :
    \/ legs = <<a>> /\ a <= held
    \/ legs = <<a, b>> /\ a + b <= held

AddressOK ==
  /\ onAddress \in Nat
  /\ sweep \in [stage : SweepStage, legs : Seq(Nat)]
  /\ sweep.stage = "sending" => Affordable(sweep.legs, onAddress)

TypeInv == SyncsOK /\ RestOK /\ AddressOK

LEMMA NoLegs == <<>> \in Seq(Nat)
  OBVIOUS

\* Before anything has happened.
LEMMA InitTypes == Init => TypeInv
<1>1. IdleSweep \in [stage : SweepStage, legs : Seq(Nat)]
  BY NoLegs DEF IdleSweep, SweepStage
<1>2. Init => SyncsOK
  BY InitCredit DEF CreditInv
<1>3. Init => RestOK
  <2> SUFFICES ASSUME Init PROVE RestOK
    OBVIOUS
  <2>1. watched \in BOOLEAN /\ busy \in BOOLEAN BY Zenon DEF Init
  <2>2. balance = 0 /\ tracker = "none" /\ adminRows = [k \in {"network", "leg"} |-> 0] BY DEF Init
  <2>3. QED BY <2>1, <2>2 DEF RestOK
<1>4. IdleSweep.stage # "sending"
  BY DEF IdleSweep
<1>5. Init => AddressOK
  BY <1>1, <1>4 DEF Init, AddressOK
<1>6. QED BY <1>2, <1>3, <1>5 DEF TypeInv

\* The balance that the rows make up is a natural number.
LEMMA CreditedNat == ASSUME SyncsOK PROVE Credited \in Nat
<1> DEFINE worth == [d \in Deposits |-> rows[d] * Amount[d]]
<1>1. NumDeposits \in Nat /\ Amount \in [Deposits -> Nat] /\ rows \in [Deposits -> Nat]
  BY DepositsAssumption DEF SyncsOK
<1>2. ASSUME NEW d \in 1..NumDeposits PROVE worth[d] \in Nat
  <2>1. rows[d] \in Nat /\ Amount[d] \in Nat /\ worth[d] = rows[d] * Amount[d] BY <1>1 DEF Deposits
  <2>2. \A x, y \in Nat : x * y \in Nat OBVIOUS
  <2> HIDE DEF worth
  <2>3. QED BY <2>1, <2>2
<1> HIDE DEF worth
<1>3. Total(worth, NumDeposits) \in Nat BY <1>1, <1>2, TotalNat
<1>4. QED BY <1>3 DEF Credited, worth

\* The parts of a sweep add up to what was found.
LEMMA SplitAffordable ==
  ASSUME NEW f \in Nat, NEW held \in Nat, f <= held
  PROVE  SplitSweep(f) \in Seq(Nat) /\ Affordable(SplitSweep(f), held)
<1> DEFINE toCeo == (2 * f * CeoPercent + 100) \div 200
<1>1. CeoPercent \in Nat /\ MinLeg \in Nat BY SweepAssumption
<1>2. toCeo \in Int BY <1>1
<1> HIDE DEF toCeo
<1>3. \/ /\ SplitSweep(f) = <<toCeo, f - toCeo>>
         /\ toCeo \in Nat /\ f - toCeo \in Nat
      \/ SplitSweep(f) = <<f>>
  BY <1>1, <1>2 DEF SplitSweep, toCeo
<1>4. CASE SplitSweep(f) = <<f>>
  <2>1. <<f>> \in Seq(Nat) OBVIOUS
  <2>2. QED BY <1>4, <2>1 DEF Affordable
<1>5. CASE SplitSweep(f) = <<toCeo, f - toCeo>> /\ toCeo \in Nat /\ f - toCeo \in Nat
  <2>1. <<toCeo, f - toCeo>> \in Seq(Nat) BY <1>5
  <2>2. toCeo + (f - toCeo) <= held BY <1>2
  <2>3. Affordable(SplitSweep(f), held) BY <1>5, <2>2 DEF Affordable
  <2>4. QED BY <1>5, <2>1, <2>3
<1>6. QED BY <1>3, <1>4, <1>5

\* What arrives adds to the address; the user's page changes no amount.
LEMMA EnvironmentTypes == ASSUME TypeInv, Environment PROVE TypeInv'
<1>1. CASE Arrive
  <2>1. PICK d \in Deposits \ sent, txs \in SUBSET Deposits :
          /\ sent' = sent \cup txs /\ onAddress' = onAddress + Worth(txs)
          /\ UNCHANGED <<watched, syncVars, sweepVars, tracker>>
    BY <1>1, ArriveStep
  <2>2. Worth(txs) \in Nat BY WorthNat
  <2>3. SyncsOK' /\ RestOK' BY <2>1 DEF TypeInv, SyncsOK, RestOK, syncVars, sweepVars
  <2>4. onAddress' \in Nat /\ onAddress <= onAddress' BY <2>1, <2>2 DEF TypeInv, AddressOK
  <2>5. onAddress \in Nat /\ sweep' = sweep BY <2>1 DEF TypeInv, AddressOK, sweepVars
  <2>6. Affordable(sweep.legs, onAddress) => Affordable(sweep.legs, onAddress')
    BY <2>4, <2>5 DEF Affordable
  <2>7. AddressOK' BY <2>4, <2>5, <2>6 DEF TypeInv, AddressOK
  <2>8. QED BY <2>3, <2>7 DEF TypeInv
<1>2. CASE TrackingWallet \/ TrackerExpires
  BY <1>2 DEF TrackingWallet, TrackerExpires, syncVars, sweepVars, TypeInv, SyncsOK, RestOK, AddressOK
<1>3. QED BY <1>1, <1>2 DEF Environment

\* A sweep takes from the address what it can afford and touches no sync.
LEMMA SweepTypes ==
  ASSUME TypeInv, SweepStep \/ SweepStart \/ SweepStartThrows
  PROVE  TypeInv'
<1>1. UNCHANGED <<sent, cache, rows, balance, sync>>
  BY SweepLeavesSyncs DEF SweepStart, SweepStartThrows, chainVars, syncVars
<1>2. SyncsOK' BY <1>1 DEF TypeInv, SyncsOK
<1>3. /\ sweep.stage \in SweepStage /\ sweep.legs \in Seq(Nat) /\ onAddress \in Nat
      /\ watched \in BOOLEAN /\ busy \in BOOLEAN /\ balance \in Nat
      /\ adminRows \in [{"network", "leg"} -> Nat] /\ tracker \in {"none", "toSweep", "swept"}
  BY DEF TypeInv, RestOK, AddressOK
<1>4. ASSUME UNCHANGED <<onAddress, watched, adminRows>>, busy' \in BOOLEAN,
             tracker' \in {"none", "toSweep", "swept"},
             NEW stg \in SweepStage \ {"sending"}, NEW legs \in Seq(Nat), sweep' = [stage |-> stg, legs |-> legs]
      PROVE  TypeInv'
  BY <1>1, <1>2, <1>3, <1>4 DEF TypeInv, RestOK, AddressOK
<1>5. ASSUME UNCHANGED <<onAddress, watched, adminRows, tracker>>, Leave PROVE TypeInv'
  BY <1>3, <1>4, <1>5, NoLegs DEF Leave, IdleSweep, SweepStage
<1>6. ASSUME UNCHANGED <<onAddress, watched, adminRows, tracker>>, NEW stg \in {"gas", "read", "mark"}, GoOn(stg)
      PROVE  TypeInv'
  <2>1. sweep' = [stage |-> stg, legs |-> sweep.legs] /\ busy' = busy
    BY <1>6 DEF GoOn, TypeInv, AddressOK
  <2>2. QED BY <1>3, <1>4, <1>6, <2>1 DEF SweepStage
<1>7. CASE SweepStart
  BY <1>3, <1>4, <1>7, NoLegs DEF SweepStart, IdleSweep, SweepStage, chainVars
<1>8. CASE SweepStartThrows
  BY <1>2, <1>8 DEF SweepStartThrows, TypeInv, RestOK, AddressOK, chainVars, syncVars
<1>9. CASE SweepSetUp \/ SweepGas \/ SweepSkips
  BY <1>5, <1>6, <1>9 DEF SweepSetUp, SweepGas, SweepSkips, GasRefused, GasSupplied, SweepOnly, chainVars
<1>10. CASE SweepRead
  <2>1. PICK found \in Readable : SweepSends(found) \/ Leave \/ GoOn("mark")
    BY <1>10 DEF SweepRead
  <2>2. UNCHANGED <<onAddress, watched, adminRows, tracker>>
    BY <1>10 DEF SweepRead, SweepOnly, chainVars
  <2>3. CASE SweepSends(found)
    <3>1. sweep' = [stage |-> "sending", legs |-> SplitSweep(found)] /\ busy' = busy
      BY <2>3 DEF SweepSends
    <3>2. found \in Nat /\ found <= onAddress BY <1>3 DEF Readable
    <3>3. SplitSweep(found) \in Seq(Nat) /\ Affordable(SplitSweep(found), onAddress)
      BY <1>3, <3>2, SplitAffordable
    <3>4. AddressOK' BY <1>3, <2>2, <3>1, <3>3 DEF AddressOK, SweepStage
    <3>5. QED BY <1>1, <1>2, <1>3, <2>2, <3>1, <3>4 DEF TypeInv, RestOK
  <2>4. QED BY <1>5, <1>6, <2>1, <2>2, <2>3
<1>11. ASSUME sweep.stage = "sending"
       PROVE  /\ Head(sweep.legs) \in Nat /\ onAddress - Head(sweep.legs) \in Nat
              /\ Tail(sweep.legs) \in Seq(Nat)
              /\ Len(sweep.legs) # 1 => Affordable(Tail(sweep.legs), onAddress - Head(sweep.legs))
  <2>1. PICK a, b \in Nat :
          \/ sweep.legs = <<a>> /\ a <= onAddress
          \/ sweep.legs = <<a, b>> /\ a + b <= onAddress
    BY <1>11 DEF TypeInv, AddressOK, Affordable
  <2>2. CASE sweep.legs = <<a>> /\ a <= onAddress
    <3>1. Head(sweep.legs) = a /\ Tail(sweep.legs) = <<>> /\ Len(sweep.legs) = 1 BY <2>2
    <3>2. QED BY <1>3, <2>2, <3>1
  <2>3. CASE sweep.legs = <<a, b>> /\ a + b <= onAddress
    <3>1. Head(sweep.legs) = a /\ Tail(sweep.legs) = <<b>> BY <2>3
    <3>2. onAddress - a \in Nat /\ b <= onAddress - a BY <1>3, <2>3
    <3>3. <<b>> \in Seq(Nat) /\ Affordable(<<b>>, onAddress - a) BY <3>2 DEF Affordable
    <3>4. QED BY <3>1, <3>2, <3>3
  <2>4. QED BY <2>1, <2>2, <2>3
<1>12. CASE SweepLeg
  <2>1. /\ sweep.stage = "sending" /\ UNCHANGED <<watched, tracker, busy>>
        /\ onAddress' = onAddress - Head(sweep.legs)
        /\ adminRows' = [adminRows EXCEPT !["leg"] = @ + Head(sweep.legs)]
        /\ sweep' = [legs |-> Tail(sweep.legs), stage |-> IF Len(sweep.legs) = 1 THEN "mark" ELSE "sending"]
    BY <1>12 DEF SweepLeg, NodeOfLeg
  <2>2. AddressOK' BY <1>11, <2>1 DEF AddressOK, SweepStage
  <2>3. RestOK' BY <1>1, <1>3, <1>11, <2>1, SMTT(30) DEF RestOK
  <2>4. QED BY <1>2, <2>2, <2>3 DEF TypeInv
<1>13. CASE SweepLegFails
  BY <1>5, <1>13 DEF SweepLegFails, Leave, chainVars
<1>14. CASE SweepLegUnseen
  <2>1. AddressOK' BY <1>11, <1>14 DEF SweepLegUnseen, AddressOK, IdleSweep, SweepStage
  <2>2. RestOK' BY <1>1, <1>3, <1>14 DEF SweepLegUnseen, RestOK
  <2>3. QED BY <1>2, <2>1, <2>2 DEF TypeInv
<1>15. CASE SweepMark
  BY <1>3, <1>4, <1>15, NoLegs DEF SweepMark, IdleSweep, SweepStage, chainVars
<1>16. QED BY <1>7, <1>8, <1>9, <1>10, <1>12, <1>13, <1>14, <1>15 DEF SweepStep

\* A sync changes its own entry, the list, the rows, the balance or the tracker.
LEMMA SyncTypes ==
  ASSUME TypeInv, NEW s \in Syncs, SyncBegin(s) \/ SyncStep(s)
  PROVE  TypeInv'
<1>1. /\ sync \in [Syncs -> SyncState]
      /\ sent \subseteq Deposits /\ cache \subseteq Deposits /\ rows \in [Deposits -> Nat]
  BY DEF TypeInv, SyncsOK
<1>2. UNCHANGED <<chainVars, sweepVars>>
  BY DEF SyncBegin, CronBegin, ManualBegin, Begin, SyncStep, Fetch, FetchSome, SaveCache, ReadRows,
         InsertRow, TrackDeposit, TrackDepositFails, SyncFails, SyncEnd
<1>3. AddressOK' BY <1>2 DEF TypeInv, AddressOK, chainVars, sweepVars
<1>4. /\ tracker' = tracker \/ tracker' = "toSweep"
      /\ balance' = balance \/ balance' = Credited
  BY DEF SyncBegin, CronBegin, ManualBegin, Begin, SyncStep, Fetch, FetchSome, SaveCache, ReadRows,
         InsertRow, TrackDeposit, TrackDepositFails, SyncFails, SyncEnd
<1>5. RestOK' BY <1>2, <1>4, CreditedNat DEF TypeInv, RestOK, chainVars, sweepVars
<1>6. ASSUME NEW new \in SyncState,
             sync' = [sync EXCEPT ![s] = new], rows' \in [Deposits -> Nat], cache' \subseteq Deposits
      PROVE  TypeInv'
  <2>1. SyncsOK' BY <1>1, <1>2, <1>6 DEF SyncsOK, chainVars
  <2>2. QED BY <1>3, <1>5, <2>1 DEF TypeInv
<1>7. CASE SyncBegin(s)
  <2>1. PICK mode \in Mode, conflict \in BOOLEAN :
          sync' = [sync EXCEPT ![s] = [stage |-> "begun", mode |-> mode, conflict |-> conflict,
                                       txs |-> cache, missing |-> {}]]
    BY <1>7, BeginStep
  <2>2. UNCHANGED <<cache, rows>> BY <1>7, BeginStep
  <2>3. [stage |-> "begun", mode |-> mode, conflict |-> conflict, txs |-> cache, missing |-> {}] \in SyncState
    BY <1>1 DEF SyncState, SyncStage
  <2>4. QED BY <1>1, <1>6, <2>1, <2>2, <2>3
<1>14. CASE SyncFails(s) \/ SyncEnd(s)
  <2>1. IdleSync \in SyncState BY DEF IdleSync, SyncState, SyncStage, Mode
  <2>2. QED BY <1>1, <1>6, <1>14, <2>1 DEF SyncFails, SyncEnd
<1>8. CASE Fetch(s)
  <2>1. PICK txs \in SUBSET (sent \cup sync[s].txs) :
          sync' = [sync EXCEPT ![s].stage = "fetched", ![s].txs = txs]
    BY <1>8, FetchStep
  <2>2. UNCHANGED <<cache, rows>> /\ txs \in SUBSET Deposits
    BY <1>1, <1>8, FetchStep DEF SyncState
  <2>3. SyncsOK' BY <1>1, <1>2, <2>1, <2>2 DEF SyncsOK, SyncState, SyncStage, chainVars
  <2>4. QED BY <1>3, <1>5, <2>3 DEF TypeInv
<1>9. CASE SaveCache(s)
  <2>1. SyncsOK' BY <1>1, <1>2, <1>9 DEF SaveCache, SyncsOK, SyncState, SyncStage, chainVars
  <2>2. QED BY <1>3, <1>5, <2>1 DEF TypeInv
<1>10. CASE ReadRows(s)
  <2>3. PICK missing \in SUBSET (sync[s].txs \ Known) :
          sync' = [sync EXCEPT ![s].stage = "inserting", ![s].missing = missing]
    BY <1>10, MissingUnknown DEF ReadRows
  <2>1. missing \in SUBSET Deposits /\ UNCHANGED <<cache, rows>>
    BY <1>1, <1>10, <2>3 DEF ReadRows, SyncState
  <2>2. SyncsOK' BY <1>1, <1>2, <2>1, <2>3 DEF SyncsOK, SyncState, SyncStage, chainVars
  <2>4. QED BY <1>3, <1>5, <2>2 DEF TypeInv
<1>11. CASE InsertRow(s)
  <2>1. PICK d \in sync[s].missing :
          /\ \/ /\ rows' = [rows EXCEPT ![d] = @ + 1]
                /\ sync' = [sync EXCEPT ![s].stage = "tracking", ![s].missing = @ \ {d}]
             \/ /\ sync' = [sync EXCEPT ![s].missing = @ \ {d}]
                /\ UNCHANGED rows
          /\ UNCHANGED cache
    BY <1>11 DEF InsertRow
  <2>2. SyncsOK' BY <1>1, <1>2, <2>1 DEF SyncsOK, SyncState, SyncStage, chainVars
  <2>3. QED BY <1>3, <1>5, <2>2 DEF TypeInv
<1>12. CASE TrackDeposit(s) \/ TrackDepositFails(s)
  <2>1. SyncsOK' BY <1>1, <1>2, <1>12 DEF TrackDeposit, TrackDepositFails, SyncsOK, SyncState, SyncStage, chainVars
  <2>2. QED BY <1>3, <1>5, <2>1 DEF TypeInv
<1>13. QED BY <1>7, <1>8, <1>9, <1>10, <1>11, <1>12, <1>14 DEF SyncStep

\* In every interleaving of syncs and sweeps, with failures and restarts, the
\* rows, the list, the balance and the tracker keep their types and the address
\* is never short of what a sweep sends.
THEOREM DepositTypes == Spec => []TypeOK
<1>1. ASSUME TypeInv, Restart PROVE TypeInv'
  <2>1. IdleSweep \in [stage : SweepStage \ {"sending"}, legs : Seq(Nat)]
    BY NoLegs DEF IdleSweep, SweepStage
  <2>2. SyncsOK' BY <1>1 DEF Restart, TypeInv, SyncsOK, IdleSync, SyncState, SyncStage, Mode, chainVars
  <2>3. RestOK' /\ AddressOK' BY <1>1, <2>1 DEF Restart, TypeInv, RestOK, AddressOK, chainVars
  <2>4. QED BY <2>2, <2>3 DEF TypeInv
<1>2. TypeInv /\ UNCHANGED vars => TypeInv'
  BY DEF vars, chainVars, sweepVars, syncVars, TypeInv, SyncsOK, RestOK, AddressOK
<1>3. TypeInv /\ [Next]_vars => TypeInv'
  BY <1>1, <1>2, EnvironmentTypes, SweepTypes, SyncTypes DEF Next
<1>4. TypeInv => TypeOK
  BY DEF TypeInv, SyncsOK, SyncState, RestOK, AddressOK, TypeOK
<1>5. QED BY <1>3, <1>4, InitTypes, PTL DEF Spec

=============================================================================
