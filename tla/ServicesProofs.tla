--------------------------- MODULE ServicesProofs ---------------------------
(***************************************************************************)
(* What is true of the services around the trading for any number of       *)
(* callers, transfers, referrals, conversations and codes.  Each component *)
(* has an invariant that its steps preserve; the theorems that follow from *)
(* it come after all of them.  The types, which the invariants contain in  *)
(* part, are the second half, with what is said of deposit addresses.      *)
(***************************************************************************)
EXTENDS ChainProofs

-----------------------------------------------------------------------------
(* TransferFiles: the lock, stale or not, lets one live call at a time     *)
(* past it, and that call merges into what it read after it had the lock.  *)

Inside == {"read", "unlink", "open", "write", "release"}

\* Whoever is past the lock holds it, and it is fresh: no other call is there.
Exclusive ==
  /\ \A c \in Savers : save[c].stage \in Inside => lock.by = c /\ lock.fresh
  /\ lock.by \in Savers \cup {"nobody"} /\ (lock.fresh => lock.by \in Savers)

\* What a call will leave in the file has what was saved before, and what it
\* was asked to save; the file of the other kind is gone while it writes.
MergedHasAll ==
  \A c \in Savers :
    /\ save[c].stage \in {"unlink", "open", "write"} =>
         saved \subseteq save[c].merged /\ save[c].txs \subseteq save[c].merged
    /\ save[c].stage \in {"open", "write"} => file[Files!Other(c)] = Files!Absent
    /\ save[c].stage = "release" => save[c].txs \subseteq Files!Content.has

FileTypes ==
  /\ save \in [Savers -> [stage : {"idle", "lock"} \cup Inside, txs : SUBSET Transfers, merged : SUBSET Transfers]]
  /\ file \in [plain : Files!File, gz : Files!File]
  /\ lock \in [by : Savers \cup {"nobody"}, fresh : BOOLEAN] /\ torn \in BOOLEAN

FilesInv == FileTypes /\ Exclusive /\ (~torn => Files!SavedIsKept /\ MergedHasAll)

-----------------------------------------------------------------------------
LEMMA InitFiles == ASSUME "nobody" \notin Savers, Files!Init PROVE FilesInv
  BY DEF Files!Init, FilesInv, FileTypes, Exclusive, MergedHasAll, Files!SavedIsKept, Inside, Files!Idle, Files!NoLock, Files!Absent, Files!File,
         Files!Writing, Files!At, Files!Content

\* A call outside the lock changes where it is, and nothing else.
LEMMA OutsideKeeps ==
  ASSUME FilesInv, NEW c \in Savers, save[c].stage \in {"idle", "lock"},
         NEW moved \in [stage : {"idle", "lock"}, txs : SUBSET Transfers, merged : SUBSET Transfers],
         save' = [save EXCEPT ![c] = moved], UNCHANGED <<file, lock, saved, torn>>
  PROVE  FilesInv'
<1>1. save' \in [Savers -> [stage : {"idle", "lock"} \cup Inside, txs : SUBSET Transfers, merged : SUBSET Transfers]]
  BY DEF FilesInv, FileTypes
<1>2. \A d \in Savers : d # c => save'[d] = save[d]
  BY DEF FilesInv, FileTypes
<1>3. save'[c].stage \in {"idle", "lock"}
  BY DEF FilesInv, FileTypes
<1>4. Exclusive'
  BY <1>2, <1>3 DEF FilesInv, Exclusive, Inside
<1>5. Files!Writing' <=> Files!Writing
  BY <1>2, <1>3 DEF Files!Writing, Files!At
<1>6. \A d \in Savers : d # c => Files!Other(d)' = Files!Other(d)
  BY <1>2 DEF Files!Other, Files!Compresses
<1>7. Files!Content' = Files!Content
  BY DEF Files!Content
<1>8. ~torn => MergedHasAll'
  BY <1>2, <1>3, <1>6, <1>7 DEF FilesInv, MergedHasAll
<1>9. ~torn => Files!SavedIsKept'
  BY <1>5, <1>7 DEF FilesInv, Files!SavedIsKept
<1>10. QED BY <1>1, <1>4, <1>8, <1>9 DEF FilesInv, FileTypes

\* While a call is past the lock, no other is.
LEMMA Alone ==
  ASSUME FilesInv, NEW c \in Savers, save[c].stage \in Inside
  PROVE  /\ lock.by = c /\ lock.fresh
         /\ \A d \in Savers : d # c => save[d].stage \in {"idle", "lock"}
  BY DEF FilesInv, Exclusive, FileTypes


SaveType == [stage : {"idle", "lock"} \cup Inside, txs : SUBSET Transfers, merged : SUBSET Transfers]

\* A step of the only call that is, or comes, past the lock.
LEMMA MoveKeeps ==
  ASSUME FilesInv, NEW c \in Savers, \A d \in Savers : d # c => save[d].stage \in {"idle", "lock"},
         NEW moved \in SaveType, save' = [save EXCEPT ![c] = moved],
         file' \in [plain : Files!File, gz : Files!File],
         lock' \in [by : Savers \cup {"nobody"}, fresh : BOOLEAN], lock.fresh' => lock.by' \in Savers, torn' \in BOOLEAN,
         moved.stage \in Inside => lock.by' = c /\ lock.fresh',
         ~torn' =>
           /\ moved.stage \in {"unlink", "open", "write"} => saved' \subseteq moved.merged /\ moved.txs \subseteq moved.merged
           /\ moved.stage \in {"open", "write"} => file'[Files!Other(c)'] = Files!Absent
           /\ moved.stage = "release" => moved.txs \subseteq Files!Content'.has
           /\ moved.stage \notin {"open", "write"} => saved' \subseteq Files!Content'.has
  PROVE  FilesInv'
<1>1. save' \in [Savers -> SaveType] /\ save'[c] = moved
  BY DEF FilesInv, FileTypes, SaveType
<1>2. \A d \in Savers : d # c => save'[d].stage \in {"idle", "lock"}
  BY DEF FilesInv, FileTypes
<1>3. Exclusive'
  BY <1>1, <1>2 DEF Exclusive, Inside
<1>4. ~torn' => MergedHasAll'
  BY <1>1, <1>2 DEF MergedHasAll
<1>5. ~torn' => Files!SavedIsKept'
  BY <1>1, <1>2 DEF Files!SavedIsKept, Files!Writing, Files!At
<1>6. QED BY <1>1, <1>3, <1>4, <1>5 DEF FilesInv, FileTypes, SaveType

LEMMA AcquireKeeps ==
  ASSUME FilesInv, "nobody" \notin Savers, NEW c \in Savers, Files!AcquireLock(c)
  PROVE  FilesInv'
<1>1. \A d \in Savers : save[d].stage \in {"idle", "lock"}
  BY DEF Files!AcquireLock, Files!Stale, FilesInv, Exclusive, FileTypes
<1> DEFINE moved == [save[c] EXCEPT !.stage = "read"]
<1>2. moved \in SaveType /\ moved.stage = "read" /\ save' = [save EXCEPT ![c] = moved]
  BY DEF FilesInv, FileTypes, SaveType, Files!AcquireLock, Files!Goes, Inside
<1>3. lock' = [by |-> c, fresh |-> TRUE] /\ UNCHANGED <<file, saved, torn>> /\ Files!Content' = Files!Content
  BY DEF Files!AcquireLock, Files!Kept, Files!Content
<1>4. ~torn => saved \subseteq Files!Content.has
  BY <1>1 DEF FilesInv, Files!SavedIsKept, Files!Writing, Files!At
<1> HIDE DEF moved
<1>5. QED BY <1>1, <1>2, <1>3, <1>4, MoveKeeps DEF FilesInv, FileTypes

LEMMA ReadKeeps ==
  ASSUME FilesInv, NEW c \in Savers, Files!ReadFile(c)
  PROVE  FilesInv'
<1>1. save[c].stage = "read" /\ UNCHANGED <<file, lock, saved, torn>> /\ Files!Content' = Files!Content
  BY DEF Files!ReadFile, Files!Kept, Files!At, Files!Content
<1>2. /\ lock.by = c /\ lock.fresh
      /\ \A d \in Savers : d # c => save[d].stage \in {"idle", "lock"}
  BY <1>1, Alone DEF Inside
<1>3. ~torn => saved \subseteq Files!Content.has
  BY <1>1, <1>2 DEF FilesInv, Files!SavedIsKept, Files!Writing, Files!At
<1>4. CASE save[c].txs \subseteq Files!Content.has
  <2> DEFINE moved == [save[c] EXCEPT !.stage = "release"]
  <2>1. moved \in SaveType /\ moved.stage = "release" /\ moved.txs = save[c].txs /\ save' = [save EXCEPT ![c] = moved]
    BY <1>4 DEF FilesInv, FileTypes, SaveType, Files!ReadFile, Inside
  <2> HIDE DEF moved
  <2>2. QED BY <1>1, <1>2, <1>3, <1>4, <2>1, MoveKeeps DEF FilesInv, FileTypes
<1>5. CASE ~(save[c].txs \subseteq Files!Content.has)
  <2> DEFINE moved == [save[c] EXCEPT !.stage = "unlink", !.merged = Files!Merged(c)]
  <2>1. Files!Merged(c) \in SUBSET Transfers
    BY DEF FilesInv, FileTypes, Files!Merged, Files!Content, Files!File
  <2>2. /\ moved \in SaveType /\ moved.stage = "unlink" /\ moved.txs = save[c].txs /\ moved.merged = Files!Merged(c)
        /\ save' = [save EXCEPT ![c] = moved]
    BY <1>5, <2>1 DEF FilesInv, FileTypes, SaveType, Files!ReadFile, Inside
  <2>3. save[c].txs \subseteq Files!Merged(c) /\ Files!Content.has \subseteq Files!Merged(c)
    BY DEF Files!Merged
  <2> HIDE DEF moved
  <2>4. ~torn => saved \subseteq moved.merged /\ moved.txs \subseteq moved.merged
    BY <1>3, <2>2, <2>3
  <2>5. QED BY <1>1, <1>2, <1>3, <2>2, <2>4, MoveKeeps DEF FilesInv, FileTypes
<1>6. QED BY <1>4, <1>5

\* The name a call writes under is one or the other, and stays.
LEMMA FileNames ==
  ASSUME NEW c
  PROVE  /\ {Files!This(c), Files!Other(c)} = {"plain", "gz"} /\ Files!This(c) # Files!Other(c)
  BY DEF Files!This, Files!Other

\* Deleting the other file, truncating this one and writing it.
LEMMA WriteKeeps ==
  ASSUME FilesInv, NEW c \in Savers, Files!Unlink(c) \/ Files!Open(c) \/ Files!Write(c)
  PROVE  FilesInv'
<1>1. save[c].stage \in Inside /\ UNCHANGED <<lock, saved, torn>>
  BY DEF Files!Unlink, Files!Open, Files!Write, Files!Kept, Files!At, Inside
<1>2. /\ lock.by = c /\ lock.fresh
      /\ \A d \in Savers : d # c => save[d].stage \in {"idle", "lock"}
  BY <1>1, Alone
<1>3. save[c] \in SaveType /\ Files!Absent \in Files!File /\ Files!Half \in Files!File /\ Files!Whole(save[c].merged) \in Files!File
  BY DEF FilesInv, FileTypes, SaveType, Files!Absent, Files!Half, Files!Whole, Files!File
<1>4. ~torn => saved \subseteq save[c].merged /\ save[c].txs \subseteq save[c].merged
  BY DEF FilesInv, MergedHasAll, Files!Unlink, Files!Open, Files!Write, Files!At
<1>5. ASSUME NEW s \in Inside, Files!Goes(c, s)
      PROVE  /\ [save[c] EXCEPT !.stage = s] \in SaveType /\ [save[c] EXCEPT !.stage = s].stage = s
             /\ [save[c] EXCEPT !.stage = s].txs = save[c].txs /\ [save[c] EXCEPT !.stage = s].merged = save[c].merged
             /\ save' = [save EXCEPT ![c] = [save[c] EXCEPT !.stage = s]]
             /\ Files!Other(c)' = Files!Other(c)
  <2>1. save[c] \in SaveType /\ save' = [save EXCEPT ![c] = [save[c] EXCEPT !.stage = s]]
    BY <1>3, <1>5 DEF Files!Goes
  <2>2. [save[c] EXCEPT !.stage = s] \in SaveType /\ [save[c] EXCEPT !.stage = s].merged = save[c].merged
    BY <2>1, <1>5 DEF SaveType
  <2>3. save'[c].merged = save[c].merged
    BY <2>1, <2>2 DEF FilesInv, FileTypes
  <2>4. Files!Other(c)' = Files!Other(c)
    BY <2>3 DEF Files!Other, Files!Compresses
  <2>5. QED BY <2>1, <2>2, <2>4 DEF SaveType
<1>6. CASE Files!Unlink(c)
  <2>1. file' = [file EXCEPT ![Files!Other(c)] = Files!Absent] /\ Files!Goes(c, "open") BY <1>6 DEF Files!Unlink
  <2>2. file' \in [plain : Files!File, gz : Files!File] /\ file'[Files!Other(c)] = Files!Absent
    BY <1>3, <2>1, FileNames DEF FilesInv, FileTypes
  <2> DEFINE moved == [save[c] EXCEPT !.stage = "open"]
  <2>3. /\ moved \in SaveType /\ moved.stage = "open" /\ moved.txs = save[c].txs /\ moved.merged = save[c].merged
        /\ save' = [save EXCEPT ![c] = moved] /\ Files!Other(c)' = Files!Other(c)
    BY <1>5, <2>1 DEF Inside
  <2> HIDE DEF moved
  <2>4. QED BY <1>1, <1>2, <1>4, <2>2, <2>3, MoveKeeps DEF FilesInv, FileTypes
<1>7. CASE Files!Open(c)
  <2>1. file' = [file EXCEPT ![Files!This(c)] = Files!Half] /\ Files!Goes(c, "write") BY <1>7 DEF Files!Open
  <2>2. ~torn => file[Files!Other(c)] = Files!Absent BY <1>7 DEF Files!Open, Files!At, FilesInv, MergedHasAll
  <2>3. file' \in [plain : Files!File, gz : Files!File] /\ file'[Files!Other(c)] = file[Files!Other(c)]
    BY <1>3, <2>1, FileNames DEF FilesInv, FileTypes
  <2>4. QED BY <1>1, <1>2, <1>4, <1>5, <2>1, <2>2, <2>3, MoveKeeps DEF FilesInv, FileTypes, Inside
<1>8. CASE Files!Write(c)
  <2>1. file' = [file EXCEPT ![Files!This(c)] = Files!Whole(save[c].merged)] /\ Files!Goes(c, "release") BY <1>8 DEF Files!Write
  <2>2. ~torn => file[Files!Other(c)] = Files!Absent BY <1>8 DEF Files!Write, Files!At, FilesInv, MergedHasAll
  <2>3. /\ file' \in [plain : Files!File, gz : Files!File]
        /\ file'[Files!Other(c)] = file[Files!Other(c)] /\ file'[Files!This(c)] = Files!Whole(save[c].merged)
    BY <1>3, <2>1, FileNames DEF FilesInv, FileTypes
  <2>4. ~torn => Files!Content'.has = save[c].merged
    BY <2>2, <2>3, FileNames DEF Files!Content, Files!Whole, Files!Absent
  <2>5. QED BY <1>1, <1>2, <1>4, <1>5, <2>1, <2>3, <2>4, MoveKeeps DEF FilesInv, FileTypes, Inside
<1>9. QED BY <1>6, <1>7, <1>8

LEMMA ReleaseKeeps ==
  ASSUME FilesInv, NEW c \in Savers, Files!Release(c)
  PROVE  FilesInv'
<1>1. save[c].stage = "release" /\ save' = [save EXCEPT ![c] = Files!Idle] /\ UNCHANGED <<file, torn>> /\ Files!Content' = Files!Content
  BY DEF Files!Release, Files!At, Files!Content
<1>2. /\ lock.by = c /\ lock.fresh
      /\ \A d \in Savers : d # c => save[d].stage \in {"idle", "lock"}
  BY <1>1, Alone DEF Inside
<1>3. lock' = Files!NoLock /\ saved' = saved \cup save[c].txs
  BY <1>2 DEF Files!Release
<1>4. ~torn => saved \subseteq Files!Content.has /\ save[c].txs \subseteq Files!Content.has
  BY <1>1, <1>2 DEF FilesInv, Files!SavedIsKept, MergedHasAll, Files!Writing, Files!At
<1>5. Files!Idle \in SaveType /\ Files!Idle.stage = "idle" /\ Files!NoLock \in [by : Savers \cup {"nobody"}, fresh : BOOLEAN]
      /\ ~Files!NoLock.fresh
  BY DEF Files!Idle, SaveType, Files!NoLock
<1>6. QED BY <1>1, <1>2, <1>3, <1>4, <1>5, MoveKeeps DEF FilesInv, FileTypes, Inside

\* A call that dies outside the writing of the file leaves it as it was.
LEMMA DiesKeeps ==
  ASSUME FilesInv, NEW c \in Savers, Files!Dies(c)
  PROVE  FilesInv'
<1>1. /\ save' = [save EXCEPT ![c] = Files!Idle] /\ UNCHANGED <<file, lock, saved>> /\ Files!Content' = Files!Content
      /\ torn' = (torn \/ save[c].stage \in {"open", "write"})
  BY DEF Files!Dies, Files!At, Files!Content
<1>2. Files!Idle \in SaveType /\ Files!Idle.stage = "idle" /\ Files!Idle.txs \subseteq Transfers /\ Files!Idle.merged \subseteq Transfers
  BY DEF Files!Idle, SaveType
<1>3. CASE save[c].stage \in Inside
  <2>1. \A d \in Savers : d # c => save[d].stage \in {"idle", "lock"}
    BY <1>3, Alone
  <2>2. ~torn' => saved \subseteq Files!Content.has
    BY <1>1, <2>1 DEF FilesInv, Files!SavedIsKept, Files!Writing, Files!At
  <2>3. lock.fresh => lock.by \in Savers BY DEF FilesInv, Exclusive
  <2>4. QED BY <1>1, <1>2, <2>1, <2>2, <2>3, MoveKeeps DEF FilesInv, FileTypes, Inside
<1>4. CASE save[c].stage \notin Inside
  <2>1. save[c].stage \in {"idle", "lock"}
    BY <1>4 DEF FilesInv, FileTypes
  <2>2. torn' = torn
    <3>1. torn \in BOOLEAN BY DEF FilesInv, FileTypes
    <3>2. save[c].stage \notin {"open", "write"} BY <2>1
    <3>3. QED BY <1>1, <3>1, <3>2
  <2>3. QED BY <1>1, <1>2, <2>1, <2>2, OutsideKeeps DEF SaveType
<1>5. QED BY <1>3, <1>4

LEMMA NextFiles ==
  ASSUME FilesInv, "nobody" \notin Savers, [Files!Next]_files
  PROVE  FilesInv'
<1>1. ASSUME NEW c \in Savers, NEW txs \in SUBSET Transfers,
             Files!SaveTransactions(c, txs) \/ Files!LoadTransactions(c) \/ Files!LockThrows(c)
      PROVE  FilesInv'
  <2>1. [Files!Idle EXCEPT !.stage = "lock", !.txs = txs] \in [stage : {"idle", "lock"}, txs : SUBSET Transfers, merged : SUBSET Transfers]
        /\ [Files!Idle EXCEPT !.stage = "lock"] \in [stage : {"idle", "lock"}, txs : SUBSET Transfers, merged : SUBSET Transfers]
        /\ Files!Idle \in [stage : {"idle", "lock"}, txs : SUBSET Transfers, merged : SUBSET Transfers]
    BY DEF Files!Idle
  <2>2. QED BY <1>1, <2>1, OutsideKeeps DEF Files!SaveTransactions, Files!LoadTransactions, Files!LockThrows, Files!At, Files!Kept
<1>2. ASSUME NEW c \in Savers, Files!AcquireLock(c) PROVE FilesInv' BY <1>2, AcquireKeeps
<1>3. ASSUME NEW c \in Savers, Files!ReadFile(c) PROVE FilesInv' BY <1>3, ReadKeeps
<1>4. ASSUME NEW c \in Savers, Files!Unlink(c) \/ Files!Open(c) \/ Files!Write(c) PROVE FilesInv' BY <1>4, WriteKeeps
<1>5. ASSUME NEW c \in Savers, Files!Release(c) PROVE FilesInv' BY <1>5, ReleaseKeeps
<1>6. ASSUME NEW c \in Savers, Files!Dies(c) PROVE FilesInv' BY <1>6, DiesKeeps
<1>7. CASE Files!LockGoesStale
  <2>1. save[lock.by].stage = "idle" /\ lock.by \in Savers /\ UNCHANGED <<file, save, saved, torn>>
        /\ lock' = [lock EXCEPT !.fresh = FALSE]
    BY <1>7 DEF Files!LockGoesStale, Files!At, Files!Kept, FilesInv, Exclusive
  <2>2. \A c \in Savers : save[c].stage \notin Inside
    BY <2>1 DEF FilesInv, Exclusive, Inside
  <2>3. Exclusive' /\ FileTypes' BY <2>1, <2>2 DEF FilesInv, Exclusive, FileTypes
  <2>4. Files!Content' = Files!Content /\ (Files!Writing' <=> Files!Writing) /\ \A c : Files!Other(c)' = Files!Other(c)
    BY <2>1 DEF Files!Content, Files!Writing, Files!At, Files!Other, Files!Compresses
  <2>5. QED BY <2>1, <2>3, <2>4 DEF FilesInv, Files!SavedIsKept, MergedHasAll
<1>8. CASE UNCHANGED files
  <2>1. Files!Content' = Files!Content /\ (Files!Writing' <=> Files!Writing) /\ \A c : Files!Other(c)' = Files!Other(c)
    BY <1>8 DEF Files!Content, Files!Writing, Files!At, Files!Other, Files!Compresses, files
  <2>2. QED BY <1>8, <2>1 DEF FilesInv, FileTypes, Exclusive, Files!SavedIsKept, MergedHasAll, files
<1>9. QED BY <1>1, <1>2, <1>3, <1>4, <1>5, <1>6, <1>7, <1>8 DEF Files!Next

-----------------------------------------------------------------------------
(* SupportChat: while a handler has changed what is unseen it has still to *)
(* tell the administrators, and one that will open a conversation has seen *)
(* that none is open.                                                      *)

Stages == {"idle", "create", "user", "admin", "touch", "touch and tell", "close", "see", "sum", "tell"}

ChatInv ==
  /\ status \in [Chat!Convs -> {"none", "open", "closed"}] /\ unread \in [Chat!Convs -> Nat]
  /\ chat \in [{"r1"} -> [stage : Stages, conv : {0} \cup Chat!Convs, total : Int]]
  /\ \A c \in Chat!Convs : status[c] = "none" => unread[c] = 0
  /\ \A c, d \in Chat!Convs : status[c] = "open" /\ status[d] = "open" => c = d
  /\ chat["r1"].stage = "create" => \A c \in Chat!Convs : status[c] # "open"
  /\ chat["r1"].stage \in {"user", "admin", "touch", "touch and tell", "close"} =>
       chat["r1"].conv \in Chat!Convs /\ status[chat["r1"].conv] = "open"
  /\ chat["r1"].stage = "see" => chat["r1"].conv \in Chat!Convs
  /\ chat["r1"].stage \notin {"touch and tell", "sum", "tell"} => badge = Total(Chat!Unseen, NumConvs)
  /\ chat["r1"].stage = "tell" => chat["r1"].total = Total(Chat!Unseen, NumConvs)

\* The sum is Sums' own, and an integer.
LEMMA UnseenIs ==
  ASSUME ChatInv
  PROVE  /\ Chat!Total(Chat!Unseen, NumConvs) = Total(Chat!Unseen, NumConvs)
         /\ Total(Chat!Unseen, NumConvs) \in Int
<1>1. NumConvs \in Nat
  BY ServicesAssumption DEF Chat!Parameters
<1>2. \A c \in 1..NumConvs : Chat!Unseen[c] \in Int
  <2>1. \A c \in 1..NumConvs : unread[c] \in Int
    <3>1. unread \in [Chat!Convs -> Nat]
      BY DEF ChatInv
    <3>2. QED BY <3>1 DEF Chat!Convs
  <2>2. \A c \in 1..NumConvs : Chat!Unseen[c] = IF status[c] = "open" THEN unread[c] ELSE 0
    BY DEF Chat!Unseen, Chat!Convs
  <2>3. QED BY <2>1, <2>2
<1>3. Total(Chat!Unseen, NumConvs) \in Int
  BY <1>1, <1>2, TotalInt
<1>4. QED BY <1>3 DEF Total, Chat!Total

LEMMA ChatInit == ASSUME Chat!Init PROVE ChatInv
<1>1. NumConvs \in Nat
  BY ServicesAssumption DEF Chat!Parameters
<1>2. \A c \in 1..NumConvs : Chat!Unseen[c] = 0
  BY DEF Chat!Init, Chat!Unseen, Chat!Convs
<1>3. Total(Chat!Unseen, NumConvs) = 0
  BY <1>1, <1>2, TotalZero
<1>4. /\ status = [c \in Chat!Convs |-> "none"] /\ unread = [c \in Chat!Convs |-> 0]
      /\ chat = [r \in {"r1"} |-> Chat!Idle] /\ badge = 0
  BY DEF Chat!Init
<1>5. /\ Chat!Idle \in [stage : Stages, conv : {0} \cup Chat!Convs, total : Int] /\ Chat!Idle.stage = "idle"
  BY DEF Chat!Idle, Stages
<1>6. chat["r1"].stage = "idle" /\ chat \in [{"r1"} -> [stage : Stages, conv : {0} \cup Chat!Convs, total : Int]]
  BY <1>4, <1>5
<1>7. QED BY <1>3, <1>4, <1>6 DEF ChatInv

\* What a handler does between reading and telling, when the conversations
\* stay as they are.
LEMMA ChatMoves ==
  ASSUME ChatInv, UNCHANGED <<status, unread, badge>>,
         NEW moved \in [stage : Stages, conv : {0} \cup Chat!Convs, total : Int], chat' = [chat EXCEPT !["r1"] = moved],
         moved.stage = "create" => \A c \in Chat!Convs : status[c] # "open",
         moved.stage \in {"user", "admin", "touch", "touch and tell", "close"} =>
           moved.conv \in Chat!Convs /\ status[moved.conv] = "open",
         moved.stage = "see" => moved.conv \in Chat!Convs,
         moved.stage \notin {"touch and tell", "sum", "tell"} => badge = Total(Chat!Unseen, NumConvs),
         moved.stage = "tell" => moved.total = Total(Chat!Unseen, NumConvs)
  PROVE  ChatInv'
<1>1. Chat!Unseen' = Chat!Unseen
  BY DEF Chat!Unseen
<1>2. chat'["r1"] = moved /\ chat' \in [{"r1"} -> [stage : Stages, conv : {0} \cup Chat!Convs, total : Int]]
  BY DEF ChatInv
<1>3. QED BY <1>1, <1>2 DEF ChatInv

LEMMA ChatBegins ==
  ASSUME ChatInv, NEW stage \in Stages, NEW c \in {0} \cup Chat!Convs, Chat!Begins("r1", stage, c),
         stage \in {"create", "user", "admin", "close", "see"},
         stage = "create" => \A d \in Chat!Convs : status[d] # "open",
         stage # "create" => c \in Chat!Convs,
         stage \in {"user", "admin", "close"} => status[c] = "open"
  PROVE  ChatInv'
<1> DEFINE moved == [stage |-> stage, conv |-> c, total |-> 0]
<1>1. moved \in [stage : Stages, conv : {0} \cup Chat!Convs, total : Int] /\ moved.stage = stage /\ moved.conv = c
  OBVIOUS
<1>0. [Chat!Idle EXCEPT !.stage = stage, !.conv = c] = moved
  <2>1. [Chat!Idle EXCEPT !.stage = stage] = [stage |-> stage, conv |-> 0, total |-> 0]
    BY DEF Chat!Idle
  <2>2. [[stage |-> stage, conv |-> 0, total |-> 0] EXCEPT !.conv = c] = moved
    OBVIOUS
  <2>3. [Chat!Idle EXCEPT !.stage = stage, !.conv = c] = [[Chat!Idle EXCEPT !.stage = stage] EXCEPT !.conv = c]
    OBVIOUS
  <2>4. QED BY <2>1, <2>2, <2>3
<1>2. chat' = [chat EXCEPT !["r1"] = moved] /\ UNCHANGED <<status, unread, badge>> /\ chat["r1"].stage = "idle"
  BY <1>0 DEF Chat!Begins, Chat!At
<1> HIDE DEF moved
<1>3. badge = Total(Chat!Unseen, NumConvs)
  BY <1>2 DEF ChatInv
<1>4. QED BY <1>1, <1>2, <1>3, ChatMoves

\* A handler goes on to a stage.
LEMMA ChatGoes ==
  ASSUME ChatInv, NEW stage \in Stages, Chat!Goes("r1", stage)
  PROVE  /\ chat' \in [{"r1"} -> [stage : Stages, conv : {0} \cup Chat!Convs, total : Int]]
         /\ chat'["r1"].stage = stage /\ chat'["r1"].conv = chat["r1"].conv
<1>1. chat["r1"] \in [stage : Stages, conv : {0} \cup Chat!Convs, total : Int]
  BY DEF ChatInv
<1> DEFINE moved == [chat["r1"] EXCEPT !.stage = stage]
<1>2. moved \in [stage : Stages, conv : {0} \cup Chat!Convs, total : Int] /\ moved.stage = stage /\ moved.conv = chat["r1"].conv
  BY <1>1
<1>3. chat' = [chat EXCEPT !["r1"] = moved]
  BY DEF Chat!Goes
<1> HIDE DEF moved
<1>4. QED BY <1>2, <1>3 DEF ChatInv

\* The new conversation is the only one that is open, and nothing in it is
\* unseen.
LEMMA InsertKeeps == ASSUME ChatInv, Chat!InsertConversation("r1") PROVE ChatInv'
<1>1. PICK c \in Chat!Convs : /\ status[c] = "none" /\ status' = [status EXCEPT ![c] = "open"]
                              /\ chat' = [chat EXCEPT !["r1"] = Chat!Idle] /\ UNCHANGED <<unread, badge>>
                              /\ chat["r1"].stage = "create"
  BY DEF Chat!InsertConversation, Chat!Ends, Chat!At
<1>2. /\ Chat!Idle \in [stage : Stages, conv : {0} \cup Chat!Convs, total : Int] /\ Chat!Idle.stage = "idle"
  BY DEF Chat!Idle, Stages
<1>3. /\ chat' \in [{"r1"} -> [stage : Stages, conv : {0} \cup Chat!Convs, total : Int]] /\ chat'["r1"].stage = "idle"
  BY <1>1, <1>2 DEF ChatInv
<1>4. \A d \in Chat!Convs : status[d] # "open"
  BY <1>1 DEF ChatInv
<1>5. /\ status' \in [Chat!Convs -> {"none", "open", "closed"}]
      /\ status'[c] = "open" /\ \A d \in Chat!Convs : d # c => status'[d] = status[d]
  BY <1>1 DEF ChatInv
<1>6. Total(Chat!Unseen', NumConvs) = Total(Chat!Unseen, NumConvs)
  <2>1. NumConvs \in Nat
    BY ServicesAssumption DEF Chat!Parameters
  <2>2. unread[c] = 0 /\ unread' = unread
    BY <1>1 DEF ChatInv
  <2>3. \A d \in 1..NumConvs : Chat!Unseen'[d] = Chat!Unseen[d]
    BY <1>1, <1>5, <2>2 DEF Chat!Unseen, Chat!Convs
  <2>4. QED BY <2>1, <2>3, TotalSame
<1>7. badge = Total(Chat!Unseen, NumConvs)
  BY <1>1 DEF ChatInv
<1>8. QED BY <1>1, <1>3, <1>4, <1>5, <1>6, <1>7 DEF ChatInv

\* A message of the user, or of an administrator.
LEMMA SaveMessageKeeps ==
  ASSUME ChatInv, NEW by \in {"user", "admin"}, Chat!SaveMessage("r1", by)
  PROVE  ChatInv'
<1>1. chat["r1"].stage = by /\ chat["r1"].conv \in Chat!Convs /\ status[chat["r1"].conv] = "open"
  BY DEF Chat!SaveMessage, Chat!At, ChatInv
<1>2. CASE by = "user"
  <2>1. /\ unread' = [unread EXCEPT ![chat["r1"].conv] = @ + 1] /\ Chat!Goes("r1", "touch and tell")
        /\ UNCHANGED <<status, badge>>
    BY <1>2 DEF Chat!SaveMessage
  <2>2. /\ chat' \in [{"r1"} -> [stage : Stages, conv : {0} \cup Chat!Convs, total : Int]]
        /\ chat'["r1"].stage = "touch and tell" /\ chat'["r1"].conv = chat["r1"].conv
    BY <2>1, ChatGoes DEF Stages
  <2>3. /\ unread' \in [Chat!Convs -> Nat]
        /\ \A c \in Chat!Convs : c # chat["r1"].conv => unread'[c] = unread[c]
    <3>1. unread \in [Chat!Convs -> Nat]
      BY DEF ChatInv
    <3>2. unread[chat["r1"].conv] + 1 \in Nat
      BY <1>1, <3>1
    <3>3. QED BY <2>1, <3>1, <3>2
  <2>4. QED BY <1>1, <2>1, <2>2, <2>3 DEF ChatInv
<1>3. CASE by = "admin"
  <2>1. Chat!Goes("r1", "touch") /\ UNCHANGED <<status, unread, badge>>
    BY <1>3 DEF Chat!SaveMessage
  <2>2. /\ chat' \in [{"r1"} -> [stage : Stages, conv : {0} \cup Chat!Convs, total : Int]]
        /\ chat'["r1"].stage = "touch" /\ chat'["r1"].conv = chat["r1"].conv
    BY <2>1, ChatGoes DEF Stages
  <2>3. Chat!Unseen' = Chat!Unseen
    BY <2>1 DEF Chat!Unseen
  <2>4. badge = Total(Chat!Unseen, NumConvs)
    BY <1>1, <1>3 DEF ChatInv
  <2>5. QED BY <1>1, <2>1, <2>2, <2>3, <2>4 DEF ChatInv
<1>4. QED BY <1>2, <1>3

\* The conversation was open when it was read, and still is.
LEMMA TouchKeeps == ASSUME ChatInv, Chat!Touch("r1") PROVE ChatInv'
<1>1. /\ chat["r1"].stage \in {"touch", "touch and tell"}
      /\ chat["r1"].conv \in Chat!Convs /\ status[chat["r1"].conv] = "open"
      /\ status' = [status EXCEPT ![chat["r1"].conv] = "open"] /\ UNCHANGED <<unread, badge>>
  BY DEF Chat!Touch, Chat!At, ChatInv
<1>2. status' = status
  BY <1>1 DEF ChatInv
<1>3. Chat!Unseen' = Chat!Unseen
  BY <1>1, <1>2 DEF Chat!Unseen
<1>4. CASE chat["r1"].stage = "touch"
  <2>1. chat' = [chat EXCEPT !["r1"] = Chat!Idle]
    BY <1>4 DEF Chat!Touch, Chat!At, Chat!Ends
  <2>2. /\ Chat!Idle \in [stage : Stages, conv : {0} \cup Chat!Convs, total : Int] /\ Chat!Idle.stage = "idle"
    BY DEF Chat!Idle, Stages
  <2>3. badge = Total(Chat!Unseen, NumConvs)
    BY <1>4 DEF ChatInv
  <2>4. QED BY <1>1, <1>2, <2>1, <2>2, <2>3, ChatMoves
<1>5. CASE chat["r1"].stage = "touch and tell"
  <2>1. Chat!Goes("r1", "sum")
    BY <1>5 DEF Chat!Touch, Chat!At
  <2>2. /\ chat' \in [{"r1"} -> [stage : Stages, conv : {0} \cup Chat!Convs, total : Int]] /\ chat'["r1"].stage = "sum"
    BY <2>1, ChatGoes DEF Stages
  <2>3. QED BY <1>1, <1>2, <2>2 DEF ChatInv
<1>6. QED BY <1>1, <1>4, <1>5

\* Closing and seeing leave something to be told.
LEMMA CloseKeeps == ASSUME ChatInv, Chat!SaveClosed("r1") \/ Chat!MarkConversationSeen("r1") PROVE ChatInv'
<1>1. chat["r1"].conv \in Chat!Convs /\ Chat!Goes("r1", "sum") /\ badge' = badge
  BY DEF Chat!SaveClosed, Chat!MarkConversationSeen, Chat!At, ChatInv
<1>2. /\ chat' \in [{"r1"} -> [stage : Stages, conv : {0} \cup Chat!Convs, total : Int]] /\ chat'["r1"].stage = "sum"
  BY <1>1, ChatGoes DEF Stages
<1>3. CASE Chat!SaveClosed("r1")
  <2>1. /\ status' = [status EXCEPT ![chat["r1"].conv] = "closed"] /\ UNCHANGED unread
        /\ status[chat["r1"].conv] = "open"
    BY <1>3 DEF Chat!SaveClosed, Chat!Closed, Chat!At, ChatInv
  <2>2. /\ status' \in [Chat!Convs -> {"none", "open", "closed"}]
        /\ \A c \in Chat!Convs : status'[c] = IF c = chat["r1"].conv THEN "closed" ELSE status[c]
    BY <2>1, <1>1 DEF ChatInv
  <2>3. QED BY <1>1, <1>2, <2>1, <2>2 DEF ChatInv
<1>4. CASE Chat!MarkConversationSeen("r1")
  <2>1. unread' = [unread EXCEPT ![chat["r1"].conv] = 0] /\ UNCHANGED status
    BY <1>4 DEF Chat!MarkConversationSeen
  <2>2. /\ unread' \in [Chat!Convs -> Nat]
        /\ \A c \in Chat!Convs : unread'[c] = IF c = chat["r1"].conv THEN 0 ELSE unread[c]
    BY <2>1, <1>1 DEF ChatInv
  <2>3. QED BY <1>1, <1>2, <2>1, <2>2 DEF ChatInv
<1>5. QED BY <1>3, <1>4

LEMMA TellKeeps == ASSUME ChatInv, Chat!SumUp("r1") \/ Chat!Tell("r1") PROVE ChatInv'
<1>1. /\ Chat!Total(Chat!Unseen, NumConvs) = Total(Chat!Unseen, NumConvs)
      /\ Total(Chat!Unseen, NumConvs) \in Int
  BY UnseenIs
<1>2. CASE Chat!SumUp("r1")
  <2> DEFINE moved == [chat["r1"] EXCEPT !.stage = "tell", !.total = Total(Chat!Unseen, NumConvs)]
  <2>1. chat' = [chat EXCEPT !["r1"] = moved] /\ UNCHANGED <<status, unread, badge>>
    <3>1. /\ chat' = [chat EXCEPT !["r1"].stage = "tell", !["r1"].total = Total(Chat!Unseen, NumConvs)]
          /\ UNCHANGED <<status, unread, badge>>
      BY <1>1, <1>2 DEF Chat!SumUp, Chat!Summary
    <3>2. chat \in [{"r1"} -> [stage : Stages, conv : {0} \cup Chat!Convs, total : Int]]
      BY DEF ChatInv
    <3>3. QED BY <3>1, <3>2
  <2>2. moved \in [stage : Stages, conv : {0} \cup Chat!Convs, total : Int]
    <3>1. chat["r1"] \in [stage : Stages, conv : {0} \cup Chat!Convs, total : Int]
      BY DEF ChatInv
    <3>2. QED BY <3>1, <1>1 DEF Stages
  <2>3. moved.stage = "tell" /\ moved.total = Total(Chat!Unseen, NumConvs)
    <3>1. chat["r1"] \in [stage : Stages, conv : {0} \cup Chat!Convs, total : Int]
      BY DEF ChatInv
    <3>2. QED BY <3>1
  <2> HIDE DEF moved
  <2>4. QED BY <2>1, <2>2, <2>3, ChatMoves
<1>3. CASE Chat!Tell("r1")
  <2>1. /\ chat["r1"].stage = "tell" /\ badge' = chat["r1"].total
        /\ chat' = [chat EXCEPT !["r1"] = Chat!Idle] /\ UNCHANGED <<status, unread>>
    BY <1>3 DEF Chat!Tell, Chat!Ends, Chat!At
  <2>2. badge' = Total(Chat!Unseen, NumConvs) /\ Chat!Unseen' = Chat!Unseen
    BY <2>1 DEF ChatInv, Chat!Unseen
  <2>3. /\ Chat!Idle \in [stage : Stages, conv : {0} \cup Chat!Convs, total : Int] /\ Chat!Idle.stage = "idle"
    BY DEF Chat!Idle, Stages
  <2>4. /\ chat' \in [{"r1"} -> [stage : Stages, conv : {0} \cup Chat!Convs, total : Int]] /\ chat'["r1"].stage = "idle"
    BY <2>1, <2>3 DEF ChatInv
  <2>5. QED BY <2>1, <2>2, <2>4 DEF ChatInv
<1>4. QED BY <1>2, <1>3

LEMMA ChatKeeps == ASSUME ChatInv, Chat!Next \/ UNCHANGED chats PROVE ChatInv'
<1>1. CASE Chat!CreateConversation("r1")
  BY <1>1, ChatBegins DEF Chat!CreateConversation, Stages
<1>2. ASSUME NEW c \in Chat!Convs, NEW by \in {"user", "admin"},
             Chat!SendMessage("r1", by, c) \/ Chat!Close("r1", c) \/ Chat!See("r1", c)
      PROVE  ChatInv'
  <2>1. CASE Chat!SendMessage("r1", by, c)
    BY <2>1, ChatBegins DEF Chat!SendMessage, Stages
  <2>2. CASE Chat!Close("r1", c)
    BY <2>2, ChatBegins DEF Chat!Close, Stages
  <2>3. CASE Chat!See("r1", c)
    BY <2>3, ChatBegins DEF Chat!See, Stages
  <2>4. QED BY <1>2, <2>1, <2>2, <2>3
<1>3. CASE Chat!InsertConversation("r1")
  BY <1>3, InsertKeeps
<1>4. ASSUME NEW by \in {"user", "admin"}, Chat!SaveMessage("r1", by) PROVE ChatInv'
  BY <1>4, SaveMessageKeeps
<1>5. CASE Chat!Touch("r1")
  BY <1>5, TouchKeeps
<1>6. CASE Chat!SaveClosed("r1") \/ Chat!MarkConversationSeen("r1")
  BY <1>6, CloseKeeps
<1>7. CASE Chat!SumUp("r1") \/ Chat!Tell("r1")
  BY <1>7, TellKeeps
<1>8. CASE UNCHANGED chats
  <2>1. Chat!Unseen' = Chat!Unseen
    BY <1>8 DEF Chat!Unseen, chats
  <2>2. QED BY <1>8, <2>1 DEF ChatInv, chats
<1>9. QED BY <1>1, <1>2, <1>3, <1>4, <1>5, <1>6, <1>7, <1>8 DEF Chat!Next

LEMMA BadgeHolds == ASSUME ChatInv PROVE BadgeIsRight
<1>1. Chat!Total(Chat!Unseen, NumConvs) = Total(Chat!Unseen, NumConvs)
  BY UnseenIs
<1>2. QED BY <1>1 DEF ChatInv, BadgeIsRight, Chat!BadgeIsRight, Chat!At


-----------------------------------------------------------------------------
(* RpcLimiter: what the list keeps of the last second is all the slots of  *)
(* the last second, although a sleep and a change of the limit lie between *)
(* looking at it and giving a slot.                                        *)

LimiterInv ==
  /\ given \in [Limiter!Ages -> Nat] /\ slots \in [Limiter!Ages -> Nat]
  /\ \A t \in Limiter!Ages : t < Second => given[t] = slots[t]
  /\ slots[Second] = 0
  /\ setting \in Nat /\ cached \in Nat /\ queue \in Seq([caller : Callers, limit : Nat])

LEMMA LimiterParameters == Second \in Nat \ {0} /\ Limits \subseteq Nat /\ Limiter!Ages = 0..Second
  BY ServicesAssumption DEF Limiter!Parameters, Limiter!Ages

LEMMA LimiterInit == ASSUME Limiter!Init PROVE LimiterInv
  BY LimiterParameters DEF Limiter!Init, Limiter!NoSlots, LimiterInv

\* The filtered list is the history of the last second.
LEMMA FilterIsSlots == ASSUME LimiterInv PROVE Limiter!Filter = slots
<1>1. /\ slots \in [Limiter!Ages -> Nat] /\ \A t \in Limiter!Ages : t < Second => given[t] = slots[t]
      /\ slots[Second] = 0
  BY DEF LimiterInv
<1>2. \A t \in Limiter!Ages : Limiter!Filter[t] = slots[t]
  BY <1>1, LimiterParameters DEF Limiter!Filter
<1>3. Limiter!Filter = [t \in Limiter!Ages |-> Limiter!Filter[t]]
  BY DEF Limiter!Filter
<1>4. slots = [t \in Limiter!Ages |-> slots[t]]
  BY <1>1
<1>5. QED BY <1>2, <1>3, <1>4

\* Another slot makes the list longer by one.
LEMMA OneLonger ==
  ASSUME NEW lot \in [Limiter!Ages -> Nat], NEW more, more = [lot EXCEPT ![0] = @ + 1]
  PROVE  Limiter!Length(lot) \in Int /\ Limiter!Length(more) = Limiter!Length(lot) + 1
<1> DEFINE f == [i \in 1..Second + 1 |-> lot[i - 1]]
           g == [i \in 1..Second + 1 |-> more[i - 1]]
<1>1. Second + 1 \in Nat /\ 1 \in 1..Second + 1 /\ 0 \in Limiter!Ages /\ \A i \in 1..Second + 1 : i - 1 \in Limiter!Ages
  BY LimiterParameters
<1>2. \A t \in Limiter!Ages : lot[t] \in Nat /\ more[t] = IF t = 0 THEN lot[t] + 1 ELSE lot[t]
  BY LimiterParameters
<1>3. \A i \in 1..Second + 1 : f[i] \in Int /\ g[i] \in Int /\ (i # 1 => g[i] = f[i])
  BY <1>1, <1>2
<1>4. g[1] = f[1] + 1 /\ f[1] \in Int
  BY <1>1, <1>2
<1>5. Limiter!Length(lot) = Total(f, Second + 1) /\ Limiter!Length(more) = Total(g, Second + 1)
  BY DEF Limiter!Length, Limiter!Total, Total
<1> HIDE DEF f, g
<1>6. Total(f, Second + 1) \in Int
  BY <1>1, <1>3, TotalInt
<1>7. Total(g, Second + 1) = Total(f, Second + 1) + g[1] - f[1]
  <2> DEFINE n == Second + 1
  <2>1. n \in Nat /\ 1 \in 1..n /\ \A i \in 1..n : f[i] \in Int /\ g[i] \in Int /\ (i # 1 => g[i] = f[i])
    BY <1>1, <1>3
  <2> HIDE DEF n
  <2>2. Total(g, n) = Total(f, n) + g[1] - f[1] BY ONLY <2>1, TotalChange
  <2>3. QED BY <2>2 DEF n
<1>8. QED BY <1>4, <1>5, <1>6, <1>7

LEMMA GiveSlotKeeps ==
  ASSUME LimiterInv, Limiter!GiveSlot
  PROVE  LimiterInv' /\ Limiter!Length(slots') <= Head(queue).limit
<1>1. /\ queue # <<>> /\ Limiter!Length(slots) < Head(queue).limit
      /\ given' = [slots EXCEPT ![0] = @ + 1] /\ slots' = [slots EXCEPT ![0] = @ + 1]
      /\ queue' = Tail(queue) /\ UNCHANGED <<setting, cached>>
  BY FilterIsSlots DEF Limiter!GiveSlot
<1>2. slots \in [Limiter!Ages -> Nat] /\ queue \in Seq([caller : Callers, limit : Nat])
  BY DEF LimiterInv
<1>3. Head(queue) \in [caller : Callers, limit : Nat] /\ queue' \in Seq([caller : Callers, limit : Nat])
  BY <1>1, <1>2, HeadTailProperties
<1>4. Limiter!Length(slots) \in Int /\ Limiter!Length(slots') = Limiter!Length(slots) + 1
  BY <1>1, <1>2, OneLonger
<1>5. Limiter!Length(slots') <= Head(queue).limit
  BY <1>1, <1>3, <1>4
<1>6. /\ slots' \in [Limiter!Ages -> Nat] /\ given' = slots' /\ slots'[Second] = 0
  BY <1>1, <1>2, LimiterParameters DEF LimiterInv
<1>7. QED BY <1>1, <1>3, <1>5, <1>6 DEF LimiterInv

LEMMA SleepKeeps == ASSUME LimiterInv, Limiter!Sleep PROVE LimiterInv' /\ queue' = queue
  BY FilterIsSlots DEF Limiter!Sleep, LimiterInv

\* A tick makes all slots older, in the list and in the history.
LEMMA TickKeeps == ASSUME LimiterInv, Limiter!Tick PROVE LimiterInv' /\ queue' = queue
<1> DEFINE Older(lot) == [t \in Limiter!Ages |-> IF t = 0 THEN 0 ELSE lot[t - 1]]
<1>1. /\ given' = [Older(given) EXCEPT ![Second] = @ + given[Second]]
      /\ slots' = [Older(slots) EXCEPT ![Second] = 0]
      /\ UNCHANGED <<setting, cached, queue>>
  BY DEF Limiter!Tick
<1>2. \A t \in Limiter!Ages : t = 0 \/ (t - 1 \in Limiter!Ages /\ t - 1 < Second)
  BY LimiterParameters
<1>3. given \in [Limiter!Ages -> Nat] /\ slots \in [Limiter!Ages -> Nat] /\ Second \in Limiter!Ages
  BY LimiterParameters DEF LimiterInv
<1>4. /\ Older(given) \in [Limiter!Ages -> Nat] /\ Older(slots) \in [Limiter!Ages -> Nat]
      /\ \A t \in Limiter!Ages : Older(given)[t] = Older(slots)[t]
  <2>1. \A t \in Limiter!Ages : t < Second => given[t] = slots[t]
    BY DEF LimiterInv
  <2>2. QED BY <1>2, <1>3, <2>1
<1> HIDE DEF Older
<1>5. Older(given)[Second] + given[Second] \in Nat
  BY <1>3, <1>4
<1>6. given' \in [Limiter!Ages -> Nat] /\ slots' \in [Limiter!Ages -> Nat] /\ slots'[Second] = 0
  BY <1>1, <1>3, <1>4, <1>5
<1>7. \A t \in Limiter!Ages : t # Second => given'[t] = slots'[t]
  BY <1>1, <1>4
<1>8. \A t \in Limiter!Ages : t < Second => t # Second
  BY LimiterParameters
<1>9. QED BY <1>1, <1>6, <1>7, <1>8 DEF LimiterInv

\* A call that asks keeps the limit it has read.
LEMMA AcquireSlotKeeps ==
  ASSUME LimiterInv, NEW c \in Callers, Limiter!Acquire(c)
  PROVE  LimiterInv' /\ Len(queue') = Len(queue) + 1
<1>1. Limiter!Limit \in Nat
  BY DEF Limiter!Limit, LimiterInv
<1>2. /\ queue' = Append(queue, [caller |-> c, limit |-> Limiter!Limit]) /\ cached' = Limiter!Limit
      /\ UNCHANGED <<setting, given, slots>>
  BY DEF Limiter!Acquire, Limiter!Refreshed
<1>3. queue \in Seq([caller : Callers, limit : Nat])
      /\ [caller |-> c, limit |-> Limiter!Limit] \in [caller : Callers, limit : Nat]
  BY <1>1 DEF LimiterInv
<1>4. queue' \in Seq([caller : Callers, limit : Nat]) /\ Len(queue') = Len(queue) + 1
  BY <1>2, <1>3
<1>5. QED BY <1>1, <1>2, <1>4 DEF LimiterInv

LEMMA LimiterKeeps ==
  ASSUME LimiterInv, Limiter!Next \/ UNCHANGED limiter
  PROVE  LimiterInv' /\ (Len(queue') < Len(queue) => Limiter!Length(slots') <= Head(queue).limit)
<1>1. Len(queue) \in Nat
  BY DEF LimiterInv
<1>2. ASSUME NEW c \in Callers, Limiter!Acquire(c)
      PROVE  LimiterInv' /\ ~(Len(queue') < Len(queue))
  BY <1>1, <1>2, AcquireSlotKeeps
<1>3. CASE Limiter!GiveSlot
  BY <1>3, GiveSlotKeeps
<1>4. CASE Limiter!Sleep
  BY <1>1, <1>4, SleepKeeps
<1>5. CASE Limiter!Tick
  BY <1>1, <1>5, TickKeeps
<1>6. ASSUME NEW l \in Limits, Limiter!SetLimit(l)
      PROVE  LimiterInv' /\ queue' = queue
  BY <1>6, LimiterParameters DEF Limiter!SetLimit, LimiterInv
<1>7. CASE UNCHANGED limiter
  BY <1>1, <1>7 DEF limiter, LimiterInv
<1>8. QED BY <1>1, <1>2, <1>3, <1>4, <1>5, <1>6, <1>7 DEF Limiter!Next

-----------------------------------------------------------------------------
(* Streams, while Redis answers: what a tab has heard is an unbroken piece *)
(* of the channel, that begins no later than where the tab was opened, and *)
(* nothing is published twice.                                             *)

TabType == [on : Instances \cup {"none"}, since : Nat, heard : Seq(Nat)]

\* The piece of the channel that a tab has heard, up to `upto`.
Piece(heard, since, made, upto) ==
  /\ Len(heard) <= upto /\ upto <= Len(made) /\ upto - Len(heard) <= since
  /\ \A j \in 1..Len(heard) : heard[j] = made[upto - Len(heard) + j]

StreamTypes ==
  /\ tab \in [Tabs -> TabType] /\ streams \in [Instances -> SUBSET Tabs]
  /\ ready \in [Instances -> BOOLEAN] /\ notes \in Nat /\ saving \subseteq Nat \X Instances
  /\ channel \in Seq(Nat) /\ heardTo \in [Instances -> Nat]
StreamInv ==
  /\ StreamTypes
  /\ \A i \in Instances : ready[i] /\ heardTo[i] <= Len(channel)
  /\ \A t \in Tabs : \A i \in Instances : t \in streams[i] <=> tab[t].on = i
  /\ \A t \in Tabs : \A i \in Instances : tab[t].on = i => Piece(tab[t].heard, tab[t].since, channel, heardTo[i])
  /\ \A k \in 1..Len(channel) : channel[k] <= notes
  /\ \A k, l \in 1..Len(channel) : channel[k] = channel[l] => k = l
  /\ \A s \in saving : s[1] <= notes /\ \A k \in 1..Len(channel) : channel[k] # s[1]
  /\ \A s, r \in saving : s[1] = r[1] => s = r

LEMMA StreamInit == ASSUME Stream!Init PROVE StreamInv
<1>0. "none" \notin Instances
  BY ServicesAssumption DEF Stream!Parameters
<1>1. /\ tab = [t \in Tabs |-> Stream!NoTab] /\ streams = [i \in Instances |-> {}]
      /\ ready = [i \in Instances |-> TRUE] /\ notes = 0 /\ saving = {} /\ channel = <<>>
      /\ heardTo = [i \in Instances |-> 0]
  BY DEF Stream!Init
<1>2. Stream!NoTab \in TabType /\ Stream!NoTab.on = "none"
  BY DEF Stream!NoTab, Stream!None, TabType
<1>3. StreamTypes
  BY <1>1, <1>2 DEF StreamTypes
<1>4. Len(channel) = 0 /\ 1..Len(channel) = {}
  BY <1>1
<1>5. \A t \in Tabs : tab[t].on = "none"
  BY <1>1, <1>2
<1>6. \A i \in Instances : ready[i] /\ heardTo[i] <= Len(channel)
  BY <1>1, <1>4
<1>7. \A t \in Tabs : \A i \in Instances : t \notin streams[i] /\ tab[t].on # i
  BY <1>0, <1>1, <1>5
<1>8. QED BY <1>1, <1>3, <1>4, <1>6, <1>7 DEF StreamInv

\* What the tabs' own steps change is the tabs and where they are sent to.
LEMMA TabMoves ==
  ASSUME StreamInv, NEW t \in Tabs, NEW there \in TabType, tab' = [tab EXCEPT ![t] = there],
         streams' \in [Instances -> SUBSET Tabs],
         UNCHANGED <<ready, notes, saving, channel, heardTo>>,
         \A i \in Instances : t \in streams'[i] <=> there.on = i,
         \A i \in Instances : \A u \in Tabs : u # t => (u \in streams'[i] <=> u \in streams[i]),
         \A i \in Instances : there.on = i => Piece(there.heard, there.since, channel, heardTo[i])
  PROVE  StreamInv'
<1>1. tab' \in [Tabs -> TabType] /\ tab'[t] = there /\ \A u \in Tabs : u # t => tab'[u] = tab[u]
  BY DEF StreamInv, StreamTypes
<1>2. StreamTypes'
  BY <1>1 DEF StreamInv, StreamTypes
<1>3. \A u \in Tabs : \A i \in Instances : u \in streams'[i] <=> tab'[u].on = i
  BY <1>1 DEF StreamInv
<1>4. \A u \in Tabs : \A i \in Instances :
        tab'[u].on = i => Piece(tab'[u].heard, tab'[u].since, channel, heardTo[i])
  BY <1>1 DEF StreamInv
<1>5. QED BY <1>2, <1>3, <1>4 DEF StreamInv

LEMMA TabsKeep ==
  ASSUME StreamInv, NEW t \in Tabs, Stream!Disconnect(t) \/ \E i \in Instances : Stream!Connect(i, t)
  PROVE  StreamInv'
<1>0. /\ streams \in [Instances -> SUBSET Tabs] /\ tab[t] \in TabType /\ channel \in Seq(Nat)
      /\ heardTo \in [Instances -> Nat] /\ Len(channel) \in Nat
  BY DEF StreamInv, StreamTypes
<1>1. ASSUME NEW i \in Instances, Stream!Connect(i, t)
      PROVE  StreamInv'
  <2> DEFINE there == [on |-> i, since |-> Len(channel), heard |-> <<>>]
  <2>1. /\ tab[t].on = "none" /\ tab' = [tab EXCEPT ![t] = there] /\ streams' = [streams EXCEPT ![i] = @ \cup {t}]
        /\ UNCHANGED <<ready, notes, saving, channel, heardTo>>
    BY <1>1 DEF Stream!Connect, Stream!Added, Stream!None, Stream!noteVars
  <2>2. there \in TabType /\ there.on = i /\ there.since = Len(channel) /\ there.heard = <<>>
    BY <1>0 DEF TabType
  <2> HIDE DEF there
  <2>3. Piece(there.heard, there.since, channel, heardTo[i])
    <3>1. heardTo[i] \in Nat /\ heardTo[i] <= Len(channel)
      BY <1>0 DEF StreamInv
    <3>2. Len(there.heard) = 0
      BY <2>2
    <3>3. QED BY <1>0, <2>2, <3>1, <3>2 DEF Piece
  <2>4. \A j \in Instances : t \notin streams[j]
    BY <2>1, ServicesAssumption DEF StreamInv, Stream!Parameters
  <2>5. \A j \in Instances : t \in streams'[j] <=> there.on = j
    BY <1>0, <2>1, <2>2, <2>4
  <2>6. /\ streams' \in [Instances -> SUBSET Tabs]
        /\ \A j \in Instances : \A u \in Tabs : u # t => (u \in streams'[j] <=> u \in streams[j])
    BY <1>0, <2>1
  <2>7. \A j \in Instances : there.on = j => Piece(there.heard, there.since, channel, heardTo[j])
    BY <2>2, <2>3
  <2>8. UNCHANGED <<ready, notes, saving, channel, heardTo>> /\ tab' = [tab EXCEPT ![t] = there]
    BY <2>1
  <2>9. QED BY ONLY StreamInv, t \in Tabs, <2>2, <2>5, <2>6, <2>7, <2>8, TabMoves, ZenonT(60)
<1>2. CASE Stream!Disconnect(t)
  <2> DEFINE i == tab[t].on
  <2>1. /\ i # "none" /\ streams' = [streams EXCEPT ![i] = @ \ {t}] /\ tab' = [tab EXCEPT ![t] = Stream!NoTab]
        /\ UNCHANGED <<ready, notes, saving, channel, heardTo>>
    BY <1>2 DEF Stream!Disconnect, Stream!Removed, Stream!None, Stream!noteVars
  <2>2. Stream!NoTab \in TabType /\ Stream!NoTab.on = "none"
    BY DEF Stream!NoTab, Stream!None, TabType
  <2>3. i \in Instances
    BY <1>0, <2>1 DEF TabType
  <2>4. "none" \notin Instances
    BY ServicesAssumption DEF Stream!Parameters
  <2>5. \A j \in Instances : t \notin streams'[j]
    BY <1>0, <2>1, <2>3 DEF StreamInv
  <2>6. /\ streams' \in [Instances -> SUBSET Tabs]
        /\ \A j \in Instances : \A u \in Tabs : u # t => (u \in streams'[j] <=> u \in streams[j])
    BY <1>0, <2>1, <2>3
  <2>7. \A j \in Instances : /\ t \in streams'[j] <=> Stream!NoTab.on = j
                             /\ Stream!NoTab.on = j => Piece(Stream!NoTab.heard, Stream!NoTab.since, channel, heardTo[j])
    BY <2>2, <2>4, <2>5
  <2>8. UNCHANGED <<ready, notes, saving, channel, heardTo>> /\ tab' = [tab EXCEPT ![t] = Stream!NoTab]
    BY <2>1
  <2>9. QED BY ONLY StreamInv, t \in Tabs, <2>2, <2>6, <2>7, <2>8, TabMoves
<1>3. QED BY <1>1, <1>2
LEMMA OneMore ==
  ASSUME NEW S, NEW s \in Seq(S), NEW e \in S, NEW t, t = Append(s, e)
  PROVE  /\ t \in Seq(S) /\ Len(t) = Len(s) + 1 /\ t[Len(s) + 1] = e
         /\ \A i \in 1..Len(s) : t[i] = s[i]
         /\ \A i \in 1..Len(t) : i = Len(s) + 1 \/ i \in 1..Len(s)
  OBVIOUS

\* Hearing one more makes the piece one longer.
LEMMA PieceGrows ==
  ASSUME NEW heard \in Seq(Nat), NEW since \in Nat, NEW made \in Seq(Nat), NEW upto \in Nat,
         Piece(heard, since, made, upto), upto < Len(made)
  PROVE  /\ Append(heard, made[upto + 1]) \in Seq(Nat)
         /\ Piece(Append(heard, made[upto + 1]), since, made, upto + 1)
<1>1. made[upto + 1] \in Nat /\ Len(heard) \in Nat /\ Len(made) \in Nat
  OBVIOUS
<1> DEFINE more == Append(heard, made[upto + 1])
<1>2. /\ more \in Seq(Nat) /\ Len(more) = Len(heard) + 1 /\ more[Len(heard) + 1] = made[upto + 1]
      /\ \A j \in 1..Len(heard) : more[j] = heard[j]
      /\ \A j \in 1..Len(more) : j = Len(heard) + 1 \/ j \in 1..Len(heard)
  BY <1>1, OneMore
<1> HIDE DEF more
<1>3. ASSUME NEW j \in 1..Len(more)
      PROVE  more[j] = made[(upto + 1) - Len(more) + j]
  <2>1. CASE j = Len(heard) + 1
    BY <1>1, <1>2, <2>1
  <2>2. CASE j \in 1..Len(heard)
    <3>1. more[j] = made[upto - Len(heard) + j]
      BY <1>2, <2>2 DEF Piece
    <3>2. upto - Len(heard) + j = (upto + 1) - Len(more) + j
      BY <1>1, <1>2, <2>2
    <3>3. QED BY <3>1, <3>2
  <2>3. QED BY <1>2, <2>1, <2>2
<1>4. Len(more) <= upto + 1 /\ upto + 1 <= Len(made) /\ (upto + 1) - Len(more) <= since
  BY <1>1, <1>2 DEF Piece
<1>5. Piece(more, since, made, upto + 1)
  BY <1>3, <1>4 DEF Piece
<1>6. QED BY <1>2, <1>5 DEF more

LEMMA HearKeeps ==
  ASSUME StreamInv, NEW i \in Instances, Stream!Hear(i)
  PROVE  StreamInv'
<1>0. /\ streams \in [Instances -> SUBSET Tabs] /\ tab \in [Tabs -> TabType] /\ channel \in Seq(Nat)
      /\ heardTo \in [Instances -> Nat] /\ Len(channel) \in Nat
  BY DEF StreamInv, StreamTypes
<1>1. /\ heardTo[i] < Len(channel) /\ heardTo' = [heardTo EXCEPT ![i] = @ + 1]
      /\ tab' = [t \in Tabs |-> IF t \in streams[i]
                                THEN [tab[t] EXCEPT !.heard = Append(@, channel[heardTo[i] + 1])] ELSE tab[t]]
      /\ UNCHANGED <<streams, ready, notes, saving, channel>>
  BY DEF Stream!Hear, Stream!redis
<1>2. /\ heardTo' \in [Instances -> Nat] /\ heardTo'[i] = heardTo[i] + 1 /\ heardTo[i] \in Nat
      /\ \A j \in Instances : j # i => heardTo'[j] = heardTo[j]
  BY <1>0, <1>1
<1>3. ASSUME NEW t \in Tabs
      PROVE  /\ tab'[t] \in TabType /\ tab'[t].on = tab[t].on
             /\ \A j \in Instances : tab'[t].on = j => Piece(tab'[t].heard, tab'[t].since, channel, heardTo'[j])
  <2>1. tab[t] \in TabType
    BY <1>0
  <2>2. CASE t \in streams[i]
    <3>1. tab[t].on = i /\ Piece(tab[t].heard, tab[t].since, channel, heardTo[i])
      BY <2>2 DEF StreamInv
    <3>2. tab[t].heard \in Seq(Nat) /\ tab[t].since \in Nat
      BY <2>1 DEF TabType
    <3> DEFINE more == Append(tab[t].heard, channel[heardTo[i] + 1])
    <3>3. more \in Seq(Nat) /\ Piece(more, tab[t].since, channel, heardTo[i] + 1)
      BY <1>0, <1>1, <1>2, <3>1, <3>2, PieceGrows
    <3>4. tab'[t] = [tab[t] EXCEPT !.heard = more]
      BY <1>1, <2>2
    <3> HIDE DEF more
    <3>5. tab'[t] \in TabType /\ tab'[t].on = tab[t].on /\ tab'[t].heard = more /\ tab'[t].since = tab[t].since
      BY <2>1, <3>3, <3>4 DEF TabType
    <3>6. QED BY <1>2, <3>1, <3>3, <3>5
  <2>3. CASE t \notin streams[i]
    <3>1. tab'[t] = tab[t] /\ tab[t].on # i
      BY <1>1, <2>3 DEF StreamInv
    <3>2. QED BY <1>2, <2>1, <3>1 DEF StreamInv
  <2>4. QED BY <2>2, <2>3
<1>4. tab' \in [Tabs -> TabType]
  BY <1>1, <1>3
<1>5. StreamTypes'
  BY <1>1, <1>2, <1>4 DEF StreamInv, StreamTypes
<1>6. \A j \in Instances : ready'[j] /\ heardTo'[j] <= Len(channel')
  BY <1>0, <1>1, <1>2 DEF StreamInv
<1>7. \A t \in Tabs : \A j \in Instances : t \in streams'[j] <=> tab'[t].on = j
  BY <1>1, <1>3 DEF StreamInv
<1>8. \A t \in Tabs : \A j \in Instances :
        tab'[t].on = j => Piece(tab'[t].heard, tab'[t].since, channel', heardTo'[j])
  BY <1>1, <1>3
<1>9. QED BY <1>1, <1>5, <1>6, <1>7, <1>8 DEF StreamInv

\* A notification that is published was not before.
LEMMA NoteKeeps ==
  ASSUME StreamInv, NEW i \in Instances, Stream!Save(i) \/ \E n \in 1..MaxNotes : Stream!Publish(n, i)
  PROVE  StreamInv'
<1>0. /\ channel \in Seq(Nat) /\ Len(channel) \in Nat /\ notes \in Nat /\ saving \subseteq Nat \X Instances
      /\ \A k \in 1..Len(channel) : channel[k] \in Nat
      /\ tab \in [Tabs -> TabType] /\ heardTo \in [Instances -> Nat]
  BY DEF StreamInv, StreamTypes
<1>1. CASE Stream!Save(i)
  <2>1. /\ notes' = notes + 1 /\ saving' = saving \cup {<<notes + 1, i>>}
        /\ UNCHANGED <<tab, streams, ready, channel, heardTo>>
    BY <1>1 DEF Stream!Save, Stream!redis
  <2>2. StreamTypes'
    BY <1>0, <2>1 DEF StreamInv, StreamTypes
  <2>3. \A k \in 1..Len(channel) : channel[k] <= notes' /\ channel[k] # notes + 1
    BY <1>0, <2>1 DEF StreamInv
  <2>4. \A s \in saving' : s = <<notes + 1, i>> \/ (s \in saving /\ s[1] <= notes /\ s[1] \in Nat)
    BY <1>0, <2>1 DEF StreamInv
  <2>5. \A s \in saving' : s[1] <= notes' /\ \A k \in 1..Len(channel) : channel[k] # s[1]
    BY <1>0, <2>1, <2>3, <2>4 DEF StreamInv
  <2>6. ASSUME NEW s \in saving', NEW r \in saving', s[1] = r[1]
        PROVE  s = r
    <3>1. <<notes + 1, i>>[1] = notes + 1
      OBVIOUS
    <3>2. CASE s \in saving /\ s[1] <= notes /\ s[1] \in Nat
      <4>1. r # <<notes + 1, i>>
        BY <1>0, <2>6, <3>1, <3>2
      <4>2. QED BY <2>4, <2>6, <3>2, <4>1 DEF StreamInv
    <3>3. CASE s = <<notes + 1, i>>
      <4>1. ~(r[1] <= notes)
        BY <1>0, <2>6, <3>1, <3>3
      <4>2. QED BY <2>4, <3>3, <4>1
    <3>4. QED BY <2>4, <3>2, <3>3
  <2>7. QED BY <2>1, <2>2, <2>3, <2>5, <2>6 DEF StreamInv
<1>2. ASSUME NEW n \in 1..MaxNotes, Stream!Publish(n, i)
      PROVE  StreamInv'
  <2>1. /\ <<n, i>> \in saving /\ saving' = saving \ {<<n, i>>} /\ channel' = Append(channel, n)
        /\ UNCHANGED <<tab, streams, ready, notes, heardTo>>
    BY <1>2 DEF Stream!Publish, Stream!redis, StreamInv
  <2>2. n \in Nat /\ n <= notes /\ \A k \in 1..Len(channel) : channel[k] # n
    BY <1>0, <2>1 DEF StreamInv
  <2>3. /\ channel' \in Seq(Nat) /\ Len(channel') = Len(channel) + 1 /\ channel'[Len(channel) + 1] = n
        /\ \A k \in 1..Len(channel) : channel'[k] = channel[k]
        /\ \A k \in 1..Len(channel') : k = Len(channel) + 1 \/ k \in 1..Len(channel)
    BY ONLY <1>0, <2>1, <2>2, OneMore
  <2>4. StreamTypes'
    BY <2>1, <2>3 DEF StreamInv, StreamTypes
  <2>5. \A s \in saving' : s \in saving /\ s[1] # n
    BY <2>1 DEF StreamInv
  <2>6. \A j \in Instances : ready'[j] /\ heardTo'[j] <= Len(channel')
    BY <1>0, <2>1, <2>3 DEF StreamInv
  <2>7. ASSUME NEW t \in Tabs, NEW j \in Instances, tab[t].on = j
        PROVE  Piece(tab[t].heard, tab[t].since, channel', heardTo[j])
    <3>1. Piece(tab[t].heard, tab[t].since, channel, heardTo[j])
      BY <2>7 DEF StreamInv
    <3>2. heardTo[j] \in Nat /\ Len(tab[t].heard) \in Nat /\ tab[t].since \in Nat
      BY <1>0 DEF TabType
    <3>3. \A k \in 1..Len(tab[t].heard) : heardTo[j] - Len(tab[t].heard) + k \in 1..Len(channel)
      BY <1>0, <3>1, <3>2, SMTT(30) DEF Piece
    <3>4. \A k \in 1..Len(tab[t].heard) :
            tab[t].heard[k] = channel[heardTo[j] - Len(tab[t].heard) + k]
      BY <3>1 DEF Piece
    <3>5. \A k \in 1..Len(tab[t].heard) :
            tab[t].heard[k] = channel'[heardTo[j] - Len(tab[t].heard) + k]
      BY <2>3, <3>3, <3>4
    <3>6. heardTo[j] <= Len(channel')
      BY <1>0, <2>3, <3>1, <3>2 DEF Piece
    <3>7. QED BY <3>1, <3>5, <3>6 DEF Piece
  <2>8. \A k, l \in 1..Len(channel') : channel'[k] = channel'[l] => k = l
    BY <2>2, <2>3 DEF StreamInv
  <2>9. \A k \in 1..Len(channel') : channel'[k] <= notes'
    BY <2>1, <2>2, <2>3 DEF StreamInv
  <2>10. \A s \in saving' : s[1] <= notes' /\ \A k \in 1..Len(channel') : channel'[k] # s[1]
    BY <2>1, <2>3, <2>5 DEF StreamInv
  <2>11. \A s, r \in saving' : s[1] = r[1] => s = r
    BY <2>5 DEF StreamInv
  <2>12. QED BY <2>1, <2>4, <2>6, <2>7, <2>8, <2>9, <2>10, <2>11 DEF StreamInv
<1>3. QED BY <1>1, <1>2

LEMMA StreamKeeps == ASSUME StreamInv, Stream!Next \/ UNCHANGED tabs PROVE StreamInv'
<1>1. CASE UNCHANGED tabs
  BY <1>1 DEF tabs, StreamInv, StreamTypes
<1>2. ASSUME NEW i \in Instances, Stream!Execute(i)
      PROVE  StreamInv'
  <2>1. UNCHANGED <<tab, streams, ready, notes, saving, channel, heardTo>>
    BY <1>2 DEF Stream!Execute, Stream!noteVars
  <2>2. QED BY <2>1 DEF StreamInv, StreamTypes
<1>3. \A i \in Instances : ~Stream!RedisError(i) /\ ~Stream!Unheard(i) /\ ~Stream!Restart(i)
  BY DEF Stream!RedisError, Stream!Unheard, Stream!Restart, StreamInv
<1>4. ASSUME Stream!Next
      PROVE  \/ \E i \in Instances : Stream!Execute(i) \/ Stream!Hear(i) \/ Stream!Save(i)
                                     \/ \E n \in 1..MaxNotes : Stream!Publish(n, i)
             \/ \E t \in Tabs : Stream!Disconnect(t) \/ \E i \in Instances : Stream!Connect(i, t)
  BY <1>3, <1>4 DEF Stream!Next
<1>5. QED BY <1>1, <1>2, <1>4, HearKeeps, NoteKeeps, TabsKeep

\* What was published since the tab was opened has one place in what it heard.
LEMMA OneHearing == ASSUME StreamInv PROVE Stream!HeardOnce
<1>1. SUFFICES ASSUME NEW t \in Tabs, NEW i \in Instances, tab[t].on = i, heardTo[i] = Len(channel),
                      NEW k \in tab[t].since + 1..Len(channel)
               PROVE  Stream!Times(t, channel[k]) = 1
  BY DEF Stream!HeardOnce
<1> DEFINE heard == tab[t].heard
           place == k - (Len(channel) - Len(heard))
<1>2. Len(channel) \in Nat /\ heard \in Seq(Nat) /\ Len(heard) \in Nat /\ tab[t].since \in Nat
      /\ DOMAIN heard = 1..Len(heard)
  BY DEF StreamInv, StreamTypes, TabType
<1>3. Piece(heard, tab[t].since, channel, Len(channel))
  BY <1>1 DEF StreamInv
<1> HIDE DEF heard
<1>4. k \in 1..Len(channel) /\ place \in 1..Len(heard) /\ Len(channel) - Len(heard) + place = k
  BY <1>1, <1>2, <1>3 DEF Piece
<1>5. ASSUME NEW j \in 1..Len(heard), heard[j] = channel[k]
      PROVE  j = place
  <2>1. heard[j] = channel[Len(channel) - Len(heard) + j] /\ Len(channel) - Len(heard) + j \in 1..Len(channel)
    BY <1>2, <1>3 DEF Piece
  <2>2. Len(channel) - Len(heard) + j = k
    BY <1>4, <1>5, <2>1 DEF StreamInv
  <2>3. QED BY <1>2, <1>4, <2>2
<1>6. heard[place] = channel[k]
  BY <1>3, <1>4 DEF Piece
<1>7. {j \in DOMAIN heard : heard[j] = channel[k]} = {place}
  BY <1>2, <1>4, <1>5, <1>6
<1>8. Cardinality({place}) = 1
  BY FS_Singleton
<1>9. Stream!Times(t, channel[k]) = Cardinality({j \in DOMAIN heard : heard[j] = channel[k]})
  BY DEF Stream!Times, heard, Stream!Cardinality, Cardinality, Stream!IsFiniteSet, IsFiniteSet
<1>10. QED BY ONLY <1>7, <1>8, <1>9

-----------------------------------------------------------------------------
(* Accounts: a code that is made finds no valid one of its kind, and what  *)
(* lets a code be accepted again is only a crash before it is marked.      *)

SomeCode == [kind : SignIn!Kinds, left : Nat, alive : BOOLEAN, uses : Nat, cut : Nat]
SomeUser == [exists : BOOLEAN, active : BOOLEAN, blocked : BOOLEAN]
SignInStages ==
  {"idle", "insert", "insert only", "issue", "accept", "spend", "look at wallets", "create wallets", "let through"}
SomeRequest == [stage : SignInStages, kind : SignIn!Kinds, code : Nat, had : Nat]

\* A code that may be accepted again was not accepted yet, or only by calls
\* that died; an address that was verified stays so.
UsedOnce(code, active, spending) ==
  /\ code.kind = "active-email" => code.uses <= 1 /\ (code.uses # 0 => active)
  /\ code.kind = "reset-password" => code.uses <= code.cut + (IF spending \/ ~code.alive THEN 1 ELSE 0)
  /\ code.kind \in {"internal-exchange", "bank-mutation"} => code.uses <= 1 /\ (code.alive => code.uses = 0)
IsValid(code) == code.alive /\ code.left > 0
Spends(q, i) == q.stage = "spend" /\ q.code = i

\* What a request has read is still so.
HoldsTrue(q, made, created) ==
  /\ q.stage \in {"insert", "insert only"} => \A i \in 1..Len(made) : made[i].kind = q.kind => ~IsValid(made[i])
  /\ q.stage \in {"accept", "spend", "let through"} => q.code \in 1..Len(made) /\ made[q.code].kind = q.kind
  /\ q.stage = "accept" => /\ q.kind \in {"active-email", "reset-password"} /\ made[q.code].alive
                           /\ q.kind = "active-email" => made[q.code].uses = 0
  /\ q.stage = "let through" => q.kind \in {"internal-exchange", "bank-mutation"} /\ made[q.code].alive
  /\ q.stage = "create wallets" => q.had = created

\* Before the newest of its kind, no code is valid.
NewestOnly(made) == \A i, j \in 1..Len(made) : i < j /\ made[i].kind = made[j].kind => ~IsValid(made[i])

AccountTypes ==
  /\ user \in SomeUser /\ wallets \in {0, 1} /\ codes \in Seq(SomeCode)
  /\ session \in [{"r1"} -> SomeRequest] /\ access \in Nat
AccountInv ==
  /\ AccountTypes
  /\ user.exists \/ (codes = <<>> /\ access = 0 /\ session["r1"].stage = "idle")
  /\ \A i \in 1..Len(codes) : UsedOnce(codes[i], user.active, Spends(session["r1"], i))
  /\ NewestOnly(codes) /\ HoldsTrue(session["r1"], codes, wallets)

LEMMA AccountInit == ASSUME SignIn!Init PROVE AccountInv
<1>1. /\ user \in SomeUser /\ user = [exists |-> FALSE, active |-> FALSE, blocked |-> FALSE]
      /\ wallets = 0 /\ codes = <<>> /\ access = 0 /\ session = [r \in {"r1"} |-> SignIn!Idle]
  BY DEF SignIn!Init, SomeUser
<1>2. SignIn!Idle \in SomeRequest /\ SignIn!Idle.stage = "idle"
  BY DEF SignIn!Idle, SomeRequest, SignInStages, SignIn!Kinds
<1>3. session \in [{"r1"} -> SomeRequest] /\ session["r1"].stage = "idle"
  BY <1>1, <1>2
<1>4. codes \in Seq(SomeCode) /\ 1..Len(codes) = {}
  BY <1>1
<1>5. AccountTypes
  BY <1>1, <1>3, <1>4 DEF AccountTypes
<1>6. NewestOnly(codes) /\ HoldsTrue(session["r1"], codes, wallets)
  BY <1>3, <1>4 DEF NewestOnly, HoldsTrue
<1>7. QED BY <1>1, <1>3, <1>4, <1>5, <1>6 DEF AccountInv

\* A step that makes no code, and none valid again.
LEMMA AccountMoves ==
  ASSUME AccountInv, user' \in SomeUser, user'.exists, user.active => user'.active,
         wallets' \in {0, 1}, access' \in Nat, session' \in [{"r1"} -> SomeRequest],
         codes' \in Seq(SomeCode), Len(codes') = Len(codes),
         \A i \in 1..Len(codes) : /\ codes'[i].kind = codes[i].kind /\ (IsValid(codes'[i]) => IsValid(codes[i]))
                                  /\ UsedOnce(codes'[i], user'.active, Spends(session'["r1"], i)),
         HoldsTrue(session'["r1"], codes', wallets')
  PROVE  AccountInv'
<1>1. AccountTypes'
  BY DEF AccountTypes
<1>2. NewestOnly(codes')
  BY DEF AccountInv, NewestOnly
<1>3. QED BY <1>1, <1>2 DEF AccountInv

\* What is known of the codes and the request.
LEMMA AccountFacts ==
  ASSUME AccountInv
  PROVE  /\ user \in SomeUser /\ codes \in Seq(SomeCode) /\ session["r1"] \in SomeRequest
         /\ Len(codes) \in Nat /\ DOMAIN codes = 1..Len(codes)
         /\ \A i \in 1..Len(codes) : codes[i] \in SomeCode
  BY DEF AccountInv, AccountTypes

\* A step of the request that leaves the codes alone.
LEMMA RequestMoves ==
  ASSUME AccountInv, user' \in SomeUser, user'.exists, user.active => user'.active,
         wallets' \in {0, 1}, access' \in Nat, UNCHANGED codes,
         NEW moved \in SomeRequest, session' = [session EXCEPT !["r1"] = moved],
         session["r1"].stage # "spend", HoldsTrue(moved, codes, wallets'), moved.stage # "spend"
  PROVE  AccountInv'
<1>1. session' \in [{"r1"} -> SomeRequest] /\ session'["r1"] = moved
  BY DEF AccountInv, AccountTypes
<1>2. \A i \in 1..Len(codes) : UsedOnce(codes[i], user'.active, Spends(moved, i))
  <2>1. \A i \in 1..Len(codes) : UsedOnce(codes[i], user.active, Spends(session["r1"], i))
    BY DEF AccountInv
  <2>2. QED BY <2>1 DEF UsedOnce, Spends
<1>3. QED BY <1>1, <1>2, AccountFacts, AccountMoves
\* A sequence of the same length.
LEMMA SameLength ==
  ASSUME NEW S, NEW s \in Seq(S), NEW t, t = [i \in 1..Len(s) |-> t[i]], \A i \in 1..Len(s) : t[i] \in S
  PROVE  t \in Seq(S) /\ Len(t) = Len(s) /\ DOMAIN t = 1..Len(s)
<1>1. Len(s) \in Nat
  OBVIOUS
<1>2. t \in [1..Len(s) -> S]
  OBVIOUS
<1>3. QED BY <1>1, <1>2

\* A step that changes one code, and the request.
LEMMA OneCodeMoves ==
  ASSUME AccountInv, user' \in SomeUser, user'.exists, user.active => user'.active, UNCHANGED <<wallets, access>>,
         NEW i \in 1..Len(codes), NEW code \in SomeCode, codes' = [codes EXCEPT ![i] = code],
         code.kind = codes[i].kind, IsValid(code) => IsValid(codes[i]),
         NEW moved \in SomeRequest, session' = [session EXCEPT !["r1"] = moved],
         Spends(session["r1"], i) \/ session["r1"].stage # "spend", Spends(moved, i) \/ moved.stage # "spend",
         UsedOnce(code, user'.active, Spends(moved, i)),
         moved.stage \in {"idle", "spend", "look at wallets"},
         moved.stage = "spend" => moved.code = i /\ moved.kind = code.kind
  PROVE  AccountInv'
<1>1. session' \in [{"r1"} -> SomeRequest] /\ session'["r1"] = moved
  BY DEF AccountInv, AccountTypes
<1>2. codes' = [j \in 1..Len(codes) |-> codes'[j]] /\ codes'[i] = code
      /\ \A j \in 1..Len(codes) : j # i => codes'[j] = codes[j]
  BY AccountFacts
<1>3. \A j \in 1..Len(codes) : codes'[j] \in SomeCode
  BY <1>2, AccountFacts
<1>4. codes' \in Seq(SomeCode) /\ Len(codes') = Len(codes)
  BY ONLY <1>2, <1>3, AccountFacts, SameLength, AccountInv
<1>5. ASSUME NEW j \in 1..Len(codes)
      PROVE  /\ codes'[j].kind = codes[j].kind /\ (IsValid(codes'[j]) => IsValid(codes[j]))
             /\ UsedOnce(codes'[j], user'.active, Spends(moved, j))
  <2>1. CASE j = i
    BY <1>2, <2>1
  <2>2. CASE j # i
    <3>1. UsedOnce(codes[j], user.active, Spends(session["r1"], j))
      BY DEF AccountInv
    <3>2. ~Spends(session["r1"], j) /\ ~Spends(moved, j)
      <4>1. session["r1"].stage = "spend" => session["r1"].code = i
        BY DEF Spends
      <4>2. moved.stage = "spend" => moved.code = i
        BY DEF Spends
      <4>3. QED BY ONLY <4>1, <4>2, <2>2 DEF Spends
    <3>3. UsedOnce(codes[j], user'.active, FALSE)
      BY <3>1, <3>2 DEF UsedOnce
    <3>4. Spends(moved, j) = FALSE
      BY <3>2 DEF Spends
    <3>5. QED BY <1>2, <2>2, <3>3, <3>4
  <2>3. QED BY <2>1, <2>2
<1>6. HoldsTrue(moved, codes', wallets')
  BY <1>2, <1>4 DEF HoldsTrue
<1>7. wallets' \in {0, 1} /\ access' \in Nat
  BY DEF AccountInv, AccountTypes
<1>8. QED BY <1>1, <1>4, <1>5, <1>6, <1>7, AccountMoves

\* A person who exists, and requests that begin: no valid code of the kind.
LEMMA NoneIsValid ==
  ASSUME AccountInv, NEW kind \in SignIn!Kinds, SignIn!NoneValid(kind)
  PROVE  \A i \in 1..Len(codes) : codes[i].kind = kind => ~IsValid(codes[i])
<1>1. SUFFICES ASSUME NEW c \in 1..Len(codes), codes[c].kind = kind, IsValid(codes[c])
               PROVE  FALSE
  OBVIOUS
<1>2. c \in SignIn!Alive(kind) /\ SignIn!Valid(c)
  BY <1>1, AccountFacts DEF SignIn!Alive, SignIn!Valid, IsValid
<1>3. \A d \in SignIn!Alive(kind) : d <= c
  <2>1. SUFFICES ASSUME NEW d \in SignIn!Alive(kind), ~(d <= c)
                 PROVE  FALSE
    OBVIOUS
  <2>2. d \in 1..Len(codes) /\ codes[d].kind = kind
    BY AccountFacts DEF SignIn!Alive
  <2>3. c < d
    BY <2>1, <2>2, AccountFacts
  <2>4. QED BY <1>1, <2>2, <2>3 DEF AccountInv, NewestOnly
<1>4. QED BY <1>2, <1>3 DEF SignIn!NoneValid

LEMMA Begun ==
  ASSUME AccountInv, NEW stage \in SignInStages, NEW kind \in SignIn!Kinds, NEW c \in Nat,
         SignIn!Begins("r1", stage, kind, c)
  PROVE  /\ [stage |-> stage, kind |-> kind, code |-> c, had |-> 0] \in SomeRequest
         /\ session["r1"].stage = "idle"
         /\ session' = [session EXCEPT !["r1"] = [stage |-> stage, kind |-> kind, code |-> c, had |-> 0]]
<1> DEFINE begun == [stage |-> stage, kind |-> kind, code |-> c, had |-> 0]
<1>1. begun \in SomeRequest
  BY DEF SomeRequest
<1>2. [SignIn!Idle EXCEPT !.stage = stage, !.kind = kind, !.code = c] = begun
  <2>1. [SignIn!Idle EXCEPT !.stage = stage] = [stage |-> stage, kind |-> "active-email", code |-> 0, had |-> 0]
    BY DEF SignIn!Idle
  <2>2. [[stage |-> stage, kind |-> "active-email", code |-> 0, had |-> 0] EXCEPT !.kind = kind]
          = [stage |-> stage, kind |-> kind, code |-> 0, had |-> 0]
    OBVIOUS
  <2>3. [[stage |-> stage, kind |-> kind, code |-> 0, had |-> 0] EXCEPT !.code = c] = begun
    OBVIOUS
  <2>4. QED BY <2>1, <2>2, <2>3
<1>3. QED BY <1>1, <1>2 DEF SignIn!Begins, SignIn!At

\* A new code: there is no valid one of its kind.
LEMMA CodeIsAdded ==
  ASSUME AccountInv, NEW code \in SomeCode, user.exists, UNCHANGED <<user, wallets, access>>,
         session["r1"].stage \in {"insert", "insert only"}, code.kind = session["r1"].kind,
         code.uses = 0, codes' = Append(codes, code),
         NEW moved \in SomeRequest, session' = [session EXCEPT !["r1"] = moved], moved.stage \in {"idle", "issue"}
  PROVE  AccountInv'
<1>1. session' \in [{"r1"} -> SomeRequest] /\ session'["r1"] = moved
  BY DEF AccountInv, AccountTypes
<1>2. /\ codes' \in Seq(SomeCode) /\ Len(codes') = Len(codes) + 1 /\ codes'[Len(codes) + 1] = code
      /\ \A i \in 1..Len(codes) : codes'[i] = codes[i]
      /\ \A i \in 1..Len(codes') : i = Len(codes) + 1 \/ i \in 1..Len(codes)
  <2>1. codes \in Seq(SomeCode)
    BY AccountFacts
  <2>2. QED BY ONLY <2>1, OneMore, codes' = Append(codes, code), code \in SomeCode
<1>3. AccountTypes'
  BY <1>1, <1>2 DEF AccountInv, AccountTypes
<1>4. \A i \in 1..Len(codes) : codes[i].kind = code.kind => ~IsValid(codes[i])
  BY DEF AccountInv, HoldsTrue
<1>5. NewestOnly(codes')
  <2>1. SUFFICES ASSUME NEW i \in 1..Len(codes'), NEW j \in 1..Len(codes'), i < j, codes'[i].kind = codes'[j].kind
                 PROVE  ~IsValid(codes'[i])
    BY DEF NewestOnly
  <2>2. i \in 1..Len(codes) /\ codes'[i] = codes[i]
    <3>1. i < Len(codes) + 1
      BY ONLY <1>2, <2>1, AccountFacts, AccountInv
    <3>2. QED BY ONLY <1>2, <3>1, AccountFacts, AccountInv, i \in 1..Len(codes')
  <2>3. CASE j = Len(codes) + 1
    BY <1>2, <1>4, <2>1, <2>2, <2>3
  <2>4. CASE j # Len(codes) + 1
    <3>1. j \in 1..Len(codes)
      BY <1>2, <2>4
    <3>2. codes'[j] = codes[j]
      BY <1>2, <3>1
    <3>3. QED BY <2>1, <2>2, <3>1, <3>2 DEF AccountInv, NewestOnly
  <2>5. QED BY <2>3, <2>4
<1>6. \A i \in 1..Len(codes') : UsedOnce(codes'[i], user'.active, Spends(moved, i))
  <2>1. SUFFICES ASSUME NEW i \in 1..Len(codes')
                 PROVE  UsedOnce(codes'[i], user.active, Spends(moved, i))
    OBVIOUS
  <2>2. Spends(moved, i) = FALSE
    BY DEF Spends
  <2>3. CASE i = Len(codes) + 1
    <3>1. UsedOnce(code, user.active, FALSE)
      BY ONLY code \in SomeCode, code.uses = 0 DEF UsedOnce, SomeCode
    <3>2. QED BY <1>2, <2>2, <2>3, <3>1
  <2>4. CASE i # Len(codes) + 1
    <3>1. i \in 1..Len(codes)
      BY <1>2, <2>4
    <3>2. codes'[i] = codes[i]
      BY <1>2, <3>1
    <3>3. UsedOnce(codes[i], user.active, Spends(session["r1"], i))
      BY <3>1 DEF AccountInv
    <3>4. Spends(session["r1"], i) = FALSE
      BY DEF Spends
    <3>5. QED BY <2>2, <3>2, <3>3, <3>4
  <2>5. QED BY <2>3, <2>4
<1>7. HoldsTrue(moved, codes', wallets')
  BY DEF HoldsTrue
<1>8. QED BY <1>1, <1>3, <1>5, <1>6, <1>7 DEF AccountInv

LEMMA Gone ==
  ASSUME AccountInv, NEW stage \in SignInStages, SignIn!Goes("r1", stage)
  PROVE  \E moved \in SomeRequest :
           /\ moved.stage = stage /\ moved.kind = session["r1"].kind /\ moved.code = session["r1"].code
           /\ session' = [session EXCEPT !["r1"] = moved]
<1> DEFINE moved == [session["r1"] EXCEPT !.stage = stage]
<1>1. session["r1"] \in SomeRequest
  BY AccountFacts
<1>2. moved \in SomeRequest /\ moved.stage = stage /\ moved.kind = session["r1"].kind /\ moved.code = session["r1"].code
  BY <1>1 DEF SomeRequest
<1>3. session' = [session EXCEPT !["r1"] = moved]
  BY DEF SignIn!Goes
<1>4. QED BY <1>2, <1>3

LEMMA Ended ==
  ASSUME SignIn!Ends("r1")
  PROVE  /\ SignIn!Idle \in SomeRequest /\ SignIn!Idle.stage = "idle"
         /\ session' = [session EXCEPT !["r1"] = SignIn!Idle]
<1>1. SignIn!Idle \in SomeRequest /\ SignIn!Idle.stage = "idle"
  BY DEF SignIn!Idle, SomeRequest, SignInStages, SignIn!Kinds
<1>2. QED BY <1>1 DEF SignIn!Ends

-----------------------------------------------------------------------------
\* Signing up and in: a new person has no codes.
LEMMA SignUpKeeps ==
  ASSUME AccountInv,
         SignIn!Register("r1") \/ SignIn!NoCode("r1") \/ SignIn!LoginWithGoogle("r1") \/ SignIn!Login("r1")
           \/ SignIn!RefreshToken("r1") \/ SignIn!GenerateTokens("r1")
  PROVE  AccountInv'
<1>0. wallets \in {0, 1} /\ access \in Nat /\ user \in SomeUser
  BY DEF AccountInv, AccountTypes
<1>1. CASE SignIn!Register("r1")
  <2> DEFINE begun == [stage |-> "insert", kind |-> "active-email", code |-> 0, had |-> 0]
  <2>1. begun \in SomeRequest /\ session["r1"].stage = "idle" /\ session' = [session EXCEPT !["r1"] = begun]
    BY <1>1, Begun DEF SignIn!Register, SignInStages, SignIn!Kinds
  <2>2. begun.stage = "insert"
    OBVIOUS
  <2> HIDE DEF begun
  <2>3. ~user.exists /\ user' = [user EXCEPT !.exists = TRUE] /\ UNCHANGED <<wallets, codes, access>>
    BY <1>1 DEF SignIn!Register, SignIn!session
  <2>4. user' \in SomeUser /\ user'.exists /\ user'.active = user.active
    BY <1>0, <2>3 DEF SomeUser
  <2>5. codes = <<>>
    BY <2>3 DEF AccountInv
  <2>6. 1..Len(codes) = {}
    BY <2>5
  <2>7. HoldsTrue(begun, codes, wallets')
    BY <2>2, <2>6 DEF HoldsTrue
  <2>8. QED BY <1>0, <2>1, <2>2, <2>3, <2>4, <2>7, RequestMoves
<1>2. CASE SignIn!LoginWithGoogle("r1")
  <2>1. /\ session["r1"].stage = "idle" /\ user' = [user EXCEPT !.exists = TRUE, !.active = TRUE]
        /\ UNCHANGED <<wallets, codes, access>> /\ (SignIn!Goes("r1", "idle") \/ SignIn!Goes("r1", "issue"))
    BY <1>2 DEF SignIn!LoginWithGoogle, SignIn!At, SignIn!session
  <2>2. user' \in SomeUser /\ user'.exists /\ user'.active
    BY <1>0, <2>1 DEF SomeUser
  <2>3. PICK moved \in SomeRequest : /\ moved.stage \in {"idle", "issue"}
                                     /\ session' = [session EXCEPT !["r1"] = moved]
    BY <2>1, Gone DEF SignInStages
  <2>4. HoldsTrue(moved, codes, wallets')
    BY <2>3 DEF HoldsTrue
  <2>5. QED BY <1>0, <2>1, <2>2, <2>3, <2>4, RequestMoves
<1>3. CASE SignIn!NoCode("r1") \/ SignIn!Login("r1") \/ SignIn!RefreshToken("r1")
  <2>1. /\ session["r1"].stage # "spend" /\ (session["r1"].stage # "idle" \/ user.exists)
        /\ SignIn!Goes("r1", "issue") /\ UNCHANGED <<user, wallets, codes, access>>
    BY <1>3 DEF SignIn!NoCode, SignIn!Login, SignIn!RefreshToken, SignIn!Issuable, SignIn!At, SignIn!session
  <2>2. user'.exists
    BY <2>1 DEF AccountInv
  <2>3. PICK moved \in SomeRequest : moved.stage = "issue" /\ session' = [session EXCEPT !["r1"] = moved]
    BY <2>1, Gone DEF SignInStages
  <2>4. HoldsTrue(moved, codes, wallets')
    BY <2>3 DEF HoldsTrue
  <2>5. QED BY <1>0, <2>1, <2>2, <2>3, <2>4, RequestMoves
<1>4. CASE SignIn!GenerateTokens("r1")
  <2>1. /\ session["r1"].stage = "issue" /\ access' = TokenLife
        /\ SignIn!Ends("r1") /\ UNCHANGED <<user, wallets, codes>>
    BY <1>4 DEF SignIn!GenerateTokens, SignIn!At
  <2>2. user'.exists /\ access' \in Nat
    BY <2>1, ServicesAssumption DEF AccountInv, SignIn!Parameters
  <2>3. HoldsTrue(SignIn!Idle, codes, wallets')
    BY <2>1, Ended DEF HoldsTrue
  <2>4. QED BY <1>0, <2>1, <2>2, <2>3, Ended, RequestMoves
<1>5. QED BY <1>1, <1>2, <1>3, <1>4

\* A person who has a token, a code or a request under way exists.
LEMMA Exists ==
  ASSUME AccountInv, access > 0 \/ 1..Len(codes) # {} \/ session["r1"].stage # "idle"
  PROVE  user.exists
  BY DEF AccountInv

\* Making a code.
LEMMA MakingKeeps ==
  ASSUME AccountInv,
         \/ SignIn!GenerateCodeVerifyEmail("r1") \/ SignIn!ResetPassword("r1") \/ SignIn!InsertCode("r1")
         \/ \E k \in SignIn!Kinds : SignIn!SendVerifyCode("r1", k)
  PROVE  AccountInv'
<1>0. wallets \in {0, 1} /\ access \in Nat /\ user \in SomeUser
  BY DEF AccountInv, AccountTypes
<1>1. ASSUME NEW kind \in SignIn!Kinds, SignIn!NoneValid(kind), SignIn!Begins("r1", "insert only", kind, 0),
             user.exists, UNCHANGED <<user, wallets, codes, access>>
      PROVE  AccountInv'
  <2> DEFINE begun == [stage |-> "insert only", kind |-> kind, code |-> 0, had |-> 0]
  <2>1. begun \in SomeRequest /\ session["r1"].stage = "idle" /\ session' = [session EXCEPT !["r1"] = begun]
    BY <1>1, Begun DEF SignInStages
  <2>2. begun.stage = "insert only" /\ begun.kind = kind
    OBVIOUS
  <2> HIDE DEF begun
  <2>3. \A i \in 1..Len(codes) : codes[i].kind = kind => ~IsValid(codes[i])
    BY <1>1, NoneIsValid
  <2>4. HoldsTrue(begun, codes, wallets')
    BY <2>2, <2>3 DEF HoldsTrue
  <2>5. QED BY <1>0, <1>1, <2>1, <2>2, <2>4, RequestMoves
<1>2. CASE SignIn!GenerateCodeVerifyEmail("r1")
  <2>1. user.exists
    BY <1>0, <1>2, Exists DEF SignIn!GenerateCodeVerifyEmail, SignIn!SignedIn
  <2>2. "active-email" \in SignIn!Kinds
    BY DEF SignIn!Kinds
  <2>3. QED BY <1>1, <1>2, <2>1, <2>2 DEF SignIn!GenerateCodeVerifyEmail, SignIn!session
<1>3. CASE SignIn!ResetPassword("r1")
  <2>1. "reset-password" \in SignIn!Kinds
    BY DEF SignIn!Kinds
  <2>2. QED BY <1>1, <1>3, <2>1 DEF SignIn!ResetPassword, SignIn!session
<1>4. CASE SignIn!InsertCode("r1")
  <2> DEFINE code == [kind |-> session["r1"].kind, left |-> CodeLife, alive |-> TRUE, uses |-> 0, cut |-> 0]
  <2>1. session["r1"].stage \in {"insert", "insert only"} /\ UNCHANGED <<user, wallets, access>>
        /\ codes' = Append(codes, code) /\ (SignIn!Goes("r1", "issue") \/ SignIn!Ends("r1"))
    BY <1>4 DEF SignIn!InsertCode, SignIn!At, SignIn!session
  <2>2. code \in SomeCode /\ code.kind = session["r1"].kind /\ code.uses = 0
    BY AccountFacts, ServicesAssumption DEF SignIn!Parameters, SomeCode, SomeRequest
  <2> HIDE DEF code
  <2>3. PICK moved \in SomeRequest : moved.stage \in {"idle", "issue"} /\ session' = [session EXCEPT !["r1"] = moved]
    BY <2>1, Gone, Ended DEF SignInStages
  <2>4. user.exists
    BY <2>1 DEF AccountInv
  <2>5. QED BY <2>1, <2>2, <2>3, <2>4, CodeIsAdded
<1>5. ASSUME NEW kind \in SignIn!Kinds, SignIn!SendVerifyCode("r1", kind)
      PROVE  AccountInv'
  <2> DEFINE begun == [stage |-> "insert only", kind |-> kind, code |-> 0, had |-> 0]
  <2>1. begun \in SomeRequest /\ session["r1"].stage = "idle" /\ session' = [session EXCEPT !["r1"] = begun]
    BY <1>5, Begun DEF SignIn!SendVerifyCode, SignInStages
  <2>2. begun.stage = "insert only" /\ begun.kind = kind
    OBVIOUS
  <2> HIDE DEF begun
  <2>3. UNCHANGED <<user, wallets, access>> /\ access > 0 /\ codes' = SignIn!Killed(kind)
        /\ kind \in {"internal-exchange", "bank-mutation"}
    BY <1>5 DEF SignIn!SendVerifyCode, SignIn!Admitted, SignIn!SignedIn, SignIn!session
  <2>4. \A i \in 1..Len(codes) :
          codes'[i] = IF codes[i].kind = kind /\ codes[i].alive THEN [codes[i] EXCEPT !.alive = FALSE] ELSE codes[i]
    BY <2>3, AccountFacts DEF SignIn!Killed, SignIn!Alive
  <2>5. codes' = [i \in 1..Len(codes) |-> codes'[i]]
    BY <2>3, AccountFacts DEF SignIn!Killed
  <2>6. ASSUME NEW i \in 1..Len(codes)
        PROVE  /\ codes'[i] \in SomeCode /\ codes'[i].kind = codes[i].kind /\ (IsValid(codes'[i]) => IsValid(codes[i]))
               /\ (codes[i].kind = kind => ~codes'[i].alive) /\ UsedOnce(codes'[i], user'.active, Spends(begun, i))
    <3>1. codes[i] \in SomeCode
      BY AccountFacts
    <3>2. UsedOnce(codes[i], user.active, Spends(session["r1"], i))
      BY DEF AccountInv
    <3>3. Spends(session["r1"], i) = FALSE /\ Spends(begun, i) = FALSE
      BY ONLY <2>1, <2>2 DEF Spends
    <3>4. UsedOnce(codes[i], user'.active, FALSE)
      BY <2>3, <3>2, <3>3
    <3>5. CASE codes[i].kind = kind /\ codes[i].alive
      <4>1. /\ codes'[i] \in SomeCode /\ codes'[i].kind = codes[i].kind /\ codes'[i].uses = codes[i].uses
            /\ codes'[i].alive = FALSE
        BY <2>4, <3>1, <3>5 DEF SomeCode
      <4>2. codes[i].uses = 0
        BY <2>3, <3>4, <3>5 DEF UsedOnce
      <4>3. UsedOnce(codes'[i], user'.active, FALSE)
        BY ONLY <2>3, <3>5, <4>1, <4>2 DEF UsedOnce
      <4>4. QED BY <3>3, <4>1, <4>3 DEF IsValid
    <3>6. CASE ~(codes[i].kind = kind /\ codes[i].alive)
      <4>1. codes'[i] = codes[i]
        BY <2>4, <3>6
      <4>2. codes[i].kind = kind => ~codes'[i].alive
        BY <3>6, <4>1
      <4>3. QED BY <3>1, <3>3, <3>4, <4>1, <4>2
    <3>7. QED BY <3>5, <3>6
  <2>7. codes' \in Seq(SomeCode) /\ Len(codes') = Len(codes)
    <3>1. codes \in Seq(SomeCode)
      BY AccountFacts
    <3>2. QED BY ONLY <3>1, <2>5, <2>6, SameLength
  <2>8. HoldsTrue(begun, codes', wallets')
    BY <2>2, <2>6, <2>7 DEF HoldsTrue, IsValid
  <2>9. session' \in [{"r1"} -> SomeRequest] /\ session'["r1"] = begun
    BY <2>1 DEF AccountInv, AccountTypes
  <2>10. user.exists
    BY <1>0, <2>3, Exists
  <2>11. QED BY <1>0, <2>3, <2>6, <2>7, <2>8, <2>9, <2>10, AccountMoves
<1>6. QED BY <1>2, <1>3, <1>4, <1>5

\* Trying a code.
LEMMA TryingKeeps ==
  ASSUME AccountInv, NEW c \in DOMAIN codes,
         \/ SignIn!TryExpired("r1", c) \/ SignIn!VerifyEmail("r1", c) \/ SignIn!SetNewPassword("r1", c)
         \/ SignIn!VerifyCode("r1", c)
  PROVE  AccountInv'
<1>0. wallets \in {0, 1} /\ access \in Nat /\ user \in SomeUser
  BY DEF AccountInv, AccountTypes
<1>1. c \in 1..Len(codes) /\ c \in Nat /\ codes[c] \in SomeCode /\ codes[c].kind \in SignIn!Kinds
  BY AccountFacts DEF SomeCode
<1>2. user.exists
  BY <1>1, Exists
<1>3. UsedOnce(codes[c], user.active, Spends(session["r1"], c))
  BY <1>1 DEF AccountInv
<1>4. CASE SignIn!TryExpired("r1", c)
  <2> DEFINE code == [codes[c] EXCEPT !.alive = FALSE]
  <2>1. session["r1"].stage = "idle" /\ UNCHANGED <<user, wallets, session, access>> /\ codes' = [codes EXCEPT ![c] = code]
    BY <1>4 DEF SignIn!TryExpired, SignIn!At, SignIn!Dead, SignIn!session
  <2>2. code \in SomeCode /\ code.kind = codes[c].kind /\ code.alive = FALSE /\ code.uses = codes[c].uses /\ code.cut = codes[c].cut
    BY <1>1 DEF SomeCode
  <2> HIDE DEF code
  <2>3. Spends(session["r1"], c) = FALSE
    BY ONLY <2>1 DEF Spends
  <2>4. UsedOnce(codes[c], user'.active, FALSE)
    BY <1>3, <2>1, <2>3
  <2>5. UsedOnce(code, user'.active, FALSE)
    BY ONLY <1>1, <2>2, <2>4 DEF UsedOnce, SomeCode
  <2>6. ~IsValid(code)
    BY <2>2 DEF IsValid
  <2>7. session["r1"] \in SomeRequest /\ session' = [session EXCEPT !["r1"] = session["r1"]]
    BY <2>1 DEF AccountInv, AccountTypes
  <2>8. QED BY <1>0, <1>1, <1>2, <2>1, <2>2, <2>3, <2>5, <2>6, <2>7, OneCodeMoves
<1>5. ASSUME NEW stage \in {"accept", "let through"}, SignIn!Begins("r1", stage, codes[c].kind, c),
             SignIn!Valid(c), UNCHANGED <<user, wallets, codes, access>>,
             stage = "accept" => codes[c].kind \in {"active-email", "reset-password"},
             stage = "let through" => codes[c].kind \in {"internal-exchange", "bank-mutation"},
             codes[c].kind = "active-email" => ~user.active
      PROVE  AccountInv'
  <2> DEFINE begun == [stage |-> stage, kind |-> codes[c].kind, code |-> c, had |-> 0]
  <2>1. begun \in SomeRequest /\ session["r1"].stage = "idle" /\ session' = [session EXCEPT !["r1"] = begun]
    <3>1. stage \in SignInStages
      BY DEF SignInStages
    <3> QED BY <1>1, <1>5, <3>1, Begun
  <2>2. begun.stage = stage /\ begun.kind = codes[c].kind /\ begun.code = c
    OBVIOUS
  <2> HIDE DEF begun
  <2>3. codes[c].alive /\ (codes[c].kind = "active-email" => codes[c].uses = 0)
    BY <1>3, <1>5 DEF SignIn!Valid, UsedOnce
  <2>4. HoldsTrue(begun, codes, wallets')
    BY <1>1, <1>5, <2>2, <2>3 DEF HoldsTrue
  <2>5. begun.stage # "spend"
    BY <2>2
  <2>6. QED BY <1>0, <1>2, <1>5, <2>1, <2>4, <2>5, RequestMoves
<1>6. CASE SignIn!VerifyEmail("r1", c)
  BY <1>5, <1>6 DEF SignIn!VerifyEmail, SignIn!session
<1>7. CASE SignIn!SetNewPassword("r1", c)
  BY <1>5, <1>7 DEF SignIn!SetNewPassword, SignIn!session
<1>8. CASE SignIn!VerifyCode("r1", c)
  BY <1>5, <1>8 DEF SignIn!VerifyCode, SignIn!session
<1>9. QED BY <1>4, <1>6, <1>7, <1>8

\* Accepting a code, and marking it.
LEMMA AcceptingKeeps ==
  ASSUME AccountInv, SignIn!Accept("r1") \/ SignIn!Spend("r1") \/ SignIn!LetThrough("r1")
  PROVE  AccountInv'
<1> DEFINE c == session["r1"].code
<1>0. wallets \in {0, 1} /\ access \in Nat /\ user \in SomeUser
  BY DEF AccountInv, AccountTypes
<1>1. session["r1"].stage \in {"accept", "spend", "let through"}
  BY DEF SignIn!Accept, SignIn!Spend, SignIn!LetThrough, SignIn!At
<1>2. c \in 1..Len(codes) /\ codes[c].kind = session["r1"].kind
  BY <1>1 DEF AccountInv, HoldsTrue
<1>3. codes[c] \in SomeCode /\ user.exists
  BY <1>1, <1>2, AccountFacts, Exists
<1>4. UsedOnce(codes[c], user.active, Spends(session["r1"], c))
  BY <1>2 DEF AccountInv
<1>5. CASE SignIn!Accept("r1")
  <2> DEFINE code == [codes[c] EXCEPT !.uses = @ + 1]
  <2>1. /\ session["r1"].stage = "accept" /\ codes' = [codes EXCEPT ![c] = code] /\ UNCHANGED <<wallets, access>>
        /\ SignIn!Goes("r1", "spend")
        /\ IF codes[c].kind = "active-email" THEN user' = [user EXCEPT !.active = TRUE] ELSE UNCHANGED user
    BY <1>2, <1>5 DEF SignIn!Accept, SignIn!At, SignIn!session
  <2>2. /\ code \in SomeCode /\ code.kind = codes[c].kind /\ code.uses = codes[c].uses + 1 /\ code.cut = codes[c].cut
        /\ code.alive = codes[c].alive /\ code.left = codes[c].left
    BY <1>3 DEF SomeCode
  <2> HIDE DEF code
  <2>3. /\ user' \in SomeUser /\ user'.exists /\ (user.active => user'.active)
        /\ (codes[c].kind = "active-email" => user'.active)
    BY <1>0, <1>3, <2>1 DEF SomeUser
  <2>4. PICK moved \in SomeRequest : /\ moved.stage = "spend" /\ moved.kind = session["r1"].kind /\ moved.code = c
                                     /\ session' = [session EXCEPT !["r1"] = moved]
    BY <2>1, Gone DEF SignInStages
  <2>5. /\ codes[c].kind \in {"active-email", "reset-password"} /\ codes[c].alive
        /\ codes[c].kind = "active-email" => codes[c].uses = 0
    BY <1>2, <2>1 DEF AccountInv, HoldsTrue
  <2>6. Spends(session["r1"], c) = FALSE /\ Spends(moved, c) = TRUE
    BY ONLY <2>1, <2>4 DEF Spends
  <2>7. UsedOnce(codes[c], user.active, FALSE)
    BY <1>4, <2>6
  <2>8. UsedOnce(code, user'.active, TRUE)
    BY ONLY <1>3, <2>2, <2>3, <2>5, <2>7 DEF UsedOnce, SomeCode
  <2>9. IsValid(code) => IsValid(codes[c])
    BY <2>2 DEF IsValid
  <2>10. moved.code = c /\ moved.kind = code.kind
    BY <1>2, <2>2, <2>4
  <2> HIDE DEF c
  <2>11. QED BY <1>2, <2>1, <2>2, <2>3, <2>4, <2>6, <2>8, <2>9, <2>10, OneCodeMoves
<1>6. CASE SignIn!Spend("r1")
  <2> DEFINE code == [codes[c] EXCEPT !.alive = FALSE]
  <2>1. /\ session["r1"].stage = "spend" /\ codes' = [codes EXCEPT ![c] = code] /\ UNCHANGED <<user, wallets, access>>
        /\ SignIn!Goes("r1", "look at wallets") \/ SignIn!Ends("r1")
    BY <1>6 DEF SignIn!Spend, SignIn!Spent, SignIn!Dead, SignIn!At, SignIn!session
  <2>2. code \in SomeCode /\ code.kind = codes[c].kind /\ code.alive = FALSE /\ code.uses = codes[c].uses /\ code.cut = codes[c].cut
    BY <1>3 DEF SomeCode
  <2> HIDE DEF code
  <2>3. PICK moved \in SomeRequest : /\ moved.stage \in {"idle", "look at wallets"}
                                     /\ session' = [session EXCEPT !["r1"] = moved]
    BY <2>1, Gone, Ended DEF SignInStages
  <2>4. Spends(session["r1"], c) = TRUE /\ Spends(moved, c) = FALSE
    BY ONLY <2>1, <2>3 DEF Spends
  <2>5. UsedOnce(codes[c], user'.active, TRUE)
    BY <1>4, <2>1, <2>4
  <2>6. UsedOnce(code, user'.active, FALSE)
    BY ONLY <1>3, <2>2, <2>5 DEF UsedOnce, SomeCode
  <2>7. ~IsValid(code) /\ moved.stage # "spend"
    BY <2>2, <2>3 DEF IsValid
  <2> HIDE DEF c
  <2>8. QED BY <1>0, <1>2, <1>3, <2>1, <2>2, <2>3, <2>4, <2>6, <2>7, OneCodeMoves
<1>7. CASE SignIn!LetThrough("r1")
  <2> DEFINE code == [[codes[c] EXCEPT !.alive = FALSE] EXCEPT !.uses = @ + 1]
  <2>1. /\ session["r1"].stage = "let through" /\ UNCHANGED <<user, wallets, access>> /\ SignIn!Ends("r1")
        /\ codes' = [[codes EXCEPT ![c].alive = FALSE] EXCEPT ![c].uses = @ + 1]
    BY <1>7 DEF SignIn!LetThrough, SignIn!Spent, SignIn!Dead, SignIn!At, SignIn!session
  <2>2. codes' = [codes EXCEPT ![c] = code]
    BY <1>2, <2>1, AccountFacts
  <2>3. code \in SomeCode /\ code.kind = codes[c].kind /\ code.alive = FALSE /\ code.uses = codes[c].uses + 1
    <3> DEFINE dead == [codes[c] EXCEPT !.alive = FALSE]
    <3>1. dead \in SomeCode /\ dead.kind = codes[c].kind /\ dead.alive = FALSE /\ dead.uses = codes[c].uses
      BY <1>3 DEF SomeCode
    <3>2. code = [dead EXCEPT !.uses = @ + 1]
      OBVIOUS
    <3> HIDE DEF dead, code
    <3>3. QED BY <3>1, <3>2 DEF SomeCode
  <2> HIDE DEF code
  <2>4. codes[c].kind \in {"internal-exchange", "bank-mutation"} /\ codes[c].alive
    BY <1>2, <2>1 DEF AccountInv, HoldsTrue
  <2>5. Spends(session["r1"], c) = FALSE /\ Spends(SignIn!Idle, c) = FALSE
    BY ONLY <2>1, Ended DEF Spends
  <2>6. UsedOnce(codes[c], user'.active, FALSE)
    BY <1>4, <2>1, <2>5
  <2>7. UsedOnce(code, user'.active, FALSE)
    BY ONLY <1>3, <2>3, <2>4, <2>6 DEF UsedOnce, SomeCode
  <2>8. ~IsValid(code)
    BY <2>3 DEF IsValid
  <2> HIDE DEF c
  <2>9. /\ SignIn!Idle \in SomeRequest /\ SignIn!Idle.stage = "idle"
        /\ session' = [session EXCEPT !["r1"] = SignIn!Idle]
    BY <2>1, Ended
  <2>10. user' \in SomeUser /\ user'.exists /\ (user.active => user'.active) /\ session["r1"].stage # "spend"
    BY <1>0, <1>3, <2>1
  <2>11. QED BY <1>2, <2>1, <2>2, <2>3, <2>5, <2>7, <2>8, <2>9, <2>10, OneCodeMoves
<1>8. QED BY <1>5, <1>6, <1>7

\* The default wallets.
LEMMA WalletsKeep ==
  ASSUME AccountInv, SignIn!LookAtWallets("r1") \/ SignIn!CreateDefaultUserWallet("r1")
  PROVE  AccountInv'
<1>0. wallets \in {0, 1} /\ access \in Nat /\ user \in SomeUser /\ session["r1"] \in SomeRequest
  BY DEF AccountInv, AccountTypes
<1>1. CASE SignIn!LookAtWallets("r1")
  <2> DEFINE looked == [session["r1"] EXCEPT !.stage = "create wallets", !.had = wallets]
  <2>1. /\ session["r1"].stage = "look at wallets" /\ UNCHANGED <<user, wallets, codes, access>>
        /\ session' = [session EXCEPT !["r1"].stage = "create wallets", !["r1"].had = wallets]
    BY <1>1 DEF SignIn!LookAtWallets, SignIn!At, SignIn!session
  <2>2. session' = [session EXCEPT !["r1"] = looked]
    BY <2>1, <1>0 DEF AccountInv, AccountTypes
  <2>3. looked \in SomeRequest /\ looked.stage = "create wallets" /\ looked.had = wallets
    <3> DEFINE there == [session["r1"] EXCEPT !.stage = "create wallets"]
    <3>1. there \in SomeRequest /\ there.stage = "create wallets"
      BY <1>0 DEF SomeRequest, SignInStages
    <3>2. looked = [there EXCEPT !.had = wallets]
      OBVIOUS
    <3> HIDE DEF there, looked
    <3>3. wallets \in Nat
      BY <1>0
    <3>4. QED BY ONLY <3>1, <3>2, <3>3 DEF SomeRequest
  <2> HIDE DEF looked
  <2>4. HoldsTrue(looked, codes, wallets')
    BY <2>1, <2>3 DEF HoldsTrue
  <2>5. user'.exists
    BY <2>1, Exists
  <2>6. QED BY <1>0, <2>1, <2>2, <2>3, <2>4, <2>5, RequestMoves
<1>2. CASE SignIn!CreateDefaultUserWallet("r1")
  <2>1. /\ session["r1"].stage = "create wallets" /\ UNCHANGED <<user, codes, access>> /\ SignIn!Ends("r1")
        /\ wallets' = IF session["r1"].had = 0 THEN wallets + 1 ELSE wallets
    BY <1>2 DEF SignIn!CreateDefaultUserWallet, SignIn!At, SignIn!session
  <2>2. session["r1"].had = wallets
    BY <2>1 DEF AccountInv, HoldsTrue
  <2>3. wallets' \in {0, 1}
    <3>1. wallets = 0 \/ wallets = 1
      BY <1>0
    <3>2. wallets' = IF wallets = 0 THEN wallets + 1 ELSE wallets
      BY <2>1, <2>2
    <3>3. QED BY ONLY <3>1, <3>2
  <2>4. HoldsTrue(SignIn!Idle, codes, wallets')
    BY <2>1, Ended DEF HoldsTrue
  <2>5. user'.exists
    BY <2>1, Exists
  <2>6. QED BY <1>0, <2>1, <2>3, <2>4, <2>5, Ended, RequestMoves
<1>3. QED BY <1>1, <1>2

\* A crash forgets the request; one before the code is marked is counted.
LEMMA CrashKeeps ==
  ASSUME AccountInv, SignIn!Crash("r1")
  PROVE  AccountInv'
<1> DEFINE c == session["r1"].code
<1>0. wallets \in {0, 1} /\ access \in Nat /\ user \in SomeUser
  BY DEF AccountInv, AccountTypes
<1>1. session["r1"].stage # "idle" /\ UNCHANGED <<user, wallets, access>>
  BY DEF SignIn!Crash, SignIn!At, SignIn!session
<1>2. /\ SignIn!Idle \in SomeRequest /\ SignIn!Idle.stage = "idle" /\ session' = [session EXCEPT !["r1"] = SignIn!Idle]
  BY Ended DEF SignIn!Crash
<1>3. user'.exists
  BY <1>1, Exists
<1>4. CASE session["r1"].stage # "spend"
  <2>1. UNCHANGED codes
    BY <1>4 DEF SignIn!Crash, SignIn!At
  <2>2. HoldsTrue(SignIn!Idle, codes, wallets')
    BY <1>2 DEF HoldsTrue
  <2>3. QED BY <1>0, <1>1, <1>2, <1>3, <1>4, <2>1, <2>2, RequestMoves
<1>5. CASE session["r1"].stage = "spend"
  <2> DEFINE code == [codes[c] EXCEPT !.cut = @ + 1]
  <2>1. codes' = [codes EXCEPT ![c] = code]
    BY <1>5 DEF SignIn!Crash, SignIn!At
  <2>2. c \in 1..Len(codes)
    BY <1>5 DEF AccountInv, HoldsTrue
  <2>3. codes[c] \in SomeCode
    BY <2>2, AccountFacts
  <2>4. /\ code \in SomeCode /\ code.kind = codes[c].kind /\ code.alive = codes[c].alive /\ code.left = codes[c].left
        /\ code.uses = codes[c].uses /\ code.cut = codes[c].cut + 1
    BY <2>3 DEF SomeCode
  <2> HIDE DEF code
  <2>5. UsedOnce(codes[c], user.active, Spends(session["r1"], c))
    BY <2>2 DEF AccountInv
  <2>6. Spends(session["r1"], c) = TRUE /\ Spends(SignIn!Idle, c) = FALSE
    BY ONLY <1>2, <1>5 DEF Spends
  <2>7. UsedOnce(codes[c], user'.active, TRUE)
    BY <1>1, <2>5, <2>6
  <2>8. UsedOnce(code, user'.active, FALSE)
    BY ONLY <2>3, <2>4, <2>7 DEF UsedOnce, SomeCode
  <2>9. IsValid(code) => IsValid(codes[c])
    BY <2>4 DEF IsValid
  <2>10. user' \in SomeUser /\ (user.active => user'.active)
    BY <1>0, <1>1
  <2> HIDE DEF c
  <2>11. QED BY <1>1, <1>2, <1>3, <2>1, <2>2, <2>4, <2>6, <2>8, <2>9, <2>10, OneCodeMoves
<1>6. QED BY <1>4, <1>5

\* The clock, the administrator, and signing out.
LEMMA OthersKeep ==
  ASSUME AccountInv, SignIn!Logout \/ SignIn!Tick \/ (\E b \in BOOLEAN : SignIn!SetBlocked(b)) \/ UNCHANGED signIn
  PROVE  AccountInv'
<1>0. wallets \in {0, 1} /\ access \in Nat /\ user \in SomeUser
  BY DEF AccountInv, AccountTypes
<1>1. CASE UNCHANGED signIn
  BY <1>1 DEF signIn, AccountInv, AccountTypes
<1>2. CASE SignIn!Logout
  <2>1. UNCHANGED <<user, wallets, codes, session>> /\ access' = 0
    BY <1>2 DEF SignIn!Logout
  <2>2. QED BY <2>1 DEF AccountInv, AccountTypes
<1>3. CASE \E b \in BOOLEAN : SignIn!SetBlocked(b)
  <2>1. PICK b \in BOOLEAN : user.exists /\ user' = [user EXCEPT !.blocked = b] /\ UNCHANGED <<wallets, codes, session, access>>
    BY <1>3 DEF SignIn!SetBlocked, SignIn!session
  <2>2. user' \in SomeUser /\ user'.exists /\ user'.active = user.active
    BY <1>0, <2>1 DEF SomeUser
  <2>3. QED BY <2>1, <2>2 DEF AccountInv, AccountTypes
<1>4. CASE SignIn!Tick
  <2>1. session["r1"].stage = "idle" /\ UNCHANGED <<user, wallets, session>> /\ access' = SignIn!Less(access)
        /\ codes' = [c \in DOMAIN codes |-> [codes[c] EXCEPT !.left = SignIn!Less(@)]]
    BY <1>4 DEF SignIn!Tick, SignIn!At
  <2>2. codes' = [i \in 1..Len(codes) |-> codes'[i]]
    BY <2>1, AccountFacts
  <2>3. ASSUME NEW i \in 1..Len(codes)
        PROVE  /\ codes'[i] \in SomeCode /\ codes'[i].kind = codes[i].kind /\ (IsValid(codes'[i]) => IsValid(codes[i]))
               /\ UsedOnce(codes'[i], user'.active, Spends(session["r1"], i))
    <3>1. codes[i] \in SomeCode
      BY AccountFacts
    <3>2. codes'[i] = [codes[i] EXCEPT !.left = SignIn!Less(codes[i].left)]
      BY <2>1, AccountFacts
    <3>3. SignIn!Less(codes[i].left) \in Nat /\ (SignIn!Less(codes[i].left) > 0 => codes[i].left > 0)
      BY ONLY <3>1 DEF SomeCode, SignIn!Less
    <3>4. /\ codes'[i] \in SomeCode /\ codes'[i].kind = codes[i].kind /\ codes'[i].alive = codes[i].alive
          /\ codes'[i].uses = codes[i].uses /\ codes'[i].cut = codes[i].cut
          /\ codes'[i].left = SignIn!Less(codes[i].left)
      BY ONLY <3>1, <3>2, <3>3 DEF SomeCode
    <3>5. UsedOnce(codes[i], user'.active, Spends(session["r1"], i))
      BY <2>1 DEF AccountInv
    <3>6. UsedOnce(codes'[i], user'.active, Spends(session["r1"], i))
      BY ONLY <3>4, <3>5 DEF UsedOnce
    <3>7. QED BY <3>3, <3>4, <3>6 DEF IsValid
  <2>4. codes' \in Seq(SomeCode) /\ Len(codes') = Len(codes)
    <3>1. codes \in Seq(SomeCode)
      BY AccountFacts
    <3>2. QED BY ONLY <3>1, <2>2, <2>3, SameLength
  <2>5. AccountTypes' /\ NewestOnly(codes')
    <3>1. access' \in Nat
      BY ONLY <1>0, <2>1 DEF SignIn!Less
    <3>2. AccountTypes'
      BY <2>1, <2>4, <3>1 DEF AccountInv, AccountTypes
    <3>3. QED BY <2>3, <2>4, <3>2 DEF AccountInv, NewestOnly
  <2>6. HoldsTrue(session["r1"], codes', wallets')
    BY <2>1 DEF HoldsTrue
  <2>7. user.exists \/ (codes' = <<>> /\ access' = 0)
    <3>1. codes = <<>> => codes' = <<>>
      BY <2>4
    <3>2. access = 0 => access' = 0
      BY <2>1 DEF SignIn!Less
    <3>3. QED BY <3>1, <3>2 DEF AccountInv
  <2>8. \A i \in 1..Len(codes') : UsedOnce(codes'[i], user'.active, Spends(session["r1"], i))
    BY <2>3, <2>4
  <2>9. QED BY <2>1, <2>5, <2>6, <2>7, <2>8 DEF AccountInv
<1>5. QED BY <1>1, <1>2, <1>3, <1>4

LEMMA AccountKeeps == ASSUME AccountInv, SignIn!Next \/ UNCHANGED signIn PROVE AccountInv'
<1>1. CASE SignIn!Next
  <2>1. \/ SignIn!Register("r1") \/ SignIn!NoCode("r1") \/ SignIn!LoginWithGoogle("r1") \/ SignIn!Login("r1")
        \/ SignIn!RefreshToken("r1") \/ SignIn!GenerateTokens("r1")
        \/ SignIn!GenerateCodeVerifyEmail("r1") \/ SignIn!ResetPassword("r1") \/ SignIn!InsertCode("r1")
        \/ \E k \in SignIn!Kinds : SignIn!SendVerifyCode("r1", k)
        \/ \E c \in DOMAIN codes : \/ SignIn!TryExpired("r1", c) \/ SignIn!VerifyEmail("r1", c)
                                   \/ SignIn!SetNewPassword("r1", c) \/ SignIn!VerifyCode("r1", c)
        \/ SignIn!Accept("r1") \/ SignIn!Spend("r1") \/ SignIn!LookAtWallets("r1")
        \/ SignIn!CreateDefaultUserWallet("r1") \/ SignIn!LetThrough("r1") \/ SignIn!Crash("r1")
        \/ SignIn!Logout \/ SignIn!Tick \/ \E b \in BOOLEAN : SignIn!SetBlocked(b)
    BY <1>1 DEF SignIn!Next
  <2>2. QED
    BY <2>1, SignUpKeeps, MakingKeeps, TryingKeeps, AcceptingKeeps, WalletsKeep, CrashKeeps, OthersKeep
<1>2. QED BY <1>1, OthersKeep

\* Of two valid codes of a kind, one would be older.
LEMMA CodesAreKept == ASSUME AccountInv PROVE SignIn!CodesKept
<1>1. \A c, d \in DOMAIN codes : SignIn!Valid(c) /\ SignIn!Valid(d) /\ codes[c].kind = codes[d].kind => c = d
  <2>1. SUFFICES ASSUME NEW c \in 1..Len(codes), NEW d \in 1..Len(codes), IsValid(codes[c]), IsValid(codes[d]),
                        codes[c].kind = codes[d].kind
                 PROVE  c = d
    BY AccountFacts DEF SignIn!Valid, IsValid
  <2>2. ~(c < d) /\ ~(d < c)
    BY <2>1 DEF AccountInv, NewestOnly
  <2>3. QED BY <2>2, AccountFacts
<1>2. ASSUME NEW c \in 1..Len(codes)
      PROVE  codes[c].uses <= IF codes[c].kind = "reset-password" THEN 1 + codes[c].cut ELSE 1
  <2>1. codes[c] \in SomeCode
    BY AccountFacts
  <2>2. UsedOnce(codes[c], user.active, Spends(session["r1"], c))
    BY DEF AccountInv
  <2>3. QED BY ONLY <2>1, <2>2 DEF UsedOnce, SomeCode, SignIn!Kinds
<1>3. wallets <= 1
  BY DEF AccountInv, AccountTypes
<1>4. QED BY <1>1, <1>2, <1>3, AccountFacts DEF SignIn!CodesKept

-----------------------------------------------------------------------------
(* SmartRef: its proofs are about the module, and the components here are  *)
(* instances of it.                                                        *)

Ref        == INSTANCE SmartRefProofs WITH Requests <- {"r1"}, Unseen <- FALSE
RefExposed == INSTANCE SmartRefProofs WITH MaxRewards <- 1, Requests <- {"r1", "r2"}, Unseen <- TRUE

LEMMA ReferralInit == ASSUME Referral!Init PROVE Ref!TreeInv /\ Ref!RewardInv
<1>1. Ref!Parameters
  BY ServicesAssumption DEF Referral!Parameters, Ref!Parameters
<1>2. Ref!Init
  BY DEF Referral!Init, Ref!Init, Referral!Idle, Ref!Idle
<1>3. QED BY <1>1, <1>2, Ref!InitTree, Ref!InitReward

LEMMA ReferralStep ==
  ASSUME Referral!Next
  PROVE  Ref!Next
  BY DEF Referral!Next, Ref!Next, Referral!PostsListing, Ref!PostsListing, Referral!Executes, Ref!Executes,
         Referral!Distribute, Ref!Distribute, Referral!Register, Ref!Register, Referral!RecordLevel, Ref!RecordLevel,
         Referral!NextOf, Ref!NextOf, Referral!RecordStops, Ref!RecordStops, Referral!Reward, Ref!Reward,
         Referral!RewardStops, Ref!RewardStops, Referral!WithdrawMyReward, Ref!WithdrawMyReward,
         Referral!Open, Ref!Open, Referral!Of, Ref!Of, Referral!Mark, Ref!Mark,
         Referral!MarkWhatIsPaid, Ref!MarkWhatIsPaid, Referral!Marked, Ref!Marked, Referral!Goes, Ref!Goes,
         Referral!Pay, Ref!Pay, Referral!PaidOut, Ref!PaidOut, Referral!PayThrows, Ref!PayThrows,
         Referral!PayUnseen, Ref!PayUnseen, Referral!Record, Ref!Record, Referral!RecordThrows, Ref!RecordThrows,
         Referral!Undo, Ref!Undo, Referral!Crash, Ref!Crash, Referral!Idle, Ref!Idle,
         Referral!treeVars, Ref!treeVars, Referral!moneyVars, Ref!moneyVars

\* The tree does not depend on how withdrawals go.
LEMMA ExposedInit == ASSUME ReferralExposed!Init PROVE RefExposed!TreeInv
<1>1. RefExposed!Parameters
  BY ServicesAssumption DEF ReferralExposed!Parameters, RefExposed!Parameters
<1>2. RefExposed!Init
  BY DEF ReferralExposed!Init, RefExposed!Init, ReferralExposed!Idle, RefExposed!Idle
<1>3. QED BY <1>1, <1>2, RefExposed!InitTree

LEMMA ExposedStep ==
  ASSUME ReferralExposed!Next
  PROVE  RefExposed!Next
  BY DEF ReferralExposed!Next, RefExposed!Next, ReferralExposed!PostsListing, RefExposed!PostsListing,
         ReferralExposed!Executes, RefExposed!Executes, ReferralExposed!Distribute, RefExposed!Distribute,
         ReferralExposed!Register, RefExposed!Register, ReferralExposed!RecordLevel, RefExposed!RecordLevel,
         ReferralExposed!NextOf, RefExposed!NextOf, ReferralExposed!RecordStops, RefExposed!RecordStops,
         ReferralExposed!Reward, RefExposed!Reward, ReferralExposed!RewardStops, RefExposed!RewardStops,
         ReferralExposed!WithdrawMyReward, RefExposed!WithdrawMyReward, ReferralExposed!Open, RefExposed!Open,
         ReferralExposed!Of, RefExposed!Of, ReferralExposed!Mark, RefExposed!Mark, ReferralExposed!MarkWhatIsPaid,
         RefExposed!MarkWhatIsPaid, ReferralExposed!Marked, RefExposed!Marked, ReferralExposed!Goes,
         RefExposed!Goes, ReferralExposed!Pay, RefExposed!Pay, ReferralExposed!PaidOut, RefExposed!PaidOut,
         ReferralExposed!PayThrows, RefExposed!PayThrows, ReferralExposed!PayUnseen, RefExposed!PayUnseen,
         ReferralExposed!Record, RefExposed!Record, ReferralExposed!RecordThrows, RefExposed!RecordThrows,
         ReferralExposed!Undo, RefExposed!Undo, ReferralExposed!Crash, RefExposed!Crash, ReferralExposed!Idle,
         RefExposed!Idle, ReferralExposed!treeVars, RefExposed!treeVars, ReferralExposed!moneyVars,
         RefExposed!moneyVars

LEMMA ReferralKeeps ==
  ASSUME Ref!TreeInv, Ref!RewardInv, Referral!Next \/ UNCHANGED referral
  PROVE  Ref!TreeInv' /\ Ref!RewardInv'
<1>1. Ref!Parameters
  BY ServicesAssumption DEF Referral!Parameters, Ref!Parameters
<1>2. Ref!OneAtATime
  BY DEF Ref!OneAtATime
<1>3. Ref!Next \/ UNCHANGED Ref!vars
  BY ReferralStep DEF referral, Ref!vars
<1>4. QED BY <1>1, <1>2, <1>3, Ref!TreeStep, Ref!RewardStep

LEMMA ExposedKeeps ==
  ASSUME RefExposed!TreeInv, ReferralExposed!Next \/ UNCHANGED referral
  PROVE  RefExposed!TreeInv'
<1>1. RefExposed!Parameters
  BY ServicesAssumption DEF ReferralExposed!Parameters, RefExposed!Parameters
<1>2. RefExposed!Next \/ UNCHANGED RefExposed!vars
  BY ExposedStep DEF referral, RefExposed!vars
<1>3. QED BY <1>1, <1>2, RefExposed!TreeStep

-----------------------------------------------------------------------------
(* All of them, side by side.                                              *)

ServicesInv ==
  /\ FilesInv /\ ChatInv /\ LimiterInv /\ AccountInv
  /\ which = "tabs" => StreamInv
  /\ which = "referral exposed" => RefExposed!TreeInv
  /\ which # "referral exposed" => Ref!TreeInv /\ Ref!RewardInv

LEMMA NobodySaves == "nobody" \notin Savers
  BY ServicesAssumption DEF Files!Parameters

LEMMA ServicesInit ==
  ASSUME Init
  PROVE  ServicesInv
<1>1. /\ Limiter!Init /\ Chat!Init /\ SignIn!Init /\ Files!Init
      /\ which = "tabs" => Stream!Init
      /\ which = "referral exposed" => ReferralExposed!Init
      /\ which # "referral exposed" => Referral!Init
  BY DEF Init
<1>2. FilesInv /\ ChatInv /\ LimiterInv /\ AccountInv
  BY ONLY <1>1, NobodySaves, InitFiles, ChatInit, LimiterInit, AccountInit
<1>4. which = "tabs" => StreamInv
  BY ONLY <1>1, StreamInit
<1>5. which = "referral exposed" => RefExposed!TreeInv
  BY ONLY <1>1, ExposedInit
<1>6. which # "referral exposed" => Ref!TreeInv /\ Ref!RewardInv
  BY ONLY <1>1, ReferralInit
<1>7. QED BY <1>2, <1>4, <1>5, <1>6 DEF ServicesInv

\* A step of one component leaves the others where they are.
LEMMA ServicesStep ==
  ASSUME ServicesInv, [Next]_vars
  PROVE  /\ ServicesInv'
         /\ Len(queue') < Len(queue) => Limiter!Length(slots') <= Head(queue).limit
<1>1. /\ which' = which /\ (Files!Next \/ UNCHANGED files) /\ (Chat!Next \/ UNCHANGED chats)
      /\ (Limiter!Next \/ UNCHANGED limiter) /\ (SignIn!Next \/ UNCHANGED signIn)
      /\ which = "tabs" => Stream!Next \/ UNCHANGED tabs
      /\ which = "referral exposed" => ReferralExposed!Next \/ UNCHANGED referral
      /\ which # "referral exposed" => Referral!Next \/ UNCHANGED referral
  BY DEF Next, vars
<1>2. /\ FilesInv /\ ChatInv /\ LimiterInv /\ AccountInv
      /\ which = "tabs" => StreamInv
      /\ which = "referral exposed" => RefExposed!TreeInv
      /\ which # "referral exposed" => Ref!TreeInv /\ Ref!RewardInv
  BY DEF ServicesInv
<1>3. FilesInv'
  BY ONLY <1>1, <1>2, NobodySaves, NextFiles
<1>4. ChatInv'
  BY ONLY <1>1, <1>2, ChatKeeps
<1>5. LimiterInv' /\ (Len(queue') < Len(queue) => Limiter!Length(slots') <= Head(queue).limit)
  BY ONLY <1>1, <1>2, LimiterKeeps
<1>6. AccountInv'
  BY ONLY <1>1, <1>2, AccountKeeps
<1>8. which' = "tabs" => StreamInv'
  BY ONLY <1>1, <1>2, StreamKeeps
<1>9. which' = "referral exposed" => RefExposed!TreeInv'
  BY ONLY <1>1, <1>2, ExposedKeeps
<1>10. which' # "referral exposed" => Ref!TreeInv' /\ Ref!RewardInv'
  BY ONLY <1>1, <1>2, ReferralKeeps
<1>11. QED BY <1>3, <1>4, <1>5, <1>6, <1>8, <1>9, <1>10 DEF ServicesInv

LEMMA ServicesInvariant == Spec => []ServicesInv
<1>1. Init => ServicesInv
  BY ServicesInit
<1>2. ServicesInv /\ [Next]_vars => ServicesInv'
  BY ServicesStep
<1>3. QED BY <1>1, <1>2, PTL DEF Spec

-----------------------------------------------------------------------------
\* What saveTransactions has returned for stays in the file, for any number of
\* calls, instances and deaths, unless a process died while it wrote.
THEOREM SavedStays == Spec => []SavedIsKept
<1>1. ServicesInv => SavedIsKept
  BY DEF ServicesInv, FilesInv, SavedIsKept, Files!SavedIsKept
<1>2. QED BY <1>1, ServicesInvariant, PTL

\* The badge of the support inbox is the sum of what is unseen, for any number
\* of conversations and of messages, whenever nothing is under way.
THEOREM BadgeStaysRight == Spec => []BadgeIsRight
<1>1. ServicesInv => BadgeIsRight
  BY BadgeHolds DEF ServicesInv
<1>2. QED BY <1>1, ServicesInvariant, PTL

\* However many tabs of the user are opened and closed on however many
\* instances, an open one shows every notification once, while Redis answers.
THEOREM TabsHearOnce == Spec => []HeardOnce
<1>1. ServicesInv => HeardOnce
  BY OneHearing DEF ServicesInv, HeardOnce
<1>2. QED BY <1>1, ServicesInvariant, PTL

\* At most one code of a kind is valid, a code is accepted once but for the
\* crashes before it was marked, and the default wallets are made once: for
\* any number of codes, however long they are valid.
THEOREM CodesStayKept == Spec => []CodesKept
<1>1. ServicesInv => CodesKept
  BY CodesAreKept DEF ServicesInv, CodesKept
<1>2. QED BY <1>1, ServicesInvariant, PTL

\* A user's list of referrers follows the referral of each of them, and none
\* is in it twice: for any number of users and of levels, whether withdrawals
\* of rewards fail, overlap and die or not.
THEOREM ReferrersStayInOrder == Spec => []ReferrersInOrder
<1>1. Ref!TreeInv => Referral!ReferrersInOrder
  BY DEF Ref!TreeInv, Ref!ReferrersInOrder, Referral!ReferrersInOrder
<1>2. RefExposed!TreeInv => ReferralExposed!ReferrersInOrder
  BY DEF RefExposed!TreeInv, RefExposed!ReferrersInOrder, ReferralExposed!ReferrersInOrder
<1>3. ServicesInv => ReferrersInOrder
  BY <1>1, <1>2 DEF ServicesInv, ReferrersInOrder
<1>4. QED BY <1>3, ServicesInvariant, PTL

\* With one withdrawal at a time whose errors mean that nothing was paid, a
\* reward is paid out once, whenever one fails or the process dies.
THEOREM RewardsPaidOnce == Spec => []RewardPaidOnce
<1>1. Ref!RewardInv => Ref!RewardPaidOnce
  BY Ref!RewardsAreOnce
<1>2. Ref!RewardPaidOnce => Referral!RewardPaidOnce
  BY DEF Ref!RewardPaidOnce, Referral!RewardPaidOnce
<1>3. ServicesInv => RewardPaidOnce
  BY <1>1, <1>2 DEF ServicesInv, RewardPaidOnce
<1>4. QED BY <1>3, ServicesInvariant, PTL

\* acquireRpcSlot: when a slot is given, no more than the limit of its caller
\* have been in the last second, for any number of callers and any limits.
THEOREM RateStaysKept == Spec => RateKept
<1>1. ServicesInv /\ [Next]_vars =>
        [Len(queue') < Len(queue) => Limiter!Length(slots') <= Head(queue).limit]_(Limiter!vars)
  BY ServicesStep
<1>2. QED BY <1>1, ServicesInvariant, PTL DEF Spec, RateKept, Limiter!RateKept

-----------------------------------------------------------------------------
(* The types of the components: what their invariants leave open is where  *)
(* the counters end, and that what is kept was chosen from the constants.  *)

FilesFit == saved \subseteq Transfers /\ deaths \in 0..MaxDeaths

LEMMA FilesFitFirst == ASSUME Files!Init PROVE FilesFit
  BY ServicesAssumption DEF Files!Init, Files!Parameters, FilesFit

LEMMA FilesStayFit ==
  ASSUME FilesInv, FilesFit, Files!Next \/ UNCHANGED files
  PROVE  FilesFit'
<1>0. MaxDeaths \in Nat
  BY ServicesAssumption DEF Files!Parameters
<1>1. ASSUME NEW c \in Savers, NEW txs,
             \/ Files!SaveTransactions(c, txs) \/ Files!LoadTransactions(c) \/ Files!AcquireLock(c)
             \/ Files!LockThrows(c) \/ Files!ReadFile(c) \/ Files!Unlink(c) \/ Files!Open(c) \/ Files!Write(c)
      PROVE  UNCHANGED <<saved, deaths>>
  BY <1>1 DEF Files!SaveTransactions, Files!LoadTransactions, Files!AcquireLock, Files!LockThrows, Files!ReadFile,
              Files!Unlink, Files!Open, Files!Write, Files!Kept
<1>2. ASSUME NEW c \in Savers, Files!Release(c)
      PROVE  FilesFit'
  <2>1. save[c] \in SaveType
    BY DEF FilesInv, FileTypes, SaveType
  <2>2. save[c].txs \subseteq Transfers /\ saved' = saved \cup save[c].txs /\ deaths' = deaths
    BY <1>2, <2>1 DEF Files!Release, SaveType
  <2>3. QED BY <2>2 DEF FilesFit
<1>3. ASSUME NEW c \in Savers, Files!Dies(c)
      PROVE  FilesFit'
  BY <1>0, <1>3 DEF Files!Dies, FilesFit
<1>4. CASE Files!LockGoesStale \/ UNCHANGED files
  BY <1>4 DEF Files!LockGoesStale, Files!Kept, files, FilesFit
<1>5. QED BY <1>1, <1>2, <1>3, <1>4 DEF Files!Next, FilesFit

LEMMA FilesAreTyped == ASSUME FilesInv, FilesFit PROVE Files!TypeOK
<1>1. \A c \in Savers : save[c].txs \subseteq Transfers /\ save[c].merged \subseteq Transfers
  BY DEF FilesInv, FileTypes
<1>2. QED BY <1>1 DEF FilesInv, FileTypes, FilesFit, Files!TypeOK

ChatFit == unread \in [Chat!Convs -> 0..MaxUnread] /\ chat["r1"].total \in Nat /\ badge \in Nat

LEMMA ChatFitFirst == ASSUME Chat!Init PROVE ChatFit
<1>1. MaxUnread \in Nat
  BY ServicesAssumption DEF Chat!Parameters
<1>2. chat["r1"].total = 0
  BY DEF Chat!Init, Chat!Idle
<1>3. QED BY <1>1, <1>2 DEF Chat!Init, ChatFit

Anew(stage) ==
  \E c \in {0} \cup Chat!Convs : chat' = [chat EXCEPT !["r1"] = [Chat!Idle EXCEPT !.stage = stage, !.conv = c]]

\* A handler that goes on keeps the total it has, and one that ends or begins
\* has none.
LEMMA TotalKept ==
  ASSUME ChatInv, chat["r1"].total \in Nat, NEW stage,
         \/ chat' = [chat EXCEPT !["r1"] = Chat!Idle]
         \/ Anew(stage)
         \/ Chat!Goes("r1", stage)
  PROVE  chat'["r1"].total \in Nat
<1>1. chat \in [{"r1"} -> [stage : Stages, conv : {0} \cup Chat!Convs, total : Int]]
  BY DEF ChatInv
<1>2. chat["r1"] \in [stage : Stages, conv : {0} \cup Chat!Convs, total : Int]
  BY <1>1
<1>3. CASE Chat!Goes("r1", stage)
  <2>1. chat'["r1"] = [chat["r1"] EXCEPT !.stage = stage]
    BY <1>1, <1>3 DEF Chat!Goes
  <2>2. [chat["r1"] EXCEPT !.stage = stage].total = chat["r1"].total
    BY <1>2
  <2>3. QED BY <2>1, <2>2
<1>4. CASE chat' = [chat EXCEPT !["r1"] = Chat!Idle]
  BY <1>1, <1>4 DEF Chat!Idle
<1>5. CASE Anew(stage)
  <2>0. PICK c \in {0} \cup Chat!Convs : chat' = [chat EXCEPT !["r1"] = [Chat!Idle EXCEPT !.stage = stage, !.conv = c]]
    BY <1>5 DEF Anew
  <2>1. chat'["r1"] = [Chat!Idle EXCEPT !.stage = stage, !.conv = c]
    BY <1>1, <2>0
  <2>2. [Chat!Idle EXCEPT !.stage = stage, !.conv = c].total = 0
    BY DEF Chat!Idle
  <2>3. QED BY <2>1, <2>2
<1>6. QED BY <1>3, <1>4, <1>5

LEMMA ChatStaysFit ==
  ASSUME ChatInv, ChatFit, Chat!Next \/ UNCHANGED chats
  PROVE  ChatFit'
<1>0. NumConvs \in Nat /\ MaxUnread \in Nat
  BY ServicesAssumption DEF Chat!Parameters
<1>1. ASSUME NEW stage, NEW c \in {0} \cup Chat!Convs, Chat!Begins("r1", stage, c)
      PROVE  ChatFit'
  <2>1. chat' = [chat EXCEPT !["r1"] = [Chat!Idle EXCEPT !.stage = stage, !.conv = c]] /\ UNCHANGED <<unread, badge>>
    BY <1>1 DEF Chat!Begins
  <2>2. chat'["r1"].total \in Nat
    BY <2>1, TotalKept DEF ChatFit, Anew
  <2>3. QED BY <2>1, <2>2 DEF ChatFit
<1>2. ASSUME NEW by, NEW c \in Chat!Convs,
             \/ Chat!CreateConversation("r1") \/ Chat!SendMessage("r1", by, c)
             \/ Chat!Close("r1", c) \/ Chat!See("r1", c)
      PROVE  ChatFit'
  BY <1>1, <1>2 DEF Chat!CreateConversation, Chat!SendMessage, Chat!Close, Chat!See
<1>3. CASE Chat!CreateConversation("r1")
  BY <1>1, <1>3 DEF Chat!CreateConversation
<1>4. CASE Chat!InsertConversation("r1")
  BY <1>4, TotalKept DEF Chat!InsertConversation, Chat!Ends, ChatFit
<1>5. ASSUME NEW by \in {"user", "admin"}, Chat!SaveMessage("r1", by)
      PROVE  ChatFit'
  <2>1. badge' = badge /\ chat'["r1"].total \in Nat
    BY <1>5, TotalKept DEF Chat!SaveMessage, ChatFit
  <2>2. CASE unread' = unread
    BY <2>1, <2>2 DEF ChatFit
  <2>3. CASE /\ unread[chat["r1"].conv] < MaxUnread
             /\ unread' = [unread EXCEPT ![chat["r1"].conv] = @ + 1]
    <3>1. chat["r1"].conv \in Chat!Convs
      BY <1>5 DEF Chat!SaveMessage, Chat!At, ChatInv
    <3>2. unread[chat["r1"].conv] \in Nat /\ unread[chat["r1"].conv] + 1 \in 0..MaxUnread
      <4>1. unread \in [Chat!Convs -> Nat]
        BY DEF ChatInv
      <4>2. unread[chat["r1"].conv] \in Nat
        BY <3>1, <4>1
      <4>3. QED BY <1>0, <2>3, <4>2
    <3>3. unread' \in [Chat!Convs -> 0..MaxUnread]
      BY <2>3, <3>1, <3>2 DEF ChatFit
    <3>4. QED BY <2>1, <3>3 DEF ChatFit
  <2>4. QED BY <1>5, <2>2, <2>3 DEF Chat!SaveMessage
<1>6. CASE Chat!Touch("r1") \/ Chat!SaveClosed("r1")
  <2>1. chat'["r1"].total \in Nat
    BY <1>6, TotalKept DEF Chat!Touch, Chat!SaveClosed, Chat!Ends, ChatFit
  <2>2. UNCHANGED <<unread, badge>>
    BY <1>6 DEF Chat!Touch, Chat!SaveClosed
  <2>3. QED BY <2>1, <2>2 DEF ChatFit
<1>7. CASE Chat!MarkConversationSeen("r1")
  <2>1. chat'["r1"].total \in Nat
    BY <1>7, TotalKept DEF Chat!MarkConversationSeen, ChatFit
  <2>2. unread' = [unread EXCEPT ![chat["r1"].conv] = 0] /\ badge' = badge
    BY <1>7 DEF Chat!MarkConversationSeen
  <2>3. unread' \in [Chat!Convs -> 0..MaxUnread]
    <3>1. 0 \in 0..MaxUnread
      BY <1>0
    <3>2. QED BY <2>2, <3>1 DEF ChatFit
  <2>4. QED BY <2>1, <2>2, <2>3 DEF ChatFit
<1>8. CASE Chat!SumUp("r1")
  <2>1. chat' = [chat EXCEPT !["r1"].stage = "tell", !["r1"].total = Chat!Summary("r1")] /\ UNCHANGED <<unread, badge>>
    BY <1>8 DEF Chat!SumUp
  <2>2. Chat!Summary("r1") \in Nat
    <3>1. \A c \in 1..NumConvs : Chat!Unseen[c] \in Nat
      BY <1>0 DEF ChatInv, Chat!Unseen, Chat!Convs
    <3>2. Total(Chat!Unseen, NumConvs) \in Nat
      BY <1>0, <3>1, TotalNat
    <3>3. QED BY <3>2, UnseenIs DEF Chat!Summary
  <2>3. chat \in [{"r1"} -> [stage : Stages, conv : {0} \cup Chat!Convs, total : Int]]
    BY DEF ChatInv
  <2>4. chat'["r1"].total = Chat!Summary("r1")
    BY <2>1, <2>3
  <2>5. QED BY <2>1, <2>2, <2>4 DEF ChatFit
<1>9. CASE Chat!Tell("r1")
  <2>1. chat'["r1"].total \in Nat
    BY <1>9, TotalKept DEF Chat!Tell, Chat!Ends, ChatFit
  <2>2. badge' = chat["r1"].total /\ unread' = unread
    BY <1>9 DEF Chat!Tell
  <2>3. QED BY <2>1, <2>2 DEF ChatFit
<1>10. CASE UNCHANGED chats
  BY <1>10 DEF chats, ChatFit
<1>11. QED BY <1>2, <1>3, <1>4, <1>5, <1>6, <1>7, <1>8, <1>9, <1>10 DEF Chat!Next

LEMMA ChatIsTyped == ASSUME ChatInv, ChatFit PROVE Chat!TypeOK
<1>1. chat["r1"] \in [stage : Stages, conv : {0} \cup Chat!Convs, total : Int]
  BY DEF ChatInv
<1>2. QED BY <1>1 DEF ChatInv, ChatFit, Chat!TypeOK

-----------------------------------------------------------------------------
(* Types of the rate limiter, and of the money of referrals.               *)

Waiting == [caller : Callers, limit : Limits]
LimiterFit ==
  /\ setting \in Limits /\ cached \in Limits /\ age \in 0..CacheFor /\ sleep \in 0..Second
  /\ queue \in Seq(Waiting)

LEMMA LimiterFitFirst == ASSUME Limiter!Init PROVE LimiterFit
<1>1. Second \in Nat /\ CacheFor \in Nat
  BY ServicesAssumption DEF Limiter!Parameters
<1>2. QED BY <1>1 DEF Limiter!Init, LimiterFit

\* A window that is full has an oldest slot.
LEMMA FullHasOldest ==
  ASSUME NEW lot \in [Limiter!Ages -> Nat], NEW l \in Nat \ {0}, Limiter!Length(lot) >= l
  PROVE  Limiter!Oldest(lot) \in Limiter!Ages
<1>0. Second \in Nat /\ Second + 1 \in Nat /\ Limiter!Ages = 0..Second
  BY LimiterParameters
<1> DEFINE f == [i \in 1..Second + 1 |-> lot[i - 1]]
           T == {k \in 0..Second : lot[Second - k] > 0}
<1>1. Limiter!Length(lot) = Total(f, Second + 1)
  BY DEF Limiter!Length, Total, Limiter!Total
<1>2. T # {}
  <2>1. SUFFICES ASSUME T = {} PROVE FALSE
    OBVIOUS
  <2>2. ASSUME NEW i \in 1..Second + 1 PROVE f[i] = 0
    <3>1. f[i] = lot[i - 1] /\ i - 1 \in 0..Second
      BY <1>0
    <3>2. lot[i - 1] \in Nat
      BY <1>0, <3>1
    <3>3. Second - (i - 1) \in 0..Second /\ Second - (Second - (i - 1)) = i - 1
      BY <1>0, <3>1
    <3>4. ~(lot[i - 1] > 0)
      BY <2>1, <3>3
    <3>5. QED BY <3>1, <3>2, <3>4
  <2> HIDE DEF f, T
  <2>3. Total(f, Second + 1) = 0
    BY <1>0, <2>2, TotalZero
  <2>4. QED BY <1>1, <2>3
<1>8. T \subseteq Nat
  BY <1>0
<1> HIDE DEF T
<1>3. PICK k \in T : \A m \in T : k <= m
  BY <1>2, <1>8, LeastNat
<1>4. k \in 0..Second /\ Second - k \in 0..Second /\ lot[Second - k] > 0
  BY <1>0, <1>3 DEF T
<1>5. ASSUME NEW u \in 0..Second, lot[u] > 0 PROVE u <= Second - k
  <2>1. Second - u \in 0..Second /\ Second - (Second - u) = u
    BY <1>0
  <2>2. Second - u \in T
    BY <1>5, <2>1 DEF T
  <2>3. k <= Second - u
    BY <1>3, <2>2
  <2>4. QED BY <1>0, <1>4, <2>3
<1>6. \E t \in Limiter!Ages : lot[t] > 0 /\ \A u \in Limiter!Ages : lot[u] > 0 => u <= t
  BY <1>0, <1>4, <1>5
<1>7. QED BY <1>6 DEF Limiter!Oldest

LEMMA LimiterStaysFit ==
  ASSUME LimiterInv, LimiterFit, Limiter!Next \/ UNCHANGED limiter
  PROVE  LimiterFit'
<1>0. CacheFor \in Nat /\ Second \in Nat /\ Limits \subseteq Nat \ {0}
  BY ServicesAssumption DEF Limiter!Parameters
<1>1. /\ setting \in Limits /\ cached \in Limits /\ age \in 0..CacheFor /\ sleep \in 0..Second
      /\ queue \in Seq(Waiting)
  BY DEF LimiterFit
<1>2. ASSUME NEW c \in Callers, Limiter!Acquire(c)
      PROVE  LimiterFit'
  <2>1. Limiter!Limit \in Limits /\ cached' = Limiter!Limit /\ age' \in 0..CacheFor
    BY <1>0, <1>1, <1>2 DEF Limiter!Acquire, Limiter!Refreshed, Limiter!Limit
  <2>2. [caller |-> c, limit |-> Limiter!Limit] \in Waiting
    BY <2>1 DEF Waiting
  <2>3. queue' = Append(queue, [caller |-> c, limit |-> Limiter!Limit]) /\ UNCHANGED <<setting, sleep>>
    BY <1>2 DEF Limiter!Acquire
  <2>4. queue' \in Seq(Waiting)
    BY ONLY <1>1, <2>2, <2>3, OneMore
  <2>5. QED BY <1>1, <2>1, <2>3, <2>4 DEF LimiterFit
<1>3. CASE Limiter!GiveSlot
  <2>1. queue # <<>> /\ queue' = Tail(queue) /\ UNCHANGED <<setting, cached, age, sleep>>
    BY <1>3 DEF Limiter!GiveSlot
  <2>2. queue' \in Seq(Waiting)
    BY <1>1, <2>1
  <2>3. QED BY <1>1, <2>1, <2>2 DEF LimiterFit
<1>4. CASE Limiter!Sleep
  <2>1. /\ queue # <<>> /\ Limiter!Length(Limiter!Filter) >= Head(queue).limit
        /\ sleep' = Second - Limiter!Oldest(Limiter!Filter) /\ UNCHANGED <<setting, cached, age, queue>>
    BY <1>4 DEF Limiter!Sleep
  <2>2. Head(queue) \in Waiting
    BY <1>1, <2>1
  <2>3. Head(queue).limit \in Nat \ {0}
    BY <1>0, <2>2 DEF Waiting
  <2>4. Limiter!Filter \in [Limiter!Ages -> Nat]
    BY FilterIsSlots DEF LimiterInv
  <2>5. Limiter!Oldest(Limiter!Filter) \in 0..Second
    BY <2>1, <2>3, <2>4, FullHasOldest, LimiterParameters
  <2>6. sleep' \in 0..Second
    BY <1>0, <2>1, <2>5
  <2>7. QED BY <1>1, <2>1, <2>6 DEF LimiterFit
<1>5. CASE Limiter!Tick
  <2>1. /\ age' = (IF age < CacheFor THEN age + 1 ELSE age) /\ sleep' = (IF sleep = 0 THEN 0 ELSE sleep - 1)
        /\ UNCHANGED <<setting, cached, queue>>
    BY <1>5 DEF Limiter!Tick
  <2>2. age' \in 0..CacheFor /\ sleep' \in 0..Second
    BY <1>0, <1>1, <2>1
  <2>3. QED BY <1>1, <2>1, <2>2 DEF LimiterFit
<1>6. ASSUME NEW l \in Limits, Limiter!SetLimit(l)
      PROVE  LimiterFit'
  BY <1>1, <1>6 DEF Limiter!SetLimit, LimiterFit
<1>7. CASE UNCHANGED limiter
  BY <1>1, <1>7 DEF limiter, LimiterFit
<1>8. QED BY <1>2, <1>3, <1>4, <1>5, <1>6, <1>7 DEF Limiter!Next

LEMMA LimiterIsTyped == ASSUME LimiterInv, LimiterFit PROVE Limiter!TypeOK
  BY DEF LimiterInv, LimiterFit, Waiting, Limiter!TypeOK

\* The money of the referrals, too, is proved about in SmartRefProofs.
LEMMA ReferralFitFirst == ASSUME Referral!Init PROVE Ref!MoneyTypes
<1>1. Ref!Parameters
  BY ServicesAssumption DEF Referral!Parameters, Ref!Parameters
<1>2. Ref!Init
  BY DEF Referral!Init, Ref!Init, Referral!Idle, Ref!Idle
<1>3. QED BY <1>1, <1>2, Ref!InitMoney

LEMMA ReferralStaysFit ==
  ASSUME Ref!TreeInv, Ref!MoneyTypes, Referral!Next \/ UNCHANGED referral
  PROVE  Ref!MoneyTypes'
<1>1. Ref!Parameters
  BY ServicesAssumption DEF Referral!Parameters, Ref!Parameters
<1>2. Ref!Next \/ UNCHANGED Ref!vars
  BY ReferralStep DEF referral, Ref!vars
<1>3. QED BY <1>1, <1>2, Ref!MoneyStep

LEMMA ReferralIsTyped == ASSUME Ref!TreeInv, Ref!MoneyTypes PROVE Referral!TypeOK
<1>1. Ref!TypeOK
  BY Ref!MoneyIsTyped
<1>2. QED BY <1>1 DEF Ref!TypeOK, Referral!TypeOK, Ref!Rows, Referral!Rows

LEMMA ExposedFitFirst == ASSUME ReferralExposed!Init PROVE RefExposed!MoneyTypes
<1>1. RefExposed!Parameters
  BY ServicesAssumption DEF ReferralExposed!Parameters, RefExposed!Parameters
<1>2. RefExposed!Init
  BY DEF ReferralExposed!Init, RefExposed!Init, ReferralExposed!Idle, RefExposed!Idle
<1>3. QED BY <1>1, <1>2, RefExposed!InitMoney

LEMMA ExposedStaysFit ==
  ASSUME RefExposed!TreeInv, RefExposed!MoneyTypes, ReferralExposed!Next \/ UNCHANGED referral
  PROVE  RefExposed!MoneyTypes'
<1>1. RefExposed!Parameters
  BY ServicesAssumption DEF ReferralExposed!Parameters, RefExposed!Parameters
<1>2. RefExposed!Next \/ UNCHANGED RefExposed!vars
  BY ExposedStep DEF referral, RefExposed!vars
<1>3. QED BY <1>1, <1>2, RefExposed!MoneyStep

LEMMA ExposedIsTyped == ASSUME RefExposed!TreeInv, RefExposed!MoneyTypes PROVE ReferralExposed!TypeOK
<1>1. RefExposed!TypeOK
  BY RefExposed!MoneyIsTyped
<1>2. QED BY <1>1 DEF RefExposed!TypeOK, ReferralExposed!TypeOK, RefExposed!Rows, ReferralExposed!Rows

-----------------------------------------------------------------------------
(* Types of the tabs, their streams, and what goes between instances.      *)

\* The streams, whether Redis answers or not: for instances, tabs, and bounds
\* on the notifications and the streams, as both components have their own.
Commands == {"increment", "decrement", "delete"}
Listener(ins, most) == [on : ins \cup {"none"}, since : 0..most, heard : Seq(1..most)]

TabsFit(ins, tbs, most, opens) ==
  /\ tab \in [tbs -> Listener(ins, most)] /\ streams \in [ins -> SUBSET tbs] /\ opened \in 0..opens
WiresFit(ins) == count \in Int /\ wire \in [ins -> Seq(Commands)]
NotesFit(ins, most) ==
  /\ notes \in 0..most /\ saving \subseteq (1..most) \X ins /\ channel \in Seq(1..most)
  /\ \A k \in 1..Len(channel) : channel[k] <= notes
  /\ \A k, l \in 1..Len(channel) : channel[k] = channel[l] => k = l
  /\ \A s \in saving : s[1] <= notes /\ \A k \in 1..Len(channel) : channel[k] # s[1]
  /\ \A s, r \in saving : s[1] = r[1] => s = r
HeardFit(ins) == heardTo \in [ins -> Nat] /\ \A i \in ins : heardTo[i] <= Len(channel)
StreamFit(ins, tbs, most, opens) ==
  /\ TabsFit(ins, tbs, most, opens) /\ ready \in [ins -> BOOLEAN]
  /\ WiresFit(ins) /\ NotesFit(ins, most) /\ HeardFit(ins)

\* No more is published than is made.
LEMMA ChannelIsShort ==
  ASSUME NEW ins, NEW most \in Nat, NotesFit(ins, most)
  PROVE  Len(channel) \in 0..most
<1>1. channel \in Seq(1..most) /\ Len(channel) \in Nat
  BY DEF NotesFit
<1>2. channel \in Injection(1..Len(channel), 1..most)
  BY <1>1, SMTT(30) DEF NotesFit, Injection, IsInjective
<1>3. IsFiniteSet(1..most) /\ Cardinality(1..most) = most /\ Cardinality(1..Len(channel)) = Len(channel)
  <2>1. \A m \in Nat : IsFiniteSet(1..m) /\ Cardinality(1..m) = IF 1 > m THEN 0 ELSE m - 1 + 1
    BY FS_Interval
  <2>2. \A m \in Nat : (IF 1 > m THEN 0 ELSE m - 1 + 1) = m
    OBVIOUS
  <2>3. QED BY <1>1, <2>1, <2>2
<1>4. Cardinality(1..Len(channel)) <= Cardinality(1..most)
  BY <1>2, <1>3, FS_Injection
<1>5. QED BY <1>1, <1>3, <1>4

\* Without Redis, nothing is sent.
LEMMA SendFits ==
  ASSUME NEW ins, NEW i \in ins, NEW command \in Commands, WiresFit(ins), count' = count,
         \/ wire' = IF ready[i] THEN [wire EXCEPT ![i] = Append(@, command)] ELSE wire
         \/ wire' = wire
  PROVE  WiresFit(ins)'
<1>1. wire \in [ins -> Seq(Commands)] /\ wire[i] \in Seq(Commands)
  BY DEF WiresFit
<1>2. Append(wire[i], command) \in Seq(Commands)
  BY <1>1
<1>3. [wire EXCEPT ![i] = Append(@, command)] \in [ins -> Seq(Commands)]
  BY <1>1, <1>2
<1>4. QED BY <1>1, <1>3 DEF WiresFit

LEMMA ExecuteFits ==
  ASSUME NEW ins, NEW i \in ins, WiresFit(ins), wire[i] # <<>>, NEW more,
         count' = CASE Head(wire[i]) = "increment" -> count + 1
                    [] Head(wire[i]) = "decrement" -> count - 1
                    [] Head(wire[i]) = "delete"    -> 0,
         wire' = [wire EXCEPT ![i] = IF more THEN Append(Tail(wire[i]), "delete") ELSE Tail(wire[i])]
  PROVE  WiresFit(ins)'
<1>1. wire \in [ins -> Seq(Commands)] /\ wire[i] \in Seq(Commands) /\ count \in Int
  BY DEF WiresFit
<1>2. Head(wire[i]) \in Commands /\ Tail(wire[i]) \in Seq(Commands) /\ "delete" \in Commands
  BY <1>1 DEF Commands
<1>3. Append(Tail(wire[i]), "delete") \in Seq(Commands)
  BY <1>2
<1>4. wire' \in [ins -> Seq(Commands)]
  BY <1>1, <1>2, <1>3
<1>5. count' \in Int
  BY <1>1, <1>2 DEF Commands
<1>6. QED BY <1>4, <1>5 DEF WiresFit

\* A tab that opens or closes.
LEMMA TabFits ==
  ASSUME NEW ins, NEW tbs, NEW most, NEW opens, TabsFit(ins, tbs, most, opens),
         NEW t \in tbs, NEW i \in ins, NEW there \in Listener(ins, most), NEW open \in SUBSET tbs,
         tab' = [tab EXCEPT ![t] = there], streams' = [streams EXCEPT ![i] = open], opened' \in 0..opens
  PROVE  TabsFit(ins, tbs, most, opens)'
  BY DEF TabsFit

LEMMA SaveFits ==
  ASSUME NEW ins, NEW most \in Nat, NotesFit(ins, most), NEW i \in ins, notes < most, notes' = notes + 1,
         saving' = saving \cup {<<notes + 1, i>>}, channel' = channel
  PROVE  NotesFit(ins, most)'
<1>0. /\ channel \in Seq(1..most) /\ Len(channel) \in Nat /\ notes \in Nat /\ saving \subseteq (1..most) \X ins
      /\ \A k \in 1..Len(channel) : channel[k] \in Nat /\ channel[k] <= notes
  BY DEF NotesFit
<1>1. notes' \in 0..most /\ notes + 1 \in 1..most
  BY <1>0
<1>2. \A s \in saving' : s = <<notes + 1, i>> \/ (s \in saving /\ s[1] <= notes /\ s[1] \in Nat)
  BY <1>0 DEF NotesFit
<1>3. saving' \subseteq (1..most) \X ins
  BY <1>0, <1>1
<1>4. \A k \in 1..Len(channel) : channel[k] <= notes' /\ channel[k] # notes + 1
  BY <1>0
<1>5. \A s \in saving' : s[1] <= notes' /\ \A k \in 1..Len(channel) : channel[k] # s[1]
  BY <1>0, <1>2, <1>4 DEF NotesFit
<1>6. ASSUME NEW s \in saving', NEW r \in saving', s[1] = r[1]
      PROVE  s = r
  <2>1. <<notes + 1, i>>[1] = notes + 1
    OBVIOUS
  <2>2. CASE s \in saving /\ s[1] <= notes /\ s[1] \in Nat
    <3>1. r # <<notes + 1, i>>
      BY <1>0, <1>6, <2>1, <2>2
    <3>2. QED BY <1>2, <1>6, <2>2, <3>1 DEF NotesFit
  <2>3. CASE s = <<notes + 1, i>>
    <3>1. ~(r[1] <= notes)
      BY <1>0, <1>6, <2>1, <2>3
    <3>2. QED BY <1>2, <2>3, <3>1
  <2>4. QED BY <1>2, <2>2, <2>3
<1>7. QED BY <1>0, <1>1, <1>3, <1>4, <1>5, <1>6 DEF NotesFit

LEMMA PublishFits ==
  ASSUME NEW ins, NEW most \in Nat, NotesFit(ins, most), HeardFit(ins), NEW n \in 1..most, NEW i \in ins,
         <<n, i>> \in saving, saving' = saving \ {<<n, i>>}, UNCHANGED <<notes, heardTo>>,
         channel' = Append(channel, n) \/ channel' = channel
  PROVE  NotesFit(ins, most)' /\ HeardFit(ins)'
<1>0. /\ channel \in Seq(1..most) /\ Len(channel) \in Nat /\ notes \in 0..most /\ saving \subseteq (1..most) \X ins
      /\ heardTo \in [ins -> Nat] /\ \A j \in ins : heardTo[j] <= Len(channel)
  BY DEF NotesFit, HeardFit
<1>1. n <= notes /\ \A k \in 1..Len(channel) : channel[k] # n
  BY DEF NotesFit
<1>2. \A s \in saving' : s \in saving /\ s[1] # n
  BY DEF NotesFit
<1>3. CASE channel' = channel
  BY <1>0, <1>2, <1>3 DEF NotesFit, HeardFit
<1>4. CASE channel' = Append(channel, n)
  <2>1. /\ channel' \in Seq(1..most) /\ Len(channel') = Len(channel) + 1 /\ channel'[Len(channel) + 1] = n
        /\ \A k \in 1..Len(channel) : channel'[k] = channel[k]
        /\ \A k \in 1..Len(channel') : k = Len(channel) + 1 \/ k \in 1..Len(channel)
    BY ONLY <1>0, <1>4, n \in 1..most, OneMore
  <2>2. \A k \in 1..Len(channel') : channel'[k] <= notes'
    BY <1>1, <2>1 DEF NotesFit
  <2>3. \A k, l \in 1..Len(channel') : channel'[k] = channel'[l] => k = l
    BY <1>1, <2>1 DEF NotesFit
  <2>4. \A s \in saving' : s[1] <= notes' /\ \A k \in 1..Len(channel') : channel'[k] # s[1]
    BY <1>2, <2>1, SMTT(30) DEF NotesFit
  <2>5. \A s, r \in saving' : s[1] = r[1] => s = r
    BY <1>2 DEF NotesFit
  <2>6. \A j \in ins : heardTo'[j] <= Len(channel')
    BY <1>0, <2>1
  <2>7. saving' \subseteq (1..most) \X ins /\ notes' \in 0..most
    BY <1>0
  <2>8. HeardFit(ins)'
    BY <1>0, <2>6 DEF HeardFit
  <2>9. QED BY <2>1, <2>2, <2>3, <2>4, <2>5, <2>7, <2>8 DEF NotesFit
<1>5. QED BY <1>3, <1>4

\* Hearing, by the tabs that are open.
LEMMA HearFits ==
  ASSUME NEW ins, NEW tbs, NEW most \in Nat, NEW opens, TabsFit(ins, tbs, most, opens), NotesFit(ins, most),
         HeardFit(ins), NEW i \in ins, heardTo[i] < Len(channel), UNCHANGED <<streams, opened>>,
         tab' = [t \in tbs |-> IF t \in streams[i]
                               THEN [tab[t] EXCEPT !.heard = Append(@, channel[heardTo[i] + 1])] ELSE tab[t]]
  PROVE  TabsFit(ins, tbs, most, opens)'
<1>1. /\ channel \in Seq(1..most) /\ Len(channel) \in Nat /\ heardTo[i] \in Nat
      /\ tab \in [tbs -> Listener(ins, most)]
  BY DEF NotesFit, HeardFit, TabsFit
<1>2. channel[heardTo[i] + 1] \in 1..most
  BY <1>1
<1>3. ASSUME NEW t \in tbs
      PROVE  tab'[t] \in Listener(ins, most)
  <2>1. tab[t] \in Listener(ins, most) /\ tab[t].heard \in Seq(1..most)
    BY <1>1 DEF Listener
  <2> DEFINE more == Append(tab[t].heard, channel[heardTo[i] + 1])
  <2>2. more \in Seq(1..most)
    BY <1>2, <2>1
  <2>3. tab'[t] = IF t \in streams[i] THEN [tab[t] EXCEPT !.heard = more] ELSE tab[t]
    OBVIOUS
  <2> HIDE DEF more
  <2>4. [tab[t] EXCEPT !.heard = more] \in Listener(ins, most)
    BY <2>1, <2>2 DEF Listener
  <2>5. QED BY <2>1, <2>3, <2>4
<1>4. tab' \in [tbs -> Listener(ins, most)]
  BY <1>3
<1>5. QED BY <1>4 DEF TabsFit

LEMMA HeardMore ==
  ASSUME NEW ins, NEW most \in Nat, NotesFit(ins, most), HeardFit(ins), NEW i \in ins, heardTo[i] < Len(channel),
         heardTo' = [heardTo EXCEPT ![i] = @ + 1], channel' = channel
  PROVE  HeardFit(ins)'
<1>1. Len(channel) \in Nat /\ heardTo \in [ins -> Nat] /\ heardTo[i] \in Nat /\ \A j \in ins : heardTo[j] <= Len(channel)
  BY DEF NotesFit, HeardFit
<1>2. heardTo' \in [ins -> Nat] /\ \A j \in ins : heardTo'[j] = IF j = i THEN heardTo[i] + 1 ELSE heardTo[j]
  BY <1>1
<1>3. \A j \in ins : heardTo'[j] <= Len(channel)
  BY <1>1, <1>2
<1>4. QED BY <1>2, <1>3 DEF HeardFit

LEMMA RestartFits ==
  ASSUME NEW ins, NEW tbs, NEW most \in Nat, NEW opens, StreamFit(ins, tbs, most, opens), NEW i \in ins,
         NEW none \in Listener(ins, most),
         ready' = [ready EXCEPT ![i] = TRUE], streams' = [streams EXCEPT ![i] = {}],
         tab' = [t \in tbs |-> IF tab[t].on = i THEN none ELSE tab[t]],
         wire' = [wire EXCEPT ![i] = <<>>], saving' = {s \in saving : s[2] # i},
         heardTo' = [heardTo EXCEPT ![i] = Len(channel)], UNCHANGED <<count, notes, channel, opened>>
  PROVE  StreamFit(ins, tbs, most, opens)'
<1>1. TabsFit(ins, tbs, most, opens)'
  BY DEF StreamFit, TabsFit
<1>2. ready' \in [ins -> BOOLEAN]
  BY DEF StreamFit
<1>3. WiresFit(ins)'
  BY DEF StreamFit, WiresFit
<1>4. NotesFit(ins, most)'
  BY DEF StreamFit, NotesFit
<1>5. HeardFit(ins)'
  <2>1. Len(channel) \in Nat /\ heardTo \in [ins -> Nat] /\ \A j \in ins : heardTo[j] <= Len(channel)
    BY DEF StreamFit, NotesFit, HeardFit
  <2>2. heardTo' \in [ins -> Nat] /\ \A j \in ins : heardTo'[j] = IF j = i THEN Len(channel) ELSE heardTo[j]
    BY <2>1
  <2>3. \A j \in ins : heardTo'[j] <= Len(channel)
    BY <2>1, <2>2
  <2>4. QED BY <2>2, <2>3 DEF HeardFit
<1>6. QED BY <1>1, <1>2, <1>3, <1>4, <1>5 DEF StreamFit

\* The tabs while Redis answers.
LEMMA StreamFitFirst ==
  ASSUME Stream!Init
  PROVE  StreamFit(Instances, Tabs, MaxNotes, MaxOpened)
<1>1. MaxNotes \in Nat /\ MaxOpened \in Nat /\ <<>> \in Seq(1..MaxNotes) /\ <<>> \in Seq(Commands)
  BY ServicesAssumption DEF Stream!Parameters
<1>2. Stream!NoTab \in Listener(Instances, MaxNotes)
  BY <1>1 DEF Stream!NoTab, Stream!None, Listener
<1>3. TabsFit(Instances, Tabs, MaxNotes, MaxOpened)
  BY <1>1, <1>2 DEF Stream!Init, TabsFit
<1>4. WiresFit(Instances) /\ ready \in [Instances -> BOOLEAN]
  BY <1>1 DEF Stream!Init, WiresFit
<1>5. channel = <<>> /\ Len(channel) = 0 /\ notes = 0 /\ saving = {} /\ heardTo = [i \in Instances |-> 0]
  BY DEF Stream!Init
<1>6. NotesFit(Instances, MaxNotes) /\ HeardFit(Instances)
  BY <1>1, <1>5 DEF NotesFit, HeardFit
<1>7. QED BY <1>3, <1>4, <1>6 DEF StreamFit

LEMMA StreamStaysFit ==
  ASSUME StreamFit(Instances, Tabs, MaxNotes, MaxOpened), Stream!Next \/ UNCHANGED tabs
  PROVE  StreamFit(Instances, Tabs, MaxNotes, MaxOpened)'
<1> DEFINE Fit == StreamFit(Instances, Tabs, MaxNotes, MaxOpened)
<1>0. MaxNotes \in Nat /\ MaxOpened \in Nat /\ "increment" \in Commands /\ "decrement" \in Commands
  BY ServicesAssumption DEF Stream!Parameters, Commands
<1>1. /\ TabsFit(Instances, Tabs, MaxNotes, MaxOpened) /\ ready \in [Instances -> BOOLEAN]
      /\ WiresFit(Instances) /\ NotesFit(Instances, MaxNotes) /\ HeardFit(Instances)
  BY DEF StreamFit
<1>2. UNCHANGED <<tab, streams, opened>> => TabsFit(Instances, Tabs, MaxNotes, MaxOpened)'
  BY <1>1 DEF TabsFit
<1>3. UNCHANGED <<count, wire>> => WiresFit(Instances)'
  BY <1>1 DEF WiresFit
<1>4. UNCHANGED <<notes, saving, channel>> => NotesFit(Instances, MaxNotes)'
  BY <1>1 DEF NotesFit
<1>5. UNCHANGED <<channel, heardTo>> => HeardFit(Instances)'
  BY <1>1 DEF HeardFit
<1>6. Stream!NoTab \in Listener(Instances, MaxNotes)
  <2>1. <<>> \in Seq(1..MaxNotes)
    OBVIOUS
  <2>2. QED BY <1>0, <2>1 DEF Stream!NoTab, Stream!None, Listener
<1>7. ASSUME NEW i \in Instances, Stream!Execute(i)
      PROVE  Fit'
  <2> DEFINE more == Head(wire[i]) = "decrement" /\ count' <= 0 /\ ready[i]
  <2>1. /\ wire[i] # <<>> /\ UNCHANGED <<tab, streams, ready, notes, saving, channel, heardTo, opened>>
        /\ count' = CASE Head(wire[i]) = "increment" -> count + 1
                      [] Head(wire[i]) = "decrement" -> count - 1
                      [] Head(wire[i]) = "delete"    -> 0
        /\ wire' = [wire EXCEPT ![i] = IF more THEN Append(Tail(wire[i]), "delete") ELSE Tail(wire[i])]
    BY <1>7 DEF Stream!Execute, Stream!noteVars
  <2> HIDE DEF more
  <2>2. WiresFit(Instances)'
    BY <1>1, <2>1, ExecuteFits
  <2>3. QED BY <1>1, <1>2, <1>4, <1>5, <2>1, <2>2 DEF StreamFit
<1>8. ASSUME NEW i \in Instances, Stream!Save(i)
      PROVE  Fit'
  <2>1. /\ notes < MaxNotes /\ notes' = notes + 1 /\ saving' = saving \cup {<<notes + 1, i>>}
        /\ UNCHANGED <<tab, streams, ready, count, wire, channel, heardTo, opened>>
    BY <1>8 DEF Stream!Save, Stream!redis
  <2>2. NotesFit(Instances, MaxNotes)'
    BY <1>0, <1>1, <2>1, SaveFits
  <2>3. QED BY <1>1, <1>2, <1>3, <1>5, <2>1, <2>2 DEF StreamFit
<1>9. ASSUME NEW i \in Instances, NEW n \in 1..MaxNotes, Stream!Publish(n, i)
      PROVE  Fit'
  <2>1. /\ <<n, i>> \in saving /\ saving' = saving \ {<<n, i>>}
        /\ channel' = Append(channel, n) \/ channel' = channel
        /\ UNCHANGED <<tab, streams, ready, count, wire, notes, heardTo, opened>>
    BY <1>9 DEF Stream!Publish, Stream!redis
  <2>2. NotesFit(Instances, MaxNotes)' /\ HeardFit(Instances)'
    BY <1>0, <1>1, <2>1, PublishFits
  <2>3. QED BY <1>1, <1>2, <1>3, <2>1, <2>2 DEF StreamFit
<1>10. ASSUME NEW i \in Instances, Stream!Hear(i)
       PROVE  Fit'
  <2>1. /\ heardTo[i] < Len(channel) /\ heardTo' = [heardTo EXCEPT ![i] = @ + 1]
        /\ tab' = [t \in Tabs |-> IF t \in streams[i]
                                  THEN [tab[t] EXCEPT !.heard = Append(@, channel[heardTo[i] + 1])] ELSE tab[t]]
        /\ UNCHANGED <<streams, ready, count, wire, notes, saving, channel, opened>>
    BY <1>10 DEF Stream!Hear, Stream!redis
  <2>2. TabsFit(Instances, Tabs, MaxNotes, MaxOpened)'
    BY <1>0, <1>1, <2>1, HearFits
  <2>3. HeardFit(Instances)'
    BY <1>0, <1>1, <2>1, HeardMore
  <2>4. QED BY <1>1, <1>3, <1>4, <2>1, <2>2, <2>3 DEF StreamFit
<1>11. ASSUME NEW i \in Instances, Stream!RedisError(i)
       PROVE  Fit'
  <2>1. /\ ready' = [ready EXCEPT ![i] = FALSE]
        /\ UNCHANGED <<tab, streams, count, wire, notes, saving, channel, heardTo, opened>>
    BY <1>11 DEF Stream!RedisError, Stream!noteVars
  <2>2. ready' \in [Instances -> BOOLEAN]
    BY <1>1, <2>1
  <2>3. QED BY <1>1, <1>2, <1>3, <1>4, <1>5, <2>1, <2>2 DEF StreamFit
<1>12. ASSUME NEW i \in Instances, Stream!Unheard(i)
       PROVE  Fit'
  <2>1. /\ heardTo[i] < Len(channel) /\ heardTo' = [heardTo EXCEPT ![i] = @ + 1]
        /\ UNCHANGED <<tab, streams, ready, count, wire, notes, saving, channel, opened>>
    BY <1>12 DEF Stream!Unheard, Stream!redis
  <2>2. HeardFit(Instances)'
    BY <1>0, <1>1, <2>1, HeardMore
  <2>3. QED BY <1>1, <1>2, <1>3, <1>4, <2>1, <2>2 DEF StreamFit
<1>13. ASSUME NEW i \in Instances, Stream!Restart(i)
       PROVE  Fit'
  BY <1>0, <1>6, <1>13, RestartFits DEF Stream!Restart
<1>14. ASSUME NEW i \in Instances, NEW t \in Tabs, Stream!Connect(i, t)
       PROVE  Fit'
  <2> DEFINE there == [on |-> i, since |-> Len(channel), heard |-> <<>>]
  <2>1. /\ opened < MaxOpened /\ opened' = opened + 1 /\ tab' = [tab EXCEPT ![t] = there]
        /\ streams' = [streams EXCEPT ![i] = streams[i] \cup {t}]
        /\ UNCHANGED <<ready, count, notes, saving, channel, heardTo>>
        /\ \/ wire' = IF ready[i] THEN [wire EXCEPT ![i] = Append(@, "increment")] ELSE wire
           \/ wire' = wire
    BY <1>14 DEF Stream!Connect, Stream!Added, Stream!Sends, Stream!noteVars
  <2>2. there \in Listener(Instances, MaxNotes)
    <3>1. <<>> \in Seq(1..MaxNotes)
      OBVIOUS
    <3>2. Len(channel) \in 0..MaxNotes
      BY <1>0, <1>1, ChannelIsShort
    <3>3. QED BY <3>1, <3>2 DEF Listener
  <2>3. streams[i] \cup {t} \in SUBSET Tabs /\ opened' \in 0..MaxOpened
    BY <1>0, <1>1, <2>1 DEF TabsFit
  <2> HIDE DEF there
  <2>4. TabsFit(Instances, Tabs, MaxNotes, MaxOpened)'
    BY <1>1, <2>1, <2>2, <2>3, TabFits
  <2>5. WiresFit(Instances)'
    BY <1>0, <1>1, <2>1, SendFits
  <2>6. QED BY <1>1, <1>4, <1>5, <2>1, <2>4, <2>5 DEF StreamFit
<1>15. ASSUME NEW t \in Tabs, Stream!Disconnect(t)
       PROVE  Fit'
  <2> DEFINE i == tab[t].on
  <2>1. /\ i # "none" /\ tab' = [tab EXCEPT ![t] = Stream!NoTab] /\ streams' = [streams EXCEPT ![i] = streams[i] \ {t}]
        /\ UNCHANGED <<ready, count, notes, saving, channel, heardTo, opened>>
        /\ \/ wire' = IF ready[i] THEN [wire EXCEPT ![i] = Append(@, "decrement")] ELSE wire
           \/ wire' = wire
    BY <1>15 DEF Stream!Disconnect, Stream!Removed, Stream!Sends, Stream!noteVars, Stream!None
  <2>2. i \in Instances
    BY <1>1, <2>1 DEF TabsFit, Listener
  <2> HIDE DEF i
  <2>3. streams[i] \ {t} \in SUBSET Tabs /\ opened' \in 0..MaxOpened
    BY <1>1, <2>1, <2>2 DEF TabsFit
  <2>4. TabsFit(Instances, Tabs, MaxNotes, MaxOpened)'
    BY <1>1, <1>6, <2>1, <2>2, <2>3, TabFits
  <2>5. WiresFit(Instances)'
    BY <1>0, <1>1, <2>1, <2>2, SendFits
  <2>6. QED BY <1>1, <1>4, <1>5, <2>1, <2>4, <2>5 DEF StreamFit
<1>16. CASE UNCHANGED tabs
  BY <1>1, <1>2, <1>3, <1>4, <1>5, <1>16 DEF tabs, StreamFit
<1>17. QED BY <1>7, <1>8, <1>9, <1>10, <1>11, <1>12, <1>13, <1>14, <1>15, <1>16 DEF Stream!Next

LEMMA StreamIsTyped == ASSUME StreamFit(Instances, Tabs, MaxNotes, MaxOpened) PROVE Stream!TypeOK
<1>1. MaxNotes \in Nat
  BY ServicesAssumption DEF Stream!Parameters
<1>2. tab \in [Tabs -> [on : Instances \cup {Stream!None}, since : 0..MaxNotes, heard : Seq(1..MaxNotes)]]
  BY DEF StreamFit, TabsFit, Listener, Stream!None
<1>3. \A i \in Instances : heardTo[i] \in 0..Len(channel)
  BY DEF StreamFit, NotesFit, HeardFit
<1>4. count \in Int /\ \A i \in Instances : wire[i] \in Seq({"increment", "decrement", "delete"})
  BY DEF StreamFit, WiresFit, Commands
<1>5. QED BY <1>2, <1>3, <1>4 DEF StreamFit, TabsFit, NotesFit, Stream!TypeOK

\* One tab on two instances, whose connections to Redis fail, and which restart.
LEMMA StreamExposedFitFirst ==
  ASSUME StreamExposed!Init
  PROVE  StreamFit({"i1", "i2"}, {"t1"}, 1, 2)
<1>1. 1 \in Nat /\ 2 \in Nat /\ <<>> \in Seq(1..1) /\ <<>> \in Seq(Commands)
  BY ServicesAssumption DEF StreamExposed!Parameters
<1>2. StreamExposed!NoTab \in Listener({"i1", "i2"}, 1)
  BY <1>1 DEF StreamExposed!NoTab, StreamExposed!None, Listener
<1>3. TabsFit({"i1", "i2"}, {"t1"}, 1, 2)
  BY <1>1, <1>2 DEF StreamExposed!Init, TabsFit
<1>4. WiresFit({"i1", "i2"}) /\ ready \in [{"i1", "i2"} -> BOOLEAN]
  BY <1>1 DEF StreamExposed!Init, WiresFit
<1>5. channel = <<>> /\ Len(channel) = 0 /\ notes = 0 /\ saving = {} /\ heardTo = [i \in {"i1", "i2"} |-> 0]
  BY DEF StreamExposed!Init
<1>6. NotesFit({"i1", "i2"}, 1) /\ HeardFit({"i1", "i2"})
  BY <1>1, <1>5 DEF NotesFit, HeardFit
<1>7. QED BY <1>3, <1>4, <1>6 DEF StreamFit

LEMMA StreamExposedStaysFit ==
  ASSUME StreamFit({"i1", "i2"}, {"t1"}, 1, 2), StreamExposed!Next \/ UNCHANGED tabs
  PROVE  StreamFit({"i1", "i2"}, {"t1"}, 1, 2)'
<1> DEFINE Fit == StreamFit({"i1", "i2"}, {"t1"}, 1, 2)
<1>0. 1 \in Nat /\ 2 \in Nat /\ "increment" \in Commands /\ "decrement" \in Commands
  BY ServicesAssumption DEF StreamExposed!Parameters, Commands
<1>1. /\ TabsFit({"i1", "i2"}, {"t1"}, 1, 2) /\ ready \in [{"i1", "i2"} -> BOOLEAN]
      /\ WiresFit({"i1", "i2"}) /\ NotesFit({"i1", "i2"}, 1) /\ HeardFit({"i1", "i2"})
  BY DEF StreamFit
<1>2. UNCHANGED <<tab, streams, opened>> => TabsFit({"i1", "i2"}, {"t1"}, 1, 2)'
  BY <1>1 DEF TabsFit
<1>3. UNCHANGED <<count, wire>> => WiresFit({"i1", "i2"})'
  BY <1>1 DEF WiresFit
<1>4. UNCHANGED <<notes, saving, channel>> => NotesFit({"i1", "i2"}, 1)'
  BY <1>1 DEF NotesFit
<1>5. UNCHANGED <<channel, heardTo>> => HeardFit({"i1", "i2"})'
  BY <1>1 DEF HeardFit
<1>6. StreamExposed!NoTab \in Listener({"i1", "i2"}, 1)
  <2>1. <<>> \in Seq(1..1)
    OBVIOUS
  <2>2. QED BY <1>0, <2>1 DEF StreamExposed!NoTab, StreamExposed!None, Listener
<1>7. ASSUME NEW i \in {"i1", "i2"}, StreamExposed!Execute(i)
      PROVE  Fit'
  <2> DEFINE more == Head(wire[i]) = "decrement" /\ count' <= 0 /\ ready[i]
  <2>1. /\ wire[i] # <<>> /\ UNCHANGED <<tab, streams, ready, notes, saving, channel, heardTo, opened>>
        /\ count' = CASE Head(wire[i]) = "increment" -> count + 1
                      [] Head(wire[i]) = "decrement" -> count - 1
                      [] Head(wire[i]) = "delete"    -> 0
        /\ wire' = [wire EXCEPT ![i] = IF more THEN Append(Tail(wire[i]), "delete") ELSE Tail(wire[i])]
    BY <1>7 DEF StreamExposed!Execute, StreamExposed!noteVars
  <2> HIDE DEF more
  <2>2. WiresFit({"i1", "i2"})'
    BY <1>1, <2>1, ExecuteFits
  <2>3. QED BY <1>1, <1>2, <1>4, <1>5, <2>1, <2>2 DEF StreamFit
<1>8. ASSUME NEW i \in {"i1", "i2"}, StreamExposed!Save(i)
      PROVE  Fit'
  <2>1. /\ notes < 1 /\ notes' = notes + 1 /\ saving' = saving \cup {<<notes + 1, i>>}
        /\ UNCHANGED <<tab, streams, ready, count, wire, channel, heardTo, opened>>
    BY <1>8 DEF StreamExposed!Save, StreamExposed!redis
  <2>2. NotesFit({"i1", "i2"}, 1)'
    BY <1>0, <1>1, <2>1, SaveFits
  <2>3. QED BY <1>1, <1>2, <1>3, <1>5, <2>1, <2>2 DEF StreamFit
<1>9. ASSUME NEW i \in {"i1", "i2"}, NEW n \in 1..1, StreamExposed!Publish(n, i)
      PROVE  Fit'
  <2>1. /\ <<n, i>> \in saving /\ saving' = saving \ {<<n, i>>}
        /\ channel' = Append(channel, n) \/ channel' = channel
        /\ UNCHANGED <<tab, streams, ready, count, wire, notes, heardTo, opened>>
    BY <1>9 DEF StreamExposed!Publish, StreamExposed!redis
  <2>2. NotesFit({"i1", "i2"}, 1)' /\ HeardFit({"i1", "i2"})'
    BY <1>0, <1>1, <2>1, PublishFits
  <2>3. QED BY <1>1, <1>2, <1>3, <2>1, <2>2 DEF StreamFit
<1>10. ASSUME NEW i \in {"i1", "i2"}, StreamExposed!Hear(i)
       PROVE  Fit'
  <2>1. /\ heardTo[i] < Len(channel) /\ heardTo' = [heardTo EXCEPT ![i] = @ + 1]
        /\ tab' = [t \in {"t1"} |-> IF t \in streams[i]
                                  THEN [tab[t] EXCEPT !.heard = Append(@, channel[heardTo[i] + 1])] ELSE tab[t]]
        /\ UNCHANGED <<streams, ready, count, wire, notes, saving, channel, opened>>
    BY <1>10 DEF StreamExposed!Hear, StreamExposed!redis
  <2>2. TabsFit({"i1", "i2"}, {"t1"}, 1, 2)'
    BY <1>0, <1>1, <2>1, HearFits
  <2>3. HeardFit({"i1", "i2"})'
    BY <1>0, <1>1, <2>1, HeardMore
  <2>4. QED BY <1>1, <1>3, <1>4, <2>1, <2>2, <2>3 DEF StreamFit
<1>11. ASSUME NEW i \in {"i1", "i2"}, StreamExposed!RedisError(i)
       PROVE  Fit'
  <2>1. /\ ready' = [ready EXCEPT ![i] = FALSE]
        /\ UNCHANGED <<tab, streams, count, wire, notes, saving, channel, heardTo, opened>>
    BY <1>11 DEF StreamExposed!RedisError, StreamExposed!noteVars
  <2>2. ready' \in [{"i1", "i2"} -> BOOLEAN]
    BY <1>1, <2>1
  <2>3. QED BY <1>1, <1>2, <1>3, <1>4, <1>5, <2>1, <2>2 DEF StreamFit
<1>12. ASSUME NEW i \in {"i1", "i2"}, StreamExposed!Unheard(i)
       PROVE  Fit'
  <2>1. /\ heardTo[i] < Len(channel) /\ heardTo' = [heardTo EXCEPT ![i] = @ + 1]
        /\ UNCHANGED <<tab, streams, ready, count, wire, notes, saving, channel, opened>>
    BY <1>12 DEF StreamExposed!Unheard, StreamExposed!redis
  <2>2. HeardFit({"i1", "i2"})'
    BY <1>0, <1>1, <2>1, HeardMore
  <2>3. QED BY <1>1, <1>2, <1>3, <1>4, <2>1, <2>2 DEF StreamFit
<1>13. ASSUME NEW i \in {"i1", "i2"}, StreamExposed!Restart(i)
       PROVE  Fit'
  BY <1>0, <1>6, <1>13, RestartFits DEF StreamExposed!Restart
<1>14. ASSUME NEW i \in {"i1", "i2"}, NEW t \in {"t1"}, StreamExposed!Connect(i, t)
       PROVE  Fit'
  <2> DEFINE there == [on |-> i, since |-> Len(channel), heard |-> <<>>]
  <2>1. /\ opened < 2 /\ opened' = opened + 1 /\ tab' = [tab EXCEPT ![t] = there]
        /\ streams' = [streams EXCEPT ![i] = streams[i] \cup {t}]
        /\ UNCHANGED <<ready, count, notes, saving, channel, heardTo>>
        /\ \/ wire' = IF ready[i] THEN [wire EXCEPT ![i] = Append(@, "increment")] ELSE wire
           \/ wire' = wire
    BY <1>14 DEF StreamExposed!Connect, StreamExposed!Added, StreamExposed!Sends, StreamExposed!noteVars
  <2>2. there \in Listener({"i1", "i2"}, 1)
    <3>1. <<>> \in Seq(1..1)
      OBVIOUS
    <3>2. Len(channel) \in 0..1
      BY <1>0, <1>1, ChannelIsShort
    <3>3. QED BY <3>1, <3>2 DEF Listener
  <2>3. streams[i] \cup {t} \in SUBSET {"t1"} /\ opened' \in 0..2
    BY <1>0, <1>1, <2>1 DEF TabsFit
  <2> HIDE DEF there
  <2>4. TabsFit({"i1", "i2"}, {"t1"}, 1, 2)'
    BY <1>1, <2>1, <2>2, <2>3, TabFits
  <2>5. WiresFit({"i1", "i2"})'
    BY <1>0, <1>1, <2>1, SendFits
  <2>6. QED BY <1>1, <1>4, <1>5, <2>1, <2>4, <2>5 DEF StreamFit
<1>15. ASSUME NEW t \in {"t1"}, StreamExposed!Disconnect(t)
       PROVE  Fit'
  <2> DEFINE i == tab[t].on
  <2>1. /\ i # "none" /\ tab' = [tab EXCEPT ![t] = StreamExposed!NoTab] /\ streams' = [streams EXCEPT ![i] = streams[i] \ {t}]
        /\ UNCHANGED <<ready, count, notes, saving, channel, heardTo, opened>>
        /\ \/ wire' = IF ready[i] THEN [wire EXCEPT ![i] = Append(@, "decrement")] ELSE wire
           \/ wire' = wire
    BY <1>15 DEF StreamExposed!Disconnect, StreamExposed!Removed, StreamExposed!Sends, StreamExposed!noteVars, StreamExposed!None
  <2>2. i \in {"i1", "i2"}
    BY <1>1, <2>1 DEF TabsFit, Listener
  <2> HIDE DEF i
  <2>3. streams[i] \ {t} \in SUBSET {"t1"} /\ opened' \in 0..2
    BY <1>1, <2>1, <2>2 DEF TabsFit
  <2>4. TabsFit({"i1", "i2"}, {"t1"}, 1, 2)'
    BY <1>1, <1>6, <2>1, <2>2, <2>3, TabFits
  <2>5. WiresFit({"i1", "i2"})'
    BY <1>0, <1>1, <2>1, <2>2, SendFits
  <2>6. QED BY <1>1, <1>4, <1>5, <2>1, <2>4, <2>5 DEF StreamFit
<1>16. CASE UNCHANGED tabs
  BY <1>1, <1>2, <1>3, <1>4, <1>5, <1>16 DEF tabs, StreamFit
<1>17. QED BY <1>7, <1>8, <1>9, <1>10, <1>11, <1>12, <1>13, <1>14, <1>15, <1>16 DEF StreamExposed!Next

LEMMA StreamExposedIsTyped == ASSUME StreamFit({"i1", "i2"}, {"t1"}, 1, 2) PROVE StreamExposed!TypeOK
<1>1. 1 \in Nat
  BY ServicesAssumption DEF StreamExposed!Parameters
<1>2. tab \in [{"t1"} -> [on : {"i1", "i2"} \cup {StreamExposed!None}, since : 0..1, heard : Seq(1..1)]]
  BY DEF StreamFit, TabsFit, Listener, StreamExposed!None
<1>3. \A i \in {"i1", "i2"} : heardTo[i] \in 0..Len(channel)
  BY DEF StreamFit, NotesFit, HeardFit
<1>4. count \in Int /\ \A i \in {"i1", "i2"} : wire[i] \in Seq({"increment", "decrement", "delete"})
  BY DEF StreamFit, WiresFit, Commands
<1>5. QED BY <1>2, <1>3, <1>4 DEF StreamFit, TabsFit, NotesFit, StreamExposed!TypeOK

-----------------------------------------------------------------------------
(* Types of accounts and their codes.                                      *)

\* Accounts: the codes are as old as they may be, and a request holds one that
\* was made.
CodesFit == codes \in Seq(SignIn!Code) /\ Len(codes) <= MaxCodes
AccountFit ==
  /\ CodesFit /\ access \in 0..TokenLife /\ refresh \in BOOLEAN
  /\ session["r1"].code \in {0} \cup DOMAIN codes

LEMMA AccountBounds == MaxCodes \in Nat /\ CodeLife \in Nat /\ TokenLife \in Nat /\ MaxCuts \in Nat
  BY ServicesAssumption DEF SignIn!Parameters

LEMMA AccountFitFirst == ASSUME SignIn!Init PROVE AccountFit
<1>1. codes = <<>> /\ access = 0 /\ refresh = FALSE /\ session["r1"].code = 0
  BY DEF SignIn!Init, SignIn!Idle
<1>2. <<>> \in Seq(SignIn!Code) /\ Len(<<>>) = 0
  OBVIOUS
<1>3. CodesFit
  <2>1. codes \in Seq(SignIn!Code) /\ Len(codes) = 0
    BY <1>1, <1>2
  <2>2. QED BY <2>1, AccountBounds DEF CodesFit
<1>4. access \in 0..TokenLife /\ session["r1"].code \in {0} \cup DOMAIN codes
  BY <1>1, AccountBounds
<1>5. QED BY <1>1, <1>3, <1>4 DEF AccountFit

\* The code a request holds when it begins, goes on or ends.
LEMMA HeldCode ==
  ASSUME AccountInv, AccountFit, NEW stage \in SignInStages, NEW kind \in SignIn!Kinds, NEW c \in {0} \cup DOMAIN codes,
         \/ SignIn!Goes("r1", stage) \/ SignIn!Ends("r1") \/ SignIn!Begins("r1", stage, kind, c)
  PROVE  session'["r1"].code \in {0} \cup DOMAIN codes
<1>1. session \in [{"r1"} -> SomeRequest] /\ session["r1"].code \in {0} \cup DOMAIN codes
  BY DEF AccountInv, AccountTypes, AccountFit
<1>2. CASE SignIn!Goes("r1", stage)
  <2>1. PICK moved \in SomeRequest : moved.code = session["r1"].code /\ session' = [session EXCEPT !["r1"] = moved]
    BY <1>2, Gone
  <2>2. session'["r1"] = moved
    BY <1>1, <2>1
  <2>3. QED BY <1>1, <2>1, <2>2
<1>3. CASE SignIn!Ends("r1")
  BY <1>1, <1>3 DEF SignIn!Ends, SignIn!Idle
<1>4. CASE SignIn!Begins("r1", stage, kind, c)
  <2> DEFINE begun == [stage |-> stage, kind |-> kind, code |-> c, had |-> 0]
  <2>1. c \in Nat
    BY AccountFacts
  <2>2. session' = [session EXCEPT !["r1"] = begun] /\ begun.code = c
    BY <1>4, <2>1, Begun
  <2> HIDE DEF begun
  <2>3. session'["r1"] = begun
    BY <1>1, <2>2
  <2>4. QED BY <2>2, <2>3
<1>5. QED BY <1>2, <1>3, <1>4

\* A code changes.
LEMMA CodeFits ==
  ASSUME CodesFit, NEW i \in 1..Len(codes), NEW code \in SignIn!Code, codes' = [codes EXCEPT ![i] = code]
  PROVE  CodesFit' /\ DOMAIN codes' = DOMAIN codes
<1>1. codes \in Seq(SignIn!Code) /\ DOMAIN codes = 1..Len(codes) /\ Len(codes) <= MaxCodes
  BY DEF CodesFit
<1>2. codes' = [j \in 1..Len(codes) |-> codes'[j]]
  BY <1>1
<1>5. \A j \in 1..Len(codes) : codes[j] \in SignIn!Code
  BY <1>1
<1>6. \A j \in 1..Len(codes) : codes'[j] = IF j = i THEN code ELSE codes[j]
  BY <1>1
<1>7. \A j \in 1..Len(codes) : codes'[j] \in SignIn!Code
  BY <1>5, <1>6
<1>3. codes' \in Seq(SignIn!Code) /\ Len(codes') = Len(codes) /\ DOMAIN codes' = 1..Len(codes)
  BY ONLY <1>1, <1>2, <1>7, SameLength
<1>4. QED BY <1>1, <1>3 DEF CodesFit

LEMMA DeadIsCode ==
  ASSUME NEW code \in SignIn!Code
  PROVE  [code EXCEPT !.alive = FALSE] \in SignIn!Code /\ [code EXCEPT !.uses = code.uses + 1] \in SignIn!Code
<1>1. [code EXCEPT !.alive = FALSE] \in SignIn!Code
  BY DEF SignIn!Code
<1>2. code.uses + 1 \in Nat
  BY DEF SignIn!Code
<1>3. [code EXCEPT !.uses = code.uses + 1] \in SignIn!Code
  BY <1>2 DEF SignIn!Code
<1>4. QED BY <1>1, <1>3

\* The steps that change what the codes say.
LEMMA CodesStayFit ==
  ASSUME AccountInv, AccountFit,
         \/ \E c \in DOMAIN codes : SignIn!TryExpired("r1", c)
         \/ SignIn!Accept("r1") \/ SignIn!Spend("r1") \/ SignIn!LetThrough("r1") \/ SignIn!Crash("r1")
  PROVE  CodesFit' /\ DOMAIN codes' = DOMAIN codes
<1>0. CodesFit /\ codes \in Seq(SignIn!Code) /\ DOMAIN codes = 1..Len(codes)
  BY DEF AccountFit, CodesFit
<1> DEFINE c == session["r1"].code
<1>1. session["r1"].stage \in {"accept", "spend", "let through"} => c \in 1..Len(codes) /\ codes[c] \in SignIn!Code
  <2>1. session["r1"].stage \in {"accept", "spend", "let through"} => c \in 1..Len(codes)
    BY DEF AccountInv, HoldsTrue
  <2>2. \A i \in 1..Len(codes) : codes[i] \in SignIn!Code
    BY <1>0
  <2>3. QED BY <2>1, <2>2
<1>2. ASSUME NEW d \in DOMAIN codes, SignIn!TryExpired("r1", d)
      PROVE  CodesFit' /\ DOMAIN codes' = DOMAIN codes
  <2>1. d \in 1..Len(codes) /\ codes[d] \in SignIn!Code
    BY <1>0
  <2>2. codes' = [codes EXCEPT ![d] = [codes[d] EXCEPT !.alive = FALSE]]
    BY <1>2 DEF SignIn!TryExpired, SignIn!Dead
  <2>3. QED BY <1>0, <2>1, <2>2, DeadIsCode, CodeFits
<1>3. CASE SignIn!Accept("r1")
  <2>1. /\ c \in 1..Len(codes) /\ codes[c] \in SignIn!Code
        /\ codes' = [codes EXCEPT ![c] = [codes[c] EXCEPT !.uses = codes[c].uses + 1]]
    BY <1>1, <1>3 DEF SignIn!Accept, SignIn!At
  <2> HIDE DEF c
  <2>2. QED BY <1>0, <2>1, DeadIsCode, CodeFits
<1>4. CASE SignIn!Spend("r1")
  <2>1. /\ c \in 1..Len(codes) /\ codes[c] \in SignIn!Code
        /\ codes' = [codes EXCEPT ![c] = [codes[c] EXCEPT !.alive = FALSE]]
    BY <1>1, <1>4 DEF SignIn!Spend, SignIn!Spent, SignIn!Dead, SignIn!At
  <2> HIDE DEF c
  <2>2. QED BY <1>0, <2>1, DeadIsCode, CodeFits
<1>5. CASE SignIn!LetThrough("r1")
  <2> DEFINE dead == [codes[c] EXCEPT !.alive = FALSE]
             code == [dead EXCEPT !.uses = dead.uses + 1]
  <2>1. /\ c \in 1..Len(codes) /\ codes[c] \in SignIn!Code
        /\ codes' = [[codes EXCEPT ![c].alive = FALSE] EXCEPT ![c].uses = @ + 1]
    BY <1>1, <1>5 DEF SignIn!LetThrough, SignIn!Spent, SignIn!Dead, SignIn!At
  <2>2. codes' = [codes EXCEPT ![c] = code]
    BY <1>0, <2>1
  <2>3. dead \in SignIn!Code
    BY <2>1, DeadIsCode
  <2> HIDE DEF c, dead
  <2>4. code \in SignIn!Code
    BY <2>3, DeadIsCode
  <2> HIDE DEF code
  <2>5. QED BY <1>0, <2>1, <2>2, <2>4, CodeFits
<1>6. CASE SignIn!Crash("r1")
  <2>1. CASE session["r1"].stage = "spend"
    <3> DEFINE code == [codes[c] EXCEPT !.cut = codes[c].cut + 1]
    <3>1. /\ c \in 1..Len(codes) /\ codes[c] \in SignIn!Code /\ codes[c].cut < MaxCuts
          /\ codes' = [codes EXCEPT ![c] = code]
      BY <1>1, <1>6, <2>1 DEF SignIn!Crash, SignIn!At
    <3> HIDE DEF c
    <3>2. codes[c].cut + 1 \in 0..MaxCuts
      BY <3>1, AccountBounds DEF SignIn!Code
    <3>3. code \in SignIn!Code
      BY <3>1, <3>2 DEF SignIn!Code
    <3> HIDE DEF code
    <3>4. QED BY <1>0, <3>1, <3>3, CodeFits
  <2>2. CASE session["r1"].stage # "spend"
    <3>1. codes' = codes
      BY <1>6, <2>2 DEF SignIn!Crash, SignIn!At
    <3>2. QED BY <1>0, <3>1 DEF CodesFit
  <2>3. QED BY <2>1, <2>2
<1>7. QED BY <1>2, <1>3, <1>4, <1>5, <1>6

LEMMA KilledFits ==
  ASSUME CodesFit, NEW kind, codes' = SignIn!Killed(kind)
  PROVE  CodesFit' /\ DOMAIN codes' = DOMAIN codes
<1>1. codes \in Seq(SignIn!Code) /\ DOMAIN codes = 1..Len(codes) /\ Len(codes) <= MaxCodes
  BY DEF CodesFit
<1>2. codes' = [j \in 1..Len(codes) |-> codes'[j]]
  BY <1>1 DEF SignIn!Killed
<1>3. ASSUME NEW j \in 1..Len(codes) PROVE codes'[j] \in SignIn!Code
  <2>1. codes[j] \in SignIn!Code
    BY <1>1
  <2>2. codes'[j] = [codes[j] EXCEPT !.alive = FALSE] \/ codes'[j] = codes[j]
    BY <1>1 DEF SignIn!Killed
  <2>3. QED BY <2>1, <2>2, DeadIsCode
<1>4. codes' \in Seq(SignIn!Code) /\ Len(codes') = Len(codes) /\ DOMAIN codes' = 1..Len(codes)
  BY ONLY <1>1, <1>2, <1>3, SameLength
<1>5. QED BY <1>1, <1>4 DEF CodesFit

LEMMA InsertFits ==
  ASSUME AccountInv, AccountFit, SignIn!InsertCode("r1")
  PROVE  CodesFit' /\ DOMAIN codes \subseteq DOMAIN codes'
<1>1. codes \in Seq(SignIn!Code) /\ DOMAIN codes = 1..Len(codes) /\ Len(codes) < MaxCodes /\ Len(codes) \in Nat
  <2>1. codes \in Seq(SignIn!Code)
    BY DEF AccountFit, CodesFit
  <2>2. Len(codes) < MaxCodes
    BY DEF SignIn!InsertCode
  <2>3. QED BY <2>1, <2>2
<1> DEFINE code == [kind |-> session["r1"].kind, left |-> CodeLife, alive |-> TRUE, uses |-> 0, cut |-> 0]
<1>2. codes' = Append(codes, code)
  BY DEF SignIn!InsertCode
<1>3. code \in SignIn!Code
  <2>1. session["r1"].kind \in SignIn!Kinds
    BY AccountFacts DEF SomeRequest
  <2>2. QED BY <2>1, AccountBounds DEF SignIn!Code
<1> HIDE DEF code
<1>4. codes' \in Seq(SignIn!Code) /\ Len(codes') = Len(codes) + 1
  BY ONLY <1>1, <1>2, <1>3, OneMore
<1>5. DOMAIN codes' = 1..Len(codes')
  BY <1>4
<1>6. QED BY <1>1, <1>4, <1>5, AccountBounds DEF CodesFit

LEMMA AccountStaysFit ==
  ASSUME AccountInv, AccountFit, SignIn!Next \/ UNCHANGED signIn
  PROVE  AccountFit'
<1>0. /\ CodesFit /\ access \in 0..TokenLife /\ refresh \in BOOLEAN
      /\ session["r1"].code \in {0} \cup DOMAIN codes
  BY DEF AccountFit
<1>1. UNCHANGED codes => CodesFit'
  BY <1>0 DEF CodesFit
<1>2. ASSUME NEW stage \in SignInStages, NEW kind \in SignIn!Kinds, NEW c \in {0} \cup DOMAIN codes,
             \/ SignIn!Goes("r1", stage) \/ SignIn!Ends("r1") \/ SignIn!Begins("r1", stage, kind, c)
             \/ UNCHANGED session,
             CodesFit', DOMAIN codes \subseteq DOMAIN codes', access' \in 0..TokenLife, refresh' \in BOOLEAN
      PROVE  AccountFit'
  <2>1. session'["r1"].code \in {0} \cup DOMAIN codes
    BY <1>0, <1>2, HeldCode
  <2>2. QED BY <1>2, <2>1 DEF AccountFit
<1>3. CASE SignIn!Register("r1") \/ SignIn!GenerateCodeVerifyEmail("r1") \/ SignIn!ResetPassword("r1")
  BY <1>0, <1>1, <1>2, <1>3 DEF SignIn!Register, SignIn!GenerateCodeVerifyEmail, SignIn!ResetPassword,
     SignIn!session, SignInStages, SignIn!Kinds
<1>4. CASE SignIn!NoCode("r1") \/ SignIn!Login("r1") \/ SignIn!RefreshToken("r1")
  BY <1>0, <1>1, <1>2, <1>4 DEF SignIn!NoCode, SignIn!Login, SignIn!RefreshToken, SignIn!session, SignInStages, SignIn!Kinds
<1>5. CASE SignIn!LoginWithGoogle("r1")
  <2>1. \E stage \in SignInStages : SignIn!Goes("r1", stage)
    BY <1>5 DEF SignIn!LoginWithGoogle, SignInStages
  <2>2. UNCHANGED <<codes, access, refresh>>
    BY <1>5 DEF SignIn!LoginWithGoogle, SignIn!session
  <2>3. QED BY <1>0, <1>1, <1>2, <2>1, <2>2 DEF SignIn!Kinds
<1>6. CASE SignIn!GenerateTokens("r1")
  <2>1. SignIn!Ends("r1") /\ UNCHANGED codes /\ access' = TokenLife /\ refresh' = TRUE
    BY <1>6 DEF SignIn!GenerateTokens
  <2>2. access' \in 0..TokenLife /\ refresh' \in BOOLEAN
    BY <2>1, AccountBounds
  <2>3. "idle" \in SignInStages /\ "active-email" \in SignIn!Kinds /\ 0 \in {0} \cup DOMAIN codes
    BY DEF SignInStages, SignIn!Kinds
  <2>4. QED BY <1>1, <1>2, <2>1, <2>2, <2>3
<1>7. CASE SignIn!InsertCode("r1")
  <2>1. SignIn!Goes("r1", "issue") \/ SignIn!Ends("r1")
    BY <1>7 DEF SignIn!InsertCode
  <2>2. UNCHANGED <<access, refresh>> /\ "issue" \in SignInStages
    BY <1>7 DEF SignIn!InsertCode, SignIn!session, SignInStages
  <2>3. QED BY <1>0, <1>2, <1>7, <2>1, <2>2, InsertFits DEF SignIn!Kinds
<1>8. ASSUME NEW k \in SignIn!Kinds, SignIn!SendVerifyCode("r1", k)
      PROVE  AccountFit'
  <2>1. SignIn!Begins("r1", "insert only", k, 0) /\ codes' = SignIn!Killed(k) /\ UNCHANGED <<access, refresh>>
    BY <1>8 DEF SignIn!SendVerifyCode, SignIn!session
  <2>2. QED BY <1>0, <1>2, <2>1, KilledFits DEF SignInStages
<1>9. ASSUME NEW c \in DOMAIN codes, SignIn!VerifyEmail("r1", c) \/ SignIn!SetNewPassword("r1", c) \/ SignIn!VerifyCode("r1", c)
      PROVE  AccountFit'
  <2>1. codes[c].kind \in SignIn!Kinds
    BY AccountFacts DEF SomeCode
  <2>2. /\ \E stage \in SignInStages, kind \in SignIn!Kinds : SignIn!Begins("r1", stage, kind, c)
        /\ UNCHANGED <<codes, access, refresh>>
    BY <1>9, <2>1 DEF SignIn!VerifyEmail, SignIn!SetNewPassword, SignIn!VerifyCode, SignIn!session, SignInStages, SignIn!Kinds
  <2>3. QED BY <1>0, <1>1, <1>2, <2>2
<1>10. ASSUME NEW c \in DOMAIN codes, SignIn!TryExpired("r1", c)
       PROVE  AccountFit'
  <2>1. UNCHANGED <<session, access, refresh>>
    BY <1>10 DEF SignIn!TryExpired, SignIn!session
  <2>2. CodesFit' /\ DOMAIN codes' = DOMAIN codes
    BY <1>10, CodesStayFit
  <2>3. QED BY <1>0, <2>1, <2>2 DEF AccountFit
<1>11. CASE SignIn!Accept("r1") \/ SignIn!Spend("r1") \/ SignIn!LetThrough("r1") \/ SignIn!Crash("r1")
  <2>1. CodesFit' /\ DOMAIN codes' = DOMAIN codes
    BY <1>11, CodesStayFit
  <2>2. /\ \E stage \in SignInStages : SignIn!Goes("r1", stage) \/ SignIn!Ends("r1")
        /\ UNCHANGED <<access, refresh>>
    BY <1>11 DEF SignIn!Accept, SignIn!Spend, SignIn!LetThrough, SignIn!Crash, SignIn!session, SignInStages
  <2>3. QED BY <1>0, <1>2, <2>1, <2>2 DEF SignIn!Kinds
<1>12. CASE SignIn!LookAtWallets("r1")
  <2>1. session \in [{"r1"} -> SomeRequest]
    BY DEF AccountInv, AccountTypes
  <2>2. session'["r1"].code = session["r1"].code
    BY <1>12, <2>1 DEF SignIn!LookAtWallets, SomeRequest
  <2>3. UNCHANGED <<codes, access, refresh>>
    BY <1>12 DEF SignIn!LookAtWallets, SignIn!session
  <2>4. QED BY <1>0, <1>1, <2>2, <2>3 DEF AccountFit
<1>13. CASE SignIn!CreateDefaultUserWallet("r1")
  BY <1>0, <1>1, <1>2, <1>13 DEF SignIn!CreateDefaultUserWallet, SignIn!session, SignInStages, SignIn!Kinds
<1>14. CASE SignIn!Logout \/ (\E b \in BOOLEAN : SignIn!SetBlocked(b)) \/ UNCHANGED signIn
  <2>1. UNCHANGED <<codes, session>>
    BY <1>14 DEF SignIn!Logout, SignIn!SetBlocked, signIn
  <2>3. (access' = 0 /\ refresh' = FALSE) \/ (access' = access /\ refresh' = refresh)
    BY <1>14 DEF SignIn!Logout, SignIn!SetBlocked, signIn, SignIn!session
  <2>4. access' \in 0..TokenLife
    BY <1>0, <2>3, AccountBounds
  <2>5. refresh' \in BOOLEAN
    BY <1>0, <2>3
  <2>2. QED BY <1>0, <1>1, <2>1, <2>4, <2>5 DEF AccountFit
<1>15. CASE SignIn!Tick
  <2>1. /\ UNCHANGED <<session, refresh>> /\ access' = SignIn!Less(access)
        /\ codes' = [c \in DOMAIN codes |-> [codes[c] EXCEPT !.left = SignIn!Less(@)]]
    BY <1>15 DEF SignIn!Tick
  <2>2. codes \in Seq(SignIn!Code) /\ DOMAIN codes = 1..Len(codes) /\ Len(codes) <= MaxCodes
    BY <1>0 DEF CodesFit
  <2>3. codes' = [i \in 1..Len(codes) |-> codes'[i]]
    BY <2>1, <2>2
  <2>4. ASSUME NEW i \in 1..Len(codes) PROVE codes'[i] \in SignIn!Code
    <3>1. codes[i] \in SignIn!Code
      BY <2>2
    <3>2. SignIn!Less(codes[i].left) \in 0..CodeLife
      BY ONLY <3>1, AccountBounds DEF SignIn!Code, SignIn!Less
    <3>3. codes'[i] = [codes[i] EXCEPT !.left = SignIn!Less(codes[i].left)]
      BY <2>1, <2>2
    <3>4. QED BY ONLY <3>1, <3>2, <3>3 DEF SignIn!Code
  <2>5. codes' \in Seq(SignIn!Code) /\ Len(codes') = Len(codes) /\ DOMAIN codes' = 1..Len(codes)
    BY ONLY <2>2, <2>3, <2>4, SameLength
  <2>6. access' \in 0..TokenLife
    BY <1>0, <2>1, AccountBounds DEF SignIn!Less
  <2>7. QED BY <1>0, <2>1, <2>2, <2>5, <2>6 DEF AccountFit, CodesFit
<1>16. QED BY <1>3, <1>4, <1>5, <1>6, <1>7, <1>8, <1>9, <1>10, <1>11, <1>12, <1>13, <1>14, <1>15 DEF SignIn!Next

LEMMA AccountIsTyped == ASSUME AccountInv, AccountFit PROVE SignIn!TypeOK
<1>1. session["r1"].kind \in SignIn!Kinds
  BY AccountFacts DEF SomeRequest
<1>2. user \in SomeUser /\ wallets \in Nat
  BY DEF AccountInv, AccountTypes
<1>3. QED BY <1>1, <1>2 DEF AccountFit, CodesFit, SomeUser, SignIn!TypeOK

-----------------------------------------------------------------------------
(* Types of deposit addresses and their trackers.                          *)

\* Addresses: whatever is made, tracked or looked at is about a row that is
\* there, and rows only grow.
Making(owners) == [user : owners, net : {"SOL", "ETH", "BSC"}, stage : {"copy", "insert", "save"},
                   row : Nat, key : Seq(Nat), end : 0..IdBase]
AnAddress(owners) == [user : owners, net : {"SOL", "ETH", "BSC"}, key : Seq(Nat), end : 0..IdBase]
Looking == [stage : {"idle", "look", "insert"}, row : Nat, key : Seq(Nat)]
Tracking(owners) == [row : Nat, key : Seq(Nat), net : {"SOL", "ETH", "BSC"}, user : owners]

AddressFit(owners, most) ==
  /\ rows \in Seq(AnAddress(owners)) /\ Len(rows) <= most
  /\ creating \subseteq Making(owners)
  /\ \A c \in creating : c.stage = "save" => c.row \in 1..Len(rows)
  /\ trackers \subseteq Tracking(owners) /\ \A t \in trackers : t.row \in 1..Len(rows)
  /\ visit \in [{"v1"} -> Looking]
  /\ visit["v1"].stage # "idle" => visit["v1"].row \in 1..Len(rows)

\* A row that is added.
LEMMA RowFits ==
  ASSUME NEW owners, NEW most \in Nat, AddressFit(owners, most), Len(rows) < most, NEW row \in AnAddress(owners),
         rows' = Append(rows, row), UNCHANGED <<trackers, visit>>, NEW c \in creating,
         \/ creating' = creating \ {c}
         \/ \E later \in Making(owners) : later.row = Len(rows) + 1 /\ creating' = (creating \ {c}) \cup {later}
  PROVE  AddressFit(owners, most)'
<1>1. rows \in Seq(AnAddress(owners)) /\ Len(rows) \in Nat
  BY DEF AddressFit
<1>2. rows' \in Seq(AnAddress(owners)) /\ Len(rows') = Len(rows) + 1
  BY ONLY <1>1, row \in AnAddress(owners), rows' = Append(rows, row), OneMore
<1>3. 1..Len(rows) \subseteq 1..Len(rows') /\ Len(rows') <= most /\ Len(rows) + 1 \in 1..Len(rows')
  BY <1>1, <1>2
<1>4. /\ creating' \subseteq Making(owners)
      /\ \A d \in creating' : d.stage = "save" => d.row \in 1..Len(rows')
  BY <1>3 DEF AddressFit
<1>5. QED BY <1>2, <1>3, <1>4 DEF AddressFit

\* A row that is saved again.
LEMMA SavedFits ==
  ASSUME NEW owners, NEW most \in Nat, AddressFit(owners, most), NEW i \in 1..Len(rows), NEW key \in Seq(Nat),
         NEW d \in 0..IdBase, rows' = [rows EXCEPT ![i].key = key, ![i].end = d],
         UNCHANGED <<trackers, visit>>, creating' \subseteq creating
  PROVE  AddressFit(owners, most)'
<1>1. rows \in Seq(AnAddress(owners)) /\ Len(rows) \in Nat /\ rows[i] \in AnAddress(owners)
  BY DEF AddressFit
<1> DEFINE keyed == [rows[i] EXCEPT !.key = key]
           row == [keyed EXCEPT !.end = d]
<1>2. rows' = [rows EXCEPT ![i] = row]
  BY <1>1
<1>3. keyed \in AnAddress(owners)
  BY <1>1 DEF AnAddress
<1> HIDE DEF keyed
<1>4. row \in AnAddress(owners)
  BY <1>3 DEF AnAddress
<1> HIDE DEF row
<1>11. DOMAIN rows = 1..Len(rows)
  BY ONLY <1>1
<1>5. rows' = [j \in 1..Len(rows) |-> rows'[j]]
  BY ONLY <1>2, <1>11
<1>6. \A j \in 1..Len(rows) : rows[j] \in AnAddress(owners)
  BY ONLY <1>1
<1>9. \A j \in 1..Len(rows) : rows'[j] = IF j = i THEN row ELSE rows[j]
  BY ONLY <1>1, <1>2
<1>10. \A j \in 1..Len(rows) : rows'[j] \in AnAddress(owners)
  BY ONLY <1>4, <1>6, <1>9
<1>7. rows' \in Seq(AnAddress(owners)) /\ Len(rows') = Len(rows)
  BY ONLY <1>1, <1>5, <1>10, SameLength
<1>8. QED BY <1>7 DEF AddressFit

\* A row that begins to be made, or is made no longer.
LEMMA MakingFits ==
  ASSUME NEW owners, NEW most, AddressFit(owners, most), UNCHANGED <<rows, trackers, visit>>,
         \/ creating' \subseteq creating
         \/ \E c \in Making(owners) : c.stage # "save" /\ creating' = creating \cup {c}
  PROVE  AddressFit(owners, most)'
<1>1. creating' \subseteq Making(owners) /\ \A c \in creating' : c.stage = "save" => c.row \in 1..Len(rows)
  BY DEF AddressFit
<1>2. QED BY <1>1 DEF AddressFit

\* A visit goes on, and may leave a tracker.
LEMMA VisitFits ==
  ASSUME NEW owners, NEW most, AddressFit(owners, most), UNCHANGED <<rows, creating>>, NEW there \in Looking,
         visit' = [visit EXCEPT !["v1"] = there], there.stage # "idle" => there.row \in 1..Len(rows),
         NEW tracked \in Tracking(owners), tracked.row \in 1..Len(rows) \/ trackers' \subseteq trackers,
         trackers' \subseteq trackers \cup {tracked}
  PROVE  AddressFit(owners, most)'
<1>1. visit' \in [{"v1"} -> Looking] /\ visit'["v1"] = there
  BY DEF AddressFit
<1>2. trackers' \subseteq Tracking(owners) /\ \A t \in trackers' : t.row \in 1..Len(rows)
  BY DEF AddressFit
<1>3. QED BY <1>1, <1>2 DEF AddressFit

LEMMA AddressFirst == ASSUME Addresses!Init PROVE AddressFit(Owners, MaxRows)
<1>1. MaxRows \in Nat /\ <<>> \in Seq(Nat) /\ <<>> \in Seq(AnAddress(Owners)) /\ Len(<<>>) = 0
  BY ServicesAssumption DEF Addresses!Parameters
<1>2. Addresses!Idle \in Looking /\ Addresses!Idle.stage = "idle"
  BY <1>1 DEF Addresses!Idle, Looking
<1>3. rows = <<>> /\ creating = {} /\ trackers = {} /\ visit = [v \in {"v1"} |-> Addresses!Idle]
  BY DEF Addresses!Init
<1>4. visit \in [{"v1"} -> Looking] /\ visit["v1"].stage = "idle"
  BY <1>2, <1>3
<1>5. QED BY <1>1, <1>3, <1>4 DEF AddressFit

LEMMA AddressPaths ==
  /\ IdBase \in Nat \ {0} /\ MidBase \in Nat \ {0} /\ Owners \subseteq Nat /\ MaxRows \in Nat /\ Base.id = IdBase /\ Base.mid = MidBase
  /\ \A net \in Addresses!Nets, u \in Nat : Addresses!Short(net, u) \in Seq(Nat)
  /\ \A net \in Addresses!Nets, u \in Nat, d \in Nat : Addresses!Derive(net, u, d) \in Seq(Nat)
<1>1. IdBase \in Nat \ {0} /\ MidBase \in Nat \ {0} /\ Owners \subseteq Nat /\ MaxRows \in Nat
  BY ServicesAssumption DEF Addresses!Parameters, Base
<1>2. Base.id = IdBase /\ Base.mid = MidBase
  BY DEF Base
<1>3. ASSUME NEW net \in Addresses!Nets, NEW u \in Nat
      PROVE  Addresses!Short(net, u) \in Seq(Nat)
  <2>1. IdBase * MidBase \in Nat \ {0}
    BY <1>1
  <2>2. Addresses!Coin(net) \in Nat
    BY DEF Addresses!Coin
  <2>3. \A x \in Nat, y \in Nat \ {0} : x \div y \in Nat /\ x % y \in Nat
    OBVIOUS
  <2>4. (u \div (IdBase * MidBase)) % MidBase \in Nat /\ (u \div IdBase) % MidBase \in Nat /\ u % IdBase \in Nat
    BY <1>1, <2>1, <2>3
  <2>5. Addresses!Components(u) \in Seq(Nat)
    BY <1>2, <2>4 DEF Addresses!Components
  <2>6. QED BY <2>2, <2>5 DEF Addresses!Short
<1>4. \A net \in Addresses!Nets, u \in Nat, d \in Nat : Addresses!Derive(net, u, d) \in Seq(Nat)
  BY <1>3 DEF Addresses!Derive
<1>5. QED BY <1>1, <1>2, <1>3, <1>4

\* A row is made for a user, by copying the path of another network or anew.
LEMMA AddressBegins ==
  ASSUME AddressFit(Owners, MaxRows), NEW u \in Owners, NEW net \in Addresses!Nets,
         Addresses!CreateWallet(u, net) \/ Addresses!ReuseWallet(u, net)
  PROVE  AddressFit(Owners, MaxRows)'
<1>1. rows \in Seq(AnAddress(Owners)) /\ IdBase \in Nat /\ Base.id = IdBase /\ net \in {"SOL", "ETH", "BSC"}
  BY AddressPaths DEF AddressFit, Addresses!Nets
<1>2. CASE Addresses!CreateWallet(u, net)
  <2> DEFINE c == [user |-> u, net |-> net, stage |-> "insert", row |-> 0, key |-> <<>>, end |-> IdBase]
  <2>1. creating' = creating \cup {c} /\ UNCHANGED <<rows, trackers, visit>>
    BY <1>1, <1>2 DEF Addresses!CreateWallet, Addresses!Begins, Addresses!Unset
  <2>2. <<>> \in Seq(Nat)
    OBVIOUS
  <2>3. c \in Making(Owners) /\ c.stage # "save"
    BY <1>1, <2>2 DEF Making
  <2> HIDE DEF c
  <2>4. QED BY <2>1, <2>3, MakingFits
<1>3. CASE Addresses!ReuseWallet(u, net)
  <2>1. PICK i \in DOMAIN rows :
          creating' = creating \cup {[user |-> u, net |-> net, stage |-> "copy", row |-> 0, key |-> rows[i].key, end |-> rows[i].end]}
    BY <1>3 DEF Addresses!ReuseWallet, Addresses!Reusable, Addresses!RowsOf
  <2>2. rows[i] \in AnAddress(Owners)
    BY <1>1, <2>1
  <2> DEFINE key == rows[i].key
             end == rows[i].end
  <2>3. key \in Seq(Nat) /\ end \in 0..IdBase
    BY <2>2 DEF AnAddress
  <2>4. creating' = creating \cup {[user |-> u, net |-> net, stage |-> "copy", row |-> 0, key |-> key, end |-> end]}
    BY <2>1
  <2> HIDE DEF key, end
  <2> DEFINE c == [user |-> u, net |-> net, stage |-> "copy", row |-> 0, key |-> key, end |-> end]
  <2>5. c \in Making(Owners) /\ c.stage # "save"
    BY <1>1, <2>3 DEF Making
  <2>6. creating' = creating \cup {c}
    BY <2>4
  <2> HIDE DEF c
  <2>7. UNCHANGED <<rows, trackers, visit>>
    BY <1>3 DEF Addresses!ReuseWallet
  <2>8. QED BY <2>5, <2>6, <2>7, MakingFits
<1>4. QED BY <1>2, <1>3

\* It is inserted, saved again with the end of its path, or given up.
LEMMA AddressGoesOn ==
  ASSUME AddressFit(Owners, MaxRows), NEW c \in creating,
         Addresses!CopyWallet(c) \/ Addresses!InsertTemporary(c) \/ Addresses!SaveWallet(c) \/ Addresses!Crash(c)
  PROVE  AddressFit(Owners, MaxRows)'
<1>1. c \in Making(Owners) /\ rows \in Seq(AnAddress(Owners)) /\ (c.stage = "save" => c.row \in 1..Len(rows))
  BY DEF AddressFit
<1>2. c.user \in Owners /\ c.net \in {"SOL", "ETH", "BSC"} /\ c.key \in Seq(Nat) /\ c.end \in 0..IdBase /\ c.row \in Nat
  BY <1>1 DEF Making
<1>3. /\ IdBase \in Nat \ {0} /\ MaxRows \in Nat /\ Base.id = IdBase
      /\ Addresses!Short(c.net, c.user) \in Seq(Nat) /\ \A d \in Nat : Addresses!Derive(c.net, c.user, d) \in Seq(Nat)
  BY <1>2, AddressPaths DEF Addresses!Nets
<1>4. CASE Addresses!CopyWallet(c)
  <2> DEFINE row == [user |-> c.user, net |-> c.net, key |-> c.key, end |-> c.end]
  <2>1. row \in AnAddress(Owners)
    BY <1>2 DEF AnAddress
  <2>2. /\ Len(rows) < MaxRows /\ rows' = Append(rows, row) /\ UNCHANGED <<trackers, visit>>
        /\ creating' = creating \ {c}
    BY <1>4 DEF Addresses!CopyWallet, Addresses!Insert
  <2> HIDE DEF row
  <2>3. QED BY ONLY AddressFit(Owners, MaxRows), c \in creating, <1>3, <2>1, <2>2, RowFits
<1>5. CASE Addresses!InsertTemporary(c)
  <2> DEFINE key == Addresses!Short(c.net, c.user)
             row == [user |-> c.user, net |-> c.net, key |-> key, end |-> IdBase]
             staged == [c EXCEPT !.stage = "save"]
             later == [staged EXCEPT !.row = Len(rows) + 1]
  <2>1. key \in Seq(Nat) /\ IdBase \in 0..IdBase
    BY <1>3
  <2>2. /\ Len(rows) < MaxRows /\ rows' = Append(rows, row) /\ UNCHANGED <<trackers, visit>>
        /\ creating' = (creating \ {c}) \cup {[c EXCEPT !.stage = "save", !.row = Len(rows) + 1]}
    BY <1>3, <1>5 DEF Addresses!InsertTemporary, Addresses!Insert, Addresses!Unset
  <2>3. [c EXCEPT !.stage = "save", !.row = Len(rows) + 1] = later
    BY <1>1 DEF Making
  <2>4. creating' = (creating \ {c}) \cup {later}
    BY <2>2, <2>3
  <2> HIDE DEF key
  <2>5. row \in AnAddress(Owners)
    BY <1>2, <2>1 DEF AnAddress
  <2>6. staged \in Making(Owners)
    BY <1>1 DEF Making
  <2>7. Len(rows) + 1 \in Nat
    BY <1>1
  <2> HIDE DEF row, staged
  <2>8. later \in Making(Owners) /\ later.row = Len(rows) + 1
    BY <2>6, <2>7 DEF Making
  <2> HIDE DEF later
  <2>9. QED BY ONLY AddressFit(Owners, MaxRows), c \in creating, <1>3, <2>2, <2>4, <2>5, <2>8, RowFits
<1>6. CASE Addresses!SaveWallet(c)
  <2> DEFINE i == c.row
             d == c.row % IdBase
             key == Addresses!Derive(c.net, c.user, d)
  <2>1. d \in 0..IdBase /\ i \in 1..Len(rows)
    BY <1>1, <1>2, <1>3, <1>6 DEF Addresses!SaveWallet
  <2>2. key \in Seq(Nat)
    BY <1>3, <2>1
  <2>3. rows' = [rows EXCEPT ![i].key = key, ![i].end = d]
    BY <1>3, <1>6 DEF Addresses!SaveWallet
  <2>4. UNCHANGED <<trackers, visit>> /\ creating' \subseteq creating
    BY <1>6 DEF Addresses!SaveWallet
  <2> HIDE DEF i, d, key
  <2>5. QED BY ONLY AddressFit(Owners, MaxRows), <1>3, <2>1, <2>2, <2>3, <2>4, SavedFits
<1>7. CASE Addresses!Crash(c)
  BY <1>7, MakingFits DEF Addresses!Crash
<1>8. QED BY <1>4, <1>5, <1>6, <1>7

\* An address is looked at, and tracked.
LEMMA AddressVisited ==
  ASSUME AddressFit(Owners, MaxRows),
         \/ Addresses!GetWalletByNetwork("v1") \/ Addresses!TrackSame("v1") \/ Addresses!TrackMoved("v1")
         \/ Addresses!TrackNew("v1") \/ Addresses!InsertTracker("v1")
  PROVE  AddressFit(Owners, MaxRows)'
<1> DEFINE seen == visit["v1"]
<1>1. /\ rows \in Seq(AnAddress(Owners)) /\ trackers \subseteq Tracking(Owners) /\ visit \in [{"v1"} -> Looking]
      /\ seen \in Looking /\ (seen.stage # "idle" => seen.row \in 1..Len(rows))
  BY DEF AddressFit
<1>2. Addresses!Idle \in Looking /\ Addresses!Idle.stage = "idle"
  <2>1. <<>> \in Seq(Nat)
    OBVIOUS
  <2>2. QED BY <2>1 DEF Addresses!Idle, Looking
<1>3. ASSUME NEW there \in Looking, there.stage # "idle" => there.row \in 1..Len(rows),
             visit' = [visit EXCEPT !["v1"] = there], UNCHANGED <<rows, creating, trackers>>
      PROVE  AddressFit(Owners, MaxRows)'
  <2>1. visit' \in [{"v1"} -> Looking] /\ visit'["v1"] = there
    BY <1>1, <1>3
  <2>2. QED BY <1>3, <2>1 DEF AddressFit
<1>4. CASE Addresses!GetWalletByNetwork("v1")
  <2>1. PICK i \in DOMAIN rows : visit' = [visit EXCEPT !["v1"] = [stage |-> "look", row |-> i, key |-> rows[i].key]]
    BY <1>4 DEF Addresses!GetWalletByNetwork
  <2>2. rows[i] \in AnAddress(Owners) /\ i \in 1..Len(rows) /\ i \in Nat
    BY <1>1, <2>1
  <2> DEFINE key == rows[i].key
             there == [stage |-> "look", row |-> i, key |-> key]
  <2>3. key \in Seq(Nat)
    BY <2>2 DEF AnAddress
  <2>4. visit' = [visit EXCEPT !["v1"] = there]
    BY <2>1
  <2> HIDE DEF key
  <2>5. there \in Looking /\ there.row = i
    BY <2>2, <2>3 DEF Looking
  <2> HIDE DEF there
  <2>6. UNCHANGED <<rows, creating, trackers>>
    BY <1>4 DEF Addresses!GetWalletByNetwork
  <2>7. QED BY <1>3, <2>2, <2>4, <2>5, <2>6
<1>5. CASE Addresses!TrackNew("v1")
  <2> DEFINE there == [seen EXCEPT !.stage = "insert"]
  <2>1. seen.stage = "look" /\ visit' = [visit EXCEPT !["v1"] = there] /\ UNCHANGED <<rows, creating, trackers>>
    BY <1>1, <1>5 DEF Addresses!TrackNew
  <2>2. there \in Looking /\ there.row = seen.row /\ seen.row \in 1..Len(rows)
    BY <1>1, <2>1 DEF Looking
  <2> HIDE DEF there
  <2>3. QED BY <1>3, <2>1, <2>2
<1>6. ASSUME seen.stage # "idle"
      PROVE  Addresses!Tracker("v1") \in Tracking(Owners) /\ Addresses!Tracker("v1").row \in 1..Len(rows)
  <2>1. seen.row \in 1..Len(rows) /\ seen.row \in Nat /\ seen.key \in Seq(Nat)
    BY <1>1, <1>6 DEF Looking
  <2>2. rows[seen.row] \in AnAddress(Owners)
    BY <1>1, <2>1
  <2>3. rows[seen.row].net \in {"SOL", "ETH", "BSC"} /\ rows[seen.row].user \in Owners
    BY <2>2 DEF AnAddress
  <2>4. QED BY <2>1, <2>3 DEF Addresses!Tracker, Tracking
<1>7. ASSUME seen.stage # "idle", visit' = [visit EXCEPT !["v1"] = Addresses!Idle], UNCHANGED <<rows, creating>>,
             trackers' \subseteq trackers \cup {Addresses!Tracker("v1")}
      PROVE  AddressFit(Owners, MaxRows)'
  BY <1>2, <1>6, <1>7, VisitFits
<1>8. CASE Addresses!TrackSame("v1")
  BY <1>7, <1>8 DEF Addresses!TrackSame, Addresses!Ends
<1>9. CASE Addresses!TrackMoved("v1")
  BY <1>7, <1>9 DEF Addresses!TrackMoved, Addresses!Moved, Addresses!Ends
<1>10. CASE Addresses!InsertTracker("v1")
  BY <1>7, <1>10 DEF Addresses!InsertTracker, Addresses!Ends
<1>11. QED BY <1>4, <1>5, <1>8, <1>9, <1>10

LEMMA AddressStaysFit ==
  ASSUME AddressFit(Owners, MaxRows), Addresses!Next \/ UNCHANGED addresses
  PROVE  AddressFit(Owners, MaxRows)'
<1>1. CASE Addresses!Next
  BY <1>1, AddressBegins, AddressGoesOn, AddressVisited DEF Addresses!Next
<1>2. CASE UNCHANGED addresses
  BY <1>2 DEF addresses, AddressFit
<1>3. QED BY <1>1, <1>2

LEMMA AddressIsTyped == ASSUME AddressFit(Owners, MaxRows) PROVE Addresses!TypeOK
<1>1. Addresses!Row = AnAddress(Owners)
  <2>1. Base.id = IdBase
    BY DEF Base
  <2>2. QED BY <2>1 DEF Addresses!Row, Addresses!Nets, Addresses!Unset, AnAddress
<1>2. rows \in Seq(Addresses!Row) /\ Len(rows) <= MaxRows
  BY <1>1 DEF AddressFit
<1>3. \A c \in creating : c.user \in Owners /\ c.net \in Addresses!Nets /\ c.stage \in {"copy", "insert", "save"}
  BY DEF AddressFit, Making, Addresses!Nets
<1>4. \A t \in trackers : t.row \in DOMAIN rows /\ t.net \in Addresses!Nets /\ t.user \in Owners
  BY DEF AddressFit, Tracking, Addresses!Nets
<1>5. \A v \in {"v1"} : visit[v].stage \in {"idle", "look", "insert"}
  BY DEF AddressFit, Looking
<1>6. QED BY <1>2, <1>3, <1>4, <1>5 DEF Addresses!TypeOK

LEMMA AddressExposedFirst == ASSUME Addresses!Init PROVE AddressFit({1}, 2)
<1>1. 2 \in Nat /\ <<>> \in Seq(Nat) /\ <<>> \in Seq(AnAddress({1})) /\ Len(<<>>) = 0
  BY ServicesAssumption DEF Addresses!Parameters
<1>2. Addresses!Idle \in Looking /\ Addresses!Idle.stage = "idle"
  BY <1>1 DEF Addresses!Idle, Looking
<1>3. rows = <<>> /\ creating = {} /\ trackers = {} /\ visit = [v \in {"v1"} |-> Addresses!Idle]
  BY DEF Addresses!Init
<1>4. visit \in [{"v1"} -> Looking] /\ visit["v1"].stage = "idle"
  BY <1>2, <1>3
<1>5. QED BY <1>1, <1>3, <1>4 DEF AddressFit

LEMMA AddressExposedPaths ==
  /\ IdBase \in Nat \ {0} /\ MidBase \in Nat \ {0} /\ {1} \subseteq Nat /\ 2 \in Nat /\ Base.id = IdBase /\ Base.mid = MidBase
  /\ \A net \in AddressesExposed!Nets, u \in Nat : AddressesExposed!Short(net, u) \in Seq(Nat)
  /\ \A net \in AddressesExposed!Nets, u \in Nat, d \in Nat : AddressesExposed!Derive(net, u, d) \in Seq(Nat)
<1>1. IdBase \in Nat \ {0} /\ MidBase \in Nat \ {0} /\ {1} \subseteq Nat /\ 2 \in Nat
  BY ServicesAssumption DEF AddressesExposed!Parameters, Base
<1>2. Base.id = IdBase /\ Base.mid = MidBase
  BY DEF Base
<1>3. ASSUME NEW net \in AddressesExposed!Nets, NEW u \in Nat
      PROVE  AddressesExposed!Short(net, u) \in Seq(Nat)
  <2>1. IdBase * MidBase \in Nat \ {0}
    BY <1>1
  <2>2. AddressesExposed!Coin(net) \in Nat
    BY DEF AddressesExposed!Coin
  <2>3. \A x \in Nat, y \in Nat \ {0} : x \div y \in Nat /\ x % y \in Nat
    OBVIOUS
  <2>4. (u \div (IdBase * MidBase)) % MidBase \in Nat /\ (u \div IdBase) % MidBase \in Nat /\ u % IdBase \in Nat
    BY <1>1, <2>1, <2>3
  <2>5. AddressesExposed!Components(u) \in Seq(Nat)
    BY <1>2, <2>4 DEF AddressesExposed!Components
  <2>6. QED BY <2>2, <2>5 DEF AddressesExposed!Short
<1>4. \A net \in AddressesExposed!Nets, u \in Nat, d \in Nat : AddressesExposed!Derive(net, u, d) \in Seq(Nat)
  BY <1>3 DEF AddressesExposed!Derive
<1>5. QED BY <1>1, <1>2, <1>3, <1>4

\* A row is made for a user, by copying the path of another network or anew.
LEMMA AddressExposedBegins ==
  ASSUME AddressFit({1}, 2), NEW u \in {1}, NEW net \in AddressesExposed!Nets,
         AddressesExposed!CreateWallet(u, net) \/ AddressesExposed!ReuseWallet(u, net)
  PROVE  AddressFit({1}, 2)'
<1>1. rows \in Seq(AnAddress({1})) /\ IdBase \in Nat /\ Base.id = IdBase /\ net \in {"SOL", "ETH", "BSC"}
  BY AddressExposedPaths DEF AddressFit, AddressesExposed!Nets
<1>2. CASE AddressesExposed!CreateWallet(u, net)
  <2> DEFINE c == [user |-> u, net |-> net, stage |-> "insert", row |-> 0, key |-> <<>>, end |-> IdBase]
  <2>1. creating' = creating \cup {c} /\ UNCHANGED <<rows, trackers, visit>>
    BY <1>1, <1>2 DEF AddressesExposed!CreateWallet, AddressesExposed!Begins, AddressesExposed!Unset
  <2>2. <<>> \in Seq(Nat)
    OBVIOUS
  <2>3. c \in Making({1}) /\ c.stage # "save"
    BY <1>1, <2>2 DEF Making
  <2> HIDE DEF c
  <2>4. QED BY <2>1, <2>3, MakingFits
<1>3. CASE AddressesExposed!ReuseWallet(u, net)
  <2>1. PICK i \in DOMAIN rows :
          creating' = creating \cup {[user |-> u, net |-> net, stage |-> "copy", row |-> 0, key |-> rows[i].key, end |-> rows[i].end]}
    BY <1>3 DEF AddressesExposed!ReuseWallet, AddressesExposed!Reusable, AddressesExposed!RowsOf
  <2>2. rows[i] \in AnAddress({1})
    BY <1>1, <2>1
  <2> DEFINE key == rows[i].key
             end == rows[i].end
  <2>3. key \in Seq(Nat) /\ end \in 0..IdBase
    BY <2>2 DEF AnAddress
  <2>4. creating' = creating \cup {[user |-> u, net |-> net, stage |-> "copy", row |-> 0, key |-> key, end |-> end]}
    BY <2>1
  <2> HIDE DEF key, end
  <2> DEFINE c == [user |-> u, net |-> net, stage |-> "copy", row |-> 0, key |-> key, end |-> end]
  <2>5. c \in Making({1}) /\ c.stage # "save"
    BY <1>1, <2>3 DEF Making
  <2>6. creating' = creating \cup {c}
    BY <2>4
  <2> HIDE DEF c
  <2>7. UNCHANGED <<rows, trackers, visit>>
    BY <1>3 DEF AddressesExposed!ReuseWallet
  <2>8. QED BY <2>5, <2>6, <2>7, MakingFits
<1>4. QED BY <1>2, <1>3

\* It is inserted, saved again with the end of its path, or given up.
LEMMA AddressExposedGoesOn ==
  ASSUME AddressFit({1}, 2), NEW c \in creating,
         AddressesExposed!CopyWallet(c) \/ AddressesExposed!InsertTemporary(c) \/ AddressesExposed!SaveWallet(c) \/ AddressesExposed!Crash(c)
  PROVE  AddressFit({1}, 2)'
<1>1. c \in Making({1}) /\ rows \in Seq(AnAddress({1})) /\ (c.stage = "save" => c.row \in 1..Len(rows))
  BY DEF AddressFit
<1>2. c.user \in {1} /\ c.net \in {"SOL", "ETH", "BSC"} /\ c.key \in Seq(Nat) /\ c.end \in 0..IdBase /\ c.row \in Nat
  BY <1>1 DEF Making
<1>3. /\ IdBase \in Nat \ {0} /\ 2 \in Nat /\ Base.id = IdBase
      /\ AddressesExposed!Short(c.net, c.user) \in Seq(Nat) /\ \A d \in Nat : AddressesExposed!Derive(c.net, c.user, d) \in Seq(Nat)
  BY <1>2, AddressExposedPaths DEF AddressesExposed!Nets
<1>4. CASE AddressesExposed!CopyWallet(c)
  <2> DEFINE row == [user |-> c.user, net |-> c.net, key |-> c.key, end |-> c.end]
  <2>1. row \in AnAddress({1})
    BY <1>2 DEF AnAddress
  <2>2. /\ Len(rows) < 2 /\ rows' = Append(rows, row) /\ UNCHANGED <<trackers, visit>>
        /\ creating' = creating \ {c}
    BY <1>4 DEF AddressesExposed!CopyWallet, AddressesExposed!Insert
  <2> HIDE DEF row
  <2>3. QED BY ONLY AddressFit({1}, 2), c \in creating, <1>3, <2>1, <2>2, RowFits
<1>5. CASE AddressesExposed!InsertTemporary(c)
  <2> DEFINE key == AddressesExposed!Short(c.net, c.user)
             row == [user |-> c.user, net |-> c.net, key |-> key, end |-> IdBase]
             staged == [c EXCEPT !.stage = "save"]
             later == [staged EXCEPT !.row = Len(rows) + 1]
  <2>1. key \in Seq(Nat) /\ IdBase \in 0..IdBase
    BY <1>3
  <2>2. /\ Len(rows) < 2 /\ rows' = Append(rows, row) /\ UNCHANGED <<trackers, visit>>
        /\ creating' = (creating \ {c}) \cup {[c EXCEPT !.stage = "save", !.row = Len(rows) + 1]}
    BY <1>3, <1>5 DEF AddressesExposed!InsertTemporary, AddressesExposed!Insert, AddressesExposed!Unset
  <2>3. [c EXCEPT !.stage = "save", !.row = Len(rows) + 1] = later
    BY <1>1 DEF Making
  <2>4. creating' = (creating \ {c}) \cup {later}
    BY <2>2, <2>3
  <2> HIDE DEF key
  <2>5. row \in AnAddress({1})
    BY <1>2, <2>1 DEF AnAddress
  <2>6. staged \in Making({1})
    BY <1>1 DEF Making
  <2>7. Len(rows) + 1 \in Nat
    BY <1>1
  <2> HIDE DEF row, staged
  <2>8. later \in Making({1}) /\ later.row = Len(rows) + 1
    BY <2>6, <2>7 DEF Making
  <2> HIDE DEF later
  <2>9. QED BY ONLY AddressFit({1}, 2), c \in creating, <1>3, <2>2, <2>4, <2>5, <2>8, RowFits
<1>6. CASE AddressesExposed!SaveWallet(c)
  <2> DEFINE i == c.row
             d == c.row % IdBase
             key == AddressesExposed!Derive(c.net, c.user, d)
  <2>1. d \in 0..IdBase /\ i \in 1..Len(rows)
    BY <1>1, <1>2, <1>3, <1>6 DEF AddressesExposed!SaveWallet
  <2>2. key \in Seq(Nat)
    BY <1>3, <2>1
  <2>3. rows' = [rows EXCEPT ![i].key = key, ![i].end = d]
    BY <1>3, <1>6 DEF AddressesExposed!SaveWallet
  <2>4. UNCHANGED <<trackers, visit>> /\ creating' \subseteq creating
    BY <1>6 DEF AddressesExposed!SaveWallet
  <2> HIDE DEF i, d, key
  <2>5. QED BY ONLY AddressFit({1}, 2), <1>3, <2>1, <2>2, <2>3, <2>4, SavedFits
<1>7. CASE AddressesExposed!Crash(c)
  BY <1>7, MakingFits DEF AddressesExposed!Crash
<1>8. QED BY <1>4, <1>5, <1>6, <1>7

\* An address is looked at, and tracked.
LEMMA AddressExposedVisited ==
  ASSUME AddressFit({1}, 2),
         \/ AddressesExposed!GetWalletByNetwork("v1") \/ AddressesExposed!TrackSame("v1") \/ AddressesExposed!TrackMoved("v1")
         \/ AddressesExposed!TrackNew("v1") \/ AddressesExposed!InsertTracker("v1")
  PROVE  AddressFit({1}, 2)'
<1> DEFINE seen == visit["v1"]
<1>1. /\ rows \in Seq(AnAddress({1})) /\ trackers \subseteq Tracking({1}) /\ visit \in [{"v1"} -> Looking]
      /\ seen \in Looking /\ (seen.stage # "idle" => seen.row \in 1..Len(rows))
  BY DEF AddressFit
<1>2. AddressesExposed!Idle \in Looking /\ AddressesExposed!Idle.stage = "idle"
  <2>1. <<>> \in Seq(Nat)
    OBVIOUS
  <2>2. QED BY <2>1 DEF AddressesExposed!Idle, Looking
<1>3. ASSUME NEW there \in Looking, there.stage # "idle" => there.row \in 1..Len(rows),
             visit' = [visit EXCEPT !["v1"] = there], UNCHANGED <<rows, creating, trackers>>
      PROVE  AddressFit({1}, 2)'
  <2>1. visit' \in [{"v1"} -> Looking] /\ visit'["v1"] = there
    BY <1>1, <1>3
  <2>2. QED BY <1>3, <2>1 DEF AddressFit
<1>4. CASE AddressesExposed!GetWalletByNetwork("v1")
  <2>1. PICK i \in DOMAIN rows : visit' = [visit EXCEPT !["v1"] = [stage |-> "look", row |-> i, key |-> rows[i].key]]
    BY <1>4 DEF AddressesExposed!GetWalletByNetwork
  <2>2. rows[i] \in AnAddress({1}) /\ i \in 1..Len(rows) /\ i \in Nat
    BY <1>1, <2>1
  <2> DEFINE key == rows[i].key
             there == [stage |-> "look", row |-> i, key |-> key]
  <2>3. key \in Seq(Nat)
    BY <2>2 DEF AnAddress
  <2>4. visit' = [visit EXCEPT !["v1"] = there]
    BY <2>1
  <2> HIDE DEF key
  <2>5. there \in Looking /\ there.row = i
    BY <2>2, <2>3 DEF Looking
  <2> HIDE DEF there
  <2>6. UNCHANGED <<rows, creating, trackers>>
    BY <1>4 DEF AddressesExposed!GetWalletByNetwork
  <2>7. QED BY <1>3, <2>2, <2>4, <2>5, <2>6
<1>5. CASE AddressesExposed!TrackNew("v1")
  <2> DEFINE there == [seen EXCEPT !.stage = "insert"]
  <2>1. seen.stage = "look" /\ visit' = [visit EXCEPT !["v1"] = there] /\ UNCHANGED <<rows, creating, trackers>>
    BY <1>1, <1>5 DEF AddressesExposed!TrackNew
  <2>2. there \in Looking /\ there.row = seen.row /\ seen.row \in 1..Len(rows)
    BY <1>1, <2>1 DEF Looking
  <2> HIDE DEF there
  <2>3. QED BY <1>3, <2>1, <2>2
<1>6. ASSUME seen.stage # "idle"
      PROVE  AddressesExposed!Tracker("v1") \in Tracking({1}) /\ AddressesExposed!Tracker("v1").row \in 1..Len(rows)
  <2>1. seen.row \in 1..Len(rows) /\ seen.row \in Nat /\ seen.key \in Seq(Nat)
    BY <1>1, <1>6 DEF Looking
  <2>2. rows[seen.row] \in AnAddress({1})
    BY <1>1, <2>1
  <2>3. rows[seen.row].net \in {"SOL", "ETH", "BSC"} /\ rows[seen.row].user \in {1}
    BY <2>2 DEF AnAddress
  <2>4. QED BY <2>1, <2>3 DEF AddressesExposed!Tracker, Tracking
<1>7. ASSUME seen.stage # "idle", visit' = [visit EXCEPT !["v1"] = AddressesExposed!Idle], UNCHANGED <<rows, creating>>,
             trackers' \subseteq trackers \cup {AddressesExposed!Tracker("v1")}
      PROVE  AddressFit({1}, 2)'
  BY <1>2, <1>6, <1>7, VisitFits
<1>8. CASE AddressesExposed!TrackSame("v1")
  BY <1>7, <1>8 DEF AddressesExposed!TrackSame, AddressesExposed!Ends
<1>9. CASE AddressesExposed!TrackMoved("v1")
  BY <1>7, <1>9 DEF AddressesExposed!TrackMoved, AddressesExposed!Moved, AddressesExposed!Ends
<1>10. CASE AddressesExposed!InsertTracker("v1")
  BY <1>7, <1>10 DEF AddressesExposed!InsertTracker, AddressesExposed!Ends
<1>11. QED BY <1>4, <1>5, <1>8, <1>9, <1>10

LEMMA AddressExposedStaysFit ==
  ASSUME AddressFit({1}, 2), AddressesExposed!Next \/ UNCHANGED addresses
  PROVE  AddressFit({1}, 2)'
<1>1. CASE AddressesExposed!Next
  BY <1>1, AddressExposedBegins, AddressExposedGoesOn, AddressExposedVisited DEF AddressesExposed!Next
<1>2. CASE UNCHANGED addresses
  BY <1>2 DEF addresses, AddressFit
<1>3. QED BY <1>1, <1>2

LEMMA AddressExposedIsTyped == ASSUME AddressFit({1}, 2) PROVE AddressesExposed!TypeOK
<1>1. AddressesExposed!Row = AnAddress({1})
  <2>1. Base.id = IdBase
    BY DEF Base
  <2>2. QED BY <2>1 DEF AddressesExposed!Row, AddressesExposed!Nets, AddressesExposed!Unset, AnAddress
<1>2. rows \in Seq(AddressesExposed!Row) /\ Len(rows) <= 2
  BY <1>1 DEF AddressFit
<1>3. \A c \in creating : c.user \in {1} /\ c.net \in AddressesExposed!Nets /\ c.stage \in {"copy", "insert", "save"}
  BY DEF AddressFit, Making, AddressesExposed!Nets
<1>4. \A t \in trackers : t.row \in DOMAIN rows /\ t.net \in AddressesExposed!Nets /\ t.user \in {1}
  BY DEF AddressFit, Tracking, AddressesExposed!Nets
<1>5. \A v \in {"v1"} : visit[v].stage \in {"idle", "look", "insert"}
  BY DEF AddressFit, Looking
<1>6. QED BY <1>2, <1>3, <1>4, <1>5 DEF AddressesExposed!TypeOK

-----------------------------------------------------------------------------
(* The types of all of them, side by side.                                 *)

Component == {"transfer", "referral", "referral exposed", "limiter", "chat", "tabs", "tabs exposed",
              "scan", "accounts", "files", "addresses", "addresses exposed"}

ServicesFit ==
  /\ which \in Component /\ ChainTypes /\ FilesFit /\ ChatFit /\ LimiterFit /\ AccountFit
  /\ IF which = "referral exposed" THEN RefExposed!MoneyTypes ELSE Ref!MoneyTypes
  /\ IF which = "tabs exposed" THEN StreamFit({"i1", "i2"}, {"t1"}, 1, 2)
     ELSE StreamFit(Instances, Tabs, MaxNotes, MaxOpened)
  /\ IF which = "addresses exposed" THEN AddressFit({1}, 2) ELSE AddressFit(Owners, MaxRows)

LEMMA ServicesFitFirst == ASSUME Init PROVE ServicesFit
<1>1. /\ which \in Component
      /\ Limiter!Init /\ Chat!Init /\ SignIn!Init /\ Files!Init /\ Addresses!Init
      /\ IF which = "referral exposed" THEN ReferralExposed!Init ELSE Referral!Init
      /\ IF which = "tabs exposed" THEN StreamExposed!Init ELSE Stream!Init
  BY DEF Init, Component
<1>2. FilesFit /\ ChatFit /\ LimiterFit /\ AccountFit
  BY ONLY <1>1, FilesFitFirst, ChatFitFirst, LimiterFitFirst, AccountFitFirst
<1>3. IF which = "referral exposed" THEN RefExposed!MoneyTypes ELSE Ref!MoneyTypes
  BY ONLY <1>1, ReferralFitFirst, ExposedFitFirst
<1>4. IF which = "tabs exposed" THEN StreamFit({"i1", "i2"}, {"t1"}, 1, 2)
      ELSE StreamFit(Instances, Tabs, MaxNotes, MaxOpened)
  BY ONLY <1>1, StreamFitFirst, StreamExposedFitFirst
<1>5. IF which = "addresses exposed" THEN AddressFit({1}, 2) ELSE AddressFit(Owners, MaxRows)
  BY ONLY <1>1, AddressFirst, AddressExposedFirst
<1>6. ChainTypes
  BY ChainTypesInit
<1>7. QED BY ONLY <1>1, <1>2, <1>3, <1>4, <1>5, <1>6 DEF ServicesFit

LEMMA ServicesStayFit == ASSUME ServicesInv, ServicesFit, [Next]_vars PROVE ServicesFit'
<1>1. /\ which' = which /\ (Files!Next \/ UNCHANGED files) /\ (Chat!Next \/ UNCHANGED chats)
      /\ (Limiter!Next \/ UNCHANGED limiter) /\ (SignIn!Next \/ UNCHANGED signIn)
      /\ IF which = "referral exposed" THEN ReferralExposed!Next \/ UNCHANGED referral ELSE Referral!Next \/ UNCHANGED referral
      /\ IF which = "tabs exposed" THEN StreamExposed!Next \/ UNCHANGED tabs ELSE Stream!Next \/ UNCHANGED tabs
      /\ IF which = "addresses exposed" THEN AddressesExposed!Next \/ UNCHANGED addresses
         ELSE Addresses!Next \/ UNCHANGED addresses
  BY DEF Next, vars
<1>2. /\ FilesInv /\ ChatInv /\ LimiterInv /\ AccountInv
      /\ IF which = "referral exposed" THEN RefExposed!TreeInv ELSE Ref!TreeInv
  BY DEF ServicesInv
<1>3. /\ which \in Component /\ ChainTypes /\ FilesFit /\ ChatFit /\ LimiterFit /\ AccountFit
      /\ IF which = "referral exposed" THEN RefExposed!MoneyTypes ELSE Ref!MoneyTypes
      /\ IF which = "tabs exposed" THEN StreamFit({"i1", "i2"}, {"t1"}, 1, 2)
         ELSE StreamFit(Instances, Tabs, MaxNotes, MaxOpened)
      /\ IF which = "addresses exposed" THEN AddressFit({1}, 2) ELSE AddressFit(Owners, MaxRows)
  BY DEF ServicesFit
<1>4. FilesFit' /\ ChatFit' /\ LimiterFit' /\ AccountFit'
  <2>1. FilesFit'
    BY ONLY <1>1, <1>2, <1>3, FilesStayFit
  <2>2. ChatFit'
    BY ONLY <1>1, <1>2, <1>3, ChatStaysFit
  <2>3. LimiterFit'
    BY ONLY <1>1, <1>2, <1>3, LimiterStaysFit
  <2>4. AccountFit'
    BY ONLY <1>1, <1>2, <1>3, AccountStaysFit
  <2>5. QED BY ONLY <2>1, <2>2, <2>3, <2>4
<1>5. IF which = "referral exposed" THEN RefExposed!MoneyTypes' ELSE Ref!MoneyTypes'
  BY ONLY <1>1, <1>2, <1>3, ReferralStaysFit, ExposedStaysFit
<1>6. IF which = "tabs exposed" THEN StreamFit({"i1", "i2"}, {"t1"}, 1, 2)'
      ELSE StreamFit(Instances, Tabs, MaxNotes, MaxOpened)'
  BY ONLY <1>1, <1>3, StreamStaysFit, StreamExposedStaysFit
<1>7. IF which = "addresses exposed" THEN AddressFit({1}, 2)' ELSE AddressFit(Owners, MaxRows)'
  BY ONLY <1>1, <1>3, AddressStaysFit, AddressExposedStaysFit
<1>8. ChainTypes'
  BY <1>3, ChainTypesKeep
<1>9. which' \in Component /\ which' = which
  BY ONLY <1>1, <1>3
<1>10. QED BY ONLY <1>4, <1>5, <1>6, <1>7, <1>8, <1>9 DEF ServicesFit

LEMMA ServicesAreTyped == ASSUME ServicesInv, ServicesFit PROVE TypeOK
<1>1. /\ FilesInv /\ ChatInv /\ LimiterInv /\ AccountInv
      /\ IF which = "referral exposed" THEN RefExposed!TreeInv ELSE Ref!TreeInv
  BY DEF ServicesInv
<1>2. /\ which \in Component /\ ChainTypes /\ FilesFit /\ ChatFit /\ LimiterFit /\ AccountFit
      /\ IF which = "referral exposed" THEN RefExposed!MoneyTypes ELSE Ref!MoneyTypes
      /\ IF which = "tabs exposed" THEN StreamFit({"i1", "i2"}, {"t1"}, 1, 2)
         ELSE StreamFit(Instances, Tabs, MaxNotes, MaxOpened)
      /\ IF which = "addresses exposed" THEN AddressFit({1}, 2) ELSE AddressFit(Owners, MaxRows)
  BY DEF ServicesFit
<1>3. TransferInv /\ Attempts /\ Purses /\ ScanInv /\ next \in 0..NumBlocks
  BY ONLY <1>2 DEF ChainTypes
<1>4. CASE which = "transfer"
  <2>1. Transfer!TypeOK
    BY ONLY <1>3, TransferIsTyped
  <2>2. QED BY ONLY <1>4, <2>1 DEF TypeOK
<1>5. CASE which = "referral"
  <2>1. Referral!TypeOK
    BY ONLY <1>1, <1>2, <1>5, ReferralIsTyped
  <2>2. QED BY ONLY <1>5, <2>1 DEF TypeOK
<1>6. CASE which = "referral exposed"
  <2>1. ReferralExposed!TypeOK
    BY ONLY <1>1, <1>2, <1>6, ExposedIsTyped
  <2>2. QED BY ONLY <1>6, <2>1 DEF TypeOK
<1>7. CASE which = "limiter"
  <2>1. Limiter!TypeOK
    BY ONLY <1>1, <1>2, LimiterIsTyped
  <2>2. QED BY ONLY <1>7, <2>1 DEF TypeOK
<1>8. CASE which = "chat"
  <2>1. Chat!TypeOK
    BY ONLY <1>1, <1>2, ChatIsTyped
  <2>2. QED BY ONLY <1>8, <2>1 DEF TypeOK
<1>9. CASE which = "tabs"
  <2>1. Stream!TypeOK
    BY ONLY <1>2, <1>9, StreamIsTyped
  <2>2. QED BY ONLY <1>9, <2>1 DEF TypeOK
<1>10. CASE which = "tabs exposed"
  <2>1. StreamExposed!TypeOK
    BY ONLY <1>2, <1>10, StreamExposedIsTyped
  <2>2. QED BY ONLY <1>10, <2>1 DEF TypeOK
<1>11. CASE which = "scan"
  <2>1. Scan!TypeOK
    BY ONLY <1>3, ScanIsTyped
  <2>2. QED BY ONLY <1>11, <2>1 DEF TypeOK
<1>12. CASE which = "accounts"
  <2>1. SignIn!TypeOK
    BY ONLY <1>1, <1>2, AccountIsTyped
  <2>2. QED BY ONLY <1>12, <2>1 DEF TypeOK
<1>13. CASE which = "files"
  <2>1. Files!TypeOK
    BY ONLY <1>1, <1>2, FilesAreTyped
  <2>2. QED BY ONLY <1>13, <2>1 DEF TypeOK
<1>14. CASE which = "addresses"
  <2>1. Addresses!TypeOK
    BY ONLY <1>2, <1>14, AddressIsTyped
  <2>2. QED BY ONLY <1>14, <2>1 DEF TypeOK
<1>15. CASE which = "addresses exposed"
  <2>1. AddressesExposed!TypeOK
    BY ONLY <1>2, <1>15, AddressExposedIsTyped
  <2>2. QED BY ONLY <1>15, <2>1 DEF TypeOK
<1>16. QED
  BY <1>2, <1>4, <1>5, <1>6, <1>7, <1>8, <1>9, <1>10, <1>11, <1>12, <1>13, <1>14, <1>15 DEF Component

\* Every service keeps its types, whichever of them runs and whatever faults it
\* meets: queues, lists of codes, notes, addresses and rewards stay within
\* their bounds, and what refers to one of them refers to one that is there.
THEOREM ServicesTypes == Spec => []TypeOK
<1>1. Init => ServicesInv /\ ServicesFit
  BY ServicesInit, ServicesFitFirst
<1>2. ServicesInv /\ ServicesFit /\ [Next]_vars => ServicesInv' /\ ServicesFit'
  BY ServicesStep, ServicesStayFit
<1>3. ServicesInv /\ ServicesFit => TypeOK
  BY ServicesAreTyped
<1>4. QED BY <1>1, <1>2, <1>3, PTL DEF Spec

-----------------------------------------------------------------------------
(* Deposit addresses: what a tracker and a row say of each other.          *)

\* What a list has stays where it is when something is appended.
LEMMA AppendKeeps ==
  ASSUME NEW S, NEW s \in Seq(S), NEW x \in S
  PROVE  \A k \in 1..Len(s) : Append(s, x)[k] = s[k]
  BY AppendProperties

\* The parts of a path: the coin, the digits of the user, those of the row.
LEMMA PathParts ==
  ASSUME NEW a \in Nat, NEW b \in Nat, NEW c \in Nat, NEW e \in Nat, NEW d \in Nat
  PROVE  LET p == Append(<<a>> \o <<b, c, e>>, d) IN <<b, c, e>> = <<p[2], p[3], p[4]>> /\ d = p[5]
<1> DEFINE t == <<a>> \o <<b, c, e>>
<1>1. <<a>> \in Seq(Nat) /\ <<b, c, e>> \in Seq(Nat) /\ Len(<<a>>) = 1 /\ Len(<<b, c, e>>) = 3
  OBVIOUS
<1>2. t \in Seq(Nat) /\ Len(t) = 4 /\ \A k \in 1..3 : t[k + 1] = <<b, c, e>>[k]
  BY <1>1
<1>3. t[2] = b /\ t[3] = c /\ t[4] = e
  <2>1. t[1 + 1] = b /\ t[2 + 1] = c /\ t[3 + 1] = e
    BY <1>2
  <2>2. QED BY <2>1
<1> HIDE DEF t
<1>4. LET p == Append(t, d) IN p[2] = t[2] /\ p[3] = t[3] /\ p[4] = t[4] /\ p[5] = d
  <2>1. t \in Seq(Nat) /\ Len(t) = 4
    BY <1>2
  <2>2. \A k \in 1..Len(t) : Append(t, d)[k] = t[k]
    BY ONLY <2>1, d \in Nat, AppendKeeps
  <2>3. Append(t, d)[Len(t) + 1] = d
    BY ONLY <2>1, d \in Nat, AppendProperties
  <2>4. 2 \in 1..Len(t) /\ 3 \in 1..Len(t) /\ 4 \in 1..Len(t) /\ Len(t) + 1 = 5
    BY <2>1
  <2>5. Append(t, d)[5] = d
    BY ONLY <2>3, <2>4
  <2>6. QED BY ONLY <2>2, <2>4, <2>5
<1>5. QED BY <1>3, <1>4 DEF t


\* A complete address is at the path that a sweep derives from its row, and a
\* tracker and a row that is saved again have the user and network of the row.
AddressKeyed(r) == r.end # IdBase => r.key = Addresses!Derive(r.net, r.user, r.end)
AddressSigned ==
  /\ \A i \in 1..Len(rows) : AddressKeyed(rows[i])
  /\ \A c \in creating : c.stage = "copy" => AddressKeyed(c) /\ c.end # IdBase
  /\ \A c \in creating : c.stage = "save" => rows[c.row].user = c.user /\ rows[c.row].net = c.net
  /\ \A t \in trackers : t.user = rows[t.row].user /\ t.net = rows[t.row].net

\* Rows come to be and are completed, and do not change hands.
LEMMA AddressRowsKeep ==
  ASSUME AddressFit(Owners, MaxRows), AddressSigned, UNCHANGED trackers,
         \A i \in 1..Len(rows) : rows'[i].user = rows[i].user /\ rows'[i].net = rows[i].net
  PROVE  /\ \A t \in trackers' : t.user = rows'[t.row].user /\ t.net = rows'[t.row].net
         /\ \A c \in creating : c.stage = "save" => rows'[c.row].user = c.user /\ rows'[c.row].net = c.net
<1>1. \A t \in trackers : t.row \in 1..Len(rows) /\ t.user = rows[t.row].user /\ t.net = rows[t.row].net
  BY DEF AddressFit, AddressSigned
<1>2. \A c \in creating : c.stage = "save" => c.row \in 1..Len(rows) /\ rows[c.row].user = c.user /\ rows[c.row].net = c.net
  BY DEF AddressFit, AddressSigned
<1>3. QED BY <1>1, <1>2

\* ETH and BSC have the same coin: the path that is copied is right.
LEMMA AddressBeginsSigned ==
  ASSUME AddressFit(Owners, MaxRows), AddressSigned, NEW u \in Owners, NEW net \in Addresses!Nets,
         Addresses!CreateWallet(u, net) \/ Addresses!ReuseWallet(u, net)
  PROVE  AddressSigned'
<1>1. rows \in Seq(AnAddress(Owners)) /\ Base.id = IdBase
  BY AddressPaths DEF AddressFit
<1>2. UNCHANGED <<rows, trackers>>
  BY DEF Addresses!CreateWallet, Addresses!ReuseWallet, Addresses!Begins
<1>3. \E c : creating' = creating \cup {c} /\ c.stage # "save" /\ (c.stage = "copy" => AddressKeyed(c) /\ c.end # IdBase)
  <2>1. CASE Addresses!CreateWallet(u, net)
    <3> DEFINE c == [user |-> u, net |-> net, stage |-> "insert", row |-> 0, key |-> <<>>, end |-> Base.id]
    <3>1. creating' = creating \cup {c} /\ c.stage = "insert"
      BY <2>1 DEF Addresses!CreateWallet, Addresses!Begins, Addresses!Unset
    <3> HIDE DEF c
    <3>2. QED BY <3>1
  <2>2. CASE Addresses!ReuseWallet(u, net)
    <3>1. PICK i \in DOMAIN rows :
            /\ rows[i].user = u /\ rows[i].net = Addresses!Sister(net) /\ rows[i].end # IdBase
            /\ creating' = creating \cup {[user |-> u, net |-> net, stage |-> "copy", row |-> 0, key |-> rows[i].key, end |-> rows[i].end]}
      BY <1>1, <2>2 DEF Addresses!ReuseWallet, Addresses!Reusable, Addresses!RowsOf, Addresses!Unset
    <3>2. rows[i] \in AnAddress(Owners) /\ AddressKeyed(rows[i])
      BY <1>1, <3>1 DEF AddressSigned
    <3>3. Addresses!Sister(net) \in {"SOL", "ETH", "BSC"}
      BY <3>1, <3>2 DEF AnAddress
    <3>4. Addresses!Coin(Addresses!Sister(net)) = Addresses!Coin(net)
      BY <3>3 DEF Addresses!Nets, Addresses!Sister, Addresses!Coin
    <3>5. rows[i].key = Addresses!Derive(net, u, rows[i].end)
      BY <3>1, <3>2, <3>4 DEF AddressKeyed, Addresses!Derive, Addresses!Short
    <3> DEFINE c == [user |-> u, net |-> net, stage |-> "copy", row |-> 0, key |-> rows[i].key, end |-> rows[i].end]
    <3>6. AddressKeyed(c) /\ c.end # IdBase /\ c.stage = "copy" /\ creating' = creating \cup {c}
      BY <3>1, <3>5 DEF AddressKeyed
    <3> HIDE DEF c
    <3>7. QED BY <3>6
  <2>3. QED BY <2>1, <2>2
<1>4. QED BY <1>2, <1>3 DEF AddressSigned

LEMMA AddressGoesOnSigned ==
  ASSUME AddressFit(Owners, MaxRows), AddressSigned, NEW c \in creating,
         Addresses!CopyWallet(c) \/ Addresses!InsertTemporary(c) \/ Addresses!SaveWallet(c) \/ Addresses!Crash(c)
  PROVE  AddressSigned'
<1>1. /\ rows \in Seq(AnAddress(Owners)) /\ c \in Making(Owners) /\ (c.stage = "save" => c.row \in 1..Len(rows))
      /\ c.net \in Addresses!Nets /\ c.user \in Owners
  BY DEF AddressFit, Making, Addresses!Nets
<1>2. IdBase \in Nat \ {0} /\ Base.id = IdBase /\ Addresses!Unset = IdBase
  BY AddressPaths DEF Addresses!Unset
<1>3. /\ \A i \in 1..Len(rows) : AddressKeyed(rows[i])
      /\ \A d \in creating : d.stage = "copy" => AddressKeyed(d) /\ d.end # IdBase
  BY DEF AddressSigned
<1>4. ASSUME NEW row, rows' = Append(rows, row), AddressKeyed(row), UNCHANGED trackers,
             \/ creating' = creating \ {c}
             \/ \E later : /\ creating' = (creating \ {c}) \cup {later} /\ later.stage = "save" /\ later.row = Len(rows) + 1
                           /\ row.user = later.user /\ row.net = later.net
      PROVE  AddressSigned'
  <2>1. Len(rows) \in Nat /\ Len(rows') = Len(rows) + 1 /\ rows'[Len(rows) + 1] = row
    BY <1>1, <1>4
  <2>2. \A i \in 1..Len(rows) : rows'[i] = rows[i]
    BY <1>1, <1>4
  <2>3. \A i \in 1..Len(rows') : i \in 1..Len(rows) \/ i = Len(rows) + 1
    BY ONLY <2>1
  <2>4. \A i \in 1..Len(rows') : AddressKeyed(rows'[i])
    BY ONLY <1>3, <1>4, <2>1, <2>2, <2>3
  <2>5. /\ \A t \in trackers' : t.user = rows'[t.row].user /\ t.net = rows'[t.row].net
        /\ \A d \in creating : d.stage = "save" => rows'[d.row].user = d.user /\ rows'[d.row].net = d.net
    BY <1>4, <2>2, AddressRowsKeep
  <2>6. \A d \in creating' : d.stage = "copy" => AddressKeyed(d) /\ d.end # IdBase
    BY ONLY <1>3, <1>4
  <2>7. \A d \in creating' : d.stage = "save" => rows'[d.row].user = d.user /\ rows'[d.row].net = d.net
    <3>1. CASE creating' = creating \ {c}
      BY ONLY <2>5, <3>1
    <3>2. CASE \E later : /\ creating' = (creating \ {c}) \cup {later} /\ later.stage = "save" /\ later.row = Len(rows) + 1
                          /\ row.user = later.user /\ row.net = later.net
      <4>1. PICK later : /\ creating' = (creating \ {c}) \cup {later} /\ later.row = Len(rows) + 1
                         /\ row.user = later.user /\ row.net = later.net
        BY ONLY <3>2
      <4>2. rows'[later.row].user = later.user /\ rows'[later.row].net = later.net
        BY ONLY <2>1, <4>1
      <4>3. QED BY ONLY <2>5, <4>1, <4>2
    <3>3. QED BY <1>4, <3>1, <3>2
  <2>8. QED BY <2>4, <2>5, <2>6, <2>7 DEF AddressSigned, AddressKeyed
<1>5. CASE Addresses!CopyWallet(c)
  <2> DEFINE row == [user |-> c.user, net |-> c.net, key |-> c.key, end |-> c.end]
  <2>1. rows' = Append(rows, row) /\ UNCHANGED trackers /\ creating' = creating \ {c}
    BY <1>5 DEF Addresses!CopyWallet, Addresses!Insert
  <2>2. AddressKeyed(row)
    BY <1>3, <1>5 DEF Addresses!CopyWallet, AddressKeyed
  <2> HIDE DEF row
  <2>3. QED BY <1>4, <2>1, <2>2
<1>6. CASE Addresses!InsertTemporary(c)
  <2> DEFINE key == Addresses!Short(c.net, c.user)
             row == [user |-> c.user, net |-> c.net, key |-> key, end |-> IdBase]
             later == [c EXCEPT !.stage = "save", !.row = Len(rows) + 1]
  <2>1. /\ rows' = Append(rows, row) /\ UNCHANGED trackers
        /\ creating' = (creating \ {c}) \cup {later}
    BY <1>2, <1>6 DEF Addresses!InsertTemporary, Addresses!Insert
  <2> HIDE DEF key
  <2>2. later.stage = "save" /\ later.row = Len(rows) + 1 /\ later.user = c.user /\ later.net = c.net
    BY <1>1 DEF Making
  <2>3. AddressKeyed(row) /\ row.user = c.user /\ row.net = c.net
    BY DEF AddressKeyed
  <2> HIDE DEF row, later
  <2>4. QED BY <1>4, <2>1, <2>2, <2>3
<1>7. CASE Addresses!SaveWallet(c)
  <2> DEFINE nth == c.row
             d == c.row % IdBase
             key == Addresses!Derive(c.net, c.user, d)
             keyed == [rows[nth] EXCEPT !.key = key]
             row == [keyed EXCEPT !.end = d]
  <2>1. nth \in 1..Len(rows) /\ UNCHANGED trackers /\ creating' = creating \ {c}
    BY <1>1, <1>7 DEF Addresses!SaveWallet
  <2>2. rows' = [rows EXCEPT ![nth].key = key, ![nth].end = d]
    BY <1>2, <1>7 DEF Addresses!SaveWallet
  <2>3. rows[nth] \in AnAddress(Owners) /\ rows[nth].user = c.user /\ rows[nth].net = c.net
    BY <1>1, <1>7, <2>1 DEF Addresses!SaveWallet, AddressSigned
  <2>4. d \in Nat /\ d # IdBase
    BY <1>1, <1>2, <2>1
  <2>5. rows' = [rows EXCEPT ![nth] = row]
    BY <1>1, <2>1, <2>2
  <2> HIDE DEF nth, d
  <2>6. row.user = c.user /\ row.net = c.net /\ row.end = d /\ row.key = key
    BY <2>3 DEF AnAddress
  <2>7. AddressKeyed(row)
    BY <2>6 DEF AddressKeyed
  <2> HIDE DEF key, keyed, row
  <2>8. DOMAIN rows = 1..Len(rows) /\ Len(rows) \in Nat
    BY ONLY <1>1
  <2>9. DOMAIN rows' = 1..Len(rows) /\ \A i \in 1..Len(rows) : rows'[i] = IF i = nth THEN row ELSE rows[i]
    BY ONLY <2>5, <2>8
  <2>10. rows' \in Seq(AnAddress(Owners))
    BY <1>1, <1>7, AddressGoesOn DEF AddressFit
  <2>11. Len(rows') = Len(rows)
    <3>1. DOMAIN rows' = 1..Len(rows') /\ Len(rows') \in Nat
      BY ONLY <2>10
    <3>2. QED BY ONLY <2>8, <2>9, <3>1
  <2>12. \A i \in 1..Len(rows') : AddressKeyed(rows'[i])
    BY ONLY <1>3, <2>7, <2>9, <2>11
  <2>13. \A i \in 1..Len(rows) : rows'[i].user = rows[i].user /\ rows'[i].net = rows[i].net
    BY ONLY <2>1, <2>3, <2>6, <2>9
  <2>14. /\ \A t \in trackers' : t.user = rows'[t.row].user /\ t.net = rows'[t.row].net
         /\ \A e \in creating : e.stage = "save" => rows'[e.row].user = e.user /\ rows'[e.row].net = e.net
    BY <2>1, <2>13, AddressRowsKeep
  <2>15. QED BY <1>3, <2>1, <2>12, <2>14 DEF AddressSigned, AddressKeyed
<1>8. CASE Addresses!Crash(c)
  BY <1>8 DEF Addresses!Crash, AddressSigned, AddressKeyed
<1>9. QED BY <1>5, <1>6, <1>7, <1>8

LEMMA AddressVisitedSigned ==
  ASSUME AddressFit(Owners, MaxRows), AddressSigned,
         \/ Addresses!GetWalletByNetwork("v1") \/ Addresses!TrackSame("v1") \/ Addresses!TrackMoved("v1")
         \/ Addresses!TrackNew("v1") \/ Addresses!InsertTracker("v1")
  PROVE  AddressSigned'
<1>1. UNCHANGED <<rows, creating>> /\ trackers' \subseteq trackers \cup {Addresses!Tracker("v1")}
  BY DEF Addresses!GetWalletByNetwork, Addresses!TrackSame, Addresses!TrackMoved,
         Addresses!TrackNew, Addresses!InsertTracker, Addresses!Moved, Addresses!Ends
<1> DEFINE t == Addresses!Tracker("v1")
<1>2. t.user = rows[t.row].user /\ t.net = rows[t.row].net
  BY DEF Addresses!Tracker
<1> HIDE DEF t
<1>3. \A s \in trackers' : s.user = rows[s.row].user /\ s.net = rows[s.row].net
  BY <1>1, <1>2 DEF AddressSigned, t
<1>4. QED BY <1>1, <1>3 DEF AddressSigned

LEMMA AddressStaysSigned ==
  ASSUME AddressFit(Owners, MaxRows), AddressSigned, Addresses!Next \/ UNCHANGED addresses
  PROVE  AddressSigned'
<1>1. CASE Addresses!Next
  BY <1>1, AddressBeginsSigned, AddressGoesOnSigned, AddressVisitedSigned DEF Addresses!Next
<1>2. CASE UNCHANGED addresses
  BY <1>2 DEF addresses, AddressSigned, AddressKeyed
<1>3. QED BY <1>1, <1>2

LEMMA AddressIsSwept ==
  ASSUME AddressFit(Owners, MaxRows), AddressSigned, NEW t \in trackers, rows[t.row].end # IdBase, t.key = rows[t.row].key
  PROVE  Addresses!Swept(t)
<1>1. t.row \in 1..Len(rows) /\ t.user = rows[t.row].user /\ t.net = rows[t.row].net /\ Addresses!Unset = IdBase
  BY AddressPaths DEF AddressFit, AddressSigned, Addresses!Unset
<1>2. t.key = Addresses!Derive(t.net, t.user, rows[t.row].end)
  BY <1>1 DEF AddressSigned, AddressKeyed
<1>3. QED BY <1>1, <1>2 DEF Addresses!Swept, Addresses!SweepKey

\* Two complete paths are the same only for the same digits.
LEMMA AddressApart ==
  ASSUME AddressFit(Owners, MaxRows), AddressSigned, NEW i \in 1..Len(rows), NEW j \in 1..Len(rows),
         rows[i].end # IdBase, rows[j].end # IdBase, rows[i].key = rows[j].key
  PROVE  Addresses!Components(rows[i].user) = Addresses!Components(rows[j].user) /\ rows[i].end = rows[j].end
<1>1. /\ rows[i].key = Addresses!Derive(rows[i].net, rows[i].user, rows[i].end)
      /\ rows[j].key = Addresses!Derive(rows[j].net, rows[j].user, rows[j].end)
  BY DEF AddressSigned, AddressKeyed
<1>2. rows[i] \in AnAddress(Owners) /\ rows[j] \in AnAddress(Owners)
  BY DEF AddressFit
<1>3. ASSUME NEW n \in Addresses!Nets, NEW u \in Nat, NEW d \in Nat
      PROVE  LET p == Addresses!Derive(n, u, d)
             IN  Addresses!Components(u) = <<p[2], p[3], p[4]>> /\ d = p[5]
  <2> DEFINE a == Addresses!Coin(n)
             b == (u \div (IdBase * MidBase)) % MidBase
             c == (u \div IdBase) % MidBase
             e == u % IdBase
  <2>0. IdBase \in Nat \ {0} /\ MidBase \in Nat \ {0}
    BY AddressPaths
  <2>1. IdBase * MidBase \in Nat \ {0}
    BY ONLY <2>0
  <2>2. \A x \in Nat, y \in Nat \ {0} : x \div y \in Nat /\ x % y \in Nat
    OBVIOUS
  <2>3. a \in Nat /\ b \in Nat /\ c \in Nat /\ e \in Nat
    BY <2>0, <2>1, <2>2 DEF Addresses!Coin
  <2>4. Addresses!Components(u) = <<b, c, e>> /\ Addresses!Derive(n, u, d) = Append(<<a>> \o <<b, c, e>>, d)
    BY AddressPaths DEF Addresses!Derive, Addresses!Short, Addresses!Components
  <2> HIDE DEF a, b, c, e
  <2>5. QED BY <2>3, <2>4, PathParts
<1>4. Owners \subseteq Nat /\ IdBase \in Nat
  BY AddressPaths
<1>5. \A r \in AnAddress(Owners) : r.user \in Owners /\ r.end \in 0..IdBase /\ r.net \in Addresses!Nets
  BY DEF AnAddress, Addresses!Nets
<1>6. ASSUME NEW r \in AnAddress(Owners), r.key = Addresses!Derive(r.net, r.user, r.end)
      PROVE  LET p == r.key
             IN  Addresses!Components(r.user) = <<p[2], p[3], p[4]>> /\ r.end = p[5]
  <2>1. r.user \in Nat /\ r.end \in Nat /\ r.net \in Addresses!Nets
    <3>1. r.user \in Owners /\ r.end \in 0..IdBase /\ r.net \in Addresses!Nets
      BY <1>5
    <3>2. r.user \in Nat
      BY ONLY <1>4, <3>1
    <3>3. r.end \in Nat
      BY ONLY <1>4, <3>1
    <3>4. QED BY ONLY <3>1, <3>2, <3>3
  <2>2. QED BY <1>3, <1>6, <2>1
<1>7. /\ Addresses!Components(rows[i].user) = <<rows[i].key[2], rows[i].key[3], rows[i].key[4]>> /\ rows[i].end = rows[i].key[5]
      /\ Addresses!Components(rows[j].user) = <<rows[j].key[2], rows[j].key[3], rows[j].key[4]>> /\ rows[j].end = rows[j].key[5]
  BY <1>1, <1>2, <1>6
<1>8. QED BY ONLY <1>7, rows[i].key = rows[j].key

\* A complete address is at the path that a sweep derives from its row, and a
\* tracker and a row that is saved again have the user and network of the row.
AddressExposedKeyed(r) == r.end # IdBase => r.key = AddressesExposed!Derive(r.net, r.user, r.end)
AddressExposedSigned ==
  /\ \A i \in 1..Len(rows) : AddressExposedKeyed(rows[i])
  /\ \A c \in creating : c.stage = "copy" => AddressExposedKeyed(c) /\ c.end # IdBase
  /\ \A c \in creating : c.stage = "save" => rows[c.row].user = c.user /\ rows[c.row].net = c.net
  /\ \A t \in trackers : t.user = rows[t.row].user /\ t.net = rows[t.row].net

\* Rows come to be and are completed, and do not change hands.
LEMMA AddressExposedRowsKeep ==
  ASSUME AddressFit({1}, 2), AddressExposedSigned, UNCHANGED trackers,
         \A i \in 1..Len(rows) : rows'[i].user = rows[i].user /\ rows'[i].net = rows[i].net
  PROVE  /\ \A t \in trackers' : t.user = rows'[t.row].user /\ t.net = rows'[t.row].net
         /\ \A c \in creating : c.stage = "save" => rows'[c.row].user = c.user /\ rows'[c.row].net = c.net
<1>1. \A t \in trackers : t.row \in 1..Len(rows) /\ t.user = rows[t.row].user /\ t.net = rows[t.row].net
  BY DEF AddressFit, AddressExposedSigned
<1>2. \A c \in creating : c.stage = "save" => c.row \in 1..Len(rows) /\ rows[c.row].user = c.user /\ rows[c.row].net = c.net
  BY DEF AddressFit, AddressExposedSigned
<1>3. QED BY <1>1, <1>2

\* ETH and BSC have the same coin: the path that is copied is right.
LEMMA AddressExposedBeginsSigned ==
  ASSUME AddressFit({1}, 2), AddressExposedSigned, NEW u \in {1}, NEW net \in AddressesExposed!Nets,
         AddressesExposed!CreateWallet(u, net) \/ AddressesExposed!ReuseWallet(u, net)
  PROVE  AddressExposedSigned'
<1>1. rows \in Seq(AnAddress({1})) /\ Base.id = IdBase
  BY AddressExposedPaths DEF AddressFit
<1>2. UNCHANGED <<rows, trackers>>
  BY DEF AddressesExposed!CreateWallet, AddressesExposed!ReuseWallet, AddressesExposed!Begins
<1>3. \E c : creating' = creating \cup {c} /\ c.stage # "save" /\ (c.stage = "copy" => AddressExposedKeyed(c) /\ c.end # IdBase)
  <2>1. CASE AddressesExposed!CreateWallet(u, net)
    <3> DEFINE c == [user |-> u, net |-> net, stage |-> "insert", row |-> 0, key |-> <<>>, end |-> Base.id]
    <3>1. creating' = creating \cup {c} /\ c.stage = "insert"
      BY <2>1 DEF AddressesExposed!CreateWallet, AddressesExposed!Begins, AddressesExposed!Unset
    <3> HIDE DEF c
    <3>2. QED BY <3>1
  <2>2. CASE AddressesExposed!ReuseWallet(u, net)
    <3>1. PICK i \in DOMAIN rows :
            /\ rows[i].user = u /\ rows[i].net = AddressesExposed!Sister(net) /\ rows[i].end # IdBase
            /\ creating' = creating \cup {[user |-> u, net |-> net, stage |-> "copy", row |-> 0, key |-> rows[i].key, end |-> rows[i].end]}
      BY <1>1, <2>2 DEF AddressesExposed!ReuseWallet, AddressesExposed!Reusable, AddressesExposed!RowsOf, AddressesExposed!Unset
    <3>2. rows[i] \in AnAddress({1}) /\ AddressExposedKeyed(rows[i])
      BY <1>1, <3>1 DEF AddressExposedSigned
    <3>3. AddressesExposed!Sister(net) \in {"SOL", "ETH", "BSC"}
      BY <3>1, <3>2 DEF AnAddress
    <3>4. AddressesExposed!Coin(AddressesExposed!Sister(net)) = AddressesExposed!Coin(net)
      BY <3>3 DEF AddressesExposed!Nets, AddressesExposed!Sister, AddressesExposed!Coin
    <3>5. rows[i].key = AddressesExposed!Derive(net, u, rows[i].end)
      BY <3>1, <3>2, <3>4 DEF AddressExposedKeyed, AddressesExposed!Derive, AddressesExposed!Short
    <3> DEFINE c == [user |-> u, net |-> net, stage |-> "copy", row |-> 0, key |-> rows[i].key, end |-> rows[i].end]
    <3>6. AddressExposedKeyed(c) /\ c.end # IdBase /\ c.stage = "copy" /\ creating' = creating \cup {c}
      BY <3>1, <3>5 DEF AddressExposedKeyed
    <3> HIDE DEF c
    <3>7. QED BY <3>6
  <2>3. QED BY <2>1, <2>2
<1>4. QED BY <1>2, <1>3 DEF AddressExposedSigned

LEMMA AddressExposedGoesOnSigned ==
  ASSUME AddressFit({1}, 2), AddressExposedSigned, NEW c \in creating,
         AddressesExposed!CopyWallet(c) \/ AddressesExposed!InsertTemporary(c) \/ AddressesExposed!SaveWallet(c) \/ AddressesExposed!Crash(c)
  PROVE  AddressExposedSigned'
<1>1. /\ rows \in Seq(AnAddress({1})) /\ c \in Making({1}) /\ (c.stage = "save" => c.row \in 1..Len(rows))
      /\ c.net \in AddressesExposed!Nets /\ c.user \in {1}
  BY DEF AddressFit, Making, AddressesExposed!Nets
<1>2. IdBase \in Nat \ {0} /\ Base.id = IdBase /\ AddressesExposed!Unset = IdBase
  BY AddressExposedPaths DEF AddressesExposed!Unset
<1>3. /\ \A i \in 1..Len(rows) : AddressExposedKeyed(rows[i])
      /\ \A d \in creating : d.stage = "copy" => AddressExposedKeyed(d) /\ d.end # IdBase
  BY DEF AddressExposedSigned
<1>4. ASSUME NEW row, rows' = Append(rows, row), AddressExposedKeyed(row), UNCHANGED trackers,
             \/ creating' = creating \ {c}
             \/ \E later : /\ creating' = (creating \ {c}) \cup {later} /\ later.stage = "save" /\ later.row = Len(rows) + 1
                           /\ row.user = later.user /\ row.net = later.net
      PROVE  AddressExposedSigned'
  <2>1. Len(rows) \in Nat /\ Len(rows') = Len(rows) + 1 /\ rows'[Len(rows) + 1] = row
    BY <1>1, <1>4
  <2>2. \A i \in 1..Len(rows) : rows'[i] = rows[i]
    BY <1>1, <1>4
  <2>3. \A i \in 1..Len(rows') : i \in 1..Len(rows) \/ i = Len(rows) + 1
    BY ONLY <2>1
  <2>4. \A i \in 1..Len(rows') : AddressExposedKeyed(rows'[i])
    BY ONLY <1>3, <1>4, <2>1, <2>2, <2>3
  <2>5. /\ \A t \in trackers' : t.user = rows'[t.row].user /\ t.net = rows'[t.row].net
        /\ \A d \in creating : d.stage = "save" => rows'[d.row].user = d.user /\ rows'[d.row].net = d.net
    BY <1>4, <2>2, AddressExposedRowsKeep
  <2>6. \A d \in creating' : d.stage = "copy" => AddressExposedKeyed(d) /\ d.end # IdBase
    BY ONLY <1>3, <1>4
  <2>7. \A d \in creating' : d.stage = "save" => rows'[d.row].user = d.user /\ rows'[d.row].net = d.net
    <3>1. CASE creating' = creating \ {c}
      BY ONLY <2>5, <3>1
    <3>2. CASE \E later : /\ creating' = (creating \ {c}) \cup {later} /\ later.stage = "save" /\ later.row = Len(rows) + 1
                          /\ row.user = later.user /\ row.net = later.net
      <4>1. PICK later : /\ creating' = (creating \ {c}) \cup {later} /\ later.row = Len(rows) + 1
                         /\ row.user = later.user /\ row.net = later.net
        BY ONLY <3>2
      <4>2. rows'[later.row].user = later.user /\ rows'[later.row].net = later.net
        BY ONLY <2>1, <4>1
      <4>3. QED BY ONLY <2>5, <4>1, <4>2
    <3>3. QED BY <1>4, <3>1, <3>2
  <2>8. QED BY <2>4, <2>5, <2>6, <2>7 DEF AddressExposedSigned, AddressExposedKeyed
<1>5. CASE AddressesExposed!CopyWallet(c)
  <2> DEFINE row == [user |-> c.user, net |-> c.net, key |-> c.key, end |-> c.end]
  <2>1. rows' = Append(rows, row) /\ UNCHANGED trackers /\ creating' = creating \ {c}
    BY <1>5 DEF AddressesExposed!CopyWallet, AddressesExposed!Insert
  <2>2. AddressExposedKeyed(row)
    BY <1>3, <1>5 DEF AddressesExposed!CopyWallet, AddressExposedKeyed
  <2> HIDE DEF row
  <2>3. QED BY <1>4, <2>1, <2>2
<1>6. CASE AddressesExposed!InsertTemporary(c)
  <2> DEFINE key == AddressesExposed!Short(c.net, c.user)
             row == [user |-> c.user, net |-> c.net, key |-> key, end |-> IdBase]
             later == [c EXCEPT !.stage = "save", !.row = Len(rows) + 1]
  <2>1. /\ rows' = Append(rows, row) /\ UNCHANGED trackers
        /\ creating' = (creating \ {c}) \cup {later}
    BY <1>2, <1>6 DEF AddressesExposed!InsertTemporary, AddressesExposed!Insert
  <2> HIDE DEF key
  <2>2. later.stage = "save" /\ later.row = Len(rows) + 1 /\ later.user = c.user /\ later.net = c.net
    BY <1>1 DEF Making
  <2>3. AddressExposedKeyed(row) /\ row.user = c.user /\ row.net = c.net
    BY DEF AddressExposedKeyed
  <2> HIDE DEF row, later
  <2>4. QED BY <1>4, <2>1, <2>2, <2>3
<1>7. CASE AddressesExposed!SaveWallet(c)
  <2> DEFINE nth == c.row
             d == c.row % IdBase
             key == AddressesExposed!Derive(c.net, c.user, d)
             keyed == [rows[nth] EXCEPT !.key = key]
             row == [keyed EXCEPT !.end = d]
  <2>1. nth \in 1..Len(rows) /\ UNCHANGED trackers /\ creating' = creating \ {c}
    BY <1>1, <1>7 DEF AddressesExposed!SaveWallet
  <2>2. rows' = [rows EXCEPT ![nth].key = key, ![nth].end = d]
    BY <1>2, <1>7 DEF AddressesExposed!SaveWallet
  <2>3. rows[nth] \in AnAddress({1}) /\ rows[nth].user = c.user /\ rows[nth].net = c.net
    BY <1>1, <1>7, <2>1 DEF AddressesExposed!SaveWallet, AddressExposedSigned
  <2>4. d \in Nat /\ d # IdBase
    BY <1>1, <1>2, <2>1
  <2>5. rows' = [rows EXCEPT ![nth] = row]
    BY <1>1, <2>1, <2>2
  <2> HIDE DEF nth, d
  <2>6. row.user = c.user /\ row.net = c.net /\ row.end = d /\ row.key = key
    BY <2>3 DEF AnAddress
  <2>7. AddressExposedKeyed(row)
    BY <2>6 DEF AddressExposedKeyed
  <2> HIDE DEF key, keyed, row
  <2>8. DOMAIN rows = 1..Len(rows) /\ Len(rows) \in Nat
    BY ONLY <1>1
  <2>9. DOMAIN rows' = 1..Len(rows) /\ \A i \in 1..Len(rows) : rows'[i] = IF i = nth THEN row ELSE rows[i]
    BY ONLY <2>5, <2>8
  <2>10. rows' \in Seq(AnAddress({1}))
    BY <1>1, <1>7, AddressExposedGoesOn DEF AddressFit
  <2>11. Len(rows') = Len(rows)
    <3>1. DOMAIN rows' = 1..Len(rows') /\ Len(rows') \in Nat
      BY ONLY <2>10
    <3>2. QED BY ONLY <2>8, <2>9, <3>1
  <2>12. \A i \in 1..Len(rows') : AddressExposedKeyed(rows'[i])
    BY ONLY <1>3, <2>7, <2>9, <2>11
  <2>13. \A i \in 1..Len(rows) : rows'[i].user = rows[i].user /\ rows'[i].net = rows[i].net
    BY ONLY <2>1, <2>3, <2>6, <2>9
  <2>14. /\ \A t \in trackers' : t.user = rows'[t.row].user /\ t.net = rows'[t.row].net
         /\ \A e \in creating : e.stage = "save" => rows'[e.row].user = e.user /\ rows'[e.row].net = e.net
    BY <2>1, <2>13, AddressExposedRowsKeep
  <2>15. QED BY <1>3, <2>1, <2>12, <2>14 DEF AddressExposedSigned, AddressExposedKeyed
<1>8. CASE AddressesExposed!Crash(c)
  BY <1>8 DEF AddressesExposed!Crash, AddressExposedSigned, AddressExposedKeyed
<1>9. QED BY <1>5, <1>6, <1>7, <1>8

LEMMA AddressExposedVisitedSigned ==
  ASSUME AddressFit({1}, 2), AddressExposedSigned,
         \/ AddressesExposed!GetWalletByNetwork("v1") \/ AddressesExposed!TrackSame("v1") \/ AddressesExposed!TrackMoved("v1")
         \/ AddressesExposed!TrackNew("v1") \/ AddressesExposed!InsertTracker("v1")
  PROVE  AddressExposedSigned'
<1>1. UNCHANGED <<rows, creating>> /\ trackers' \subseteq trackers \cup {AddressesExposed!Tracker("v1")}
  BY DEF AddressesExposed!GetWalletByNetwork, AddressesExposed!TrackSame, AddressesExposed!TrackMoved,
         AddressesExposed!TrackNew, AddressesExposed!InsertTracker, AddressesExposed!Moved, AddressesExposed!Ends
<1> DEFINE t == AddressesExposed!Tracker("v1")
<1>2. t.user = rows[t.row].user /\ t.net = rows[t.row].net
  BY DEF AddressesExposed!Tracker
<1> HIDE DEF t
<1>3. \A s \in trackers' : s.user = rows[s.row].user /\ s.net = rows[s.row].net
  BY <1>1, <1>2 DEF AddressExposedSigned, t
<1>4. QED BY <1>1, <1>3 DEF AddressExposedSigned

LEMMA AddressExposedStaysSigned ==
  ASSUME AddressFit({1}, 2), AddressExposedSigned, AddressesExposed!Next \/ UNCHANGED addresses
  PROVE  AddressExposedSigned'
<1>1. CASE AddressesExposed!Next
  BY <1>1, AddressExposedBeginsSigned, AddressExposedGoesOnSigned, AddressExposedVisitedSigned DEF AddressesExposed!Next
<1>2. CASE UNCHANGED addresses
  BY <1>2 DEF addresses, AddressExposedSigned, AddressExposedKeyed
<1>3. QED BY <1>1, <1>2

LEMMA AddressExposedIsSwept ==
  ASSUME AddressFit({1}, 2), AddressExposedSigned, NEW t \in trackers, rows[t.row].end # IdBase, t.key = rows[t.row].key
  PROVE  AddressesExposed!Swept(t)
<1>1. t.row \in 1..Len(rows) /\ t.user = rows[t.row].user /\ t.net = rows[t.row].net /\ AddressesExposed!Unset = IdBase
  BY AddressExposedPaths DEF AddressFit, AddressExposedSigned, AddressesExposed!Unset
<1>2. t.key = AddressesExposed!Derive(t.net, t.user, rows[t.row].end)
  BY <1>1 DEF AddressExposedSigned, AddressExposedKeyed
<1>3. QED BY <1>1, <1>2 DEF AddressesExposed!Swept, AddressesExposed!SweepKey

\* Two complete paths are the same only for the same digits.
LEMMA AddressExposedApart ==
  ASSUME AddressFit({1}, 2), AddressExposedSigned, NEW i \in 1..Len(rows), NEW j \in 1..Len(rows),
         rows[i].end # IdBase, rows[j].end # IdBase, rows[i].key = rows[j].key
  PROVE  AddressesExposed!Components(rows[i].user) = AddressesExposed!Components(rows[j].user) /\ rows[i].end = rows[j].end
<1>1. /\ rows[i].key = AddressesExposed!Derive(rows[i].net, rows[i].user, rows[i].end)
      /\ rows[j].key = AddressesExposed!Derive(rows[j].net, rows[j].user, rows[j].end)
  BY DEF AddressExposedSigned, AddressExposedKeyed
<1>2. rows[i] \in AnAddress({1}) /\ rows[j] \in AnAddress({1})
  BY DEF AddressFit
<1>3. ASSUME NEW n \in AddressesExposed!Nets, NEW u \in Nat, NEW d \in Nat
      PROVE  LET p == AddressesExposed!Derive(n, u, d)
             IN  AddressesExposed!Components(u) = <<p[2], p[3], p[4]>> /\ d = p[5]
  <2> DEFINE a == AddressesExposed!Coin(n)
             b == (u \div (IdBase * MidBase)) % MidBase
             c == (u \div IdBase) % MidBase
             e == u % IdBase
  <2>0. IdBase \in Nat \ {0} /\ MidBase \in Nat \ {0}
    BY AddressExposedPaths
  <2>1. IdBase * MidBase \in Nat \ {0}
    BY ONLY <2>0
  <2>2. \A x \in Nat, y \in Nat \ {0} : x \div y \in Nat /\ x % y \in Nat
    OBVIOUS
  <2>3. a \in Nat /\ b \in Nat /\ c \in Nat /\ e \in Nat
    BY <2>0, <2>1, <2>2 DEF AddressesExposed!Coin
  <2>4. AddressesExposed!Components(u) = <<b, c, e>> /\ AddressesExposed!Derive(n, u, d) = Append(<<a>> \o <<b, c, e>>, d)
    BY AddressExposedPaths DEF AddressesExposed!Derive, AddressesExposed!Short, AddressesExposed!Components
  <2> HIDE DEF a, b, c, e
  <2>5. QED BY <2>3, <2>4, PathParts
<1>4. {1} \subseteq Nat /\ IdBase \in Nat
  BY AddressExposedPaths
<1>5. \A r \in AnAddress({1}) : r.user \in {1} /\ r.end \in 0..IdBase /\ r.net \in AddressesExposed!Nets
  BY DEF AnAddress, AddressesExposed!Nets
<1>6. ASSUME NEW r \in AnAddress({1}), r.key = AddressesExposed!Derive(r.net, r.user, r.end)
      PROVE  LET p == r.key
             IN  AddressesExposed!Components(r.user) = <<p[2], p[3], p[4]>> /\ r.end = p[5]
  <2>1. r.user \in Nat /\ r.end \in Nat /\ r.net \in AddressesExposed!Nets
    <3>1. r.user \in {1} /\ r.end \in 0..IdBase /\ r.net \in AddressesExposed!Nets
      BY <1>5
    <3>2. r.user \in Nat
      BY ONLY <1>4, <3>1
    <3>3. r.end \in Nat
      BY ONLY <1>4, <3>1
    <3>4. QED BY ONLY <3>1, <3>2, <3>3
  <2>2. QED BY <1>3, <1>6, <2>1
<1>7. /\ AddressesExposed!Components(rows[i].user) = <<rows[i].key[2], rows[i].key[3], rows[i].key[4]>> /\ rows[i].end = rows[i].key[5]
      /\ AddressesExposed!Components(rows[j].user) = <<rows[j].key[2], rows[j].key[3], rows[j].key[4]>> /\ rows[j].end = rows[j].key[5]
  BY <1>1, <1>2, <1>6
<1>8. QED BY ONLY <1>7, rows[i].key = rows[j].key

\* Of addresses that are complete.
Complete(i) == rows[i].end # IdBase

SweptOnceComplete ==
  /\ which = "addresses" =>
       \A t \in trackers : Complete(t.row) /\ t.key = rows[t.row].key => Addresses!Swept(t)
  /\ which = "addresses exposed" =>
       \A t \in trackers : Complete(t.row) /\ t.key = rows[t.row].key => AddressesExposed!Swept(t)

SharedByDigits ==
  which \in {"addresses", "addresses exposed"} =>
    \A i, j \in DOMAIN rows :
      Complete(i) /\ Complete(j) /\ rows[i].key = rows[j].key =>
        Addresses!Components(rows[i].user) = Addresses!Components(rows[j].user) /\ rows[i].end = rows[j].end

AddressesSigned == IF which = "addresses exposed" THEN AddressExposedSigned ELSE AddressSigned

LEMMA SignedFirst == ASSUME Init PROVE AddressesSigned
<1>1. rows = <<>> /\ creating = {} /\ trackers = {}
  BY DEF Init, Addresses!Init
<1>2. 1..Len(rows) = {}
  BY <1>1
<1>3. QED BY <1>1, <1>2 DEF AddressesSigned, AddressSigned, AddressExposedSigned

LEMMA SignedStays == ASSUME ServicesFit, AddressesSigned, [Next]_vars PROVE AddressesSigned'
<1>1. /\ which' = which
      /\ IF which = "addresses exposed" THEN AddressesExposed!Next \/ UNCHANGED addresses
         ELSE Addresses!Next \/ UNCHANGED addresses
  BY DEF Next, vars
<1>2. IF which = "addresses exposed" THEN AddressFit({1}, 2) ELSE AddressFit(Owners, MaxRows)
  BY DEF ServicesFit
<1>3. IF which = "addresses exposed" THEN AddressExposedSigned ELSE AddressSigned
  BY DEF AddressesSigned
<1>4. IF which = "addresses exposed" THEN AddressExposedSigned' ELSE AddressSigned'
  BY ONLY <1>1, <1>2, <1>3, AddressStaysSigned, AddressExposedStaysSigned
<1>5. QED BY ONLY <1>1, <1>4 DEF AddressesSigned

LEMMA SignedIsSwept == ASSUME ServicesFit, AddressesSigned PROVE SweptOnceComplete /\ SharedByDigits
<1>1. IF which = "addresses exposed" THEN AddressFit({1}, 2) ELSE AddressFit(Owners, MaxRows)
  BY DEF ServicesFit
<1>2. IF which = "addresses exposed" THEN AddressExposedSigned ELSE AddressSigned
  BY DEF AddressesSigned
<1>3. SweptOnceComplete
  BY ONLY <1>1, <1>2, AddressIsSwept, AddressExposedIsSwept DEF SweptOnceComplete, Complete
<1>4. DOMAIN rows = 1..Len(rows)
  <2>1. \E S : rows \in Seq(S)
    BY <1>1 DEF AddressFit
  <2>2. QED BY ONLY <2>1
<1>5. \A u : AddressesExposed!Components(u) = Addresses!Components(u)
  BY DEF AddressesExposed!Components, Addresses!Components
<1>6. ASSUME NEW i \in 1..Len(rows), NEW j \in 1..Len(rows), Complete(i), Complete(j), rows[i].key = rows[j].key
      PROVE  Addresses!Components(rows[i].user) = Addresses!Components(rows[j].user) /\ rows[i].end = rows[j].end
  <2>1. rows[i].end # IdBase /\ rows[j].end # IdBase
    BY <1>6 DEF Complete
  <2>2. CASE which = "addresses exposed"
    BY <1>1, <1>2, <1>5, <1>6, <2>1, <2>2, AddressExposedApart
  <2>3. CASE which # "addresses exposed"
    BY <1>1, <1>2, <1>6, <2>1, <2>3, AddressApart
  <2>4. QED BY <2>2, <2>3
<1>7. QED BY <1>3, <1>4, <1>6 DEF SharedByDigits

\* What TrackedIsSwept comes to rest on (createWallet, trackingWallet,
\* generateUserWallet): a tracker that has the key of its row is signed for by
\* the sweep as soon as the row is complete, whether creations overlap and are
\* cut short or not.
THEOREM CompleteAreSwept == Spec => []SweptOnceComplete
<1>1. Init => ServicesInv /\ ServicesFit /\ AddressesSigned
  BY ServicesInit, ServicesFitFirst, SignedFirst
<1>2. ServicesInv /\ ServicesFit /\ AddressesSigned /\ [Next]_vars => ServicesInv' /\ ServicesFit' /\ AddressesSigned'
  BY ServicesStep, ServicesStayFit, SignedStays
<1>3. ServicesFit /\ AddressesSigned => SweptOnceComplete
  BY SignedIsSwept
<1>4. QED BY <1>1, <1>2, <1>3, PTL DEF Spec

\* Two complete addresses are the same only for users whose ids have the same
\* digits in the path, of rows whose ids end alike (calculatePathComponents,
\* getLastThreeDigits): of them, the Apart of EachSwept needs nothing else.
THEOREM SharedOnlyByDigits == Spec => []SharedByDigits
<1>1. Init => ServicesInv /\ ServicesFit /\ AddressesSigned
  BY ServicesInit, ServicesFitFirst, SignedFirst
<1>2. ServicesInv /\ ServicesFit /\ AddressesSigned /\ [Next]_vars => ServicesInv' /\ ServicesFit' /\ AddressesSigned'
  BY ServicesStep, ServicesStayFit, SignedStays
<1>3. ServicesFit /\ AddressesSigned => SharedByDigits
  BY SignedIsSwept
<1>4. QED BY <1>1, <1>2, <1>3, PTL DEF Spec

=============================================================================
