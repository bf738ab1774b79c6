--------------------------- MODULE TransferFiles ---------------------------
(***************************************************************************)
(* WalletsFileStorageService: the file in which the transfers known of an  *)
(* address are kept, plain or, from some number on, compressed under       *)
(* another name.  Saving merges into the file under a lock that instances  *)
(* of the server share: a directory beside the file, which its holder      *)
(* keeps fresh while it lives and which anybody may take once it is stale. *)
(* Within an instance calls also wait for the promise of the last lock.    *)
(*                                                                         *)
(* A file is a set of transfers: their order is left out.  It is written   *)
(* in steps, and a process may die between any two.                        *)
(*                                                                         *)
(* Overwritten and LooksStale are slips the property is tried against.     *)
(***************************************************************************)
EXTENDS Naturals, FiniteSets

CONSTANTS
  Calls,      \* calls under way at the same time, in one instance or several
  Transfers,  \* hashes
  Threshold,  \* COMPRESS_THRESHOLD: 100
  MaxDeaths   \* bound on the processes that die

Parameters == {Threshold, MaxDeaths} \subseteq Nat /\ "nobody" \notin Calls

VARIABLES
  file,    \* what is in the plain and in the compressed file
  lock,    \* who made the lock directory, and whether it is still fresh
  call,    \* per call, where it is and what it holds
  saved,   \* history: transfers whose save returned
  torn,    \* history: a process died while it wrote
  deaths

vars == <<file, lock, call, saved, torn, deaths>>

Absent == [is |-> "absent", has |-> {}]
Half   == [is |-> "half", has |-> {}]
Whole(txs) == [is |-> "whole", has |-> txs]
NoLock == [by |-> "nobody", fresh |-> FALSE]
Idle   == [stage |-> "idle", txs |-> {}, merged |-> {}]

Init ==
  /\ file = [plain |-> Absent, gz |-> Absent] /\ lock = NoLock
  /\ call = [c \in Calls |-> Idle]
  /\ saved = {} /\ torn = FALSE /\ deaths = 0

At(c, stage) == call[c].stage = stage
Goes(c, stage) == call' = [call EXCEPT ![c].stage = stage]
Kept == UNCHANGED <<saved, torn, deaths>>

-----------------------------------------------------------------------------
SaveTransactions(c, txs) ==
  /\ At(c, "idle") /\ txs # {}
  /\ call' = [call EXCEPT ![c] = [Idle EXCEPT !.stage = "lock", !.txs = txs]]
  /\ UNCHANGED <<file, lock>> /\ Kept
LoadTransactions(c) ==
  /\ At(c, "idle")
  /\ call' = [call EXCEPT ![c] = [Idle EXCEPT !.stage = "lock"]]
  /\ UNCHANGED <<file, lock>> /\ Kept

\* acquireLock: there is no lock, or a stale one is removed and made anew; ten
\* retries may not be enough, and the call throws.
LooksStale == TRUE
Stale      == lock.by = "nobody" \/ ~lock.fresh
AcquireLock(c) ==
  /\ At(c, "lock") /\ Stale
  /\ lock' = [by |-> c, fresh |-> TRUE]
  /\ Goes(c, "read") /\ UNCHANGED file /\ Kept
LockThrows(c) ==
  /\ At(c, "lock") /\ call' = [call EXCEPT ![c] = Idle]
  /\ UNCHANGED <<file, lock>> /\ Kept

\* readFile: the compressed one first.  What is missing or cannot be read
\* counts for nothing; a compressed file that cannot be read is an error of
\* its own, even if there is a plain one.
Content == IF file.gz.is # "absent" THEN file.gz ELSE file.plain

\* A save without anything new ends; a load ends with what it has read.
Overwritten(c) == call[c].txs
Merged(c)      == call[c].txs \cup Content.has
ReadFile(c) ==
  /\ At(c, "read")
  /\ call' = IF call[c].txs \subseteq Content.has
             THEN [call EXCEPT ![c].stage = "release"]
             ELSE [call EXCEPT ![c].stage = "unlink", ![c].merged = Merged(c)]
  /\ UNCHANGED <<file, lock>> /\ Kept

\* writeFile: the file of the other kind is deleted first, then this one is
\* truncated, then it is whole.
Compresses(c) == Cardinality(call[c].merged) >= Threshold
Other(c) == IF Compresses(c) THEN "plain" ELSE "gz"
This(c)  == IF Compresses(c) THEN "gz" ELSE "plain"
Unlink(c) ==
  /\ At(c, "unlink")
  /\ file' = [file EXCEPT ![Other(c)] = Absent]
  /\ Goes(c, "open") /\ UNCHANGED lock /\ Kept
Open(c) ==
  /\ At(c, "open")
  /\ file' = [file EXCEPT ![This(c)] = Half]
  /\ Goes(c, "write") /\ UNCHANGED lock /\ Kept
Write(c) ==
  /\ At(c, "write")
  /\ file' = [file EXCEPT ![This(c)] = Whole(call[c].merged)]
  /\ Goes(c, "release") /\ UNCHANGED lock /\ Kept

\* The lock is released, if it is still one's own, and the call returns.
Release(c) ==
  /\ At(c, "release")
  /\ lock' = IF lock.by = c THEN NoLock ELSE lock
  /\ saved' = saved \cup call[c].txs
  /\ call' = [call EXCEPT ![c] = Idle]
  /\ UNCHANGED <<file, torn, deaths>>

\* The process of a call dies.  A lock it held goes stale.
Dies(c) ==
  /\ ~At(c, "idle") /\ deaths < MaxDeaths
  /\ deaths' = deaths + 1
  /\ call' = [call EXCEPT ![c] = Idle]
  /\ torn' = (torn \/ At(c, "open") \/ At(c, "write"))
  /\ UNCHANGED <<file, lock, saved>>
LockGoesStale ==
  /\ lock.fresh /\ At(lock.by, "idle")
  /\ lock' = [lock EXCEPT !.fresh = FALSE]
  /\ UNCHANGED <<file, call>> /\ Kept

Next ==
  \/ \E c \in Calls :
       \/ \E txs \in SUBSET Transfers : SaveTransactions(c, txs)
       \/ LoadTransactions(c) \/ AcquireLock(c) \/ LockThrows(c) \/ ReadFile(c)
       \/ Unlink(c) \/ Open(c) \/ Write(c) \/ Release(c) \/ Dies(c)
  \/ LockGoesStale
Spec == Init /\ [][Next]_vars

-----------------------------------------------------------------------------
File == [is : {"absent", "half", "whole"}, has : SUBSET Transfers]
TypeOK ==
  /\ file \in [plain : File, gz : File]
  /\ lock.by \in Calls \cup {"nobody"} /\ lock.fresh \in BOOLEAN
  /\ \A c \in Calls : call[c].txs \subseteq Transfers /\ call[c].merged \subseteq Transfers
  /\ saved \subseteq Transfers /\ torn \in BOOLEAN /\ deaths \in 0..MaxDeaths

\* What a save has returned stays in the file, except for a moment while
\* another save writes, however the calls of several instances overlap and
\* die.  (A process that dies between deleting one file and writing the other,
\* or with this one half written, loses everything.)
Writing == \E c \in Calls : At(c, "open") \/ At(c, "write")
SavedIsKept == ~torn /\ ~Writing => saved \subseteq Content.has

=============================================================================
