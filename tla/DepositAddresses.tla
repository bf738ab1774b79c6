-------------------------- MODULE DepositAddresses --------------------------
(***************************************************************************)
(* The deposit addresses of users (user_wallet_networks), the list of      *)
(* those that were looked at lately (active_wallet_trackers), and the      *)
(* address a sweep of a tracked wallet signs for.  All keys are derived    *)
(* from one seed, along a path made of the user's id and the last digits   *)
(* of the row's id; a key is its path here.  A row is inserted with a      *)
(* shorter path, as its id is not known yet, and saved again.              *)
(*                                                                         *)
(* Ids are small: their digits are counted to the bases Base.  TRX is left *)
(* out: it is like SOL with another coin in its paths.                     *)
(*                                                                         *)
(* Reusable and KeptAddress have slips the property is tried against:      *)
(* AnyOther and NeverMoved.                                                *)
(***************************************************************************)
EXTENDS Naturals, Sequences, FiniteSets

CONSTANTS
  Users,     \* ids of users
  Visits,    \* requests that look at an address, under way at the same time
  Base,      \* the bases of the digits: 1000 and 100 in the code
  MaxRows,   \* bound on the addresses ever made
  Overlap,   \* whether two requests may create an address at the same time
  Crashes    \* whether the process dies

Nets == {"SOL", "ETH", "BSC"}

Parameters ==
  /\ Users \subseteq Nat /\ MaxRows \in Nat
  /\ Base \in [id : Nat \ {0}, mid : Nat \ {0}] /\ {Overlap, Crashes} \subseteq BOOLEAN

VARIABLES
  rows,      \* user_wallet_networks
  creating,  \* rows that are made: whose, for which network, how far
  trackers,  \* active_wallet_trackers
  visit      \* per request, where it is, and what it has read

vars == <<rows, creating, trackers, visit>>

Unset == Base.id   \* uwn_end_path is null
Row == [user : Users, net : Nets, key : Seq(Nat), end : 0..Unset]
Idle == [stage |-> "idle", row |-> 0, key |-> <<>>]

\* calculatePathComponents, and the coin of the path: all EVM chains share it.
Coin(net) == IF net = "SOL" THEN 501 ELSE 60
Components(u) ==
  <<(u \div (Base.id * Base.mid)) % Base.mid, (u \div Base.id) % Base.mid, u % Base.id>>
Short(net, u)     == <<Coin(net)>> \o Components(u)
Derive(net, u, d) == Append(Short(net, u), d)

Init ==
  /\ rows = <<>> /\ creating = {}
  /\ trackers = {} /\ visit = [v \in Visits |-> Idle]

RowsOf(u, net) == {i \in DOMAIN rows : rows[i].user = u /\ rows[i].net = net}

-----------------------------------------------------------------------------
(* createWallet                                                            *)

\* A user has no address on the network yet.
Begins(u, net, stage) ==
  /\ RowsOf(u, net) = {}
  /\ Overlap \/ creating = {}
  /\ creating' = creating \cup {[user |-> u, net |-> net, stage |-> stage, row |-> 0, key |-> <<>>, end |-> Unset]}
  /\ UNCHANGED <<rows, trackers, visit>>

\* On ETH and BSC the address of the other one is taken, if it is complete.
Sister(net) == CASE net = "ETH" -> "BSC" [] net = "BSC" -> "ETH" [] OTHER -> "none"
AnyOther(u, net) == RowsOf(u, Sister(net))
Reusable(u, net) == {i \in RowsOf(u, Sister(net)) : rows[i].end # Unset}
CreateWallet(u, net) == Reusable(u, net) = {} /\ Begins(u, net, "insert")
ReuseWallet(u, net) ==
  /\ RowsOf(u, net) = {} /\ (Overlap \/ creating = {})
  /\ \E i \in Reusable(u, net) :
       creating' = creating \cup {[user |-> u, net |-> net, stage |-> "copy", row |-> 0,
                                   key |-> rows[i].key, end |-> rows[i].end]}
  /\ UNCHANGED <<rows, trackers, visit>>

Insert(c, key, end) ==
  /\ Len(rows) < MaxRows
  /\ rows' = Append(rows, [user |-> c.user, net |-> c.net, key |-> key, end |-> end])
CopyWallet(c) ==
  /\ c.stage = "copy" /\ Insert(c, c.key, c.end)
  /\ creating' = creating \ {c} /\ UNCHANGED <<trackers, visit>>
InsertTemporary(c) ==
  /\ c.stage = "insert" /\ Insert(c, Short(c.net, c.user), Unset)
  /\ creating' = (creating \ {c}) \cup {[c EXCEPT !.stage = "save", !.row = Len(rows) + 1]}
  /\ UNCHANGED <<trackers, visit>>
\* getLastThreeDigits of the row's id end the path.
SaveWallet(c) ==
  /\ c.stage = "save"
  /\ LET d == c.row % Base.id IN
       rows' = [rows EXCEPT ![c.row].key = Derive(c.net, c.user, d), ![c.row].end = d]
  /\ creating' = creating \ {c} /\ UNCHANGED <<trackers, visit>>
Crash(c) ==
  /\ Crashes /\ creating' = creating \ {c} /\ UNCHANGED <<rows, trackers, visit>>

-----------------------------------------------------------------------------
(* trackingWallet, when the user asks for the address.                     *)

GetWalletByNetwork(v) ==
  /\ visit[v] = Idle
  /\ \E i \in DOMAIN rows : visit' = [visit EXCEPT ![v] = [stage |-> "look", row |-> i, key |-> rows[i].key]]
  /\ UNCHANGED <<rows, creating, trackers>>

\* The tracker of this address on this network, or else the one of this row,
\* is kept; a new one that meets the unique index is that one after all.
Same(t, v)   == t.key = visit[v].key /\ t.net = rows[visit[v].row].net
Found(v)     == {t \in trackers : Same(t, v)}
FoundByRow(v) == {t \in trackers : t.row = visit[v].row}
Tracker(v) == [row |-> visit[v].row, key |-> visit[v].key, net |-> rows[visit[v].row].net,
               user |-> rows[visit[v].row].user]
NeverMoved(t, v) == [t EXCEPT !.user = rows[visit[v].row].user]
Moved(t, v)      == Tracker(v)
Ends(v) == visit' = [visit EXCEPT ![v] = Idle] /\ UNCHANGED <<rows, creating>>
TrackSame(v) ==
  /\ visit[v].stage = "look" /\ Found(v) # {}
  /\ \E t \in Found(v) : trackers' = (trackers \ {t}) \cup {Tracker(v)}
  /\ Ends(v)
TrackMoved(v) ==
  /\ visit[v].stage = "look" /\ Found(v) = {} /\ FoundByRow(v) # {}
  /\ \E t \in FoundByRow(v) : trackers' = (trackers \ {t}) \cup {Moved(t, v)}
  /\ Ends(v)
TrackNew(v) ==
  /\ visit[v].stage = "look" /\ Found(v) = {} /\ FoundByRow(v) = {}
  /\ visit' = [visit EXCEPT ![v].stage = "insert"]
  /\ UNCHANGED <<rows, creating, trackers>>
InsertTracker(v) ==
  /\ visit[v].stage = "insert"
  /\ trackers' = (trackers \ Found(v)) \cup {Tracker(v)}
  /\ Ends(v)

Next ==
  \/ \E u \in Users, n \in Nets : CreateWallet(u, n) \/ ReuseWallet(u, n)
  \/ \E c \in creating : CopyWallet(c) \/ InsertTemporary(c) \/ SaveWallet(c) \/ Crash(c)
  \/ \E v \in Visits :
       GetWalletByNetwork(v) \/ TrackSame(v) \/ TrackMoved(v) \/ TrackNew(v) \/ InsertTracker(v)

-----------------------------------------------------------------------------
(* Properties.                                                             *)

TypeOK ==
  /\ rows \in Seq(Row) /\ Len(rows) <= MaxRows
  /\ \A c \in creating : c.user \in Users /\ c.net \in Nets /\ c.stage \in {"copy", "insert", "save"}
  /\ \A t \in trackers : t.row \in DOMAIN rows /\ t.net \in Nets /\ t.user \in Users
  /\ \A v \in Visits : visit[v].stage \in {"idle", "look", "insert"}

\* generateUserWallet: the address a sweep of a tracked wallet signs for.
SweepKey(t) == Derive(t.net, t.user, IF rows[t.row].end = Unset THEN 0 ELSE rows[t.row].end)

\* Users keep looking at their addresses, and what has begun goes on.
Look(v, i) == GetWalletByNetwork(v) /\ visit'[v].row = i
Fairness ==
  /\ \A v \in Visits :
       /\ WF_vars(TrackSame(v) \/ TrackMoved(v) \/ TrackNew(v)) /\ WF_vars(InsertTracker(v))
       /\ \A i \in 1..MaxRows : SF_vars(Look(v, i))
  /\ WF_vars(\E c \in creating : CopyWallet(c) \/ InsertTemporary(c) \/ SaveWallet(c))
Spec == Init /\ [][Next]_vars /\ Fairness

\* In the end the address of each tracker is the one its row has and the one a
\* sweep signs for, whichever lookups saw the row before it was complete, and
\* no two users share an address.
Swept(t) == t.key = rows[t.row].key /\ t.key = SweepKey(t)
Apart    == \A i, j \in DOMAIN rows : rows[i].key = rows[j].key => rows[i].user = rows[j].user
EachSwept == Apart /\ \A t \in trackers : Swept(t)
TrackedIsSwept == <>[]EachSwept

=============================================================================
