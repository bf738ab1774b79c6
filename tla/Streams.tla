------------------------------ MODULE Streams ------------------------------
(***************************************************************************)
(* The event streams (SSE) of one user's notifications.  Every instance of *)
(* the server keeps the user's open tabs in memory, hears of notifications *)
(* on a Redis channel, and keeps a count in Redis of the instances that    *)
(* have a tab of the user open.  The streams of administrators are the     *)
(* same without the count.                                                 *)
(*                                                                         *)
(* Commands on the connection of an instance are executed in the order     *)
(* they were sent; what an answer leads to is sent later.                  *)
(*                                                                         *)
(* DisconnectAll and ConnectAnew are slips the property is tried against.  *)
(***************************************************************************)
EXTENDS Integers, Sequences, FiniteSets

CONSTANTS
  Instances,  \* instances of the server
  Tabs,       \* tabs of the user's browsers
  MaxNotes,   \* bound on the notifications ever made
  MaxOpened,  \* bound on the streams ever opened
  Errors      \* whether connections to Redis fail and instances restart

Parameters == {MaxNotes, MaxOpened} \subseteq Nat /\ Errors \in BOOLEAN /\ "none" \notin Instances

VARIABLES
  tab,       \* per tab, the instance it is connected to, and what it has heard
  streams,   \* per instance, the tabs it sends to
  ready,     \* per instance, whether Redis is in use
  count,     \* the field of notifications:user:sse_ref (0: none)
  wire,      \* per instance, the commands it has sent to Redis
  notes,     \* notifications saved
  saving,    \* notifications that are saved and not yet published, with the instance
  channel,   \* notifications published, in order
  heardTo,   \* per instance, how much of the channel it has heard
  opened     \* how many streams were opened

vars == <<tab, streams, ready, count, wire, notes, saving, channel, heardTo, opened>>
redis == <<ready, count, wire>>
noteVars == <<notes, saving, channel, heardTo>>

None == "none"
NoTab == [on |-> None, since |-> 0, heard |-> <<>>]

Init ==
  /\ tab = [t \in Tabs |-> NoTab] /\ streams = [i \in Instances |-> {}]
  /\ ready = [i \in Instances |-> TRUE] /\ count = 0 /\ wire = [i \in Instances |-> <<>>]
  /\ notes = 0 /\ saving = {} /\ channel = <<>> /\ heardTo = [i \in Instances |-> 0]
  /\ opened = 0

\* Without Redis, nothing is sent.
Sends(i, command) == wire' = IF ready[i] THEN [wire EXCEPT ![i] = Append(@, command)] ELSE wire

\* connect: the first tab of the user on an instance is counted.
ConnectAnew(i, t) == streams' = [streams EXCEPT ![i] = {t}]
Added(i, t)       == streams' = [streams EXCEPT ![i] = @ \cup {t}]
Connect(i, t) ==
  /\ tab[t].on = None /\ opened < MaxOpened /\ opened' = opened + 1
  /\ tab' = [tab EXCEPT ![t] = [on |-> i, since |-> Len(channel), heard |-> <<>>]]
  /\ Added(i, t)
  /\ IF streams[i] = {} THEN Sends(i, "increment") ELSE UNCHANGED wire
  /\ UNCHANGED <<ready, count, noteVars>>

\* disconnect, when the request closes: the last tab is no longer counted.
DisconnectAll(i, t) == streams' = [streams EXCEPT ![i] = {}]
Removed(i, t)       == streams' = [streams EXCEPT ![i] = @ \ {t}]
Disconnect(t) ==
  /\ tab[t].on # None
  /\ LET i == tab[t].on IN
       /\ Removed(i, t)
       /\ IF streams[i] = {t} THEN Sends(i, "decrement") ELSE UNCHANGED wire
  /\ tab' = [tab EXCEPT ![t] = NoTab]
  /\ UNCHANGED <<ready, count, noteVars, opened>>

\* Redis executes a command; a decrement that leaves nothing has the field
\* deleted by a command of its own.
Execute(i) ==
  /\ wire[i] # <<>>
  /\ LET command == Head(wire[i])
         rest    == Tail(wire[i])
         after   == CASE command = "increment" -> count + 1
                      [] command = "decrement" -> count - 1
                      [] command = "delete"    -> 0
     IN /\ count' = after
        /\ wire' = [wire EXCEPT ![i] =
             IF command = "decrement" /\ after <= 0 /\ ready[i] THEN Append(rest, "delete") ELSE rest]
  /\ UNCHANGED <<tab, streams, ready, noteVars, opened>>

\* createForUser saves a notification, then publishes it.
Save(i) ==
  /\ notes < MaxNotes /\ notes' = notes + 1
  /\ saving' = saving \cup {<<notes + 1, i>>}
  /\ UNCHANGED <<tab, streams, redis, channel, heardTo, opened>>
Publish(n, i) ==
  /\ <<n, i>> \in saving /\ saving' = saving \ {<<n, i>>}
  /\ channel' = IF ready[i] THEN Append(channel, n) ELSE channel
  /\ UNCHANGED <<tab, streams, redis, notes, heardTo, opened>>

\* emitToUser, when the instance hears of it.
Hear(i) ==
  /\ heardTo[i] < Len(channel)
  /\ heardTo' = [heardTo EXCEPT ![i] = @ + 1]
  /\ tab' = [t \in Tabs |->
       IF t \in streams[i] THEN [tab[t] EXCEPT !.heard = Append(@, channel[heardTo[i] + 1])] ELSE tab[t]]
  /\ UNCHANGED <<streams, redis, notes, saving, channel, opened>>

\* An error on a connection: Redis is not used again before a restart.  What
\* is published before the connection is back is not heard.
RedisError(i) ==
  /\ Errors /\ ready[i]
  /\ ready' = [ready EXCEPT ![i] = FALSE]
  /\ UNCHANGED <<tab, streams, count, wire, noteVars, opened>>
Unheard(i) ==
  /\ ~ready[i] /\ heardTo[i] < Len(channel)
  /\ heardTo' = [heardTo EXCEPT ![i] = @ + 1]
  /\ UNCHANGED <<tab, streams, redis, notes, saving, channel, opened>>
Restart(i) ==
  /\ Errors
  /\ ready' = [ready EXCEPT ![i] = TRUE]
  /\ streams' = [streams EXCEPT ![i] = {}]
  /\ tab' = [t \in Tabs |-> IF tab[t].on = i THEN NoTab ELSE tab[t]]
  /\ wire' = [wire EXCEPT ![i] = <<>>]
  /\ saving' = {s \in saving : s[2] # i}
  /\ heardTo' = [heardTo EXCEPT ![i] = Len(channel)]
  /\ UNCHANGED <<count, notes, channel, opened>>

Next ==
  \/ \E i \in Instances : \/ Execute(i) \/ Save(i) \/ Hear(i) \/ RedisError(i) \/ Unheard(i) \/ Restart(i)
                          \/ \E t \in Tabs : Connect(i, t) \/ \E n \in 1..MaxNotes : Publish(n, i)
  \/ \E t \in Tabs : Disconnect(t)
Spec == Init /\ [][Next]_vars

-----------------------------------------------------------------------------
TypeOK ==
  /\ tab \in [Tabs -> [on : Instances \cup {None}, since : 0..MaxNotes, heard : Seq(1..MaxNotes)]]
  /\ streams \in [Instances -> SUBSET Tabs] /\ ready \in [Instances -> BOOLEAN]
  /\ count \in Int /\ \A i \in Instances : wire[i] \in Seq({"increment", "decrement", "delete"})
  /\ notes \in 0..MaxNotes /\ saving \subseteq (1..MaxNotes) \X Instances
  /\ channel \in Seq(1..MaxNotes) /\ \A i \in Instances : heardTo[i] \in 0..Len(channel)
  /\ opened \in 0..MaxOpened

\* Once an instance has heard all that was published, each of its open tabs has
\* shown every notification published since it was opened, once, whichever
\* tabs of the user were opened and closed meanwhile.
Times(t, n) == Cardinality({k \in DOMAIN tab[t].heard : tab[t].heard[k] = n})
HeardOnce ==
  \A t \in Tabs : \A i \in Instances :
    tab[t].on = i /\ ready[i] /\ heardTo[i] = Len(channel) =>
      \A k \in tab[t].since + 1..Len(channel) : Times(t, channel[k]) = 1

\* When all commands are executed, the count is the number of instances that
\* have a tab open.  (It is not: a decrement that leaves nothing deletes the
\* field later, with what was counted in between, and a restart counts nothing
\* off.)
OpenStreamIsCounted ==
  (\A i \in Instances : wire[i] = <<>> /\ ready[i]) =>
    count = Cardinality({i \in Instances : streams[i] # {}})

=============================================================================
