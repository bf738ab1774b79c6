----------------------------- MODULE RpcLimiter -----------------------------
(***************************************************************************)
(* RpcRateLimitService: the calls of every job and request that go to an   *)
(* RPC endpoint, and the slots they wait for, at most `limit` in any       *)
(* window.  A slot is given out by the head of a chain of promises, which  *)
(* sleeps while the window is full.  The limit is read from the settings   *)
(* and cached; a call keeps the limit it has read while it waits.          *)
(*                                                                         *)
(* Time is counted in ticks, Window of them a second.  The list of the     *)
(* slots, oldest first, is how many there are of each age; Window is any   *)
(* age of a second or more.  Callers come back for another slot for ever.  *)
(*                                                                         *)
(* FilterAtLeast is a slip the properties are tried against.               *)
(***************************************************************************)
EXTENDS Sequences, Sums

CONSTANTS
  Callers,  \* the parts of the program that call an endpoint
  Window,   \* a second (1000 ms)
  Limits,   \* what the setting may be (getEffectiveRpcRateLimit is never 0)
  CacheFor  \* how long the limit is cached (60 s)

Parameters == Window \in Nat \ {0} /\ Limits \subseteq Nat \ {0} /\ CacheFor \in Nat

VARIABLES
  setting,  \* as_config_rps_rate_limit
  cached,   \* the limit in the cache
  age,      \* the age of what is cached
  given,    \* lastRpcTimestamps: how many slots of each age were given out
  queue,    \* rpcSlotQueue: callers that wait, with the limit they have read
  sleep,    \* how long the head of the queue will sleep yet
  slots     \* history: the same of all slots given out in the last second

vars == <<setting, cached, age, given, queue, sleep, slots>>

Ages == 0..Window
NoSlots == [t \in Ages |-> 0]
Length(list) == Total([i \in 1..Window + 1 |-> list[i - 1]], Window + 1)
Oldest(list) == CHOOSE t \in Ages : list[t] > 0 /\ \A u \in Ages : list[u] > 0 => u <= t

Init ==
  /\ setting \in Limits /\ cached = setting /\ age = CacheFor
  /\ given = NoSlots /\ slots = NoSlots /\ queue = <<>> /\ sleep = 0

Waits(c) == \E i \in DOMAIN queue : queue[i].caller = c

\* The limit a call reads: the cached one, or the setting once it is stale.
Limit == IF age < CacheFor THEN cached ELSE setting
Refreshed == cached' = Limit /\ age' = (IF age < CacheFor THEN age ELSE 0)

\* acquireRpcSlot: the call joins the queue.
Acquire(c) ==
  /\ ~Waits(c) /\ Refreshed
  /\ queue' = Append(queue, [caller |-> c, limit |-> Limit])
  /\ UNCHANGED <<setting, given, sleep, slots>>

\* The slots of the last second.
FilterAtLeast == [t \in Ages |-> IF t + 1 < Window THEN given[t] ELSE 0]
Filter        == [t \in Ages |-> IF t < Window THEN given[t] ELSE 0]

\* The head of the queue takes a slot, or sleeps until the oldest slot leaves
\* the window, and looks again.
GiveSlot ==
  /\ queue # <<>> /\ sleep = 0
  /\ Length(Filter) < Head(queue).limit
  /\ given' = [Filter EXCEPT ![0] = @ + 1] /\ slots' = [slots EXCEPT ![0] = @ + 1]
  /\ queue' = Tail(queue)
  /\ UNCHANGED <<setting, cached, age, sleep>>
Sleep ==
  /\ queue # <<>> /\ sleep = 0
  /\ Length(Filter) >= Head(queue).limit
  /\ given' = Filter
  /\ sleep' = Window - Oldest(Filter)
  /\ UNCHANGED <<setting, cached, age, queue, slots>>

\* The clock: nothing the limiter can do at once is put off.
Ready == queue # <<>> /\ sleep = 0
Tick ==
  /\ ~Ready
  /\ age' = IF age < CacheFor THEN age + 1 ELSE age
  /\ LET Older(list) == [t \in Ages |-> IF t = 0 THEN 0 ELSE list[t - 1]]
     IN /\ given' = [Older(given) EXCEPT ![Window] = @ + given[Window]]
        /\ slots' = [Older(slots) EXCEPT ![Window] = 0]
  /\ sleep' = IF sleep = 0 THEN 0 ELSE sleep - 1
  /\ UNCHANGED <<setting, cached, queue>>

\* An administrator changes the setting.
SetLimit(l) == setting' = l /\ l # setting /\ UNCHANGED <<cached, age, given, queue, sleep, slots>>

Next ==
  \/ \E c \in Callers : Acquire(c)
  \/ GiveSlot \/ Sleep \/ Tick
  \/ \E l \in Limits : SetLimit(l)

Spec == Init /\ [][Next]_vars

-----------------------------------------------------------------------------
TypeOK ==
  /\ setting \in Limits /\ cached \in Limits /\ age \in 0..CacheFor
  /\ {given, slots} \subseteq [Ages -> Nat] /\ sleep \in 0..Window
  /\ queue \in Seq([caller : Callers, limit : Limits])

\* Whenever a slot is given out, no more than the limit of its caller have been
\* in the last second, the setting changing meanwhile or not.
RateKept == [][Len(queue') < Len(queue) => Length(slots') <= Head(queue).limit]_vars

=============================================================================
