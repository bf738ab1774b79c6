--------------------------- MODULE SmartRefProofs ---------------------------
(***************************************************************************)
(* The referrers of every user are each other's referrers, for any number  *)
(* of users and levels, however registrations overlap or stop halfway; and *)
(* with one withdrawal of rewards at a time, each of them recorded, every  *)
(* reward is paid out at most once.                                        *)
(***************************************************************************)
EXTENDS SmartRef, SequenceTheorems, TLAPS

\* The last of the referrers that have their row, or the user himself.
Latest(u) == IF tree[u] = <<>> THEN u ELSE tree[u][Len(tree[u])]

TreeTypes ==
  /\ uref \in [Users -> Users \cup {0}] /\ tree \in [Users -> Seq(Users)]
  /\ joining \subseteq Users \X Users

\* Users register in order, so a referrer is older than whom he refers; the
\* row that is written next is for the referrer of the latest one.
TreeInv ==
  /\ TreeTypes
  /\ \A u, v \in Users : uref[u] # 0 /\ v < u => uref[v] # 0
  /\ \A u \in Users : tree[u] # <<>> => uref[u] # 0
  /\ \A p \in joining : /\ uref[p[1]] # 0
                        /\ p[2] = uref[Latest(p[1])] /\ p[2] < Latest(p[1])
  /\ ReferrersInOrder

-----------------------------------------------------------------------------
LEMMA InitTree == ASSUME Parameters, Init PROVE TreeInv
<1>1. TreeTypes
  BY DEF Parameters, Init, TreeTypes
<1>2. ReferrersInOrder
  BY DEF Init, ReferrersInOrder
<1>3. QED BY <1>1, <1>2 DEF Init, TreeInv, Parameters

\* A new user refers to himself or to a user who registered before.
LEMMA RegisterTree ==
  ASSUME Parameters, TreeInv, NEW u \in Users, NEW by \in Users, Register(u, by)
  PROVE  TreeInv'
<1>1. /\ uref[u] = 0 /\ \A v \in Users : v < u => uref[v] # 0
      /\ by = u \/ uref[by] # 0
      /\ uref' = [uref EXCEPT ![u] = by] /\ UNCHANGED tree
      /\ joining' = IF by = u THEN joining ELSE joining \cup {<<u, by>>}
  BY DEF Register
<1>2. tree[u] = <<>>
  BY <1>1 DEF TreeInv
<1>3. by # u => by < u
  BY <1>1 DEF TreeInv, Parameters
<1>4. TreeTypes'
  BY <1>1 DEF TreeInv, TreeTypes
<1>5. \A v \in Users : v # u => uref'[v] = uref[v]
  BY <1>1 DEF TreeInv, TreeTypes
<1>6. uref'[u] = by /\ by # 0
  BY <1>1 DEF TreeInv, TreeTypes, Parameters
<1>7. \A v, w \in Users : uref'[v] # 0 /\ w < v => uref'[w] # 0
  BY <1>1, <1>5, <1>6 DEF TreeInv, Parameters
<1>8. ASSUME NEW v \in Users PROVE /\ Latest(v) \in Users /\ Latest(v)' = Latest(v)
                                   /\ uref[Latest(v)] # 0 => Latest(v) # u
  BY <1>1 DEF Latest, TreeInv, TreeTypes
<1>9. ASSUME NEW p \in joining'
      PROVE  uref'[p[1]] # 0 /\ p[2] = uref'[Latest(p[1])'] /\ p[2] < Latest(p[1])'
  <2>1. CASE p \in joining
    <3>1. /\ p[1] \in Users /\ p[2] \in Users /\ uref[p[1]] # 0
          /\ p[2] = uref[Latest(p[1])] /\ p[2] < Latest(p[1])
      BY <2>1 DEF TreeInv, TreeTypes
    <3>2. Latest(p[1]) # u
      BY <3>1, <1>1 DEF Parameters
    <3>3. QED BY <3>1, <3>2, <1>1, <1>5, <1>8
  <2>2. CASE p = <<u, by>> /\ by # u
    BY <2>2, <1>2, <1>3, <1>6, <1>8 DEF Latest
  <2>3. QED BY <2>1, <2>2, <1>1
<1>10. ReferrersInOrder'
  <2>1. ASSUME NEW v \in Users, NEW k \in DOMAIN tree[v]
        PROVE  LET before == IF k = 1 THEN v ELSE tree[v][k - 1]
               IN  tree[v][k] = uref'[before] /\ tree[v][k] < before
    <3> DEFINE before == IF k = 1 THEN v ELSE tree[v][k - 1]
    <3>1. tree[v][k] = uref[before] /\ tree[v][k] < before /\ tree[v][k] \in Users /\ before \in Users
      BY DEF TreeInv, TreeTypes, ReferrersInOrder
    <3>2. before # u
      BY <3>1, <1>1 DEF Parameters
    <3>3. QED BY <3>1, <3>2, <1>5
  <2>2. QED BY <2>1, <1>1 DEF ReferrersInOrder
<1>11. \A v \in Users : tree'[v] # <<>> => uref'[v] # 0
  BY <1>1, <1>5, <1>6 DEF TreeInv
<1>12. QED BY <1>4, <1>7, <1>9, <1>10, <1>11 DEF TreeInv

\* A row is written for the referrer of the latest one.
LEMMA RecordLevelTree ==
  ASSUME Parameters, TreeInv, NEW u \in Users, NEW ref \in Users, RecordLevel(u, ref)
  PROVE  TreeInv'
<1> DEFINE rest == IF Len(tree[u]) + 1 < MaxLevel THEN {u} \X NextOf(ref) ELSE {}
<1>1. /\ <<u, ref>> \in joining /\ UNCHANGED uref
      /\ tree' = [tree EXCEPT ![u] = Append(@, ref)]
      /\ joining' = (joining \ {<<u, ref>>}) \cup rest
  BY DEF RecordLevel
<1>2. uref[u] # 0 /\ ref = uref[Latest(u)] /\ ref < Latest(u)
  BY <1>1 DEF TreeInv
<1>3. \A p \in joining : p[1] = u => p = <<u, ref>>
  BY <1>2 DEF TreeInv, TreeTypes
<1>4. NextOf(ref) \subseteq Users /\ \A n \in NextOf(ref) : n = uref[ref] /\ n < ref
  BY DEF NextOf, TreeInv, TreeTypes, ReferrersInOrder
<1>5. tree'[u] = Append(tree[u], ref) /\ \A v \in Users : v # u => tree'[v] = tree[v]
  BY <1>1 DEF TreeInv, TreeTypes
<1>6. /\ tree'[u] \in Seq(Users) /\ Len(tree'[u]) = Len(tree[u]) + 1
      /\ tree'[u][Len(tree[u]) + 1] = ref
      /\ \A k \in 1..Len(tree[u]) : tree'[u][k] = tree[u][k]
  BY <1>5 DEF TreeInv, TreeTypes
<1>7. TreeTypes'
  BY <1>1, <1>4 DEF TreeInv, TreeTypes
<1>8. Latest(u)' = ref /\ \A v \in Users : v # u => Latest(v)' = Latest(v)
  <2>1. Len(tree[u]) \in Nat
    BY DEF TreeInv, TreeTypes
  <2>2. tree'[u] # <<>>
    BY <2>1, <1>6
  <2>3. Latest(u)' = ref
    BY <2>2, <1>6 DEF Latest
  <2>4. \A v \in Users : v # u => Latest(v)' = Latest(v)
    BY <1>5 DEF Latest
  <2>5. QED BY <2>3, <2>4
<1>9. ASSUME NEW p \in joining'
      PROVE  uref'[p[1]] # 0 /\ p[2] = uref'[Latest(p[1])'] /\ p[2] < Latest(p[1])'
  <2>1. CASE p \in joining /\ p # <<u, ref>>
    <3>1. p[1] \in Users /\ p[1] # u
      BY <2>1, <1>3 DEF TreeInv, TreeTypes
    <3>2. QED BY <2>1, <3>1, <1>1, <1>8 DEF TreeInv
  <2>2. CASE p \in {u} \X NextOf(ref)
    BY <2>2, <1>1, <1>2, <1>4, <1>8
  <2>3. QED BY <2>1, <2>2, <1>1
<1>10. ReferrersInOrder'
  <2>1. ASSUME NEW v \in Users, NEW k \in DOMAIN tree'[v]
        PROVE  LET before == IF k = 1 THEN v ELSE tree'[v][k - 1]
               IN  tree'[v][k] = uref[before] /\ tree'[v][k] < before
    <3>1. CASE v # u
      <4>1. tree'[v] = tree[v]
        BY <3>1, <1>5
      <4>2. LET before == IF k = 1 THEN v ELSE tree[v][k - 1]
            IN  tree[v][k] = uref[before] /\ tree[v][k] < before
        BY <4>1 DEF TreeInv, ReferrersInOrder
      <4>3. QED BY <4>1, <4>2
    <3>2. CASE v = u /\ k \in 1..Len(tree[u])
      <4>1. Len(tree[u]) \in Nat /\ DOMAIN tree[u] = 1..Len(tree[u])
        BY DEF TreeInv, TreeTypes
      <4>2. k = 1 \/ k - 1 \in 1..Len(tree[u])
        BY <3>2, <4>1
      <4>3. tree'[u][k] = tree[u][k] /\ (k # 1 => tree'[u][k - 1] = tree[u][k - 1])
        BY <3>2, <4>2, <1>6
      <4>4. LET before == IF k = 1 THEN u ELSE tree[u][k - 1]
            IN  tree[u][k] = uref[before] /\ tree[u][k] < before
        BY <3>2, <4>1 DEF TreeInv, ReferrersInOrder
      <4>5. QED BY <3>2, <4>3, <4>4
    <3>3. CASE v = u /\ k = Len(tree[u]) + 1
      <4>1. tree'[u][k] = ref
        BY <3>3, <1>6
      <4>2. /\ Len(tree[u]) \in Nat /\ (tree[u] = <<>> <=> Len(tree[u]) = 0)
            /\ Len(tree[u]) # 0 => Len(tree[u]) \in 1..Len(tree[u])
        BY DEF TreeInv, TreeTypes
      <4>3. Latest(u) = IF k = 1 THEN u ELSE tree'[u][k - 1]
        <5>1. CASE Len(tree[u]) = 0
          BY <5>1, <3>3, <4>2 DEF Latest
        <5>2. CASE Len(tree[u]) # 0
          BY <5>2, <3>3, <4>2, <1>6 DEF Latest
        <5>3. QED BY <5>1, <5>2
      <4>4. QED BY <3>3, <4>1, <4>3, <1>2
    <3>4. QED
      <4>1. v = u => k \in 1..(Len(tree[u]) + 1)
        BY <1>6, <1>7 DEF TreeTypes
      <4>2. Len(tree[u]) \in Nat
        BY DEF TreeInv, TreeTypes
      <4>3. v = u => k \in 1..Len(tree[u]) \/ k = Len(tree[u]) + 1
        BY <4>1, <4>2
      <4>4. QED BY <3>1, <3>2, <3>3, <4>3
  <2>2. UNCHANGED uref
    BY <1>1
  <2>3. QED BY <2>1, <2>2 DEF ReferrersInOrder
<1>11. \A v \in Users : tree'[v] # <<>> => uref'[v] # 0
  BY <1>1, <1>2, <1>5 DEF TreeInv
<1>12. QED BY <1>1, <1>7, <1>9, <1>10, <1>11 DEF TreeInv

LEMMA StopTree ==
  ASSUME TreeInv, UNCHANGED <<uref, tree>>, joining' \subseteq joining
  PROVE  TreeInv'
<1>1. ReferrersInOrder'
  BY DEF TreeInv, ReferrersInOrder
<1>2. \A u \in Users : Latest(u)' = Latest(u)
  BY DEF Latest
<1>3. QED BY <1>1, <1>2 DEF TreeInv, TreeTypes

LEMMA TreeStep == ASSUME Parameters, TreeInv, [Next]_vars PROVE TreeInv'
<1>1. CASE \E u, by \in Users : Register(u, by)
  BY <1>1, RegisterTree
<1>2. CASE \E u, by \in Users : RecordLevel(u, by)
  BY <1>2, RecordLevelTree
<1>3. CASE \E u, by \in Users : RecordStops(u, by)
  BY <1>3, StopTree DEF RecordStops
<1>4. CASE UNCHANGED treeVars
  BY <1>4, StopTree DEF treeVars
<1>5. ASSUME NEW u \in Users, PostsListing(u) \/ Executes(u) PROVE UNCHANGED treeVars
  BY <1>5 DEF PostsListing, Executes, Distribute
<1>6. ASSUME NEW s \in selling, Reward(s) \/ RewardStops(s) PROVE UNCHANGED treeVars
  BY <1>6 DEF Reward, RewardStops
<1>7. ASSUME NEW r \in Requests,
             \/ \E u \in Users : WithdrawMyReward(r, u)
             \/ Mark(r) \/ Pay(r) \/ PayThrows(r) \/ PayUnseen(r)
             \/ Record(r) \/ RecordThrows(r) \/ Undo(r) \/ Crash(r)
      PROVE  UNCHANGED treeVars
  BY <1>7 DEF WithdrawMyReward, Mark, Pay, PayThrows, PayUnseen, Record, RecordThrows, Undo, Crash
<1>8. CASE UNCHANGED vars
  BY <1>8, StopTree DEF vars
<1>9. QED BY <1>1, <1>2, <1>3, <1>4, <1>5, <1>6, <1>7, <1>8 DEF Next

\* For any number of users and levels, the referrers of a user are in order.
THEOREM ReferrersAreInOrder == ASSUME Parameters PROVE Spec => []ReferrersInOrder
<1>1. Init => TreeInv
  BY InitTree
<1>2. TreeInv /\ [Next]_vars => TreeInv'
  BY TreeStep
<1>3. TreeInv => ReferrersInOrder
  BY DEF TreeInv
<1>4. QED BY <1>1, <1>2, <1>3, PTL DEF Spec

-----------------------------------------------------------------------------
(* Withdrawals.                                                            *)

\* Withdrawals follow each other, and an error means that nothing was paid.
OneAtATime == ~Unseen /\ \A r, q \in Requests : r = q

Reward_  == [to : Users, row : Nat]
History_ == [status : {"can_withdraw", "withdrawn", "deleted"}, pays : SUBSET Nat]
Request_ == [stage : {"idle", "read", "pay", "record", "undo"}, user : Users \cup {0},
             pays : SUBSET Nat, row : Nat]

RewardTypes ==
  /\ tree \in [Users -> Seq(Users)] /\ selling \subseteq [seller : Users, level : Nat \ {0}]
  /\ rewards \in Seq(Reward_) /\ payouts \in Seq(Nat) /\ Len(payouts) = Len(rewards)
  /\ history \in Seq(History_) /\ request \in [Requests -> Request_]

\* A reward that is open is unpaid; one that is marked is among what its
\* withdrawal pays for.
RewardOK(i) ==
  /\ payouts[i] <= 1 /\ rewards[i].row <= Len(history)
  /\ rewards[i].row = 0 => payouts[i] = 0
  /\ rewards[i].row # 0 => /\ i \in history[rewards[i].row].pays
                           /\ history[rewards[i].row].status # "deleted"

\* What a request pays for is open, then marked with its row, and unpaid
\* until it has paid.
RequestOK(r) ==
  /\ request[r].pays \subseteq DOMAIN rewards
  /\ request[r].stage = "read" => \A i \in request[r].pays : rewards[i].row = 0
  /\ request[r].stage \in {"pay", "undo"} =>
       \A i \in request[r].pays : payouts[i] = 0 /\ rewards[i].row = request[r].row
  /\ request[r].stage \in {"pay", "record", "undo"} =>
       /\ request[r].row \in 1..Len(history)
       /\ history[request[r].row].pays = request[r].pays

RewardInv ==
  /\ RewardTypes
  /\ \A i \in DOMAIN rewards : RewardOK(i)
  /\ \A r \in Requests : RequestOK(r)

\* The lengths, and what the sequences hold.
LEMMA RewardFacts ==
  ASSUME RewardInv
  PROVE  /\ Len(rewards) \in Nat /\ DOMAIN rewards = 1..Len(rewards)
         /\ DOMAIN payouts = 1..Len(rewards)
         /\ \A i \in DOMAIN rewards : rewards[i].row \in Nat /\ payouts[i] \in Nat
         /\ Len(history) \in Nat /\ DOMAIN history = 1..Len(history)
         /\ \A h \in 1..Len(history) : history[h] \in History_
<1>1. /\ rewards \in Seq(Reward_) /\ payouts \in Seq(Nat) /\ Len(payouts) = Len(rewards)
      /\ history \in Seq(History_)
  BY DEF RewardInv, RewardTypes
<1>2. \A i \in DOMAIN rewards : rewards[i] \in Reward_
  BY <1>1
<1>3. \A i \in DOMAIN rewards : rewards[i].row \in Nat
  BY <1>2 DEF Reward_
<1>4. QED BY <1>1, <1>3

LEMMA InitReward == ASSUME Init PROVE RewardInv
  BY DEF Init, RewardInv, RewardTypes, RewardOK, RequestOK, Idle, Reward_, History_, Request_

\* A new reward is open and unpaid.
LEMMA RewardKeeps == ASSUME Parameters, RewardInv, NEW s \in selling, Reward(s) PROVE RewardInv'
<1>1. /\ s.seller \in Users /\ s.level \in Nat \ {0} /\ UNCHANGED <<tree, history, request>>
      /\ selling' = (selling \ {s}) \cup (IF s.level = MaxLevel THEN {} ELSE {[s EXCEPT !.level = @ + 1]})
  BY DEF RewardInv, RewardTypes, Reward, treeVars
<1>2. selling' \subseteq [seller : Users, level : Nat \ {0}]
  <2>1. s \in [seller : Users, level : Nat \ {0}] /\ selling \subseteq [seller : Users, level : Nat \ {0}]
    BY DEF RewardInv, RewardTypes
  <2>2. [s EXCEPT !.level = @ + 1] \in [seller : Users, level : Nat \ {0}]
    BY <2>1
  <2>3. QED BY <2>1, <2>2, <1>1
<1>3. CASE UNCHANGED <<rewards, payouts>>
  BY <1>1, <1>2, <1>3 DEF RewardInv, RewardTypes, RewardOK, RequestOK
<1>4. CASE s.level <= Len(tree[s.seller])
  <2> DEFINE new == [to |-> tree[s.seller][s.level], row |-> 0]
  <2>1. new \in Reward_ /\ new.row = 0
    BY <1>1, <1>4 DEF RewardInv, RewardTypes, Reward_
  <2>2. rewards' = Append(rewards, new) /\ payouts' = Append(payouts, 0)
    BY <1>4 DEF Reward
  <2> HIDE DEF new
  <2>3. /\ rewards' \in Seq(Reward_) /\ payouts' \in Seq(Nat) /\ Len(payouts') = Len(rewards')
        /\ DOMAIN rewards' = DOMAIN rewards \cup {Len(rewards) + 1}
        /\ \A i \in DOMAIN rewards : rewards'[i] = rewards[i] /\ payouts'[i] = payouts[i]
        /\ rewards'[Len(rewards) + 1] = new /\ payouts'[Len(rewards) + 1] = 0
    BY <2>1, <2>2 DEF RewardInv, RewardTypes
  <2>4. RewardTypes'
    BY <1>1, <1>2, <2>3 DEF RewardInv, RewardTypes
  <2>5. ASSUME NEW i \in DOMAIN rewards' PROVE RewardOK(i)'
    <3>1. CASE i \in DOMAIN rewards
      BY <3>1, <1>1, <2>3 DEF RewardInv, RewardOK
    <3>2. CASE i = Len(rewards) + 1
      BY <3>2, <1>1, <2>1, <2>3, RewardFacts DEF RewardOK
    <3>3. QED BY <3>1, <3>2, <2>3
  <2>6. \A r \in Requests : RequestOK(r)'
    <3>1. ASSUME NEW r \in Requests PROVE RequestOK(r)'
      <4>1. RequestOK(r) /\ request'[r] = request[r] /\ history' = history
        BY <1>1 DEF RewardInv
      <4>2. QED BY <4>1, <2>3 DEF RequestOK
    <3>2. QED BY <3>1
  <2>7. QED BY <2>4, <2>5, <2>6 DEF RewardInv
<1>5. QED BY <1>3, <1>4 DEF Reward

\* Reading, failing and dying mark and pay nothing.
LEMMA QuietKeeps ==
  ASSUME RewardInv, NEW r \in Requests,
         \/ \E u \in Users : WithdrawMyReward(r, u)
         \/ PayThrows(r) \/ Crash(r)
  PROVE  RewardInv'
<1>1. UNCHANGED <<tree, selling, rewards, history, payouts>>
  BY DEF WithdrawMyReward, PayThrows, Crash, treeVars
<1>2. request' \in [Requests -> Request_] /\ \A q \in Requests : q # r => request'[q] = request[q]
  <2>1. CASE \E u \in Users : WithdrawMyReward(r, u)
    <3>1. PICK u \in Users : WithdrawMyReward(r, u)
      BY <2>1
    <3>2. Open(u) \in SUBSET Nat
      BY DEF Open, Of, RewardInv, RewardTypes
    <3>3. QED BY <3>1, <3>2 DEF WithdrawMyReward, RewardInv, RewardTypes, Request_
  <2>2. CASE PayThrows(r)
    BY <2>2 DEF PayThrows, Goes, RewardInv, RewardTypes, Request_
  <2>3. CASE Crash(r)
    BY <2>3 DEF Crash, Idle, RewardInv, RewardTypes, Request_
  <2>4. QED BY <2>1, <2>2, <2>3
<1>3. RequestOK(r)'
  <2>1. CASE \E u \in Users : WithdrawMyReward(r, u)
    BY <2>1, <1>1 DEF WithdrawMyReward, Open, Of, RewardInv, RewardTypes, RequestOK
  <2>2. CASE PayThrows(r)
    BY <2>2, <1>1 DEF PayThrows, Goes, RewardInv, RewardTypes, RequestOK, Request_
  <2>3. CASE Crash(r)
    BY <2>3, <1>1 DEF Crash, Idle, RewardInv, RewardTypes, RequestOK
  <2>4. QED BY <2>1, <2>2, <2>3
<1>4. \A q \in Requests : RequestOK(q)'
  BY <1>1, <1>2, <1>3 DEF RewardInv, RequestOK
<1>5. QED BY <1>1, <1>2, <1>4 DEF RewardInv, RewardTypes, RewardOK

\* What marking makes of the rewards.
LEMMA MarkedIs ==
  ASSUME rewards \in Seq(Reward_), NEW ids, NEW row \in Nat, rewards' = Marked(ids, row)
  PROVE  /\ rewards' \in Seq(Reward_) /\ DOMAIN rewards' = DOMAIN rewards /\ Len(rewards') = Len(rewards)
         /\ \A i \in DOMAIN rewards : rewards'[i].row = IF i \in ids THEN row ELSE rewards[i].row
<1>1. /\ rewards \in Seq(Reward_) /\ Len(rewards) \in Nat /\ DOMAIN rewards = 1..Len(rewards)
      /\ \A i \in 1..Len(rewards) : rewards[i] \in Reward_
  OBVIOUS
<1>2. \A i \in 1..Len(rewards) :
        /\ (IF i \in ids THEN [rewards[i] EXCEPT !.row = row] ELSE rewards[i]) \in Reward_
        /\ (IF i \in ids THEN [rewards[i] EXCEPT !.row = row] ELSE rewards[i]).row
             = IF i \in ids THEN row ELSE rewards[i].row
  BY <1>1 DEF Reward_
<1>3. rewards' = [i \in 1..Len(rewards) |->
                    IF i \in ids THEN [rewards[i] EXCEPT !.row = row] ELSE rewards[i]]
  BY <1>1 DEF Marked
<1>4. rewards' \in Seq(Reward_) /\ DOMAIN rewards' = 1..Len(rewards) /\ Len(rewards') = Len(rewards)
  BY <1>1, <1>2, <1>3
<1>5. QED BY <1>1, <1>2, <1>3, <1>4

\* The rewards a request has read are still open when it marks them: no other
\* request is there to mark them.
LEMMA MarkKeeps ==
  ASSUME RewardInv, OneAtATime, NEW r \in Requests, Mark(r)
  PROVE  RewardInv'
<1> DEFINE row == Len(history) + 1
           new == [status |-> "can_withdraw", pays |-> request[r].pays]
<1>1. /\ request[r] \in Request_ /\ request[r].stage = "read" /\ history \in Seq(History_)
      /\ Len(history) \in Nat /\ row \in Nat /\ new \in History_
      /\ history' = Append(history, new) /\ rewards' = Marked(request[r].pays, row)
      /\ request' = [request EXCEPT ![r].stage = "pay", ![r].row = row]
      /\ UNCHANGED <<tree, selling, payouts>>
  BY DEF Mark, MarkWhatIsPaid, treeVars, RewardInv, RewardTypes, Request_, History_
<1>2. /\ rewards' \in Seq(Reward_) /\ DOMAIN rewards' = DOMAIN rewards /\ Len(rewards') = Len(rewards)
      /\ \A i \in DOMAIN rewards :
           rewards'[i].row = IF i \in request[r].pays THEN row ELSE rewards[i].row
  BY <1>1, MarkedIs DEF RewardInv, RewardTypes
<1>3. /\ history' \in Seq(History_) /\ Len(history') = row /\ history'[row] = new
      /\ \A h \in 1..Len(history) : history'[h] = history[h]
  BY <1>1
<1>4. /\ request' \in [Requests -> Request_]
      /\ request'[r].stage = "pay" /\ request'[r].row = row /\ request'[r].pays = request[r].pays
  BY <1>1 DEF RewardInv, RewardTypes, Request_
<1>5. RewardTypes'
  BY <1>1, <1>2, <1>3, <1>4 DEF RewardInv, RewardTypes
<1>6. new.pays = request[r].pays /\ new.status # "deleted"
  OBVIOUS
<1> HIDE DEF row, new
<1>7. ASSUME NEW i \in DOMAIN rewards PROVE RewardOK(i)'
  <2>1. RewardOK(i) /\ rewards[i].row \in Nat /\ row = Len(history) + 1
    BY RewardFacts DEF RewardInv, row
  <2>2. CASE i \in request[r].pays
    <3>1. rewards[i].row = 0 /\ rewards'[i].row = row
      BY <2>2, <1>1, <1>2 DEF RewardInv, RequestOK
    <3>2. QED BY <3>1, <2>1, <2>2, <1>1, <1>3, <1>6 DEF RewardOK
  <2>3. CASE i \notin request[r].pays
    BY <2>1, <2>3, <1>1, <1>2, <1>3 DEF RewardOK
  <2>4. QED BY <2>2, <2>3
<1>8. RequestOK(r)'
  <2>1. request[r].pays \subseteq DOMAIN rewards
    BY DEF RewardInv, RequestOK
  <2>2. \A i \in request[r].pays : payouts'[i] = 0 /\ rewards'[i].row = row
    BY <2>1, <1>1, <1>2 DEF RewardInv, RewardOK, RequestOK
  <2>3. row \in 1..Len(history')
    BY <1>1, <1>3 DEF row
  <2>4. QED BY <2>1, <2>2, <2>3, <1>2, <1>3, <1>4, <1>6 DEF RequestOK
<1>9. \A q \in Requests : RequestOK(q)'
  BY <1>8 DEF OneAtATime
<1>10. QED BY <1>2, <1>5, <1>7, <1>9 DEF RewardInv

\* Paying raises what was unpaid to one.
LEMMA PayKeeps ==
  ASSUME RewardInv, OneAtATime, NEW r \in Requests, Pay(r)
  PROVE  RewardInv'
<1>1. /\ request[r] \in Request_ /\ request[r].stage = "pay"
      /\ payouts' = [i \in DOMAIN payouts |-> payouts[i] + (IF i \in request[r].pays THEN 1 ELSE 0)]
      /\ request' = [request EXCEPT ![r].stage = "record"]
      /\ UNCHANGED <<tree, selling, rewards, history>>
  BY DEF Pay, PaidOut, Goes, treeVars, RewardInv, RewardTypes
<1>2. /\ payouts \in Seq(Nat) /\ DOMAIN payouts = 1..Len(payouts) /\ Len(payouts) = Len(rewards)
      /\ DOMAIN rewards = 1..Len(rewards) /\ Len(payouts) \in Nat
  BY DEF RewardInv, RewardTypes
<1>3. \A i \in 1..Len(payouts) :
        /\ payouts[i] \in Nat
        /\ payouts'[i] = payouts[i] + (IF i \in request[r].pays THEN 1 ELSE 0) /\ payouts'[i] \in Nat
  BY <1>1, <1>2
<1>4. payouts' \in Seq(Nat) /\ Len(payouts') = Len(rewards')
  BY <1>1, <1>2, <1>3
<1>5. request' \in [Requests -> Request_] /\ request'[r] = [request[r] EXCEPT !.stage = "record"]
  BY <1>1 DEF RewardInv, RewardTypes, Request_
<1>6. RewardTypes'
  BY <1>1, <1>4, <1>5 DEF RewardInv, RewardTypes
<1>7. ASSUME NEW i \in DOMAIN rewards PROVE RewardOK(i)'
  <2>1. RewardOK(i) /\ i \in 1..Len(payouts)
    BY <1>2 DEF RewardInv
  <2>2. i \in request[r].pays => payouts[i] = 0 /\ rewards[i].row # 0
    BY <1>1 DEF RewardInv, RequestOK
  <2>3. CASE i \in request[r].pays
    BY <2>1, <2>2, <2>3, <1>1, <1>3 DEF RewardOK
  <2>4. CASE i \notin request[r].pays
    <3>1. payouts'[i] = payouts[i]
      BY <2>1, <2>4, <1>3
    <3>2. QED BY <3>1, <2>1, <1>1 DEF RewardOK
  <2>5. QED BY <2>3, <2>4
<1>8. RequestOK(r)'
  BY <1>1, <1>5 DEF RewardInv, RequestOK, Request_
<1>9. \A q \in Requests : RequestOK(q)'
  BY <1>8 DEF OneAtATime
<1>10. QED BY <1>1, <1>6, <1>7, <1>9 DEF RewardInv

LEMMA RecordKeeps ==
  ASSUME RewardInv, OneAtATime, NEW r \in Requests, Record(r)
  PROVE  RewardInv'
<1> DEFINE row == request[r].row
<1>1. /\ row \in 1..Len(history) /\ history \in Seq(History_)
      /\ history' = [history EXCEPT ![row].status = "withdrawn"]
      /\ request' = [request EXCEPT ![r] = Idle]
      /\ UNCHANGED <<tree, selling, rewards, payouts>>
  BY DEF Record, treeVars, RewardInv, RewardTypes, RequestOK
<1>2. /\ history' \in Seq(History_) /\ Len(history') = Len(history)
      /\ history'[row].status = "withdrawn"
      /\ \A h \in 1..Len(history) : /\ history'[h].pays = history[h].pays
                                    /\ h # row => history'[h] = history[h]
  <2>1. [history[row] EXCEPT !.status = "withdrawn"] \in History_
    BY <1>1, RewardFacts DEF History_
  <2>2. history' = [h \in 1..Len(history) |->
                      IF h = row THEN [history[row] EXCEPT !.status = "withdrawn"] ELSE history[h]]
    BY <1>1, RewardFacts
  <2>3. /\ history' \in Seq(History_) /\ Len(history') = Len(history)
        /\ \A h \in 1..Len(history) : h # row => history'[h] = history[h]
    BY <2>1, <2>2, <1>1, RewardFacts
  <2>4. history'[row].status = "withdrawn" /\ history'[row].pays = history[row].pays
    BY <2>2, <1>1, RewardFacts DEF History_
  <2>5. QED BY <2>3, <2>4
<1>3. request' \in [Requests -> Request_] /\ request'[r] = Idle
  BY <1>1 DEF RewardInv, RewardTypes, Request_, Idle
<1>4. RewardTypes'
  BY <1>1, <1>2, <1>3 DEF RewardInv, RewardTypes
<1> HIDE DEF row
<1>5. ASSUME NEW i \in DOMAIN rewards PROVE RewardOK(i)'
  <2>1. RewardOK(i) /\ rewards[i].row \in Nat /\ Len(history) \in Nat
    BY RewardFacts DEF RewardInv
  <2>2. QED BY <2>1, <1>1, <1>2 DEF RewardOK
<1>6. RequestOK(r)'
  BY <1>3 DEF RequestOK, Idle
<1>7. \A q \in Requests : RequestOK(q)'
  BY <1>6 DEF OneAtATime
<1>8. QED BY <1>1, <1>4, <1>5, <1>7 DEF RewardInv

\* A withdrawal that is undone has paid nothing, and leaves no reward marked
\* with the row it deletes.
LEMMA UndoKeeps ==
  ASSUME RewardInv, OneAtATime, NEW r \in Requests, Undo(r)
  PROVE  RewardInv'
<1> DEFINE row == request[r].row
<1>1. /\ row \in 1..Len(history) /\ history \in Seq(History_) /\ history[row].pays = request[r].pays
      /\ \A i \in request[r].pays : payouts[i] = 0
      /\ rewards' = Marked(request[r].pays, 0)
      /\ history' = [history EXCEPT ![row].status = "deleted"]
      /\ request' = [request EXCEPT ![r] = Idle]
      /\ UNCHANGED <<tree, selling, payouts>>
  BY DEF Undo, treeVars, RewardInv, RewardTypes, RequestOK
<1>2. /\ rewards' \in Seq(Reward_) /\ DOMAIN rewards' = DOMAIN rewards /\ Len(rewards') = Len(rewards)
      /\ \A i \in DOMAIN rewards :
           rewards'[i].row = IF i \in request[r].pays THEN 0 ELSE rewards[i].row
  BY <1>1, MarkedIs DEF RewardInv, RewardTypes
<1>3. /\ history' \in Seq(History_) /\ Len(history') = Len(history)
      /\ \A h \in 1..Len(history) : h # row => history'[h] = history[h]
  <2>1. [history[row] EXCEPT !.status = "deleted"] \in History_
    BY <1>1, RewardFacts DEF History_
  <2>2. history' = [h \in 1..Len(history) |->
                      IF h = row THEN [history[row] EXCEPT !.status = "deleted"] ELSE history[h]]
    BY <1>1, RewardFacts
  <2>3. QED BY <2>1, <2>2, <1>1, RewardFacts
<1>4. request' \in [Requests -> Request_] /\ request'[r] = Idle
  BY <1>1 DEF RewardInv, RewardTypes, Request_, Idle
<1>5. RewardTypes'
  BY <1>1, <1>2, <1>3, <1>4 DEF RewardInv, RewardTypes
<1> HIDE DEF row
<1>6. ASSUME NEW i \in DOMAIN rewards PROVE RewardOK(i)'
  <2>1. RewardOK(i) /\ rewards[i].row \in Nat /\ Len(history) \in Nat
    BY RewardFacts DEF RewardInv
  <2>2. CASE i \in request[r].pays
    BY <2>1, <2>2, <1>1, <1>2, <1>3 DEF RewardOK
  <2>3. CASE i \notin request[r].pays
    <3>1. rewards[i].row # row
      BY <2>1, <2>3, <1>1 DEF RewardOK
    <3>2. QED BY <3>1, <2>1, <2>3, <1>1, <1>2, <1>3 DEF RewardOK
  <2>4. QED BY <2>2, <2>3
<1>7. RequestOK(r)'
  BY <1>4 DEF RequestOK, Idle
<1>8. \A q \in Requests : RequestOK(q)'
  BY <1>7 DEF OneAtATime
<1>9. QED BY <1>2, <1>5, <1>6, <1>8 DEF RewardInv

\* Every step preserves the invariant.
LEMMA RewardStep ==
  ASSUME Parameters, OneAtATime, TreeInv, RewardInv, [Next]_vars
  PROVE  RewardInv'
<1>1. ASSUME NEW u \in Users, PostsListing(u) \/ Executes(u) PROVE RewardInv'
  <2>1. /\ selling' = selling \cup {[seller |-> u, level |-> 1]}
        /\ UNCHANGED <<tree, rewards, history, request, payouts>>
    BY <1>1 DEF PostsListing, Executes, Distribute, treeVars, moneyVars
  <2>2. selling' \subseteq [seller : Users, level : Nat \ {0}]
    BY <2>1 DEF RewardInv, RewardTypes
  <2>3. QED BY <2>1, <2>2 DEF RewardInv, RewardTypes, RewardOK, RequestOK
<1>2. ASSUME NEW u \in Users, NEW by \in Users, Register(u, by) \/ RecordLevel(u, by) \/ RecordStops(u, by)
      PROVE  RewardInv'
  <2>1. tree' \in [Users -> Seq(Users)] /\ UNCHANGED <<selling, rewards, history, request, payouts>>
    <3>1. tree \in [Users -> Seq(Users)]
      BY DEF TreeInv, TreeTypes
    <3>2. Register(u, by) \/ RecordStops(u, by) => UNCHANGED <<tree, selling, moneyVars>>
      BY DEF Register, RecordStops
    <3>3. RecordLevel(u, by) =>
            tree' = [tree EXCEPT ![u] = Append(@, by)] /\ UNCHANGED <<selling, moneyVars>>
      BY DEF RecordLevel
    <3>4. Append(tree[u], by) \in Seq(Users)
      BY <3>1
    <3>5. tree' \in [Users -> Seq(Users)]
      BY <1>2, <3>1, <3>2, <3>3, <3>4
    <3>6. QED BY <1>2, <3>2, <3>3, <3>5 DEF moneyVars
  <2>2. QED BY <2>1 DEF RewardInv, RewardTypes, RewardOK, RequestOK
<1>3. ASSUME NEW s \in selling, Reward(s) \/ RewardStops(s) PROVE RewardInv'
  <2>1. CASE Reward(s)
    BY <2>1, RewardKeeps
  <2>2. CASE RewardStops(s)
    BY <2>2 DEF RewardStops, treeVars, moneyVars, RewardInv, RewardTypes, RewardOK, RequestOK
  <2>3. QED BY <1>3, <2>1, <2>2
<1>4. ASSUME NEW r \in Requests,
             \/ \E u \in Users : WithdrawMyReward(r, u)
             \/ Mark(r) \/ Pay(r) \/ PayThrows(r) \/ PayUnseen(r)
             \/ Record(r) \/ RecordThrows(r) \/ Undo(r) \/ Crash(r)
      PROVE  RewardInv'
  <2>1. ~PayUnseen(r) /\ ~RecordThrows(r)
    BY DEF OneAtATime, PayUnseen, RecordThrows
  <2>2. QED BY <1>4, <2>1, QuietKeeps, MarkKeeps, PayKeeps, RecordKeeps, UndoKeeps
<1>5. CASE UNCHANGED vars
  BY <1>5 DEF vars, RewardInv, RewardTypes, RewardOK, RequestOK
<1>6. QED BY <1>1, <1>2, <1>3, <1>4, <1>5 DEF Next

LEMMA RewardsAreOnce == ASSUME RewardInv PROVE RewardPaidOnce
<1>1. ASSUME NEW i \in DOMAIN rewards
      PROVE  /\ payouts[i] <= 1
             /\ payouts[i] = 1 => rewards[i].row # 0
             /\ rewards[i].row # 0 => /\ i \in history[rewards[i].row].pays
                                      /\ history[rewards[i].row].status # "deleted"
  BY DEF RewardInv, RewardOK
<1>2. QED BY <1>1 DEF RewardPaidOnce

\* With one withdrawal at a time whose errors mean that nothing was paid, a
\* reward is paid out once, whenever one fails or the process dies.
THEOREM RewardsPaidOnce ==
  ASSUME Parameters, OneAtATime PROVE Spec => []RewardPaidOnce
<1>1. Init => TreeInv /\ RewardInv
  BY InitTree, InitReward
<1>2. TreeInv /\ RewardInv /\ [Next]_vars => TreeInv' /\ RewardInv'
  BY TreeStep, RewardStep
<1>3. RewardInv => RewardPaidOnce
  BY RewardsAreOnce
<1>4. QED BY <1>1, <1>2, <1>3, PTL DEF Spec

-----------------------------------------------------------------------------
(* Types, whether withdrawals overlap and payments go unrecorded or not.   *)

MoneyTypes ==
  /\ \A u \in Users : Len(tree[u]) <= MaxLevel
  /\ selling \subseteq [seller : Users, level : 1..MaxLevel]
  /\ rewards \in Seq(Reward_) /\ \A i \in DOMAIN rewards : rewards[i].row <= Len(history)
  /\ payouts \in Seq(Nat) /\ Len(payouts) = Len(rewards)
  /\ history \in Seq(History_) /\ request \in [Requests -> Request_]
  /\ \A r \in Requests : request[r].stage \in {"pay", "record", "undo"} => request[r].row \in 1..Len(history)

LEMMA InitMoney == ASSUME Parameters, Init PROVE MoneyTypes
  BY DEF Parameters, Init, MoneyTypes, Idle, Reward_, History_, Request_

\* A row is written for a level there is.
LEMMA LevelsFit ==
  ASSUME Parameters, TreeInv, MoneyTypes, NEW u \in Users, NEW ref \in Users,
         Register(u, ref) \/ RecordLevel(u, ref) \/ RecordStops(u, ref)
  PROVE  MoneyTypes'
<1>1. UNCHANGED <<selling, rewards, history, request, payouts>>
  BY DEF Register, RecordLevel, RecordStops, moneyVars
<1>2. \A v \in Users : Len(tree'[v]) <= MaxLevel
  <2>1. CASE UNCHANGED tree
    BY <2>1 DEF MoneyTypes
  <2>2. CASE RecordLevel(u, ref)
    <3>1. Len(tree[u]) < MaxLevel /\ tree' = [tree EXCEPT ![u] = Append(@, ref)]
      BY <2>2 DEF RecordLevel
    <3>2. tree \in [Users -> Seq(Users)]
      BY DEF TreeInv, TreeTypes
    <3>3. Len(Append(tree[u], ref)) = Len(tree[u]) + 1 /\ Len(tree[u]) \in Nat
      BY <3>2
    <3>4. tree'[u] = Append(tree[u], ref) /\ \A v \in Users : v # u => tree'[v] = tree[v]
      BY <3>1, <3>2
    <3>5. Len(tree'[u]) <= MaxLevel
      BY <3>1, <3>3, <3>4 DEF Parameters
    <3>6. QED BY <3>4, <3>5 DEF MoneyTypes
  <2>3. QED BY <2>1, <2>2 DEF Register, RecordStops
<1>3. QED BY <1>1, <1>2 DEF MoneyTypes

LEMMA SellingFits ==
  ASSUME Parameters, TreeInv, MoneyTypes, NEW s \in selling, Reward(s)
  PROVE  MoneyTypes'
<1>1. /\ s \in [seller : Users, level : 1..MaxLevel] /\ UNCHANGED <<tree, history, request>>
      /\ selling' = (selling \ {s}) \cup (IF s.level = MaxLevel THEN {} ELSE {[s EXCEPT !.level = @ + 1]})
  BY DEF MoneyTypes, Reward, treeVars
<1>2. selling' \subseteq [seller : Users, level : 1..MaxLevel]
  <2>1. s.level # MaxLevel => [s EXCEPT !.level = @ + 1] \in [seller : Users, level : 1..MaxLevel]
    BY <1>1 DEF Parameters
  <2>2. QED BY <2>1, <1>1 DEF MoneyTypes
<1>3. /\ rewards' \in Seq(Reward_) /\ payouts' \in Seq(Nat) /\ Len(payouts') = Len(rewards')
      /\ \A i \in DOMAIN rewards' : rewards'[i].row <= Len(history)
  <2>1. CASE UNCHANGED <<rewards, payouts>>
    BY <2>1 DEF MoneyTypes
  <2>2. CASE s.level <= Len(tree[s.seller])
    <3> DEFINE new == [to |-> tree[s.seller][s.level], row |-> 0]
    <3>1. tree[s.seller] \in Seq(Users) /\ s.level \in 1..Len(tree[s.seller])
      BY <1>1, <2>2 DEF TreeInv, TreeTypes, Parameters
    <3>2. new \in Reward_ /\ new.row = 0
      BY <3>1 DEF Reward_
    <3>3. rewards' = Append(rewards, new) /\ payouts' = Append(payouts, 0)
      BY <2>2 DEF Reward
    <3> HIDE DEF new
    <3>4. /\ rewards' \in Seq(Reward_) /\ payouts' \in Seq(Nat) /\ Len(payouts') = Len(rewards')
          /\ DOMAIN rewards' = DOMAIN rewards \cup {Len(rewards) + 1}
          /\ \A i \in DOMAIN rewards : rewards'[i] = rewards[i]
          /\ rewards'[Len(rewards) + 1] = new
      BY <3>2, <3>3 DEF MoneyTypes
    <3>5. Len(history) \in Nat
      BY DEF MoneyTypes
    <3>6. QED BY <3>2, <3>4, <3>5 DEF MoneyTypes
  <2>3. QED BY <2>1, <2>2 DEF Reward
<1>4. QED BY <1>1, <1>2, <1>3 DEF MoneyTypes

\* What a withdrawal does to its own request, with the rest as it was.
LEMMA RequestFits ==
  ASSUME MoneyTypes, NEW r \in Requests, NEW q \in Request_,
         request' = [request EXCEPT ![r] = q],
         UNCHANGED <<tree, selling>>,
         rewards' \in Seq(Reward_), \A i \in DOMAIN rewards' : rewards'[i].row <= Len(history'),
         payouts' \in Seq(Nat), Len(payouts') = Len(rewards'),
         history' \in Seq(History_), Len(history) <= Len(history'),
         q.stage \in {"pay", "record", "undo"} => q.row \in 1..Len(history')
  PROVE  MoneyTypes'
<1>1. request' \in [Requests -> Request_] /\ request'[r] = q
  BY DEF MoneyTypes
<1>2. ASSUME NEW p \in Requests, request'[p].stage \in {"pay", "record", "undo"}
      PROVE  request'[p].row \in 1..Len(history')
  <2>1. CASE p = r
    BY <1>1, <1>2, <2>1
  <2>2. CASE p # r
    <3>1. request[p].row \in 1..Len(history)
      BY <1>2, <2>2 DEF MoneyTypes
    <3>2. Len(history) \in Nat /\ Len(history') \in Nat
      BY DEF MoneyTypes
    <3>3. QED BY <2>2, <3>1, <3>2 DEF MoneyTypes
  <2>3. QED BY <2>1, <2>2
<1>3. QED BY <1>1, <1>2 DEF MoneyTypes

LEMMA RequestAloneFits ==
  ASSUME MoneyTypes, NEW r \in Requests, NEW q \in Request_,
         request' = [request EXCEPT ![r] = q],
         UNCHANGED <<tree, selling, rewards, history>>,
         payouts' \in Seq(Nat), Len(payouts') = Len(rewards),
         q.stage \in {"pay", "record", "undo"} => q.row \in 1..Len(history)
  PROVE  MoneyTypes'
<1>1. /\ rewards' \in Seq(Reward_) /\ \A i \in DOMAIN rewards' : rewards'[i].row <= Len(history')
      /\ Len(payouts') = Len(rewards') /\ history' \in Seq(History_) /\ Len(history) <= Len(history')
      /\ q.stage \in {"pay", "record", "undo"} => q.row \in 1..Len(history')
  BY DEF MoneyTypes
<1>2. UNCHANGED <<tree, selling>>
  OBVIOUS
<1>3. QED BY ONLY MoneyTypes, r \in Requests, q \in Request_, request' = [request EXCEPT ![r] = q],
                  payouts' \in Seq(Nat), <1>1, <1>2, RequestFits

LEMMA StatusFits ==
  ASSUME history \in Seq(History_), NEW row \in 1..Len(history), NEW status \in {"withdrawn", "deleted"},
         history' = [history EXCEPT ![row].status = status]
  PROVE  history' \in Seq(History_) /\ Len(history') = Len(history)
<1>0. history[row] \in History_
  OBVIOUS
<1>1. [history[row] EXCEPT !.status = status] \in History_
  BY <1>0 DEF History_
<1>2. history' = [history EXCEPT ![row] = [history[row] EXCEPT !.status = status]]
  OBVIOUS
<1>3. QED BY <1>1, <1>2

LEMMA WithdrawalFits ==
  ASSUME MoneyTypes, NEW r \in Requests,
         \/ \E u \in Users : WithdrawMyReward(r, u)
         \/ Mark(r) \/ Pay(r) \/ PayThrows(r) \/ PayUnseen(r)
         \/ Record(r) \/ RecordThrows(r) \/ Undo(r) \/ Crash(r)
  PROVE  MoneyTypes'
<1>0. /\ request[r] \in Request_ /\ request \in [Requests -> Request_] /\ Len(history) \in Nat
      /\ rewards \in Seq(Reward_) /\ history \in Seq(History_) /\ payouts \in Seq(Nat)
      /\ Len(payouts) = Len(rewards) /\ \A i \in DOMAIN rewards : rewards[i].row <= Len(history)
      /\ request[r].stage \in {"pay", "record", "undo"} => request[r].row \in 1..Len(history)
  BY DEF MoneyTypes
<1>1. Idle \in Request_ /\ Idle.stage = "idle"
  BY DEF Idle, Request_
<1>2. ASSUME NEW stage \in {"record", "undo"}, Goes(r, stage), request[r].stage \in {"pay", "record"},
             UNCHANGED <<tree, selling, rewards, history>>, payouts' \in Seq(Nat), Len(payouts') = Len(rewards)
      PROVE  MoneyTypes'
  <2> DEFINE q == [request[r] EXCEPT !.stage = stage]
  <2>1. q \in Request_ /\ q.row = request[r].row
    BY <1>0 DEF Request_
  <2>2. request' = [request EXCEPT ![r] = q]
    BY <1>2 DEF Goes
  <2> HIDE DEF q
  <2>3. stage \in {"pay", "record", "undo"} => q.row \in 1..Len(history)
    BY <1>0, <1>2, <2>1
  <2>4. q.stage \in {"pay", "record", "undo"} => q.row \in 1..Len(history)
    BY <1>0, <1>2, <2>1, <2>3
  <2>5. QED BY ONLY MoneyTypes, r \in Requests, <1>2, <2>1, <2>2, <2>4, RequestAloneFits
<1>3. ASSUME PaidOut(r) PROVE payouts' \in Seq(Nat) /\ Len(payouts') = Len(rewards)
  <2>1. payouts' = [i \in 1..Len(payouts) |-> payouts[i] + (IF i \in request[r].pays THEN 1 ELSE 0)]
    BY <1>0, <1>3 DEF PaidOut
  <2>2. \A i \in 1..Len(payouts) : payouts[i] + (IF i \in request[r].pays THEN 1 ELSE 0) \in Nat
    BY <1>0
  <2>3. QED BY <1>0, <2>1, <2>2
<1>4. CASE \E u \in Users : WithdrawMyReward(r, u)
  <2>1. PICK u \in Users : WithdrawMyReward(r, u)
    BY <1>4
  <2> DEFINE q == [stage |-> "read", user |-> u, pays |-> Open(u), row |-> 0]
  <2>2. Open(u) \in SUBSET Nat
    BY <1>0 DEF Open, Of
  <2>3. q \in Request_ /\ q.stage = "read"
    BY <2>2 DEF Request_
  <2>4. request' = [request EXCEPT ![r] = q] /\ UNCHANGED <<tree, selling, rewards, history, payouts>>
    BY <2>1 DEF WithdrawMyReward, treeVars
  <2> HIDE DEF q
  <2>5. payouts' \in Seq(Nat) /\ Len(payouts') = Len(rewards)
    BY <1>0, <2>4
  <2>6. q.stage \in {"pay", "record", "undo"} => q.row \in 1..Len(history)
    BY <2>3
  <2>7. QED BY ONLY MoneyTypes, r \in Requests, <2>3, <2>4, <2>5, <2>6, RequestAloneFits
<1>5. CASE Mark(r)
  <2> DEFINE row == Len(history) + 1
             marked == [request[r] EXCEPT !.stage = "pay"]
             q == [marked EXCEPT !.row = row]
  <2>1. /\ rewards' = Marked(request[r].pays, row) /\ row \in Nat
        /\ history' = Append(history, [status |-> "can_withdraw", pays |-> request[r].pays])
        /\ UNCHANGED <<tree, selling, payouts>>
    BY <1>0, <1>5 DEF Mark, MarkWhatIsPaid, treeVars
  <2>2. request' = [request EXCEPT ![r] = q]
    BY <1>0, <1>5 DEF Mark
  <2>3. q \in Request_ /\ q.row = row
    BY <1>0, <2>1 DEF Request_
  <2>4. [status |-> "can_withdraw", pays |-> request[r].pays] \in History_
    BY <1>0 DEF History_, Request_
  <2>5. history' \in Seq(History_) /\ Len(history') = row
    BY <1>0, <2>1, <2>4
  <2> HIDE DEF q
  <2>6. /\ rewards' \in Seq(Reward_) /\ DOMAIN rewards' = DOMAIN rewards /\ Len(rewards') = Len(rewards)
        /\ \A i \in DOMAIN rewards : rewards'[i].row = IF i \in request[r].pays THEN row ELSE rewards[i].row
    BY <1>0, <2>1, MarkedIs
  <2>7. row = Len(history) + 1 /\ \A i \in DOMAIN rewards : rewards[i] \in Reward_
    BY <1>0
  <2>8. \A i \in DOMAIN rewards : rewards[i].row \in Nat
    BY <2>7 DEF Reward_
  <2> HIDE DEF row
  <2>9. \A i \in DOMAIN rewards' : rewards'[i].row <= Len(history')
    BY <1>0, <2>5, <2>6, <2>7, <2>8
  <2>10. /\ UNCHANGED <<tree, selling>> /\ payouts' \in Seq(Nat) /\ Len(payouts') = Len(rewards')
         /\ Len(history) <= Len(history') /\ q.row \in 1..Len(history')
    BY <1>0, <2>1, <2>3, <2>5, <2>6, <2>7
  <2>11. QED BY ONLY MoneyTypes, r \in Requests, <2>2, <2>3, <2>5, <2>6, <2>9, <2>10, RequestFits
<1>6. CASE Pay(r) \/ PayThrows(r) \/ PayUnseen(r) \/ RecordThrows(r)
  BY <1>0, <1>2, <1>3, <1>6 DEF Pay, PayThrows, PayUnseen, RecordThrows, treeVars
<1>7. CASE Record(r)
  <2>1. /\ history' = [history EXCEPT ![request[r].row].status = "withdrawn"] /\ request[r].row \in 1..Len(history)
        /\ request' = [request EXCEPT ![r] = Idle] /\ UNCHANGED <<tree, selling, rewards, payouts>>
    BY <1>0, <1>7 DEF Record, treeVars
  <2>2. history' \in Seq(History_) /\ Len(history') = Len(history)
    BY <1>0, <2>1, StatusFits
  <2>3. /\ UNCHANGED <<tree, selling>> /\ payouts' \in Seq(Nat) /\ Len(payouts') = Len(rewards')
        /\ rewards' \in Seq(Reward_) /\ \A i \in DOMAIN rewards' : rewards'[i].row <= Len(history')
        /\ Len(history) <= Len(history') /\ Idle.stage \notin {"pay", "record", "undo"}
    BY <1>0, <1>1, <2>1, <2>2
  <2>4. QED BY ONLY MoneyTypes, r \in Requests, <1>1, <2>1, <2>2, <2>3, RequestFits
<1>8. CASE Undo(r)
  <2>1. /\ history' = [history EXCEPT ![request[r].row].status = "deleted"] /\ request[r].row \in 1..Len(history)
        /\ rewards' = Marked(request[r].pays, 0)
        /\ request' = [request EXCEPT ![r] = Idle] /\ UNCHANGED <<tree, selling, payouts>>
    BY <1>0, <1>8 DEF Undo, treeVars
  <2>2. history' \in Seq(History_) /\ Len(history') = Len(history)
    BY <1>0, <2>1, StatusFits
  <2>3. /\ rewards' \in Seq(Reward_) /\ DOMAIN rewards' = DOMAIN rewards /\ Len(rewards') = Len(rewards)
        /\ \A i \in DOMAIN rewards : rewards'[i].row = IF i \in request[r].pays THEN 0 ELSE rewards[i].row
    BY <1>0, <2>1, MarkedIs
  <2>4. \A i \in DOMAIN rewards' : rewards'[i].row <= Len(history')
    BY <1>0, <2>2, <2>3, SMTT(30)
  <2>5. /\ UNCHANGED <<tree, selling>> /\ payouts' \in Seq(Nat) /\ Len(payouts') = Len(rewards')
        /\ Len(history) <= Len(history') /\ Idle.stage \notin {"pay", "record", "undo"}
    BY <1>0, <1>1, <2>1, <2>2, <2>3
  <2>6. QED BY ONLY MoneyTypes, r \in Requests, <1>1, <2>1, <2>2, <2>3, <2>4, <2>5, RequestFits
<1>9. CASE Crash(r)
  <2>1. request' = [request EXCEPT ![r] = Idle] /\ UNCHANGED <<tree, selling, rewards, history, payouts>>
    BY <1>9 DEF Crash, treeVars
  <2>2. payouts' \in Seq(Nat) /\ Len(payouts') = Len(rewards) /\ Idle.stage \notin {"pay", "record", "undo"}
    BY <1>0, <1>1, <2>1
  <2>3. QED BY ONLY MoneyTypes, r \in Requests, <1>1, <2>1, <2>2, RequestAloneFits
<1>10. QED BY <1>4, <1>5, <1>6, <1>7, <1>8, <1>9

LEMMA MoneyStep == ASSUME Parameters, TreeInv, MoneyTypes, [Next]_vars PROVE MoneyTypes'
<1>1. ASSUME NEW u \in Users, PostsListing(u) \/ Executes(u) PROVE MoneyTypes'
  <2>1. /\ selling' = selling \cup {[seller |-> u, level |-> 1]} /\ 1 \in 1..MaxLevel
        /\ UNCHANGED <<tree, rewards, history, request, payouts>>
    BY <1>1 DEF PostsListing, Executes, Distribute, treeVars, moneyVars, Parameters
  <2>2. selling' \subseteq [seller : Users, level : 1..MaxLevel]
    BY <2>1 DEF MoneyTypes
  <2>3. QED BY <2>1, <2>2 DEF MoneyTypes
<1>2. ASSUME NEW u \in Users, NEW by \in Users, Register(u, by) \/ RecordLevel(u, by) \/ RecordStops(u, by)
      PROVE  MoneyTypes'
  BY <1>2, LevelsFit
<1>3. ASSUME NEW s \in selling, Reward(s) \/ RewardStops(s) PROVE MoneyTypes'
  <2>1. CASE Reward(s)
    BY <2>1, SellingFits
  <2>2. CASE RewardStops(s)
    BY <2>2 DEF RewardStops, treeVars, moneyVars, MoneyTypes
  <2>3. QED BY <1>3, <2>1, <2>2
<1>4. ASSUME NEW r \in Requests,
             \/ \E u \in Users : WithdrawMyReward(r, u)
             \/ Mark(r) \/ Pay(r) \/ PayThrows(r) \/ PayUnseen(r)
             \/ Record(r) \/ RecordThrows(r) \/ Undo(r) \/ Crash(r)
      PROVE  MoneyTypes'
  BY <1>4, WithdrawalFits
<1>5. CASE UNCHANGED vars
  BY <1>5 DEF vars, MoneyTypes
<1>6. QED BY <1>1, <1>2, <1>3, <1>4, <1>5 DEF Next

LEMMA MoneyIsTyped == ASSUME TreeInv, MoneyTypes PROVE TypeOK
<1>1. ASSUME NEW i \in DOMAIN rewards PROVE rewards[i] \in [to : Users, row : {0} \cup Rows]
  <2>1. rewards[i] \in Reward_ /\ rewards[i].row <= Len(history) /\ Len(history) \in Nat
    BY DEF MoneyTypes
  <2>2. QED BY <2>1 DEF Reward_, Rows
<1>2. \A h \in Rows : history[h].status \in {"can_withdraw", "withdrawn", "deleted"}
  <2>1. \A h \in Rows : history[h] \in History_
    BY DEF MoneyTypes, Rows
  <2>2. QED BY <2>1 DEF History_
<1>3. \A r \in Requests : request[r].stage \in {"idle", "read", "pay", "record", "undo"}
  BY DEF MoneyTypes, Request_
<1>4. DOMAIN payouts = DOMAIN rewards
  BY DEF MoneyTypes
<1>5. QED BY <1>1, <1>2, <1>3, <1>4 DEF TreeInv, TreeTypes, MoneyTypes, TypeOK

\* The rows of the referral programme have their types, for any number of users,
\* levels, rewards and requests, whether payments go unrecorded or not.
THEOREM ReferralTypes == ASSUME Parameters PROVE Spec => []TypeOK
<1>1. Init => TreeInv /\ MoneyTypes
  BY InitTree, InitMoney
<1>2. TreeInv /\ MoneyTypes /\ [Next]_vars => TreeInv' /\ MoneyTypes'
  BY TreeStep, MoneyStep
<1>3. TreeInv /\ MoneyTypes => TypeOK
  BY MoneyIsTyped
<1>4. QED BY <1>1, <1>2, <1>3, PTL DEF Spec

=============================================================================
