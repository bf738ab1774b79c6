------------------------------ MODULE SmartRef ------------------------------
(***************************************************************************)
(* The referral programme: whom a user was referred by, up to some levels  *)
(* (smart_ref_trees), the rewards his sales earn them (smart_ref_rewards)  *)
(* and the withdrawal of rewards in USDT (ref_withdraw_histories).         *)
(*                                                                         *)
(* One seller joins, sells, and his referrers withdraw.  What a reward is  *)
(* worth is left out; a withdrawal carries the rewards it pays for.        *)
(*                                                                         *)
(* NextOfAnyone, MarkWhatIsOpen and MarkUnrecorded are slips the           *)
(* properties are tried against.                                           *)
(***************************************************************************)
EXTENDS Naturals, Sequences, FiniteSets

CONSTANTS
  Users,       \* users; the numbers order them by the time they registered
  MaxLevel,    \* levels with an active setting (getConfiguredMaxLevel)
  MaxRewards,  \* bound on the rewards ever made
  MaxHistory,  \* bound on the withdrawals ever made
  Requests,    \* withdrawals under way at the same time
  Unseen       \* what is paid may not be recorded: an error is taken for a failure

Parameters == Users \subseteq Nat \ {0} /\ {MaxLevel, MaxRewards, MaxHistory} \subseteq Nat /\ Unseen \in BOOLEAN

VARIABLES
  uref,      \* the user each one was referred by; himself for none; 0 not registered
  tree,      \* his referrers, by level
  joining,   \* the registrations whose rows are being written, with the next referrer
  selling,   \* distributions under way: the seller and the level that is next
  rewards,   \* per reward, its receiver and the withdrawal it is marked with (0: none)
  history,   \* per withdrawal, its status, or that its row is deleted
  request,   \* per request, the user, where it is, what it pays for
  payouts    \* history: how often each reward was paid out

vars == <<uref, tree, joining, selling, rewards, history, request, payouts>>
treeVars == <<uref, tree, joining>>
moneyVars == <<rewards, history, request, payouts>>

Idle == [stage |-> "idle", user |-> 0, pays |-> {}, row |-> 0]

Init ==
  /\ uref = [u \in Users |-> 0] /\ tree = [u \in Users |-> <<>>]
  /\ joining = {} /\ selling = {}
  /\ rewards = <<>> /\ history = <<>>
  /\ request = [r \in Requests |-> Idle] /\ payouts = <<>>

-----------------------------------------------------------------------------
(* Referrers.                                                              *)

\* register saves the user, then writes the rows of his referrers, unless
\* nobody referred him.
Register(u, by) ==
  /\ uref[u] = 0 /\ \A v \in Users : v < u => uref[v] # 0
  /\ by = u \/ uref[by] # 0
  /\ uref' = [uref EXCEPT ![u] = by]
  /\ joining' = IF by = u THEN joining ELSE joining \cup {<<u, by>>}
  /\ UNCHANGED <<tree, selling, moneyVars>>

\* recordInviteeReferralChain: one row after the other, the next one for the
\* direct referrer of the last; it stops where there is none.
NextOfAnyone(referrer) == {tree[u][1] : u \in {v \in Users : tree[v] # <<>>}}
NextOf(referrer) == IF tree[referrer] = <<>> THEN {} ELSE {tree[referrer][1]}
RecordLevel(u, referrer) ==
  /\ <<u, referrer>> \in joining
  /\ Len(tree[u]) < MaxLevel
  /\ tree' = [tree EXCEPT ![u] = Append(@, referrer)]
  /\ joining' = (joining \ {<<u, referrer>>}) \cup
                (IF Len(tree[u]) + 1 < MaxLevel THEN {u} \X NextOf(referrer) ELSE {})
  /\ UNCHANGED <<uref, selling, moneyVars>>
\* A row cannot be written, or the process dies: no more rows.
RecordStops(u, referrer) ==
  /\ <<u, referrer>> \in joining /\ joining' = joining \ {<<u, referrer>>}
  /\ UNCHANGED <<uref, tree, selling, moneyVars>>

-----------------------------------------------------------------------------
(* Rewards.                                                                *)

\* disputeSmartref goes through the levels, if there is one, in the background,
\* without a transaction ...
Distribute(u) ==
  /\ MaxLevel >= 1
  /\ uref[u] # 0 /\ \A s \in selling : s.seller # u
  /\ selling' = selling \cup {[seller |-> u, level |-> 1]}
  /\ UNCHANGED <<treeVars, moneyVars>>
\* ... when the seller posts a listing, and when a transaction of his is executed,
\* of that listing or another.
PostsListing(u) == Distribute(u)
Executes(u)     == Distribute(u)
Reward(s) ==
  /\ s.level <= MaxLevel
  /\ IF s.level <= Len(tree[s.seller])
     THEN /\ Len(rewards) < MaxRewards
          /\ rewards' = Append(rewards, [to |-> tree[s.seller][s.level], row |-> 0])
          /\ payouts' = Append(payouts, 0)
     ELSE UNCHANGED <<rewards, payouts>>
  /\ selling' = (selling \ {s}) \cup (IF s.level = MaxLevel THEN {} ELSE {[s EXCEPT !.level = @ + 1]})
  /\ UNCHANGED <<treeVars, history, request>>
RewardStops(s) == selling' = selling \ {s} /\ UNCHANGED <<treeVars, moneyVars>>

-----------------------------------------------------------------------------
(* withdrawMyReward.                                                       *)

Of(u)    == {i \in DOMAIN rewards : rewards[i].to = u}
Open(u)  == {i \in Of(u) : rewards[i].row = 0}
Marked(ids, row) == [i \in DOMAIN rewards |-> IF i \in ids THEN [rewards[i] EXCEPT !.row = row] ELSE rewards[i]]
Goes(r, stage) == request' = [request EXCEPT ![r].stage = stage]

WithdrawMyReward(r, u) ==
  /\ request[r].stage = "idle" /\ Open(u) # {}
  /\ request' = [request EXCEPT ![r] = [stage |-> "read", user |-> u, pays |-> Open(u), row |-> 0]]
  /\ UNCHANGED <<treeVars, selling, rewards, history, payouts>>

\* In one transaction the withdrawal is recorded and the rewards are marked.
MarkWhatIsOpen(r) == Marked(Open(request[r].user), Len(history) + 1)
MarkWhatIsPaid(r) == Marked(request[r].pays, Len(history) + 1)
MarkUnrecorded(r) ==
  /\ request[r].stage = "read" /\ rewards' = MarkWhatIsPaid(r) /\ Goes(r, "pay")
  /\ UNCHANGED <<treeVars, selling, history, payouts>>
Mark(r) ==
  /\ request[r].stage = "read" /\ Len(history) < MaxHistory
  /\ history' = Append(history, [status |-> "can_withdraw", pays |-> request[r].pays])
  /\ rewards' = MarkWhatIsPaid(r)
  /\ request' = [request EXCEPT ![r].stage = "pay", ![r].row = Len(history) + 1]
  /\ UNCHANGED <<treeVars, selling, payouts>>

\* transferRewardFromMainWallet sends the amount, or throws; some of what
\* throws has been sent.
PaidOut(r) == payouts' = [i \in DOMAIN payouts |-> payouts[i] + (IF i \in request[r].pays THEN 1 ELSE 0)]
Pay(r) ==
  /\ request[r].stage = "pay" /\ PaidOut(r) /\ Goes(r, "record")
  /\ UNCHANGED <<treeVars, selling, rewards, history>>
PayThrows(r) ==
  /\ request[r].stage = "pay" /\ Goes(r, "undo")
  /\ UNCHANGED <<treeVars, selling, rewards, history, payouts>>
PayUnseen(r) ==
  /\ Unseen
  /\ request[r].stage = "pay" /\ PaidOut(r) /\ Goes(r, "undo")
  /\ UNCHANGED <<treeVars, selling, rewards, history>>

Record(r) ==
  /\ request[r].stage = "record"
  /\ history' = [history EXCEPT ![request[r].row].status = "withdrawn"]
  /\ request' = [request EXCEPT ![r] = Idle]
  /\ UNCHANGED <<treeVars, selling, rewards, payouts>>
RecordThrows(r) ==
  /\ Unseen
  /\ request[r].stage = "record" /\ Goes(r, "undo")
  /\ UNCHANGED <<treeVars, selling, rewards, history, payouts>>

\* Any error: the rewards are open again and the withdrawal is deleted.
Undo(r) ==
  /\ request[r].stage = "undo"
  /\ rewards' = Marked(request[r].pays, 0)
  /\ history' = [history EXCEPT ![request[r].row].status = "deleted"]
  /\ request' = [request EXCEPT ![r] = Idle]
  /\ UNCHANGED <<treeVars, selling, payouts>>

\* The process dies, in the middle of anything.
Crash(r) ==
  /\ request[r].stage # "idle"
  /\ request' = [request EXCEPT ![r] = Idle]
  /\ UNCHANGED <<treeVars, selling, rewards, history, payouts>>

Next ==
  \/ \E u \in Users : PostsListing(u) \/ Executes(u) \/ \E by \in Users : Register(u, by)
  \/ \E u, by \in Users : RecordLevel(u, by) \/ RecordStops(u, by)
  \/ \E s \in selling : Reward(s) \/ RewardStops(s)
  \/ \E r \in Requests :
       \/ \E u \in Users : WithdrawMyReward(r, u)
       \/ Mark(r) \/ Pay(r) \/ PayThrows(r) \/ PayUnseen(r)
       \/ Record(r) \/ RecordThrows(r) \/ Undo(r) \/ Crash(r)
Spec == Init /\ [][Next]_vars

-----------------------------------------------------------------------------
Rows == 1..Len(history)

TypeOK ==
  /\ uref \in [Users -> Users \cup {0}]
  /\ tree \in [Users -> Seq(Users)] /\ \A u \in Users : Len(tree[u]) <= MaxLevel
  /\ joining \subseteq Users \X Users
  /\ selling \subseteq [seller : Users, level : 1..MaxLevel]
  /\ \A i \in DOMAIN rewards : rewards[i] \in [to : Users, row : {0} \cup Rows]
  /\ \A h \in Rows : history[h].status \in {"can_withdraw", "withdrawn", "deleted"}
  /\ \A r \in Requests : request[r].stage \in {"idle", "read", "pay", "record", "undo"}
  /\ DOMAIN payouts = DOMAIN rewards

\* The referrer at each level is the one of the referrer a level before, so
\* that a sale rewards nobody twice and never the seller, whichever
\* registrations overlap or stop halfway.
ReferrersInOrder ==
  \A u \in Users : \A k \in DOMAIN tree[u] :
    LET before == IF k = 1 THEN u ELSE tree[u][k - 1]
    IN tree[u][k] = uref[before] /\ tree[u][k] < before

\* A reward is paid out once, and what was paid is marked with a withdrawal
\* that paid for it, whenever a withdrawal fails or the process dies.  (Two
\* withdrawals at the same time, or a payment that is not recorded, break it.)
RewardPaidOnce ==
  \A i \in DOMAIN rewards :
    /\ payouts[i] <= 1
    /\ payouts[i] = 1 => rewards[i].row # 0
    /\ rewards[i].row # 0 => /\ i \in history[rewards[i].row].pays
                             /\ history[rewards[i].row].status # "deleted"

=============================================================================
