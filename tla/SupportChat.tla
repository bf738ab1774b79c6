---------------------------- MODULE SupportChat ----------------------------
(***************************************************************************)
(* The conversations of one user with support, how many of the user's      *)
(* messages no administrator has seen, and the badge that administrators   *)
(* are shown: the last total that was sent to their inbox.  A handler      *)
(* reads, writes and sends in separate steps; with one request the         *)
(* handlers take turns, the summary that a close sends in the background   *)
(* included.                                                               *)
(*                                                                         *)
(* Rooms of sockets, typing and what the user has seen are left out: they  *)
(* change neither the conversations nor the badge.                         *)
(*                                                                         *)
(* CloseSilently and SumHere are slips the property is tried against.      *)
(***************************************************************************)
EXTENDS Sums

CONSTANTS
  Requests,   \* requests under way at the same time
  NumConvs,   \* bound on the conversations ever created
  MaxUnread   \* bound on the unseen messages of a conversation

Parameters == {NumConvs, MaxUnread} \subseteq Nat

Convs == 1..NumConvs

VARIABLES
  status,   \* per conversation: "none", "open", "closed"
  unread,   \* messages of the user that seen_by_admin_at says nothing of
  request,  \* per request, where it is and what it holds
  badge     \* the last total sent to the administrators

vars == <<status, unread, request, badge>>

Idle == [stage |-> "idle", conv |-> 0, total |-> 0]

Init ==
  /\ status = [c \in Convs |-> "none"] /\ unread = [c \in Convs |-> 0]
  /\ request = [r \in Requests |-> Idle] /\ badge = 0

At(r, stage) == request[r].stage = stage
Goes(r, stage) == request' = [request EXCEPT ![r].stage = stage]
Begins(r, stage, c) ==
  /\ At(r, "idle") /\ request' = [request EXCEPT ![r] = [Idle EXCEPT !.stage = stage, !.conv = c]]
  /\ UNCHANGED <<status, unread, badge>>
Ends(r) == request' = [request EXCEPT ![r] = Idle]

\* createConversation returns an open conversation if there is one.
CreateConversation(r) ==
  /\ \A c \in Convs : status[c] # "open"
  /\ Begins(r, "create", 0)
InsertConversation(r) ==
  /\ At(r, "create")
  /\ \E c \in Convs :
       /\ status[c] = "none" /\ \A d \in Convs : d < c => status[d] # "none"
       /\ status' = [status EXCEPT ![c] = "open"]
  /\ Ends(r)
  /\ UNCHANGED <<unread, badge>>

\* saveUserOrAdminMessage reads an open conversation, saves the message, and
\* saves the conversation as it was read, open.
SendMessage(r, by, c) == status[c] = "open" /\ Begins(r, by, c)
SaveMessage(r, by) ==
  /\ At(r, by)
  /\ \/ by = "user" /\ unread[request[r].conv] < MaxUnread
        /\ unread' = [unread EXCEPT ![request[r].conv] = @ + 1] /\ Goes(r, "touch and tell")
     \/ by = "admin" /\ Goes(r, "touch") /\ UNCHANGED unread
  /\ UNCHANGED <<status, badge>>
Touch(r) ==
  /\ At(r, "touch") \/ At(r, "touch and tell")
  /\ status' = [status EXCEPT ![request[r].conv] = "open"]
  /\ IF At(r, "touch") THEN Ends(r) ELSE Goes(r, "sum")
  /\ UNCHANGED <<unread, badge>>

\* closeConversation, by its user or an administrator.
Close(r, c) == status[c] = "open" /\ Begins(r, "close", c)
Closed(r) == status' = [status EXCEPT ![request[r].conv] = "closed"]
CloseSilently(r) == At(r, "close") /\ Closed(r) /\ Ends(r) /\ UNCHANGED <<unread, badge>>
SaveClosed(r) == At(r, "close") /\ Closed(r) /\ Goes(r, "sum") /\ UNCHANGED <<unread, badge>>

\* An administrator has seen a conversation.
See(r, c) == status[c] # "none" /\ Begins(r, "see", c)
MarkConversationSeen(r) ==
  /\ At(r, "see")
  /\ unread' = [unread EXCEPT ![request[r].conv] = 0]
  /\ Goes(r, "sum")
  /\ UNCHANGED <<status, badge>>

\* getAdminUnreadSummary counts in open conversations only.
Unseen     == [c \in Convs |-> IF status[c] = "open" THEN unread[c] ELSE 0]
SumHere(r) == unread[request[r].conv]
Summary(r) == Total(Unseen, NumConvs)
SumUp(r) ==
  /\ At(r, "sum")
  /\ request' = [request EXCEPT ![r].stage = "tell", ![r].total = Summary(r)]
  /\ UNCHANGED <<status, unread, badge>>
Tell(r) == At(r, "tell") /\ badge' = request[r].total /\ Ends(r) /\ UNCHANGED <<status, unread>>

Next == \E r \in Requests :
  \/ CreateConversation(r) \/ InsertConversation(r)
  \/ \E by \in {"user", "admin"} : SaveMessage(r, by) \/ \E c \in Convs : SendMessage(r, by, c)
  \/ Touch(r)
  \/ SaveClosed(r) \/ MarkConversationSeen(r) \/ \E c \in Convs : Close(r, c) \/ See(r, c)
  \/ SumUp(r) \/ Tell(r)
Spec == Init /\ [][Next]_vars

-----------------------------------------------------------------------------
TypeOK ==
  /\ status \in [Convs -> {"none", "open", "closed"}]
  /\ unread \in [Convs -> 0..MaxUnread]
  /\ \A r \in Requests : request[r].conv \in {0} \cup Convs /\ request[r].total \in Nat
  /\ badge \in Nat

\* When nothing is under way, the badge is the number of the user's messages
\* in open conversations that no administrator has seen, and at most one
\* conversation is open.
BadgeIsRight ==
  (\A r \in Requests : At(r, "idle")) =>
    /\ badge = Total(Unseen, NumConvs)
    /\ \A c, d \in Convs : status[c] = "open" /\ status[d] = "open" => c = d

=============================================================================
