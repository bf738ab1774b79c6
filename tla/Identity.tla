------------------------------ MODULE Identity ------------------------------
(***************************************************************************)
(* One user's row of `users` and the user's KYC records in user_verifies:  *)
(* passwords, two-factor authentication, documents, their review.          *)
(*                                                                         *)
(* Nearly every handler reads the row, awaits (a hash, a query) and saves  *)
(* the entity, whatever has been written since.  A save is a SELECT and    *)
(* then an UPDATE of the columns in which the entity differs from what was *)
(* selected; nothing is locked between the two.  A handler is therefore    *)
(* three steps: its own, which reads and guards and leaves the entity in   *)
(* memory, the SELECT of the save, and its UPDATE.  As long as no other    *)
(* save comes between these two, the row becomes the entity; when one does *)
(* (MixedSaves), columns of both may be left.                              *)
(*                                                                         *)
(* Columns no property tells apart (names, picture, e-mail flag, challenge *)
(* code) are left out: a handler that changes only those saves the rest of *)
(* the row as it was read.  So is the time a challenge has: a photo may    *)
(* always be in time or late.                                              *)
(*                                                                         *)
(* RetriedKeepingPaper and other definitions no action uses are slips the  *)
(* properties are tried against.                                           *)
(***************************************************************************)
EXTENDS Naturals

CONSTANTS
  Requests,    \* requests of the user that may be under way at the same time
  Admins,      \* administrators who may be reviewing the user at the same time
  MixedSaves,  \* whether a save may come between the SELECT and the UPDATE of another
  NumRecords,  \* KYC records
  Documents,   \* identity documents
  Passwords,   \* passwords
  Secrets,     \* two-factor secrets
  Statuses     \* values of ustatus that are used

Records == 1..NumRecords

Parameters ==
  /\ NumRecords \in Nat /\ MixedSaves \in BOOLEAN /\ Passwords # {}
  /\ "none" \notin Secrets \cup Documents /\ Requests \cap Admins = {}
  /\ "active" \in Statuses /\ Statuses \subseteq {"active", "block", "block_withdraw", "block_trade"}

Savers == Requests \cup Admins

VARIABLES
  row,      \* the user's row
  records,  \* the rows of user_verifies
  held,     \* the user entity a handler is about to save, or none
  draft,    \* the KYC record a handler is about to save, or none
  loaded,   \* what the SELECT of that save has read, or none
  review    \* per administrator, the review under way

vars == <<row, records, held, draft, loaded, review>>

\* secret is uggauth; dated: verify_at and levelup_window_started_at are set.
Row == [password : Passwords, secret : {"none"} \cup Secrets, active : BOOLEAN,
        verified : BOOLEAN, dated : BOOLEAN, status : Statuses]
KycStatus == {"none", "challenge_pending", "pending", "verify", "retry"}

\* paper names the documents the paper photo was made for (none: there is none).
Record == [status : KycStatus, docs : {"none"} \cup Documents, paper : {"none"} \cup Documents]
NoRecord == [status |-> "none", docs |-> "none", paper |-> "none"]

NoRow   == [none |-> TRUE]
NoDraft == [id |-> 0, rec |-> NoRecord]
Idle    == [verdict |-> "none", user |-> NoRow, recs |-> <<>>, todo |-> {}]

Free(p) == held[p] = NoRow /\ draft[p] = NoDraft

-----------------------------------------------------------------------------
Init ==
  /\ row \in [password : Passwords, secret : {"none"}, active : {FALSE}, verified : {FALSE},
              dated : {FALSE}, status : {"active"}]
  /\ records = [i \in Records |-> NoRecord]
  /\ held = [p \in Savers |-> NoRow]
  /\ draft = [p \in Savers |-> NoDraft]
  /\ loaded = [p \in Savers |-> NoRow]
  /\ review = [a \in Admins |-> Idle]

\* The SELECT of a save.
SaveBegins(p) ==
  /\ ~Free(p) /\ loaded[p] = NoRow
  /\ MixedSaves \/ \A q \in Savers : loaded[q] = NoRow
  /\ loaded' = [loaded EXCEPT ![p] = IF held[p] # NoRow THEN row ELSE records[draft[p].id]]
  /\ UNCHANGED <<row, records, held, draft, review>>

\* Its UPDATE, of the columns that differ from what was selected.
Updated(old, read, entity) ==
  [c \in DOMAIN old |-> IF entity[c] # read[c] THEN entity[c] ELSE old[c]]

SaveUser(p) ==
  /\ held[p] # NoRow /\ loaded[p] # NoRow
  /\ row' = Updated(row, loaded[p], held[p])
  /\ held' = [held EXCEPT ![p] = NoRow] /\ loaded' = [loaded EXCEPT ![p] = NoRow]
  /\ UNCHANGED <<records, draft, review>>

SaveRecord(p) ==
  /\ draft[p] # NoDraft /\ loaded[p] # NoRow
  /\ records' = [records EXCEPT ![draft[p].id] = Updated(@, loaded[p], draft[p].rec)]
  /\ draft' = [draft EXCEPT ![p] = NoDraft] /\ loaded' = [loaded EXCEPT ![p] = NoRow]
  /\ UNCHANGED <<row, held, review>>

\* The handler has read the row and will save this entity.
Holds(p, entity) == Free(p) /\ held' = [held EXCEPT ![p] = entity]
Hold(r, entity) == Holds(r, entity) /\ UNCHANGED <<row, records, draft, loaded, review>>

UpdateProfile(r)   == Hold(r, row)
LoginWithGoogle(r) == Hold(r, row)
VerifyEmail(r)     == Hold(r, row)
ChangePassword(r)  == \E p \in Passwords : Hold(r, [row EXCEPT !.password = p])
SetNewPassword(r)  == \E p \in Passwords : Hold(r, [row EXCEPT !.password = p])

SetupTwoFactor(r) ==
  ~row.active /\ \E s \in Secrets : Hold(r, [row EXCEPT !.secret = s, !.active = FALSE])
VerifyTwoFactorSetup(r) ==
  ~row.active /\ row.secret # "none" /\ Hold(r, [row EXCEPT !.active = TRUE])

\* Disabling also cancels a setup that was not verified.
DisabledSecretOnly(user) == [user EXCEPT !.secret = "none"]
Disabled(user)           == [user EXCEPT !.secret = "none", !.active = FALSE]
DisableTwoFactor(r) == row.secret # "none" /\ Hold(r, Disabled(row))

\* The administrator's update names one column.
UpdateUserStatus ==
  \E s \in Statuses :
    /\ row' = [row EXCEPT !.status = s]
    /\ UNCHANGED <<records, held, draft, loaded, review>>

-----------------------------------------------------------------------------
(* KYC: the user.                                                          *)

Has(s) == \E i \in Records : records[i].status = s

Verified(user) == [user EXCEPT !.verified = TRUE, !.dated = TRUE]

\* Asking for the status verifies a user whose review stopped half way.
AskStatusNeverHeals(r) == FALSE /\ Hold(r, row)
AskStatus(r) ==
  ~row.verified /\ Has("verify") /\ Hold(r, Verified(row))

\* A handler has read a record and will save this one in its place.
Drafts(p, i, rec) == Free(p) /\ draft' = [draft EXCEPT ![p] = [id |-> i, rec |-> rec]]
Prepare(r, i, rec) == Drafts(r, i, rec) /\ UNCHANGED <<row, records, held, loaded, review>>

\* New documents wait for a photo with the code of the challenge.
Challenged(docs) == [status |-> "challenge_pending", docs |-> docs, paper |-> "none"]

\* A user without a record submits documents: the row is new.
SubmitKyc(r) ==
  /\ \A i \in Records : records[i].status = "none"
  /\ \E i \in Records, docs \in Documents :
       /\ \A p \in Savers : draft[p].id # i
       /\ Prepare(r, i, Challenged(docs))

RetriedKeepingPaper(rec, docs) == [rec EXCEPT !.docs = docs, !.status = "pending"]
Retried(rec, docs)             == Challenged(docs)
RetryKyc(r) ==
  \E i \in Records, docs \in Documents :
    records[i].status = "retry" /\ Prepare(r, i, Retried(records[i], docs))

SubmitKycPaper(r) ==
  \E i \in Records :
    /\ records[i].status = "challenge_pending"
    /\ Prepare(r, i, [records[i] EXCEPT !.status = "pending", !.paper = records[i].docs])

\* A new code for a challenge whose time has run out.
RenewKycChallenge(r) ==
  \E i \in Records : records[i].status = "challenge_pending" /\ Prepare(r, i, records[i])

-----------------------------------------------------------------------------
(* KYC: updateKycStatus of an administrator.                               *)

\* Records a verdict applies to.
Reviewable(i) ==
  \/ records[i].status = "retry"
  \/ records[i].status = "pending" /\ records[i].paper # "none"

\* Read the user and the records, then save each ...
ReviewRead(a, verdict) ==
  /\ review[a] = Idle /\ Free(a)
  /\ ~row.verified
  /\ ~Has("challenge_pending") /\ ~Has("verify")
  /\ \E i \in Records : Reviewable(i)
  /\ review' = [review EXCEPT ![a] = [verdict |-> verdict, user |-> row, recs |-> records,
                                      todo |-> {i \in Records : Reviewable(i)}]]
  /\ UNCHANGED <<row, records, held, draft, loaded>>

ReviewRecord(a) ==
  /\ \E i \in review[a].todo :
       /\ Drafts(a, i, [review[a].recs[i] EXCEPT !.status = review[a].verdict])
       /\ review' = IF review[a].todo = {i} /\ review[a].verdict = "retry"
                    THEN [review EXCEPT ![a] = Idle] ELSE [review EXCEPT ![a].todo = @ \ {i}]
  /\ UNCHANGED <<row, records, held, loaded>>

\* ... and, if they are approved, the user.
ReviewUser(a) ==
  /\ review[a].verdict = "verify" /\ review[a].todo = {}
  /\ Holds(a, Verified(review[a].user))
  /\ review' = [review EXCEPT ![a] = Idle]
  /\ UNCHANGED <<row, records, draft, loaded>>

\* The process dies: entities in memory are gone.
Crash ==
  /\ \/ \E p \in Savers : ~Free(p)
     \/ \E a \in Admins : review[a] # Idle
  /\ held' = [p \in Savers |-> NoRow] /\ draft' = [p \in Savers |-> NoDraft]
  /\ loaded' = [p \in Savers |-> NoRow] /\ review' = [a \in Admins |-> Idle]
  /\ UNCHANGED <<row, records>>

-----------------------------------------------------------------------------
UserRequest(r) ==
  \/ UpdateProfile(r) \/ LoginWithGoogle(r) \/ VerifyEmail(r)
  \/ ChangePassword(r) \/ SetNewPassword(r)
  \/ SetupTwoFactor(r) \/ VerifyTwoFactorSetup(r) \/ DisableTwoFactor(r)
KycRequest(r) == SubmitKyc(r) \/ RetryKyc(r) \/ SubmitKycPaper(r) \/ RenewKycChallenge(r)

SaveStep(p) == SaveBegins(p) \/ SaveUser(p) \/ SaveRecord(p)
Review(a)   == ReviewRecord(a) \/ ReviewUser(a)

Next ==
  \/ \E r \in Requests : UserRequest(r) \/ KycRequest(r) \/ AskStatus(r)
  \/ \E p \in Savers : SaveStep(p)
  \/ \E a \in Admins : Review(a) \/ \E v \in {"verify", "retry"} : ReviewRead(a, v)
  \/ UpdateUserStatus \/ Crash
Spec == Init /\ [][Next]_vars

-----------------------------------------------------------------------------
(* Properties.                                                             *)

TypeOK ==
  /\ row \in Row /\ records \in [Records -> Record]
  /\ held \in [Savers -> Row \cup {NoRow}]
  /\ draft \in [Savers -> [id : Records, rec : Record] \cup {NoDraft}]
  /\ loaded \in [Savers -> Row \cup Record \cup {NoRow}]
  /\ \A p \in Savers :
       loaded[p] # NoRow => ~Free(p) /\ loaded[p] \in IF held[p] # NoRow THEN Row ELSE Record
  /\ DOMAIN review = Admins
  /\ \A a \in Admins :
       review[a] = Idle \/ /\ review[a].verdict \in {"verify", "retry"}
                           /\ review[a].user \in Row /\ review[a].recs \in [Records -> Record]
                           /\ review[a].todo \subseteq Records

\* Two-factor authentication is never on without a secret, as "once it is off the
\* secret is deleted" (user-security.controller.ts:208): such a user could pass no
\* check any more.  It holds whichever handlers overwrite what others have saved,
\* and fails when saves mix: an unverified setup is verified and cancelled at the
\* same time, and of the two saves one updates `active` and one the secret.
TwoFactorHasSecret == row.active => row.secret # "none"

\* Documents are approved with a photo that was made for them, not for
\* documents the user has replaced since (retryKyc sets the photo
\* back to null with the new documents).  When saves mix, an approval that updates
\* the status alone may meet a retry that has just replaced the rest.
ApprovedAsProven ==
  \A i \in Records : records[i].status = "verify" => records[i].docs = records[i].paper

\* An approved record verifies its user in the end, also when the process dies
\* between the two: asking for the status repairs it.  (A submission that read
\* the record before the verdict may take the approval back first.)
ApprovedIsVerified == Has("verify") ~> row.verified \/ ~Has("verify")

\* A handler of the user does not undo the block of an administrator: it does,
\* when it read the row before the block was set.
BlockSticks ==
  [][row.status = "block" /\ row'.status # "block" => UpdateUserStatus]_vars

\* What has begun goes on; the status page of the user is opened now and then,
\* and not every opening is cut off by a crash.
Heals(A, r) == A /\ held[r] # NoRow /\ held[r].verified
Fairness ==
  /\ \A p \in Savers : WF_vars(SaveStep(p))
  /\ \A a \in Admins : WF_vars(Review(a))
  /\ \A r \in Requests :
       SF_vars(Heals(SaveBegins(r), r)) /\ SF_vars(Heals(SaveUser(r), r)) /\ SF_vars(AskStatus(r))
FairSpec == Spec /\ Fairness

=============================================================================
