--------------------------- MODULE MembersProofs ---------------------------
(***************************************************************************)
(* What is true of one user's rows for any number of requests, records,    *)
(* trades, deals and accounts.  Each component has an invariant that its   *)
(* steps preserve; the last part adds up the components.                   *)
(***************************************************************************)
EXTENDS Members, Sequences, SumTheorems, FiniteSetTheorems, TLAPS

-----------------------------------------------------------------------------
(* Identity: an entity in memory is as consistent as the row, so that it   *)
(* does no harm to save it late.  No other save comes between the SELECT   *)
(* and the UPDATE of a save, so that the row becomes the entity.           *)

\* Two-factor authentication that is on has a secret.
Solid(user) == user.active => user.secret # "none"

\* Documents that were sent in, approved or sent back have a photo of their own.
Proven(rec) == rec.status \in {"pending", "verify", "retry"} => rec.docs = rec.paper

Draft == [id : Id!Records, rec : Id!Record]

\* What the SELECT has read is still there, but for the column of administrators.
ReadStands(p) ==
  IF held[p] # Id!NoRow
  THEN loaded[p] \in Id!Row /\ loaded[p].active = row.active /\ loaded[p].secret = row.secret
  ELSE draft[p] # Id!NoDraft /\ loaded[p] = records[draft[p].id]

SaverOK(p) ==
  /\ held[p] # Id!NoRow => Solid(held[p]) /\ draft[p] = Id!NoDraft
  /\ Proven(draft[p].rec)
  /\ loaded[p] # Id!NoRow => ReadStands(p)

RowsOK ==
  /\ row \in Id!Row /\ Solid(row)
  /\ records \in [Id!Records -> Id!Record] /\ \A i \in Id!Records : Proven(records[i])
  /\ held \in [Id!Savers -> Id!Row \cup {Id!NoRow}]
  /\ draft \in [Id!Savers -> Draft \cup {Id!NoDraft}]
  /\ loaded \in [Id!Savers -> Id!Row \cup Id!Record \cup {Id!NoRow}]
  /\ \A p \in Id!Savers : SaverOK(p)
  /\ \A p, q \in Id!Savers : loaded[p] # Id!NoRow /\ loaded[q] # Id!NoRow => p = q

\* A review has read what was consistent, and decides on what was sent in.
ReviewOK(a) ==
  review[a] # Id!Idle =>
    /\ review[a].verdict \in {"verify", "retry"}
    /\ review[a].user \in Id!Row /\ Solid(review[a].user)
    /\ review[a].recs \in [Id!Records -> Id!Record] /\ \A i \in Id!Records : Proven(review[a].recs[i])
    /\ review[a].todo \subseteq Id!Records
    /\ \A i \in review[a].todo : review[a].recs[i].status \in {"pending", "retry"}
ReviewsOK == DOMAIN review = Admins /\ \A a \in Admins : ReviewOK(a)

IdentityInv == RowsOK /\ ReviewsOK

LEMMA IdentityInit == ASSUME Id!Init PROVE IdentityInv
<1>1. "active" \in Statuses
  BY MembersAssumption DEF Id!Parameters
<1>2. row \in Id!Row /\ Solid(row)
  BY <1>1 DEF Id!Init, Id!Row, Solid
<1>3. Id!NoRecord \in Id!Record /\ Proven(Id!NoRecord) /\ Id!NoDraft.rec = Id!NoRecord
  BY DEF Id!NoRecord, Id!Record, Id!KycStatus, Proven, Id!NoDraft
<1>4. RowsOK
  BY <1>2, <1>3 DEF Id!Init, RowsOK, SaverOK
<1>5. ReviewsOK
  BY DEF Id!Init, ReviewsOK, ReviewOK
<1>6. QED BY <1>4, <1>5 DEF IdentityInv

\* A handler that has read the row and will save a solid entity.
LEMMA HoldsKeep ==
  ASSUME RowsOK, NEW p \in Id!Savers, NEW user \in Id!Row, Solid(user), Id!Holds(p, user),
         UNCHANGED <<row, records, draft, loaded>>
  PROVE  RowsOK'
<1>1. held' = [held EXCEPT ![p] = user] /\ held[p] = Id!NoRow /\ draft[p] = Id!NoDraft
  BY DEF Id!Holds, Id!Free
<1>2. loaded[p] = Id!NoRow
  BY <1>1 DEF RowsOK, SaverOK, ReadStands
<1>3. \A q \in Id!Savers : held'[q] = IF q = p THEN user ELSE held[q]
  BY <1>1 DEF RowsOK
<1>4. \A q \in Id!Savers : SaverOK(q)'
  BY <1>1, <1>2, <1>3 DEF RowsOK, SaverOK, ReadStands
<1>5. QED BY <1>1, <1>4 DEF RowsOK

\* A handler that has read a record and will save another, proven one.
LEMMA DraftsKeep ==
  ASSUME RowsOK, NEW p \in Id!Savers, NEW i \in Id!Records, NEW rec \in Id!Record, Proven(rec),
         Id!Drafts(p, i, rec), UNCHANGED <<row, records, held, loaded>>
  PROVE  RowsOK'
<1>1. /\ draft' = [draft EXCEPT ![p] = [id |-> i, rec |-> rec]]
      /\ held[p] = Id!NoRow /\ draft[p] = Id!NoDraft
  BY DEF Id!Drafts, Id!Free
<1>2. loaded[p] = Id!NoRow
  BY <1>1 DEF RowsOK, SaverOK, ReadStands
<1>3. /\ draft' \in [Id!Savers -> Draft \cup {Id!NoDraft}]
      /\ \A q \in Id!Savers : draft'[q] = IF q = p THEN [id |-> i, rec |-> rec] ELSE draft[q]
  BY <1>1 DEF RowsOK, Draft
<1>4. \A q \in Id!Savers : SaverOK(q)'
  BY <1>1, <1>2, <1>3 DEF RowsOK, SaverOK, ReadStands
<1>5. QED BY <1>3, <1>4 DEF RowsOK

\* The handlers of the user, one by one.
LEMMA UserRequestKeeps ==
  ASSUME IdentityInv, NEW r \in Requests, Id!UserRequest(r) \/ Id!AskStatus(r)
  PROVE  IdentityInv'
<1>1. row \in Id!Row /\ Solid(row)
  BY DEF IdentityInv, RowsOK
<1>2. \E user \in Id!Row : Solid(user) /\ Id!Hold(r, user)
  <2>1. CASE Id!UpdateProfile(r) \/ Id!LoginWithGoogle(r) \/ Id!VerifyEmail(r)
    BY <1>1, <2>1 DEF Id!UpdateProfile, Id!LoginWithGoogle, Id!VerifyEmail
  <2>2. CASE Id!ChangePassword(r) \/ Id!SetNewPassword(r)
    <3>1. PICK p \in Passwords : Id!Hold(r, [row EXCEPT !.password = p])
      BY <2>2 DEF Id!ChangePassword, Id!SetNewPassword
    <3>2. [row EXCEPT !.password = p] \in Id!Row /\ Solid([row EXCEPT !.password = p])
      BY <1>1 DEF Id!Row, Solid
    <3>3. QED BY <3>1, <3>2
  <2>3. CASE Id!SetupTwoFactor(r)
    <3>1. PICK s \in Secrets : Id!Hold(r, [row EXCEPT !.secret = s, !.active = FALSE])
      BY <2>3 DEF Id!SetupTwoFactor
    <3>2. /\ [row EXCEPT !.secret = s, !.active = FALSE] \in Id!Row
          /\ Solid([row EXCEPT !.secret = s, !.active = FALSE])
      BY <1>1 DEF Id!Row, Solid
    <3>3. QED BY <3>1, <3>2
  <2>4. CASE Id!VerifyTwoFactorSetup(r)
    <3>1. /\ row.secret # "none" /\ [row EXCEPT !.active = TRUE] \in Id!Row
          /\ Solid([row EXCEPT !.active = TRUE])
      BY <1>1, <2>4 DEF Id!VerifyTwoFactorSetup, Id!Row, Solid
    <3>2. QED BY <2>4, <3>1 DEF Id!VerifyTwoFactorSetup
  <2>5. CASE Id!DisableTwoFactor(r)
    <3>1. Id!Disabled(row) \in Id!Row /\ Solid(Id!Disabled(row))
      BY <1>1 DEF Id!Disabled, Id!Row, Solid
    <3>2. QED BY <2>5, <3>1 DEF Id!DisableTwoFactor
  <2>6. CASE Id!AskStatus(r)
    <3>1. Id!Verified(row) \in Id!Row /\ Solid(Id!Verified(row))
      BY <1>1 DEF Id!Verified, Id!Row, Solid
    <3>2. QED BY <2>6, <3>1 DEF Id!AskStatus
  <2>7. QED BY <2>1, <2>2, <2>3, <2>4, <2>5, <2>6 DEF Id!UserRequest
<1>3. r \in Id!Savers BY DEF Id!Savers
<1>4. UNCHANGED <<row, records, draft, loaded, review>>
  BY <1>2 DEF Id!Hold
<1>5. ReviewsOK' BY <1>4 DEF IdentityInv, ReviewsOK, ReviewOK
<1>6. RowsOK' BY <1>2, <1>3, <1>4, HoldsKeep DEF Id!Hold, IdentityInv
<1>7. QED BY <1>5, <1>6 DEF IdentityInv

\* Documents, photos and codes: what is prepared is proven.
LEMMA KycRequestKeeps ==
  ASSUME IdentityInv, NEW r \in Requests, Id!KycRequest(r)
  PROVE  IdentityInv'
<1>1. \A i \in Id!Records : records[i] \in Id!Record /\ Proven(records[i])
  BY DEF IdentityInv, RowsOK
<1>2. \A docs \in Documents : Id!Challenged(docs) \in Id!Record /\ Proven(Id!Challenged(docs))
  BY DEF Id!Challenged, Id!Record, Id!KycStatus, Proven
<1>3. \E i \in Id!Records, rec \in Id!Record : Proven(rec) /\ Id!Prepare(r, i, rec)
  <2>1. CASE Id!SubmitKyc(r)
    BY <1>2, <2>1 DEF Id!SubmitKyc
  <2>2. CASE Id!RetryKyc(r)
    BY <1>2, <2>2 DEF Id!RetryKyc, Id!Retried
  <2>3. CASE Id!SubmitKycPaper(r)
    <3>1. PICK i \in Id!Records :
            Id!Prepare(r, i, [records[i] EXCEPT !.status = "pending", !.paper = records[i].docs])
      BY <2>3 DEF Id!SubmitKycPaper
    <3>2. /\ [records[i] EXCEPT !.status = "pending", !.paper = records[i].docs] \in Id!Record
          /\ Proven([records[i] EXCEPT !.status = "pending", !.paper = records[i].docs])
      BY <1>1 DEF Id!Record, Id!KycStatus, Proven
    <3>3. QED BY <3>1, <3>2
  <2>4. CASE Id!RenewKycChallenge(r)
    BY <1>1, <2>4 DEF Id!RenewKycChallenge
  <2>5. QED BY <2>1, <2>2, <2>3, <2>4 DEF Id!KycRequest
<1>4. r \in Id!Savers BY DEF Id!Savers
<1>5. UNCHANGED <<row, records, held, loaded, review>>
  BY <1>3 DEF Id!Prepare
<1>6. ReviewsOK' BY <1>5 DEF IdentityInv, ReviewsOK, ReviewOK
<1>7. RowsOK' BY <1>3, <1>4, <1>5, DraftsKeep DEF Id!Prepare, IdentityInv
<1>8. QED BY <1>6, <1>7 DEF IdentityInv

\* An UPDATE writes the columns in which the entity differs from what was read:
\* if that is still there, the row becomes the entity.
LEMMA UpdatedRow ==
  ASSUME NEW old \in Id!Row, NEW read \in Id!Row, NEW entity \in Id!Row,
         read.active = old.active, read.secret = old.secret
  PROVE  /\ Id!Updated(old, read, entity) \in Id!Row
         /\ Id!Updated(old, read, entity).active = entity.active
         /\ Id!Updated(old, read, entity).secret = entity.secret
<1>1. Id!Updated(old, read, entity) \in Id!Row
  BY DEF Id!Updated, Id!Row
<1>2. Id!Updated(old, read, entity).active = entity.active
  BY DEF Id!Updated, Id!Row
<1>3. Id!Updated(old, read, entity).secret = entity.secret
  BY DEF Id!Updated, Id!Row
<1>4. QED BY <1>1, <1>2, <1>3

LEMMA UpdatedRecord ==
  ASSUME NEW old \in Id!Record, NEW entity \in Id!Record
  PROVE  Id!Updated(old, old, entity) = entity
BY DEF Id!Updated, Id!Record

\* What was held or prepared takes the place of a row.
LEMMA SaveKeeps ==
  ASSUME IdentityInv, NEW p \in Id!Savers, Id!SaveStep(p)
  PROVE  IdentityInv'
<1>1. ReviewsOK'
  <2>1. UNCHANGED review
    BY DEF Id!SaveStep, Id!SaveBegins, Id!SaveUser, Id!SaveRecord
  <2>2. QED BY <2>1 DEF IdentityInv, ReviewsOK, ReviewOK
<1>2. CASE Id!SaveBegins(p)
  <2>1. /\ loaded' = [loaded EXCEPT ![p] = IF held[p] # Id!NoRow THEN row ELSE records[draft[p].id]]
        /\ ~Id!Free(p) /\ \A q \in Id!Savers : loaded[q] = Id!NoRow
        /\ UNCHANGED <<row, records, held, draft>>
    BY <1>2 DEF Id!SaveBegins
  <2>2. held[p] = Id!NoRow => draft[p] \in Draft /\ draft[p] # Id!NoDraft
    BY <2>1 DEF IdentityInv, RowsOK, Id!Free
  <2>3. loaded'[p] \in Id!Row \cup Id!Record /\ loaded' \in [Id!Savers -> Id!Row \cup Id!Record \cup {Id!NoRow}]
    BY <2>1, <2>2 DEF IdentityInv, RowsOK, Draft
  <2>4. \A q \in Id!Savers : q # p => loaded'[q] = Id!NoRow
    BY <2>1
  <2>5. ReadStands(p)'
    BY <2>1, <2>2 DEF IdentityInv, RowsOK, ReadStands
  <2>6. \A q \in Id!Savers : SaverOK(q)'
    BY <2>1, <2>4, <2>5 DEF IdentityInv, RowsOK, SaverOK
  <2>7. RowsOK'
    BY <2>1, <2>3, <2>4, <2>6 DEF IdentityInv, RowsOK
  <2>8. QED BY <1>1, <2>7 DEF IdentityInv
<1>3. ASSUME loaded[p] # Id!NoRow, loaded' = [loaded EXCEPT ![p] = Id!NoRow]
      PROVE  /\ loaded' \in [Id!Savers -> Id!Row \cup Id!Record \cup {Id!NoRow}]
             /\ \A q \in Id!Savers : loaded'[q] = Id!NoRow
  BY <1>3 DEF IdentityInv, RowsOK
<1>4. CASE Id!SaveUser(p)
  <2>1. /\ held[p] # Id!NoRow /\ loaded[p] # Id!NoRow /\ row' = Id!Updated(row, loaded[p], held[p])
        /\ held' = [held EXCEPT ![p] = Id!NoRow] /\ loaded' = [loaded EXCEPT ![p] = Id!NoRow]
        /\ UNCHANGED <<records, draft>>
    BY <1>4 DEF Id!SaveUser
  <2>2. /\ held[p] \in Id!Row /\ Solid(held[p]) /\ row \in Id!Row
        /\ loaded[p] \in Id!Row /\ loaded[p].active = row.active /\ loaded[p].secret = row.secret
    BY <2>1 DEF IdentityInv, RowsOK, SaverOK, ReadStands
  <2>3. row' \in Id!Row /\ Solid(row')
    BY <2>1, <2>2, UpdatedRow DEF Solid
  <2>4. \A q \in Id!Savers : SaverOK(q)'
    BY <1>3, <2>1 DEF IdentityInv, RowsOK, SaverOK
  <2>5. RowsOK'
    BY <1>3, <2>1, <2>3, <2>4 DEF IdentityInv, RowsOK
  <2>6. QED BY <1>1, <2>5 DEF IdentityInv
<1>5. CASE Id!SaveRecord(p)
  <2>1. /\ draft[p] # Id!NoDraft /\ loaded[p] # Id!NoRow
        /\ records' = [records EXCEPT ![draft[p].id] = Id!Updated(records[draft[p].id], loaded[p], draft[p].rec)]
        /\ draft' = [draft EXCEPT ![p] = Id!NoDraft] /\ loaded' = [loaded EXCEPT ![p] = Id!NoRow]
        /\ UNCHANGED <<row, held>>
    BY <1>5 DEF Id!SaveRecord
  <2>2. /\ draft[p] \in Draft /\ Proven(draft[p].rec) /\ loaded[p] = records[draft[p].id]
        /\ records \in [Id!Records -> Id!Record]
    BY <2>1 DEF IdentityInv, RowsOK, SaverOK, ReadStands
  <2>3. draft[p].id \in Id!Records /\ draft[p].rec \in Id!Record
    BY <2>2 DEF Draft
  <2>4. records' = [records EXCEPT ![draft[p].id] = draft[p].rec]
    BY <2>1, <2>2, <2>3, UpdatedRecord
  <2>5. records' \in [Id!Records -> Id!Record] /\ \A i \in Id!Records : Proven(records'[i])
    BY <2>2, <2>3, <2>4 DEF IdentityInv, RowsOK
  <2>6. Proven(Id!NoDraft.rec)
    BY DEF Id!NoDraft, Id!NoRecord, Proven
  <2>7. /\ draft' \in [Id!Savers -> Draft \cup {Id!NoDraft}]
        /\ \A q \in Id!Savers : draft'[q] = IF q = p THEN Id!NoDraft ELSE draft[q]
    BY <2>1 DEF IdentityInv, RowsOK
  <2>8. \A q \in Id!Savers : SaverOK(q)'
    BY <1>3, <2>1, <2>6, <2>7 DEF IdentityInv, RowsOK, SaverOK
  <2>9. RowsOK'
    BY <1>3, <2>1, <2>5, <2>7, <2>8 DEF IdentityInv, RowsOK
  <2>10. QED BY <1>1, <2>9 DEF IdentityInv
<1>6. QED BY <1>2, <1>4, <1>5 DEF Id!SaveStep

\* A review keeps what it has read, and gives its verdict on it.
LEMMA ReviewKeeps ==
  ASSUME IdentityInv, NEW a \in Admins,
         Id!Review(a) \/ \E v \in {"verify", "retry"} : Id!ReviewRead(a, v)
  PROVE  IdentityInv'
<1>1. a \in Id!Savers /\ DOMAIN review = Admins /\ \A b \in Admins : ReviewOK(b)
  BY DEF Id!Savers, IdentityInv, ReviewsOK
<1>2. ASSUME NEW new, review' = [review EXCEPT ![a] = new],
             new # Id!Idle =>
               /\ new.verdict \in {"verify", "retry"} /\ new.user \in Id!Row /\ Solid(new.user)
               /\ new.recs \in [Id!Records -> Id!Record] /\ \A i \in Id!Records : Proven(new.recs[i])
               /\ new.todo \subseteq Id!Records
               /\ \A i \in new.todo : new.recs[i].status \in {"pending", "retry"}
      PROVE  ReviewsOK'
  <2>1. DOMAIN review' = Admins /\ \A b \in Admins : review'[b] = IF b = a THEN new ELSE review[b]
    BY <1>1, <1>2
  <2>2. QED BY <1>1, <1>2, <2>1 DEF ReviewsOK, ReviewOK
<1>3. ASSUME NEW v \in {"verify", "retry"}, Id!ReviewRead(a, v) PROVE IdentityInv'
  <2> DEFINE new == [verdict |-> v, user |-> row, recs |-> records, todo |-> {i \in Id!Records : Id!Reviewable(i)}]
  <2>1. review' = [review EXCEPT ![a] = new] /\ UNCHANGED <<row, records, held, draft, loaded>>
    BY <1>3 DEF Id!ReviewRead
  <2>2. \A i \in new.todo : new.recs[i].status \in {"pending", "retry"}
    BY DEF Id!Reviewable
  <2>3. /\ new.user \in Id!Row /\ Solid(new.user) /\ new.todo \subseteq Id!Records
        /\ new.recs \in [Id!Records -> Id!Record] /\ \A i \in Id!Records : Proven(new.recs[i])
        /\ new.verdict \in {"verify", "retry"}
    BY DEF IdentityInv, RowsOK
  <2> HIDE DEF new
  <2>4. ReviewsOK' BY <1>2, <2>1, <2>2, <2>3
  <2>5. RowsOK' BY <2>1 DEF IdentityInv, RowsOK, SaverOK, ReadStands
  <2>6. QED BY <2>4, <2>5 DEF IdentityInv
<1>4. CASE Id!ReviewRecord(a)
  <2>1. PICK i \in review[a].todo :
          /\ Id!Drafts(a, i, [review[a].recs[i] EXCEPT !.status = review[a].verdict])
          /\ review' = IF review[a].todo = {i} /\ review[a].verdict = "retry"
                       THEN [review EXCEPT ![a] = Id!Idle] ELSE [review EXCEPT ![a].todo = @ \ {i}]
    BY <1>4 DEF Id!ReviewRecord
  <2>2. review[a] # Id!Idle /\ ReviewOK(a)
    BY <1>1, <2>1 DEF Id!Idle
  <2>3. /\ i \in Id!Records /\ review[a].recs[i] \in Id!Record /\ review[a].recs[i].docs = review[a].recs[i].paper
        /\ review[a].verdict \in {"verify", "retry"}
    BY <2>1, <2>2 DEF ReviewOK, Proven
  <2>4. /\ [review[a].recs[i] EXCEPT !.status = review[a].verdict] \in Id!Record
        /\ Proven([review[a].recs[i] EXCEPT !.status = review[a].verdict])
    BY <2>3 DEF Id!Record, Id!KycStatus, Proven
  <2>5. RowsOK'
    BY <1>1, <1>4, <2>1, <2>3, <2>4, DraftsKeep DEF Id!ReviewRecord, IdentityInv
  <2>6. CASE review' = [review EXCEPT ![a] = Id!Idle]
    BY <1>2, <2>5, <2>6 DEF IdentityInv
  <2>7. CASE review' = [review EXCEPT ![a].todo = @ \ {i}]
    <3> DEFINE new == [review[a] EXCEPT !.todo = @ \ {i}]
    <3>1. review' = [review EXCEPT ![a] = new] BY <2>7
    <3>2. /\ new.verdict = review[a].verdict /\ new.user = review[a].user /\ new.recs = review[a].recs
          /\ new.todo \subseteq review[a].todo
      OBVIOUS
    <3> HIDE DEF new
    <3>3. ReviewsOK' BY <1>2, <2>2, <3>1, <3>2 DEF ReviewOK
    <3>4. QED BY <2>5, <3>3 DEF IdentityInv
  <2>8. QED BY <2>1, <2>6, <2>7
<1>5. CASE Id!ReviewUser(a)
  <2>1. /\ review[a].verdict = "verify" /\ Id!Holds(a, Id!Verified(review[a].user))
        /\ review' = [review EXCEPT ![a] = Id!Idle] /\ UNCHANGED <<row, records, draft, loaded>>
    BY <1>5 DEF Id!ReviewUser
  <2>2. review[a] # Id!Idle BY <2>1 DEF Id!Idle
  <2>3. review[a].user \in Id!Row /\ Solid(review[a].user)
    BY <1>1, <2>2 DEF ReviewOK
  <2>4. Id!Verified(review[a].user) \in Id!Row /\ Solid(Id!Verified(review[a].user))
    BY <2>3 DEF Id!Verified, Id!Row, Solid
  <2>5. RowsOK' BY <1>1, <2>1, <2>4, HoldsKeep DEF IdentityInv
  <2>6. ReviewsOK' BY <1>2, <2>1
  <2>7. QED BY <2>5, <2>6 DEF IdentityInv
<1>6. QED BY <1>3, <1>4, <1>5 DEF Id!Review

\* The administrator's column, and crashes.
LEMMA OthersKeepIdentity ==
  ASSUME IdentityInv, Id!UpdateUserStatus \/ Id!Crash \/ UNCHANGED identity
  PROVE  IdentityInv'
<1>1. CASE Id!UpdateUserStatus
  <2>1. PICK s \in Statuses :
          row' = [row EXCEPT !.status = s] /\ UNCHANGED <<records, held, draft, loaded, review>>
    BY <1>1 DEF Id!UpdateUserStatus
  <2>2. row' \in Id!Row /\ row'.active = row.active /\ row'.secret = row.secret
    BY <2>1 DEF IdentityInv, RowsOK, Id!Row
  <2>3. Solid(row') BY <2>2 DEF IdentityInv, RowsOK, Solid
  <2>4. \A p \in Id!Savers : SaverOK(p)'
    BY <2>1, <2>2 DEF IdentityInv, RowsOK, SaverOK, ReadStands
  <2>5. RowsOK' BY <2>1, <2>2, <2>3, <2>4 DEF IdentityInv, RowsOK
  <2>6. QED BY <2>1, <2>5 DEF IdentityInv, ReviewsOK, ReviewOK
<1>2. CASE Id!Crash
  <2>1. /\ held' = [p \in Id!Savers |-> Id!NoRow] /\ draft' = [p \in Id!Savers |-> Id!NoDraft]
        /\ loaded' = [p \in Id!Savers |-> Id!NoRow] /\ review' = [a \in Admins |-> Id!Idle]
        /\ UNCHANGED <<row, records>>
    BY <1>2 DEF Id!Crash
  <2>2. Proven(Id!NoDraft.rec)
    BY DEF Id!NoDraft, Id!NoRecord, Proven
  <2>3. RowsOK' BY <2>1, <2>2 DEF IdentityInv, RowsOK, SaverOK
  <2>4. ReviewsOK' BY <2>1 DEF ReviewsOK, ReviewOK
  <2>5. QED BY <2>3, <2>4 DEF IdentityInv
<1>3. CASE UNCHANGED identity
  BY <1>3 DEF identity, IdentityInv, RowsOK, SaverOK, ReadStands, ReviewsOK, ReviewOK
<1>4. QED BY <1>1, <1>2, <1>3

LEMMA IdentityStep == ASSUME IdentityInv, Id!Next \/ UNCHANGED identity PROVE IdentityInv'
<1>1. CASE Id!Next
  BY <1>1, UserRequestKeeps, KycRequestKeeps, SaveKeeps, ReviewKeeps, OthersKeepIdentity DEF Id!Next
<1>2. CASE UNCHANGED identity
  BY <1>2, OthersKeepIdentity
<1>3. QED BY <1>1, <1>2

LEMMA IdentityTypes == ASSUME IdentityInv PROVE Id!TypeOK
<1>1. \A p \in Id!Savers :
        loaded[p] # Id!NoRow =>
          ~Id!Free(p) /\ loaded[p] \in IF held[p] # Id!NoRow THEN Id!Row ELSE Id!Record
  BY DEF IdentityInv, RowsOK, SaverOK, ReadStands, Draft, Id!Free
<1>2. \A a \in Admins :
        review[a] = Id!Idle \/ /\ review[a].verdict \in {"verify", "retry"}
                               /\ review[a].user \in Id!Row /\ review[a].recs \in [Id!Records -> Id!Record]
                               /\ review[a].todo \subseteq Id!Records
  BY DEF IdentityInv, ReviewsOK, ReviewOK
<1>3. QED BY <1>1, <1>2 DEF IdentityInv, RowsOK, ReviewsOK, Draft, Id!TypeOK

-----------------------------------------------------------------------------
(* BankAccounts: what a handler has read is not forgotten by the rows.  An *)
(* account that was approved is active or deleted ever after, as long as   *)
(* no two administrators decide on it when it is new, and the foreign keys *)
(* keep the deleted ones out.                                              *)

Status == {"none", "pending", "active", "rejected", "deleted"}
Setting == [bank : {0} \cup Bank!Banks, pending : {0} \cup Bank!Banks]
BankRequest == [kind : {"none", "create", "update", "delete", "post", "attach"},
                bank : {0} \cup Bank!Banks, setting : Setting]
BankReview == [kind : {"none", "create", "change"}, approve : BOOLEAN,
               bank : {0} \cup Bank!Banks, setting : Setting]

\* An account that a setting, or what was read and may be saved, refers to.
InSetting(s, b) == b = s.bank \/ b = s.pending
Refers(q, b) ==
  (q.kind \in {"update", "post", "attach"} /\ q.bank = b) \/ InSetting(q.setting, b)
\* A review of a new account refers to what no setting knows.
Considers(v, b) == v.kind = "change" /\ (v.bank = b \/ InSetting(v.setting, b))
Named(b) ==
  \/ InSetting(setting, b)
  \/ \E r \in Requests : Refers(request[r], b)
  \/ \E a \in Reviewers : Considers(bankReview[a], b)

\* A new account that is decided on has not been put to use.
NewIsUnknown(a) ==
  bankReview[a].kind = "create" =>
    \E b \in Bank!Banks : b = bankReview[a].bank /\ ~Named(b) /\ banks[b] \in {"pending", "deleted"}

BanksInv ==
  /\ banks \in [Bank!Banks -> Status] /\ setting \in Setting
  /\ request \in [Requests -> BankRequest] /\ bankReview \in [Reviewers -> BankReview]
  /\ \A b \in Bank!Banks : Named(b) => banks[b] \in {"active", "deleted"}
  /\ \A b \in Bank!Banks : InSetting(setting, b) => banks[b] = "active"
  /\ \A a \in Reviewers : NewIsUnknown(a)
  /\ \A a, c \in Reviewers :
       bankReview[a].kind = "create" /\ bankReview[c].kind = "create"
         /\ bankReview[a].bank = bankReview[c].bank => a = c
  /\ \A r \in Requests : request[r].kind \in {"update", "post", "attach"} => request[r].bank # 0

LEMMA BanksInit == ASSUME Bank!Init PROVE BanksInv
<1>1. 0 \notin Bank!Banks
  BY MembersAssumption DEF Bank!Banks
<1>2. /\ banks = [b \in Bank!Banks |-> "none"] /\ setting = [bank |-> 0, pending |-> 0]
      /\ request = [r \in Requests |-> Bank!NoRequest]
      /\ bankReview = [a \in Reviewers |-> Bank!NoReview]
  BY DEF Bank!Init
<1>3. Bank!NoRequest \in BankRequest /\ Bank!NoReview \in BankReview /\ setting \in Setting
  BY <1>2 DEF Bank!NoRequest, Bank!NoReview, BankRequest, BankReview, Setting
<1>4. \A b \in Bank!Banks : ~Named(b)
  BY <1>1, <1>2 DEF Named, InSetting, Refers, Considers, Bank!NoRequest, Bank!NoReview
<1>5. QED BY <1>1, <1>2, <1>3, <1>4 DEF BanksInv, NewIsUnknown, Status, Named, Bank!NoRequest, Bank!NoReview

\* A handler begins: it refers to the setting and to an active account.
LEMMA GoesKeeps ==
  ASSUME BanksInv, NEW r \in Requests, NEW kind \in {"create", "update", "delete", "post", "attach"},
         NEW b \in {0} \cup Bank!Banks, Bank!Goes(r, kind, b),
         kind \in {"update", "post", "attach"} => b # 0 /\ banks[b] = "active"
  PROVE  BanksInv'
<1>1. /\ request' = [request EXCEPT ![r] = [kind |-> kind, bank |-> b, setting |-> setting]]
      /\ UNCHANGED <<banks, setting, bankReview>>
  BY DEF Bank!Goes
<1>2. [kind |-> kind, bank |-> b, setting |-> setting] \in BankRequest
  BY DEF BanksInv, BankRequest
<1>3. request' \in [Requests -> BankRequest]
  BY <1>1, <1>2 DEF BanksInv
<1>4. \A c \in Bank!Banks : Named(c)' => Named(c) \/ banks[c] = "active"
  <2> SUFFICES ASSUME NEW c \in Bank!Banks, Named(c)' PROVE Named(c) \/ banks[c] = "active"
    OBVIOUS
  <2>1. ASSUME NEW q \in Requests, Refers(request[q], c)' PROVE Named(c) \/ banks[c] = "active"
    <3>1. CASE q = r
      BY <1>1, <2>1, <3>1 DEF BanksInv, Refers, InSetting, Named
    <3>2. CASE q # r
      BY <1>1, <2>1, <3>2 DEF BanksInv, Named
    <3>3. QED BY <3>1, <3>2
  <2>2. QED BY <1>1, <2>1 DEF Named
<1>5. QED BY <1>1, <1>3, <1>4 DEF BanksInv, NewIsUnknown

\* A handler ends: it leaves no account to be referred to that was not before.
LEMMA EndsKeeps ==
  ASSUME BanksInv, NEW r \in Requests, Bank!Ends(r), UNCHANGED bankReview,
         banks' \in [Bank!Banks -> Status], setting' \in Setting,
         \A b \in Bank!Banks : InSetting(setting', b) => Named(b) /\ banks'[b] = "active",
         \A b \in Bank!Banks : Named(b) => banks'[b] \in {"active", "deleted"},
         \A a \in Reviewers :
           bankReview[a].kind = "create" => banks'[bankReview[a].bank] \in {"pending", "deleted"}
  PROVE  BanksInv'
<1>1. request' = [request EXCEPT ![r] = Bank!NoRequest]
  BY DEF Bank!Ends
<1>2. Bank!NoRequest \in BankRequest /\ \A b \in Bank!Banks : ~Refers(Bank!NoRequest, b)
  BY DEF Bank!NoRequest, BankRequest, Setting, Refers, InSetting, Bank!Banks
<1>3. /\ request' \in [Requests -> BankRequest]
      /\ \A q \in Requests : request'[q] = IF q = r THEN Bank!NoRequest ELSE request[q]
  BY <1>1, <1>2 DEF BanksInv
<1>4. \A b \in Bank!Banks : Named(b)' => Named(b)
  BY <1>2, <1>3 DEF Named
<1>5. QED BY <1>3, <1>4 DEF BanksInv, NewIsUnknown, Bank!NoRequest

\* The rows of user_bank: inserted, saved as they were read, deleted.
LEMMA RowsKeep ==
  ASSUME BanksInv, NEW r \in Requests, Bank!InsertBank(r) \/ Bank!SaveBank(r) \/ Bank!DropBank(r)
  PROVE  BanksInv'
<1>1. Bank!Ends(r) /\ UNCHANGED <<setting, bankReview>>
  BY DEF Bank!InsertBank, Bank!SaveBank, Bank!DropBank
<1>2. \A b \in Bank!Banks : InSetting(setting, b) => Named(b)
  BY DEF Named
<1>3. CASE Bank!InsertBank(r)
  <2>1. PICK b \in Bank!With("none") : banks' = [banks EXCEPT ![b] = "pending"]
    BY <1>3 DEF Bank!InsertBank
  <2>2. b \in Bank!Banks /\ banks[b] = "none"
    BY <2>1 DEF Bank!With
  <2>3. /\ banks' \in [Bank!Banks -> Status]
        /\ \A c \in Bank!Banks : banks[c] # "none" => banks'[c] = banks[c]
    BY <2>1, <2>2 DEF BanksInv, Status
  <2>4. QED BY <1>1, <1>2, <2>3, EndsKeeps DEF BanksInv, NewIsUnknown
<1>4. CASE Bank!SaveBank(r)
  <2> DEFINE b == request[r].bank
  <2>1. b \in Bank!Banks /\ Named(b)
    BY <1>4 DEF Bank!SaveBank, BanksInv, BankRequest, Named, Refers
  <2>2. PICK s \in Bank!Saved("active", banks[b]) : banks' = [banks EXCEPT ![b] = s]
    BY <1>4 DEF Bank!SaveBank
  <2>3. s \in {"active", banks[b]}
    BY <2>2 DEF Bank!Saved
  <2> HIDE DEF b
  <2>4. /\ banks' \in [Bank!Banks -> Status]
        /\ \A c \in Bank!Banks : banks'[c] = IF c = b THEN s ELSE banks[c]
    BY <2>1, <2>2, <2>3 DEF BanksInv, Status
  <2>5. QED BY <1>1, <1>2, <2>1, <2>3, <2>4, EndsKeeps DEF BanksInv, NewIsUnknown
<1>5. CASE Bank!DropBank(r)
  <2> DEFINE b == request[r].bank
  <2>1. \/ UNCHANGED banks
        \/ ~InSetting(setting, b) /\ banks' = [banks EXCEPT ![b] = "deleted"]
    BY <1>5 DEF Bank!DropBank, Bank!Linked, InSetting
  <2> HIDE DEF b
  <2>2. /\ banks' \in [Bank!Banks -> Status]
        /\ \A c \in Bank!Banks : \/ banks'[c] = banks[c]
                                 \/ banks'[c] = "deleted" /\ ~InSetting(setting, c)
    BY <2>1 DEF BanksInv, Status
  <2>3. QED BY <1>1, <1>2, <2>2, EndsKeeps DEF BanksInv, NewIsUnknown
<1>6. QED BY <1>3, <1>4, <1>5

\* What a setting that is saved refers to exists, or it is not saved.
LEMMA SettingBecomesKeeps ==
  ASSUME BanksInv, NEW s \in Setting, Bank!SettingBecomes(s),
         \A b \in Bank!Banks : InSetting(s, b) => Named(b)
  PROVE  /\ setting' \in Setting
         /\ \A b \in Bank!Banks : InSetting(setting', b) => Named(b) /\ banks[b] = "active"
<1>1. CASE \E b \in {s.bank, s.pending} \ {0} : banks[b] = "deleted"
  BY <1>1 DEF Bank!SettingBecomes, BanksInv, Named
<1>2. CASE \A b \in {s.bank, s.pending} \ {0} : banks[b] # "deleted"
  <2>1. setting' = s
    BY <1>2 DEF Bank!SettingBecomes
  <2>2. \A b \in Bank!Banks : b # 0
    BY DEF Bank!Banks
  <2>3. QED BY <1>2, <2>1, <2>2 DEF BanksInv, InSetting
<1>3. QED BY <1>1, <1>2

\* So also when it is saved over one that was written since.
LEMMA SettingKeeps ==
  ASSUME BanksInv, NEW s \in Setting, Bank!SettingSaved(s),
         \A b \in Bank!Banks : InSetting(s, b) => Named(b)
  PROVE  /\ setting' \in Setting
         /\ \A b \in Bank!Banks : InSetting(setting', b) => Named(b) /\ banks[b] = "active"
<1>1. PICK b \in Bank!Saved(s.bank, setting.bank), p \in Bank!Saved(s.pending, setting.pending) :
        Bank!SettingBecomes([bank |-> b, pending |-> p])
  BY DEF Bank!SettingSaved
<1> DEFINE mix == [bank |-> b, pending |-> p]
<1>2. b \in {s.bank, setting.bank} /\ p \in {s.pending, setting.pending}
  BY <1>1 DEF Bank!Saved
<1>3. mix \in Setting
  BY <1>2 DEF BanksInv, Setting
<1>4. \A c \in Bank!Banks : InSetting(mix, c) => Named(c)
  BY <1>2 DEF InSetting, Named
<1> HIDE DEF mix
<1>5. Bank!SettingBecomes(mix)
  BY <1>1 DEF mix
<1>6. QED BY <1>3, <1>4, <1>5, SettingBecomesKeeps

\* The rows of setting_bank_order.
LEMMA LinksKeep ==
  ASSUME BanksInv, NEW r \in Requests, Bank!LinkBank(r) \/ Bank!SaveSetting(r)
  PROVE  BanksInv'
<1>1. Bank!Ends(r) /\ UNCHANGED <<banks, bankReview>>
  BY DEF Bank!LinkBank, Bank!SaveSetting
<1>2. request[r] \in BankRequest /\ \A b \in Bank!Banks : Refers(request[r], b) => Named(b)
  BY DEF BanksInv, Named
<1>3. /\ setting' \in Setting
      /\ \A b \in Bank!Banks : InSetting(setting', b) => Named(b) /\ banks[b] = "active"
  <2>1. CASE Bank!LinkBank(r)
    <3> DEFINE s == [bank |-> request[r].bank, pending |-> 0]
    <3>1. s \in Setting /\ Bank!SettingBecomes(s) /\ request[r].kind = "post"
      BY <1>2, <2>1 DEF Bank!LinkBank, BankRequest, Setting
    <3>2. \A b \in Bank!Banks : InSetting(s, b) => Refers(request[r], b)
      BY <3>1 DEF InSetting, Refers, Bank!Banks
    <3> HIDE DEF s
    <3>3. QED BY <1>2, <3>1, <3>2, SettingBecomesKeeps
  <2>2. CASE Bank!SaveSetting(r)
    <3> DEFINE s == [request[r].setting EXCEPT !.pending = request[r].bank]
    <3>1. s \in Setting /\ Bank!SettingSaved(s) /\ request[r].kind = "attach"
      BY <1>2, <2>2 DEF Bank!SaveSetting, BankRequest, Setting
    <3>2. \A b \in Bank!Banks : InSetting(s, b) => Refers(request[r], b)
      BY <1>2, <3>1 DEF InSetting, Refers, BankRequest, Setting
    <3> HIDE DEF s
    <3>3. QED BY <1>2, <3>1, <3>2, SettingKeeps
  <2>3. QED BY <2>1, <2>2
<1>4. QED BY <1>1, <1>3, EndsKeeps DEF BanksInv, NewIsUnknown

\* Handlers of the user begin.
LEMMA BankRequestKeeps ==
  ASSUME BanksInv, NEW r \in Requests,
         Bank!CreateBank(r) \/ Bank!UpdateBank(r) \/ Bank!DeleteBank(r)
           \/ Bank!CreateOrderBook(r) \/ Bank!AttachBank(r)
  PROVE  BanksInv'
<1>1. \A b \in Bank!With("active") : b \in Bank!Banks /\ b # 0 /\ banks[b] = "active"
  BY DEF Bank!With, Bank!Banks
<1>2. CASE Bank!CreateBank(r)
  BY <1>2, GoesKeeps DEF Bank!CreateBank
<1>3. CASE Bank!UpdateBank(r)
  BY <1>1, <1>3, GoesKeeps DEF Bank!UpdateBank
<1>4. CASE Bank!DeleteBank(r)
  BY <1>4, GoesKeeps DEF Bank!DeleteBank
<1>5. CASE Bank!CreateOrderBook(r)
  BY <1>1, <1>5, GoesKeeps DEF Bank!CreateOrderBook, Bank!Usable
<1>6. CASE Bank!AttachBank(r)
  BY <1>1, <1>6, GoesKeeps DEF Bank!AttachBank, Bank!Usable
<1>7. QED BY <1>2, <1>3, <1>4, <1>5, <1>6

\* An administrator reads a new account or a change, ...
LEMMA ReviewReadKeeps ==
  ASSUME BanksInv, NEW a \in Reviewers, NEW approve \in BOOLEAN,
         Bank!ReviewCreateRead(a, approve) \/ Bank!ReviewChangeRead(a, approve)
  PROVE  BanksInv'
<1>1. \A b \in Bank!Banks : b # 0
  BY DEF Bank!Banks
<1>2. ASSUME NEW kind \in {"create", "change"}, NEW b \in Bank!Banks, Bank!Reviews(a, kind, approve, b)
      PROVE  /\ bankReview' \in [Reviewers -> BankReview] /\ UNCHANGED <<banks, setting, request>>
             /\ \A c \in Reviewers : bankReview'[c] =
                  IF c = a THEN [kind |-> kind, approve |-> approve, bank |-> b, setting |-> setting]
                  ELSE bankReview[c]
  <2>1. [kind |-> kind, approve |-> approve, bank |-> b, setting |-> setting] \in BankReview
    BY DEF BanksInv, BankReview
  <2>2. QED BY <1>2, <2>1 DEF BanksInv, Bank!Reviews
<1>3. CASE Bank!ReviewCreateRead(a, approve)
  <2>1. PICK b \in Bank!With("pending") :
          /\ \A c \in Reviewers : ~(bankReview[c].kind = "create" /\ bankReview[c].bank = b)
          /\ Bank!Reviews(a, "create", approve, b)
    BY <1>3 DEF Bank!ReviewCreateRead
  <2>2. b \in Bank!Banks /\ banks[b] = "pending"
    BY <2>1 DEF Bank!With
  <2>3. /\ bankReview' \in [Reviewers -> BankReview] /\ UNCHANGED <<banks, setting, request>>
        /\ \A c \in Reviewers : bankReview'[c] =
             IF c = a THEN [kind |-> "create", approve |-> approve, bank |-> b, setting |-> setting]
             ELSE bankReview[c]
    BY <1>2, <2>1, <2>2
  <2>4. \A c \in Bank!Banks : Named(c)' => Named(c)
    BY <2>3 DEF Named, Considers
  <2>5. ~Named(b)'
    BY <2>2, <2>4 DEF BanksInv
  <2>6. \A c, d \in Reviewers :
          bankReview'[c].kind = "create" /\ bankReview'[d].kind = "create"
            /\ bankReview'[c].bank = bankReview'[d].bank => c = d
    BY <2>1, <2>3 DEF BanksInv
  <2>7. \A c \in Reviewers : NewIsUnknown(c)'
    BY <2>2, <2>3, <2>4, <2>5 DEF BanksInv, NewIsUnknown
  <2>8. QED BY <2>3, <2>4, <2>6, <2>7 DEF BanksInv
<1>4. CASE Bank!ReviewChangeRead(a, approve)
  <2>1. setting.pending \in Bank!Banks /\ Bank!Reviews(a, "change", approve, setting.pending)
    BY <1>4 DEF Bank!ReviewChangeRead, BanksInv, Setting
  <2>2. /\ bankReview' \in [Reviewers -> BankReview] /\ UNCHANGED <<banks, setting, request>>
        /\ \A c \in Reviewers : bankReview'[c] =
             IF c = a THEN [kind |-> "change", approve |-> approve, bank |-> setting.pending, setting |-> setting]
             ELSE bankReview[c]
    BY <1>2, <2>1
  <2>3. \A c \in Bank!Banks : Named(c)' => Named(c)
    BY <2>2 DEF Named, Considers, InSetting
  <2>4. QED BY <2>2, <2>3 DEF BanksInv, NewIsUnknown
<1>5. QED BY <1>3, <1>4

\* ... and saves a verdict.
LEMMA ReviewSaveKeeps ==
  ASSUME BanksInv, NEW a \in Reviewers, Bank!ReviewCreateSave(a) \/ Bank!ReviewChangeSave(a)
  PROVE  BanksInv'
<1>1. bankReview' = [bankReview EXCEPT ![a] = Bank!NoReview] /\ UNCHANGED request
  BY DEF Bank!ReviewCreateSave, Bank!ReviewChangeSave, Bank!Reviewed
<1>2. \A b \in Bank!Banks : b # 0
  BY DEF Bank!Banks
<1>3. Bank!NoReview \in BankReview /\ Bank!NoReview.kind = "none"
  BY DEF Bank!NoReview, BankReview, Setting
<1>4. /\ bankReview' \in [Reviewers -> BankReview]
      /\ \A c \in Reviewers : bankReview'[c] = IF c = a THEN Bank!NoReview ELSE bankReview[c]
  BY <1>1, <1>3 DEF BanksInv
<1>5. ASSUME banks' \in [Bank!Banks -> Status], setting' \in Setting,
             \A b \in Bank!Banks : InSetting(setting', b) => Named(b) /\ banks'[b] = "active",
             \A b \in Bank!Banks : Named(b) => banks'[b] \in {"active", "deleted"},
             \A c \in Reviewers \ {a} :
               bankReview[c].kind = "create" => banks'[bankReview[c].bank] = banks[bankReview[c].bank]
      PROVE  BanksInv'
  <2>1. \A b \in Bank!Banks : Named(b)' => Named(b)
    BY <1>1, <1>3, <1>4, <1>5 DEF Named, Considers
  <2>2. \A c \in Reviewers : NewIsUnknown(c)'
    BY <1>3, <1>4, <1>5, <2>1 DEF BanksInv, NewIsUnknown
  <2>3. \A c, d \in Reviewers :
          bankReview'[c].kind = "create" /\ bankReview'[d].kind = "create"
            /\ bankReview'[c].bank = bankReview'[d].bank => c = d
    BY <1>3, <1>4 DEF BanksInv
  <2>4. QED BY <1>1, <1>4, <1>5, <2>1, <2>2, <2>3 DEF BanksInv
<1>6. CASE Bank!ReviewCreateSave(a)
  <2> DEFINE b == bankReview[a].bank
  <2>1. b \in Bank!Banks /\ ~Named(b) /\ banks[b] \in {"pending", "deleted"} /\ UNCHANGED setting
    BY <1>6 DEF Bank!ReviewCreateSave, BanksInv, NewIsUnknown
  <2>2. PICK s \in Bank!Saved(IF bankReview[a].approve THEN "active" ELSE "rejected", banks[b]) \ {"pending"} :
          banks' = [banks EXCEPT ![b] = s]
    BY <1>6 DEF Bank!ReviewCreateSave
  <2>3. s \in Status
    BY <2>1, <2>2 DEF Bank!Saved, Status
  <2>4. \A c \in Reviewers \ {a} : bankReview[c].kind = "create" => bankReview[c].bank \in Bank!Banks \ {b}
    BY <1>6 DEF Bank!ReviewCreateSave, BanksInv, NewIsUnknown
  <2> HIDE DEF b
  <2>5. /\ banks' \in [Bank!Banks -> Status]
        /\ \A c \in Bank!Banks : c # b => banks'[c] = banks[c]
    BY <2>1, <2>2, <2>3 DEF BanksInv
  <2>6. \A c \in Bank!Banks : InSetting(setting, c) => Named(c)
    BY DEF Named
  <2>7. QED BY <1>5, <2>1, <2>4, <2>5, <2>6 DEF BanksInv
<1>7. CASE Bank!ReviewChangeSave(a)
  <2>1. bankReview[a].kind = "change" /\ UNCHANGED banks /\ bankReview[a] \in BankReview
    BY <1>7 DEF Bank!ReviewChangeSave, BanksInv
  <2>2. \A b \in Bank!Banks :
          InSetting(setting, b) \/ InSetting(bankReview[a].setting, b) \/ b = bankReview[a].bank => Named(b)
    BY <2>1 DEF Named, Considers
  <2>3. CASE ~bankReview[a].approve
    <3> DEFINE s == [bankReview[a].setting EXCEPT !.pending = 0]
    <3>1. Bank!SettingSaved(s) /\ s \in Setting
      BY <1>7, <2>1, <2>3 DEF Bank!ReviewChangeSave, BankReview, Setting
    <3>2. \A b \in Bank!Banks : InSetting(s, b) => InSetting(bankReview[a].setting, b)
      BY <1>2, <2>1 DEF InSetting, BankReview, Setting
    <3> HIDE DEF s
    <3>3. /\ setting' \in Setting
          /\ \A b \in Bank!Banks : InSetting(setting', b) => Named(b) /\ banks[b] = "active"
      BY <2>2, <3>1, <3>2, SettingKeeps
    <3>4. QED BY <1>5, <2>1, <3>3 DEF BanksInv
  <2>4. CASE bankReview[a].approve
    <3>1. \/ UNCHANGED setting
          \/ /\ bankReview[a].bank \in Bank!With("active")
             /\ setting' = [bank |-> bankReview[a].bank, pending |-> 0]
      BY <1>7, <2>4 DEF Bank!ReviewChangeSave
    <3>2. setting' \in Setting
      BY <2>1, <3>1 DEF BanksInv, Setting, BankReview
    <3>3. \A b \in Bank!Banks : InSetting(setting', b) => Named(b) /\ banks[b] = "active"
      BY <1>2, <2>2, <3>1 DEF BanksInv, InSetting, Bank!With
    <3>4. QED BY <1>5, <2>1, <3>2, <3>3 DEF BanksInv
  <2>5. QED BY <2>3, <2>4
<1>8. QED BY <1>6, <1>7

LEMMA BanksStep == ASSUME BanksInv, Bank!Next \/ UNCHANGED accounts PROVE BanksInv'
<1>1. CASE Bank!Next
  BY <1>1, BankRequestKeeps, RowsKeep, LinksKeep, ReviewReadKeeps, ReviewSaveKeeps DEF Bank!Next
<1>2. CASE UNCHANGED accounts
  BY <1>2 DEF accounts, BanksInv, NewIsUnknown, Named
<1>3. QED BY <1>1, <1>2

-----------------------------------------------------------------------------
(* TradingLimits: what the user is buying.                                 *)

LEMMA SameTotal == ASSUME NEW f, NEW n PROVE Limits!Total(f, n) = Total(f, n)
  BY DEF Limits!Total, Total

\* What a row, and all of them, count for; a request that is to take an amount
\* has found room for it.
Buys(d) == IF Limits!UnderWay(d) THEN deals[d].amount ELSE 0
Buying  == Total([d \in Limits!Deals |-> Buys(d)], NumDeals)
Room(r) == check[r].kind = "take" => Buying + check[r].amount <= Limit

Post   == [status : {"none", "pending", "executed", "failed"}, remaining : Nat]
Deal   == [status : {"none", "over", "pending", "payment_confirmed"}, of : {0} \cup Limits!Listings,
           amount : {0} \cup Amounts, fresh : BOOLEAN]
Found  == [kind : {"none", "post", "take"}, amount : {0} \cup Amounts]
Blocks ==
  {b \in [at : 0..3, todo : SUBSET (Limits!Listings \cup Limits!Deals)] :
     /\ b.at = 1 => b.todo \subseteq Limits!Deals
     /\ b.at = 2 => b.todo \subseteq Limits!Listings}

LimitTypes ==
  /\ blocked \in BOOLEAN
  /\ listings \in [Limits!Listings -> Post]
  /\ deals \in [Limits!Deals -> Deal]
  /\ check \in [{"r1"} -> Found]
  /\ block \in Blocks

LimitsInv == LimitTypes /\ Buying <= Limit /\ Room("r1")

LEMMA LimitsConstants == NumDeals \in Nat /\ NumListings \in Nat /\ Limit \in Nat /\ Amounts \subseteq Nat \ {0}
  BY MembersAssumption DEF Limits!Parameters

LEMMA NoRows ==
  /\ Limits!NoListing \in Post /\ Limits!NoDeal \in Deal /\ Limits!NoCheck \in Found /\ Limits!Idle \in Blocks
  /\ Limits!NoCheck.kind = "none" /\ Limits!NoDeal.status = "none"
<1>1. Limits!NoListing \in Post
  BY DEF Limits!NoListing, Post
<1>2. Limits!NoDeal \in Deal /\ Limits!NoDeal.status = "none"
  BY DEF Limits!NoDeal, Deal
<1>3. Limits!NoCheck \in Found /\ Limits!NoCheck.kind = "none"
  BY DEF Limits!NoCheck, Found
<1>4. Limits!Idle \in Blocks
  BY DEF Limits!Idle, Blocks
<1>5. QED BY <1>1, <1>2, <1>3, <1>4

LEMMA AmountsAreNat ==
  /\ \A deal \in Deal : deal.amount \in Nat
  /\ \A found \in Found : found.amount \in Nat
<1>1. {0} \cup Amounts \subseteq Nat
  BY LimitsConstants
<1>2. QED BY <1>1 DEF Deal, Found

LEMMA LimitTypesInit == ASSUME Limits!Init PROVE LimitTypes
  BY NoRows DEF Limits!Init, LimitTypes

\* A deal that is undone gives its amount back to the user's listing.
LEMMA UndoneTypes ==
  ASSUME LimitTypes, NEW d \in Limits!Deals, Limits!Undone(d)
  PROVE  /\ listings' \in [Limits!Listings -> Post]
         /\ deals' \in [Limits!Deals -> Deal]
         /\ deals' = [deals EXCEPT ![d].status = "over"]
         /\ \A l \in Limits!Listings :
              listings'[l].status = "pending" => listings[l].status = "pending" \/ deals[d].of = l
<1>1. deals[d] \in Deal /\ deals[d].amount \in Nat
  BY AmountsAreNat DEF LimitTypes
<1>2. /\ deals' = [deals EXCEPT ![d].status = "over"]
      /\ listings' = [l \in Limits!Listings |->
           IF deals[d].of # l THEN listings[l]
           ELSE [remaining |-> listings[l].remaining + deals[d].amount,
                 status    |-> IF listings[l].status = "executed" THEN "pending" ELSE listings[l].status]]
  BY DEF Limits!Undone
<1>3. [deals[d] EXCEPT !.status = "over"] \in Deal
  BY <1>1 DEF Deal
<1>4. ASSUME NEW l \in Limits!Listings
      PROVE  listings'[l] \in Post
  BY <1>1, <1>2 DEF LimitTypes, Post
<1>5. QED BY <1>2, <1>3, <1>4 DEF LimitTypes

\* Requests.
LEMMA LimitTypesRequest ==
  ASSUME LimitTypes, NEW r \in {"r1"},
         Limits!Check(r, "post") \/ Limits!Check(r, "take")
           \/ Limits!CreateOrderBook(r) \/ Limits!CreateTransaction(r)
  PROVE  LimitTypes'
<1>1. check[r] \in Found /\ check[r].amount \in Nat
  BY AmountsAreNat DEF LimitTypes
<1>2. ASSUME NEW kind \in {"post", "take"}, Limits!Check(r, kind)
      PROVE  LimitTypes'
  <2>1. PICK a \in Amounts : check' = [check EXCEPT ![r] = [kind |-> kind, amount |-> a]]
    BY <1>2 DEF Limits!Check
  <2>2. [kind |-> kind, amount |-> a] \in Found
    BY DEF Found
  <2>3. QED BY <1>2, <2>1, <2>2 DEF Limits!Check, LimitTypes
<1>3. CASE Limits!CreateOrderBook(r)
  <2>1. PICK l \in Limits!Listings :
          listings' = [listings EXCEPT ![l] = [status |-> "pending", remaining |-> check[r].amount]]
    BY <1>3 DEF Limits!CreateOrderBook
  <2>2. [status |-> "pending", remaining |-> check[r].amount] \in Post
    BY <1>1 DEF Post
  <2>3. QED BY <1>3, <2>1, <2>2, NoRows DEF Limits!CreateOrderBook, LimitTypes
<1>4. CASE Limits!CreateTransaction(r)
  <2> DEFINE deal == [status |-> "pending", of |-> 0, amount |-> check[r].amount, fresh |-> TRUE]
  <2>1. PICK d \in Limits!Deals : deals' = [deals EXCEPT ![d] = deal]
    BY <1>4 DEF Limits!CreateTransaction
  <2>2. deal \in Deal
    BY <1>1 DEF Deal, Found
  <2>3. QED BY <1>4, <2>1, <2>2, NoRows DEF Limits!CreateTransaction, LimitTypes
<1>5. QED BY <1>2, <1>3, <1>4

\* The other party, and time.
LEMMA LimitTypesTrade ==
  ASSUME LimitTypes,
         \/ \E l \in Limits!Listings : Limits!SoldTo(l) \/ Limits!DeleteOrderBook(l)
         \/ \E d \in Limits!Deals :
              Limits!CancelTransaction(d) \/ Limits!ConfirmPayment(d) \/ Limits!SettleTransaction(d) \/ Limits!DayPasses(d)
  PROVE  LimitTypes'
<1>1. Amounts \subseteq Nat
  BY LimitsConstants
<1>2. ASSUME NEW l \in Limits!Listings, Limits!SoldTo(l) PROVE LimitTypes'
  <2> DEFINE Sold(a) == [status |-> "pending", of |-> l, amount |-> a, fresh |-> TRUE]
  <2>1. PICK d \in Limits!Deals, a \in Amounts :
          /\ a <= listings[l].remaining
          /\ deals' = [deals EXCEPT ![d] = Sold(a)]
          /\ listings' = [listings EXCEPT ![l].remaining = @ - a,
                                          ![l].status = IF listings[l].remaining = a THEN "executed" ELSE @]
    BY <1>2 DEF Limits!SoldTo
  <2>2. Sold(a) \in Deal
    BY DEF Deal
  <2>3. listings[l] \in Post /\ listings[l].remaining - a \in Nat
    BY <1>1, <2>1 DEF LimitTypes, Post
  <2>4. /\ listings' = [listings EXCEPT ![l] = listings'[l]]
        /\ listings'[l] \in Post
    BY <2>1, <2>3 DEF LimitTypes, Post
  <2>5. QED BY <1>2, <2>1, <2>2, <2>4 DEF Limits!SoldTo, LimitTypes
<1>3. ASSUME NEW l \in Limits!Listings, Limits!DeleteOrderBook(l) PROVE LimitTypes'
  <2>1. [listings[l] EXCEPT !.status = "failed"] \in Post
    BY DEF LimitTypes, Post
  <2>2. QED BY <1>3, <2>1 DEF Limits!DeleteOrderBook, Limits!Failed, LimitTypes
<1>4. ASSUME NEW d \in Limits!Deals, Limits!CancelTransaction(d) PROVE LimitTypes'
  BY <1>4, UndoneTypes DEF Limits!CancelTransaction, LimitTypes
<1>5. ASSUME NEW d \in Limits!Deals,
             Limits!ConfirmPayment(d) \/ Limits!SettleTransaction(d) \/ Limits!DayPasses(d)
      PROVE  LimitTypes'
  <2>1. deals[d] \in Deal
    BY DEF LimitTypes
  <2>2. /\ [deals[d] EXCEPT !.status = "payment_confirmed"] \in Deal
        /\ [deals[d] EXCEPT !.status = "over"] \in Deal
        /\ [deals[d] EXCEPT !.fresh = FALSE] \in Deal
    BY <2>1 DEF Deal
  <2>3. /\ UNCHANGED <<blocked, listings, check, block>>
        /\ \/ deals' = [deals EXCEPT ![d] = [deals[d] EXCEPT !.status = "payment_confirmed"]]
           \/ deals' = [deals EXCEPT ![d] = [deals[d] EXCEPT !.status = "over"]]
           \/ deals' = [deals EXCEPT ![d] = [deals[d] EXCEPT !.fresh = FALSE]]
    BY <1>5 DEF Limits!ConfirmPayment, Limits!SettleTransaction, Limits!DayPasses
  <2>4. QED BY <2>2, <2>3 DEF LimitTypes
<1>6. QED BY <1>2, <1>3, <1>4, <1>5

\* The trade block.
LEMMA LimitTypesBlock ==
  ASSUME LimitTypes,
         \/ Limits!BlockBegin \/ Limits!BlockCancels \/ Limits!BlockDeletes \/ Limits!BlockGoesOn
         \/ Limits!BlockSets \/ Limits!Unblock
  PROVE  LimitTypes'
<1>1. /\ Limits!Todo("deals") \subseteq Limits!Deals
      /\ Limits!Todo("listings") \subseteq Limits!Listings
      /\ Limits!Todo("status") = {}
  BY DEF Limits!Todo, Limits!Pending, LimitTypes
<1>2. ASSUME NEW i
      PROVE  [block EXCEPT !.todo = block.todo \ {i}] \in Blocks
  <2>1. block = [at |-> block.at, todo |-> block.todo] /\ block \in Blocks
    BY DEF LimitTypes, Blocks
  <2>2. [at |-> block.at, todo |-> block.todo \ {i}] \in Blocks
    BY <2>1 DEF Blocks
  <2>3. QED BY <2>1, <2>2
<1>3. CASE Limits!BlockBegin
  <2>1. block' = [at |-> 1, todo |-> Limits!Todo("deals")]
    BY <1>3 DEF Limits!BlockBegin, Limits!Phases
  <2>2. QED BY <1>1, <1>3, <2>1 DEF Limits!BlockBegin, LimitTypes, Blocks
<1>4. CASE Limits!BlockCancels
  <2>1. block.todo \subseteq Limits!Deals
    BY <1>4 DEF Limits!BlockCancels, LimitTypes, Blocks, Limits!InPhase, Limits!Phases
  <2>2. PICK d \in Limits!Deals :
          \/ /\ deals[d].status = "pending" /\ Limits!Undone(d)
             /\ block' = [block EXCEPT !.todo = block.todo \ {d}]
          \/ block' = Limits!Idle /\ UNCHANGED <<listings, deals>>
    BY <1>4, <2>1 DEF Limits!BlockCancels
  <2>3. deals' \in [Limits!Deals -> Deal] /\ listings' \in [Limits!Listings -> Post]
    BY <2>2, UndoneTypes DEF LimitTypes
  <2>4. block' \in Blocks
    BY <1>2, <2>2, NoRows
  <2>5. QED BY <1>4, <2>3, <2>4 DEF Limits!BlockCancels, LimitTypes
<1>5. CASE Limits!BlockDeletes
  <2>1. PICK l :
          \/ Limits!Failed(l) /\ block' = [block EXCEPT !.todo = block.todo \ {l}]
          \/ block' = Limits!Idle /\ UNCHANGED listings
    BY <1>5 DEF Limits!BlockDeletes
  <2>2. listings' \in [Limits!Listings -> Post]
    BY <2>1 DEF Limits!Failed, LimitTypes, Post
  <2>3. QED BY <1>2, <1>5, <2>1, <2>2, NoRows DEF Limits!BlockDeletes, LimitTypes
<1>6. CASE Limits!BlockGoesOn
  <2>1. \/ block' = [at |-> 2, todo |-> Limits!Todo("listings")]
        \/ block' = [at |-> 3, todo |-> Limits!Todo("status")]
        \/ block' = [at |-> 1, todo |-> Limits!Todo("deals")]
    BY <1>6, NoRows DEF Limits!BlockGoesOn, LimitTypes, Blocks, Limits!InPhase, Limits!Phases
  <2>2. block' \in Blocks
    BY <1>1, <2>1 DEF Blocks
  <2>3. QED BY <1>6, <2>2 DEF Limits!BlockGoesOn, LimitTypes
<1>7. CASE Limits!BlockSets \/ Limits!Unblock
  BY <1>7, NoRows DEF Limits!BlockSets, Limits!Unblock, LimitTypes
<1>8. QED BY <1>3, <1>4, <1>5, <1>6, <1>7

LEMMA LimitTypesStep == ASSUME LimitTypes, Limits!Next PROVE LimitTypes'
  BY LimitTypesRequest, LimitTypesTrade, LimitTypesBlock DEF Limits!Next

-----------------------------------------------------------------------------
LEMMA BuysNat == ASSUME LimitTypes, NEW d \in Limits!Deals PROVE Buys(d) \in Nat
  BY AmountsAreNat DEF LimitTypes, Buys

LEMMA BuyingNat == ASSUME LimitTypes PROVE Buying \in Nat
<1> DEFINE f == [d \in Limits!Deals |-> Buys(d)]
<1>1. \A d \in 1..NumDeals : f[d] \in Nat
  BY BuysNat DEF Limits!Deals
<1> HIDE DEF f
<1>2. Total(f, NumDeals) \in Nat
  BY <1>1, LimitsConstants, TotalNat
<1>3. QED BY <1>2 DEF Buying, f

\* What the user's listings ask for, and what he buys, as the sums of a check.
LEMMA SumsOfCheck == ASSUME LimitTypes PROVE Limits!OpenToBuy \in Nat /\ Limits!Bought = Buying
<1> DEFINE f == [l \in Limits!Listings |->
                   IF listings[l].status = "pending" THEN listings[l].remaining ELSE 0]
<1>1. Limits!OpenToBuy \in Nat
  <2>1. \A l \in 1..NumListings : f[l] \in Nat
    BY DEF LimitTypes, Limits!Listings, Post
  <2> HIDE DEF f
  <2>2. Total(f, NumListings) \in Nat
    BY <2>1, LimitsConstants, TotalNat
  <2>3. QED BY <2>2, SameTotal DEF f, Limits!OpenToBuy
<1> DEFINE g == [d \in Limits!Deals |->
                   IF deals[d].of = 0 /\ deals[d].fresh /\ deals[d].status \in Limits!Active
                   THEN deals[d].amount ELSE 0]
           h == [d \in Limits!Deals |-> Buys(d)]
<1>2. Limits!Bought = Buying
  <2>1. \A d \in 1..NumDeals : g[d] = h[d]
    BY DEF LimitTypes, Deal, Buys, Limits!UnderWay, Limits!Active, Limits!Deals
  <2> HIDE DEF g, h
  <2>2. Total(g, NumDeals) = Total(h, NumDeals)
    BY <2>1, LimitsConstants, TotalSame
  <2>3. QED BY <2>2, SameTotal DEF g, h, Limits!Bought, Buying
<1>3. QED BY <1>1, <1>2

\* What has been found within the limit fits beside what is bought already.
LEMMA CheckLeavesRoom ==
  ASSUME LimitsInv, NEW r \in {"r1"}, Limits!Check(r, "take")
  PROVE  Buying + check'[r].amount <= Limit
<1>1. PICK a \in Amounts : a <= Limits!Available /\ check' = [check EXCEPT ![r] = [kind |-> "take", amount |-> a]]
  BY DEF Limits!Check
<1>2. check'[r].amount = a
  BY <1>1 DEF LimitsInv, LimitTypes
<1>3. a \in Nat /\ a # 0 /\ Buying \in Nat /\ Limit \in Nat
  BY LimitsConstants, BuyingNat DEF LimitsInv
<1>4. Limits!OpenToBuy \in Nat /\ Limits!Bought = Buying
  BY SumsOfCheck DEF LimitsInv
<1>5. QED BY <1>1, <1>2, <1>3, <1>4 DEF Limits!Available

\* A step that buys nothing keeps within the limit.
LEMMA BuyingFalls ==
  ASSUME LimitsInv, LimitTypes',
         \A d \in Limits!Deals : Buys(d)' <= Buys(d),
         check' = check \/ check'["r1"].kind # "take"
  PROVE  LimitsInv'
<1> DEFINE f == [d \in Limits!Deals |-> Buys(d)']
           g == [d \in Limits!Deals |-> Buys(d)]
<1>1. /\ \A d \in Limits!Deals : Buys(d) \in Nat /\ Buys(d)' \in Nat
      /\ Buying \in Nat /\ Buying' \in Nat
  <2>1. LimitTypes BY DEF LimitsInv
  <2>2. (\A d \in Limits!Deals : Buys(d) \in Nat) /\ Buying \in Nat
    BY <2>1, BuysNat, BuyingNat
  <2>3. (\A d \in Limits!Deals : Buys(d)' \in Nat) /\ Buying' \in Nat
    <3>1. \A d \in 1..NumDeals : f[d] \in Nat
      BY AmountsAreNat DEF LimitTypes, Buys, Limits!Deals
    <3> HIDE DEF f
    <3>2. Total(f, NumDeals) \in Nat
      BY <3>1, LimitsConstants, TotalNat
    <3>3. QED BY <3>1, <3>2 DEF f, Buying, Limits!Deals
  <2>4. QED BY <2>2, <2>3
<1>2. Buying' <= Buying
  <2>1. \A d \in 1..NumDeals : f[d] \in Int /\ g[d] \in Int /\ f[d] <= g[d]
    BY <1>1 DEF Limits!Deals
  <2> HIDE DEF f, g
  <2>2. Total(f, NumDeals) <= Total(g, NumDeals)
    BY <2>1, LimitsConstants, TotalMonotone
  <2>3. QED BY <2>2 DEF f, g, Buying
<1>3. check["r1"].amount \in Nat
  BY AmountsAreNat DEF LimitsInv, LimitTypes
<1>4. QED BY <1>1, <1>2, <1>3, LimitsConstants DEF LimitsInv, Room

LEMMA TakingFits ==
  ASSUME LimitsInv, LimitTypes', NEW r \in {"r1"}, Limits!CreateTransaction(r)
  PROVE  LimitsInv'
<1> DEFINE deal == [status |-> "pending", of |-> 0, amount |-> check[r].amount, fresh |-> TRUE]
           f == [d \in Limits!Deals |-> Buys(d)]
           g == [d \in Limits!Deals |-> Buys(d)']
<1>1. PICK d \in Limits!Deals : deals[d] = Limits!NoDeal /\ deals' = [deals EXCEPT ![d] = deal]
  BY DEF Limits!CreateTransaction, Limits!NextFree
<1>2. f[d] = 0 /\ g[d] = check[r].amount /\ \A i \in Limits!Deals : i # d => g[i] = f[i]
  BY <1>1 DEF LimitsInv, LimitTypes, Buys, Limits!UnderWay, Limits!NoDeal
<1>3. check[r].amount \in Nat
  BY AmountsAreNat DEF LimitsInv, LimitTypes
<1>4. \A i \in 1..NumDeals : f[i] \in Int /\ g[i] \in Int /\ (i # d => g[i] = f[i])
  <2>1. \A i \in Limits!Deals : f[i] \in Nat
    BY BuysNat DEF LimitsInv
  <2> HIDE DEF f, g
  <2>2. \A i \in Limits!Deals : f[i] \in Int /\ g[i] \in Int /\ (i # d => g[i] = f[i])
    BY <1>2, <1>3, <2>1
  <2>3. QED BY <2>2 DEF Limits!Deals
<1>5. d \in 1..NumDeals /\ Buying \in Nat
  BY <1>1, BuyingNat DEF Limits!Deals, LimitsInv
<1> HIDE DEF f, g
<1>6. Total(g, NumDeals) = Total(f, NumDeals) + g[d] - f[d]
  BY <1>4, <1>5, LimitsConstants, TotalChange
<1>7. Buying' = Buying + check[r].amount
  BY <1>2, <1>3, <1>5, <1>6 DEF f, g, Buying
<1>8. check[r].kind = "take" /\ check'["r1"].kind = "none"
  BY NoRows DEF Limits!CreateTransaction, LimitsInv, LimitTypes
<1>9. QED BY <1>7, <1>8 DEF LimitsInv, Room

LEMMA LimitsInit == ASSUME Limits!Init PROVE LimitsInv
<1> DEFINE f == [d \in Limits!Deals |-> Buys(d)]
<1>1. \A d \in 1..NumDeals : f[d] = 0
  BY NoRows DEF Limits!Init, Buys, Limits!UnderWay, Limits!Deals
<1> HIDE DEF f
<1>2. Total(f, NumDeals) = 0
  BY <1>1, LimitsConstants, TotalZero
<1>3. Buying <= Limit
  BY <1>2, LimitsConstants DEF f, Buying
<1>4. check["r1"] = Limits!NoCheck
  BY DEF Limits!Init
<1>5. QED BY <1>3, <1>4, LimitTypesInit, NoRows DEF LimitsInv, Room

\* No other step makes a deal count for more.
LEMMA LimitsStep == ASSUME LimitsInv, Limits!Next \/ UNCHANGED limits PROVE LimitsInv'
<1>1. CASE UNCHANGED limits
  BY <1>1 DEF limits, LimitsInv, LimitTypes, Buying, Buys, Limits!UnderWay, Room
<1> SUFFICES ASSUME Limits!Next PROVE LimitsInv'
  BY <1>1
<1>2. LimitTypes /\ LimitTypes' /\ \A d \in Limits!Deals : Buys(d) \in Nat
  BY LimitTypesStep, BuysNat DEF LimitsInv
<1>3. ASSUME NEW r \in {"r1"},
             Limits!Check(r, "post") \/ Limits!Check(r, "take") \/ Limits!CreateOrderBook(r) \/ Limits!CreateTransaction(r)
      PROVE  LimitsInv'
  <2>1. CASE Limits!Check(r, "post") \/ Limits!CreateOrderBook(r)
    <3>1. UNCHANGED deals /\ check'["r1"].kind # "take"
      <4>1. CASE Limits!Check(r, "post")
        BY <1>2, <4>1 DEF Limits!Check, LimitTypes
      <4>2. CASE Limits!CreateOrderBook(r)
        BY <1>2, <4>2, NoRows DEF Limits!CreateOrderBook, LimitTypes
      <4>3. QED BY <2>1, <4>1, <4>2
    <3>2. QED BY <1>2, <3>1, BuyingFalls DEF Buys, Limits!UnderWay
  <2>2. CASE Limits!Check(r, "take")
    <3>1. UNCHANGED deals
      BY <2>2 DEF Limits!Check
    <3>2. Buying' = Buying
      BY <3>1 DEF Buying, Buys, Limits!UnderWay
    <3>3. QED BY <1>2, <2>2, <3>2, CheckLeavesRoom DEF LimitsInv, Room
  <2>3. CASE Limits!CreateTransaction(r)
    BY <1>2, <2>3, TakingFits
  <2>4. QED BY <1>3, <2>1, <2>2, <2>3
<1>4. ASSUME NEW l \in Limits!Listings, Limits!SoldTo(l) \/ Limits!DeleteOrderBook(l)
      PROVE  LimitsInv'
  <2>1. l # 0
    BY LimitsConstants DEF Limits!Listings
  <2>2. UNCHANGED check /\ \A d \in Limits!Deals : Buys(d)' = Buys(d) \/ Buys(d)' = 0
    <3>1. CASE Limits!SoldTo(l)
      <4>1. PICK d \in Limits!Deals, a \in Amounts :
              deals' = [deals EXCEPT ![d] = [status |-> "pending", of |-> l, amount |-> a, fresh |-> TRUE]]
        BY <3>1 DEF Limits!SoldTo
      <4>2. QED BY <1>2, <2>1, <3>1, <4>1 DEF Limits!SoldTo, Buys, Limits!UnderWay, LimitTypes
    <3>2. CASE Limits!DeleteOrderBook(l)
      BY <3>2 DEF Limits!DeleteOrderBook, Buys, Limits!UnderWay
    <3>3. QED BY <1>4, <3>1, <3>2
  <2>3. QED BY <1>2, <2>2, BuyingFalls
<1>5. ASSUME NEW d \in Limits!Deals, UNCHANGED check,
             \/ deals' = [deals EXCEPT ![d].status = "over"]
             \/ /\ deals[d].status = "pending"
                /\ deals' = [deals EXCEPT ![d].status = "payment_confirmed"]
             \/ deals' = [deals EXCEPT ![d].fresh = FALSE]
      PROVE  LimitsInv'
  <2>1. \A i \in Limits!Deals : Buys(i)' = Buys(i) \/ Buys(i)' = 0
    BY <1>2, <1>5 DEF Buys, Limits!UnderWay, LimitTypes, Deal
  <2>2. QED BY <1>2, <1>5, <2>1, BuyingFalls
<1>6. ASSUME NEW d \in Limits!Deals,
             \/ Limits!CancelTransaction(d) \/ Limits!ConfirmPayment(d)
             \/ Limits!SettleTransaction(d) \/ Limits!DayPasses(d)
      PROVE  LimitsInv'
  BY <1>5, <1>6 DEF Limits!CancelTransaction, Limits!Undone, Limits!ConfirmPayment,
                    Limits!SettleTransaction, Limits!DayPasses
<1>7. ASSUME UNCHANGED <<deals, check>>
      PROVE  LimitsInv'
  BY <1>2, <1>7, BuyingFalls DEF Buys, Limits!UnderWay
<1>8. CASE Limits!BlockCancels
  <2>1. block.todo \subseteq Limits!Deals
    BY <1>2, <1>8 DEF Limits!BlockCancels, LimitTypes, Blocks, Limits!InPhase, Limits!Phases
  <2>2. UNCHANGED check
    BY <1>8 DEF Limits!BlockCancels
  <2>3. UNCHANGED deals \/ \E d \in Limits!Deals : deals' = [deals EXCEPT ![d].status = "over"]
    BY <1>8, <2>1 DEF Limits!BlockCancels, Limits!Undone
  <2>4. QED BY <1>5, <1>7, <2>2, <2>3
<1>9. CASE Limits!BlockBegin \/ Limits!BlockDeletes \/ Limits!BlockGoesOn \/ Limits!BlockSets \/ Limits!Unblock
  BY <1>7, <1>9 DEF Limits!BlockBegin, Limits!BlockDeletes, Limits!BlockGoesOn, Limits!BlockSets, Limits!Unblock
<1>10. QED BY <1>3, <1>4, <1>6, <1>8, <1>9 DEF Limits!Next

LEMMA LimitsIsBought == ASSUME LimitsInv PROVE Limits!BoughtWithinLimit
  BY SameTotal DEF LimitsInv, Buying, Buys, Limits!BoughtWithinLimit

-----------------------------------------------------------------------------
(* TradingLimits: a listing never asks for more than the limit.  What is   *)
(* taken from it may come back, and no more than that.                     *)

Asked(i, l) == IF deals[i].of = l /\ deals[i].status = "pending" THEN deals[i].amount ELSE 0
Owed(l) == Total([i \in Limits!Deals |-> Asked(i, l)], NumDeals)

RoomInv ==
  /\ \A l \in Limits!Listings : listings[l].remaining + Owed(l) <= Limit
  /\ \A i \in Limits!Deals : deals[i].of # 0 => listings[deals[i].of].status # "none"
  /\ check["r1"].amount <= Limit

\* The sum is a number, and changes by what one deal changes.
LEMMA OwedNat == ASSUME LimitTypes, NEW l PROVE Owed(l) \in Nat /\ \A i \in Limits!Deals : Asked(i, l) \in Nat
<1> DEFINE f == [i \in Limits!Deals |-> Asked(i, l)]
<1>1. \A i \in Limits!Deals : Asked(i, l) \in Nat
  BY AmountsAreNat DEF LimitTypes, Asked
<1>2. \A i \in 1..NumDeals : f[i] \in Nat
  BY <1>1 DEF Limits!Deals
<1> HIDE DEF f
<1>3. Total(f, NumDeals) \in Nat
  BY <1>2, LimitsConstants, TotalNat
<1>4. QED BY <1>1, <1>3 DEF f, Owed

LEMMA OwedChanges ==
  ASSUME LimitTypes, LimitTypes', NEW l \in Limits!Listings, NEW d \in Limits!Deals,
         \A i \in Limits!Deals : i # d => deals'[i] = deals[i]
  PROVE  Owed(l)' = Owed(l) + Asked(d, l)' - Asked(d, l)
<1> DEFINE f == [i \in Limits!Deals |-> Asked(i, l)]
           g == [i \in Limits!Deals |-> Asked(i, l)']
<1>1. \A i \in Limits!Deals : Asked(i, l) \in Nat /\ Asked(i, l)' \in Nat
  BY AmountsAreNat DEF LimitTypes, Asked
<1>2. \A i \in 1..NumDeals : f[i] \in Int /\ g[i] \in Int /\ (i # d => g[i] = f[i])
  BY <1>1 DEF Limits!Deals, Asked
<1>3. d \in 1..NumDeals /\ f[d] = Asked(d, l) /\ g[d] = Asked(d, l)' /\ Owed(l) = Total(f, NumDeals)
      /\ Owed(l)' = Total(g, NumDeals)
  BY DEF Limits!Deals, Owed
<1> HIDE DEF f, g
<1>4. QED BY <1>2, <1>3, LimitsConstants, TotalChange

LEMMA RoomInit == ASSUME Limits!Init PROVE RoomInv
<1>1. /\ \A l \in Limits!Listings : listings[l].remaining = 0
      /\ \A i \in Limits!Deals : deals[i].of = 0 /\ deals[i].status = "none"
      /\ check["r1"].amount = 0
  BY DEF Limits!Init, Limits!NoListing, Limits!NoDeal, Limits!NoCheck
<1>2. ASSUME NEW l \in Limits!Listings PROVE Owed(l) = 0
  <2> DEFINE f == [i \in Limits!Deals |-> Asked(i, l)]
  <2>1. \A i \in 1..NumDeals : f[i] = 0
    BY <1>1 DEF Asked, Limits!Deals
  <2> HIDE DEF f
  <2>2. Total(f, NumDeals) = 0
    BY <2>1, LimitsConstants, TotalZero
  <2>3. QED BY <2>2 DEF f, Owed
<1>3. QED BY <1>1, <1>2, LimitsConstants DEF RoomInv

\* A deal that asks for no more, of the listing it was of, leaves room.
LEMMA DealKeepsRoom ==
  ASSUME RoomInv, LimitTypes, LimitTypes', NEW d \in Limits!Deals,
         \A i \in Limits!Deals : i # d => deals'[i] = deals[i],
         deals'[d].of = deals[d].of \/ deals'[d].of = 0,
         \A l \in Limits!Listings :
           /\ listings'[l].remaining + Asked(d, l)' <= listings[l].remaining + Asked(d, l)
           /\ listings[l].status # "none" => listings'[l].status # "none",
         check'["r1"].amount <= Limit
  PROVE  RoomInv'
<1>1. ASSUME NEW l \in Limits!Listings PROVE listings'[l].remaining + Owed(l)' <= Limit
  <2>1. Owed(l)' = Owed(l) + Asked(d, l)' - Asked(d, l)
    BY OwedChanges
  <2>2. /\ Owed(l) \in Nat /\ Asked(d, l) \in Nat /\ Asked(d, l)' \in Nat /\ Limit \in Nat
        /\ listings[l].remaining \in Nat /\ listings'[l].remaining \in Nat
    <3>1. Asked(d, l)' \in Nat
      BY AmountsAreNat DEF LimitTypes, Asked
    <3>2. listings[l].remaining \in Nat /\ listings'[l].remaining \in Nat
      BY DEF LimitTypes, Post
    <3>3. QED BY <3>1, <3>2, OwedNat, LimitsConstants
  <2>3. listings[l].remaining + Owed(l) <= Limit
    BY DEF RoomInv
  <2>4. QED BY <2>1, <2>2, <2>3
<1>2. ASSUME NEW i \in Limits!Deals, deals'[i].of # 0 PROVE listings'[deals'[i].of].status # "none"
  <2>1. deals'[i].of = deals[i].of /\ deals[i].of \in Limits!Listings
    BY <1>2 DEF LimitTypes, Deal
  <2>2. QED BY <1>2, <2>1 DEF RoomInv
<1>3. QED BY <1>1, <1>2 DEF RoomInv

\* Where no deal changes, a listing that does is new, or asks for what it did.
LEMMA ListingsKeepRoom ==
  ASSUME RoomInv, LimitTypes, LimitTypes', UNCHANGED deals,
         \A l \in Limits!Listings :
           /\ listings[l].status # "none" => /\ listings'[l].status # "none"
                                             /\ listings'[l].remaining = listings[l].remaining
           /\ listings[l].status = "none" => listings'[l].remaining <= Limit,
         check'["r1"].amount <= Limit
  PROVE  RoomInv'
<1>1. \A l : Owed(l)' = Owed(l)
  BY DEF Owed, Asked
<1>2. ASSUME NEW l \in Limits!Listings PROVE listings'[l].remaining + Owed(l)' <= Limit
  <2>1. CASE listings[l].status # "none"
    BY <1>1, <2>1 DEF RoomInv
  <2>2. CASE listings[l].status = "none"
    <3> DEFINE f == [i \in Limits!Deals |-> Asked(i, l)]
    <3>1. l # 0
      BY LimitsConstants DEF Limits!Listings
    <3>2. \A i \in 1..NumDeals : f[i] = 0
      BY <2>2, <3>1 DEF RoomInv, Asked, Limits!Deals
    <3> HIDE DEF f
    <3>3. Total(f, NumDeals) = 0
      BY <3>2, LimitsConstants, TotalZero
    <3>4. Owed(l) = 0 /\ listings'[l].remaining \in Nat
      BY <3>3 DEF f, Owed, LimitTypes, Post
    <3>5. QED BY <1>1, <2>2, <3>4
  <2>3. QED BY <2>1, <2>2
<1>3. ASSUME NEW i \in Limits!Deals, deals'[i].of # 0 PROVE listings'[deals'[i].of].status # "none"
  <2>1. deals'[i].of = deals[i].of /\ deals[i].of \in Limits!Listings
    BY <1>3 DEF LimitTypes, Deal
  <2>2. QED BY <1>3, <2>1 DEF RoomInv
<1>4. QED BY <1>2, <1>3 DEF RoomInv

\* What a deal had taken comes back when it is undone, once: it is pending.
LEMMA UndoneKeepsRoom ==
  ASSUME RoomInv, LimitTypes, LimitTypes', NEW d \in Limits!Deals, deals[d].status = "pending",
         Limits!Undone(d), UNCHANGED check
  PROVE  RoomInv'
<1>1. deals' = [deals EXCEPT ![d].status = "over"]
  BY UndoneTypes
<1>2. /\ \A i \in Limits!Deals : i # d => deals'[i] = deals[i]
      /\ deals'[d].of = deals[d].of /\ deals'[d].status = "over"
  BY <1>1 DEF LimitTypes, Deal
<1>3. ASSUME NEW l \in Limits!Listings
      PROVE  /\ listings'[l].remaining + Asked(d, l)' <= listings[l].remaining + Asked(d, l)
             /\ listings[l].status # "none" => listings'[l].status # "none"
  <2>1. listings'[l] = IF deals[d].of # l THEN listings[l]
          ELSE [remaining |-> listings[l].remaining + deals[d].amount,
                status    |-> IF listings[l].status = "executed" THEN "pending" ELSE listings[l].status]
    BY DEF Limits!Undone
  <2>2. listings[l].remaining \in Nat /\ deals[d].amount \in Nat
    BY AmountsAreNat DEF LimitTypes, Post
  <2>3. Asked(d, l)' = 0 /\ Asked(d, l) = IF deals[d].of = l THEN deals[d].amount ELSE 0
    BY <1>2 DEF Asked
  <2>4. QED BY <2>1, <2>2, <2>3
<1>4. QED BY <1>2, <1>3, DealKeepsRoom DEF RoomInv

LEMMA SoldKeepsRoom ==
  ASSUME RoomInv, LimitTypes, LimitTypes', NEW l \in Limits!Listings, Limits!SoldTo(l)
  PROVE  RoomInv'
<1>1. PICK d \in Limits!Deals, a \in Amounts :
        /\ deals[d] = Limits!NoDeal /\ a <= listings[l].remaining
        /\ deals' = [deals EXCEPT ![d] = [status |-> "pending", of |-> l, amount |-> a, fresh |-> TRUE]]
        /\ listings' = [listings EXCEPT ![l].remaining = @ - a,
                                        ![l].status = IF listings[l].remaining = a THEN "executed" ELSE @]
  BY DEF Limits!SoldTo, Limits!NextFree
<1>2. a \in Nat /\ l # 0 /\ listings[l].status = "pending" /\ UNCHANGED check /\ Limit \in Nat
  BY LimitsConstants DEF Limits!SoldTo, Limits!Listings
<1>3. /\ \A i \in Limits!Deals : i # d => deals'[i] = deals[i]
      /\ deals'[d] = [status |-> "pending", of |-> l, amount |-> a, fresh |-> TRUE]
  BY <1>1 DEF LimitTypes
<1>4. /\ listings'[l].remaining = listings[l].remaining - a /\ listings'[l].status \in {"pending", "executed"}
      /\ \A k \in Limits!Listings : k # l => listings'[k] = listings[k]
  BY <1>1, <1>2 DEF LimitTypes, Post
<1>5. ASSUME NEW k \in Limits!Listings PROVE listings'[k].remaining + Owed(k)' <= Limit
  <2>1. Owed(k)' = Owed(k) + Asked(d, k)' - Asked(d, k)
    BY <1>3, OwedChanges
  <2>2. Asked(d, k) = 0 /\ Asked(d, k)' = IF k = l THEN a ELSE 0
    BY <1>1, <1>3 DEF Asked, Limits!NoDeal
  <2>3. Owed(k) \in Nat /\ listings[k].remaining \in Nat /\ listings[k].remaining + Owed(k) <= Limit
    BY OwedNat DEF RoomInv, LimitTypes, Post
  <2>4. QED BY <1>2, <1>4, <2>1, <2>2, <2>3
<1>6. ASSUME NEW i \in Limits!Deals, deals'[i].of # 0 PROVE listings'[deals'[i].of].status # "none"
  <2>1. CASE i = d
    BY <1>3, <1>4, <2>1
  <2>2. CASE i # d
    <3>1. deals'[i] = deals[i] /\ deals[i].of \in Limits!Listings
      BY <1>3, <1>6, <2>2 DEF LimitTypes, Deal
    <3>2. listings[deals[i].of].status # "none"
      BY <1>6, <3>1 DEF RoomInv
    <3>3. CASE deals[i].of = l
      BY <1>4, <3>1, <3>3
    <3>4. CASE deals[i].of # l
      BY <1>4, <3>1, <3>2, <3>4
    <3>5. QED BY <3>3, <3>4
  <2>3. QED BY <2>1, <2>2
<1>7. QED BY <1>2, <1>5, <1>6 DEF RoomInv

LEMMA RequestKeepsRoom ==
  ASSUME RoomInv, LimitTypes, LimitTypes', NEW r \in {"r1"},
         Limits!Check(r, "post") \/ Limits!Check(r, "take")
           \/ Limits!CreateOrderBook(r) \/ Limits!CreateTransaction(r)
  PROVE  RoomInv'
<1>1. Limits!NoCheck.amount = 0 /\ Limits!NoListing.status = "none" /\ Limits!NoDeal.status = "none" /\ Limit \in Nat
  BY LimitsConstants DEF Limits!NoCheck, Limits!NoListing, Limits!NoDeal
<1>2. ASSUME NEW kind \in {"post", "take"}, Limits!Check(r, kind) PROVE RoomInv'
  <2>1. PICK a \in Amounts : a <= Limits!Available /\ check' = [check EXCEPT ![r] = [kind |-> kind, amount |-> a]]
    BY <1>2 DEF Limits!Check
  <2>2. Limits!OpenToBuy \in Nat /\ Limits!Bought \in Nat /\ a \in Nat
    BY SumsOfCheck, BuyingNat, LimitsConstants
  <2>3. a <= Limit
    BY <1>1, <2>1, <2>2 DEF Limits!Available
  <2>4. check'["r1"].amount <= Limit
    BY <2>1, <2>3 DEF LimitTypes
  <2>5. UNCHANGED <<deals, listings>>
    BY <1>2 DEF Limits!Check
  <2>6. \A l \in Limits!Listings : Owed(l) \in Nat /\ listings[l].remaining \in Nat /\ listings[l].remaining <= Limit
    BY <1>1, OwedNat DEF RoomInv, LimitTypes, Post
  <2>7. QED BY <2>4, <2>5, <2>6, ListingsKeepRoom
<1>3. CASE Limits!CreateOrderBook(r)
  <2>1. PICK l \in Limits!Listings :
          /\ listings[l] = Limits!NoListing
          /\ listings' = [listings EXCEPT ![l] = [status |-> "pending", remaining |-> check[r].amount]]
    BY <1>3 DEF Limits!CreateOrderBook, Limits!NextFree
  <2>2. UNCHANGED deals /\ check' = [check EXCEPT ![r] = Limits!NoCheck]
    BY <1>3 DEF Limits!CreateOrderBook
  <2>3. check'["r1"].amount <= Limit /\ check[r].amount <= Limit
    BY <1>1, <2>2 DEF RoomInv, LimitTypes
  <2>4. \A k \in Limits!Listings : Owed(k) \in Nat /\ listings[k].remaining \in Nat /\ listings[k].remaining <= Limit
    BY <1>1, OwedNat DEF RoomInv, LimitTypes, Post
  <2>5. \A k \in Limits!Listings :
          listings'[k] = IF k = l THEN [status |-> "pending", remaining |-> check[r].amount] ELSE listings[k]
    BY <2>1 DEF LimitTypes
  <2>6. QED BY <1>1, <2>1, <2>2, <2>3, <2>4, <2>5, ListingsKeepRoom
<1>4. CASE Limits!CreateTransaction(r)
  <2>1. PICK d \in Limits!Deals :
          /\ deals[d] = Limits!NoDeal
          /\ deals' = [deals EXCEPT ![d] = [status |-> "pending", of |-> 0, amount |-> check[r].amount,
                                            fresh |-> TRUE]]
    BY <1>4 DEF Limits!CreateTransaction, Limits!NextFree
  <2>2. UNCHANGED listings /\ check'["r1"].amount <= Limit
    BY <1>1, <1>4 DEF Limits!CreateTransaction, LimitTypes
  <2>3. /\ \A i \in Limits!Deals : i # d => deals'[i] = deals[i]
        /\ deals'[d].of = 0
    BY <2>1 DEF LimitTypes
  <2>4. ASSUME NEW l \in Limits!Listings PROVE Asked(d, l) = 0 /\ Asked(d, l)' = 0 /\ listings[l].remaining \in Nat
    <3>1. l # 0
      BY LimitsConstants DEF Limits!Listings
    <3>2. QED BY <1>1, <2>1, <2>3, <3>1 DEF Asked, LimitTypes, Post
  <2>5. QED BY <2>2, <2>3, <2>4, DealKeepsRoom
<1>5. QED BY <1>2, <1>3, <1>4

LEMMA RoomStep == ASSUME RoomInv, LimitTypes, Limits!Next \/ UNCHANGED limits PROVE RoomInv'
<1>1. CASE UNCHANGED limits
  BY <1>1 DEF limits, RoomInv, Owed, Asked
<1> SUFFICES ASSUME Limits!Next PROVE RoomInv'
  BY <1>1
<1>2. LimitTypes'
  BY LimitTypesStep
<1>3. \A l \in Limits!Listings : Owed(l) \in Nat /\ listings[l].remaining \in Nat /\ listings[l].remaining <= Limit
  BY LimitsConstants, OwedNat DEF RoomInv, LimitTypes, Post
<1>4. ASSUME UNCHANGED <<deals, check>>, UNCHANGED listings \/ \E l \in Limits!Listings :
               listings[l].status = "pending" /\ Limits!Failed(l)
      PROVE  RoomInv'
  <2>1. \A k \in Limits!Listings :
          \/ listings'[k] = listings[k]
          \/ listings'[k].status = "failed" /\ listings'[k].remaining = listings[k].remaining
               /\ listings[k].status = "pending"
    BY <1>4 DEF Limits!Failed, LimitTypes, Post
  <2>2. check'["r1"].amount <= Limit
    BY <1>4 DEF RoomInv
  <2>3. QED BY <1>2, <1>3, <1>4, <2>1, <2>2, ListingsKeepRoom
<1>5. ASSUME NEW d \in Limits!Deals, UNCHANGED <<listings, check>>,
             \/ deals' = [deals EXCEPT ![d].status = "payment_confirmed"]
             \/ deals' = [deals EXCEPT ![d].status = "over"]
             \/ deals' = [deals EXCEPT ![d].fresh = FALSE]
      PROVE  RoomInv'
  <2>1. /\ \A i \in Limits!Deals : i # d => deals'[i] = deals[i]
        /\ deals'[d].of = deals[d].of /\ deals'[d].amount = deals[d].amount
        /\ deals'[d].status = deals[d].status \/ deals'[d].status # "pending"
    BY <1>5 DEF LimitTypes, Deal
  <2>2. \A l \in Limits!Listings : Asked(d, l)' = Asked(d, l) \/ Asked(d, l)' = 0
    BY <2>1 DEF Asked
  <2>3. \A l \in Limits!Listings : Asked(d, l) \in Nat
    BY OwedNat
  <2>4. \A l \in Limits!Listings :
          listings'[l].remaining + Asked(d, l)' <= listings[l].remaining + Asked(d, l)
    BY <1>3, <1>5, <2>2, <2>3
  <2>5. check'["r1"].amount <= Limit
    BY <1>5 DEF RoomInv
  <2>6. QED BY <1>2, <1>5, <2>1, <2>4, <2>5, DealKeepsRoom
<1>6. ASSUME NEW l \in Limits!Listings, Limits!SoldTo(l) \/ Limits!DeleteOrderBook(l) PROVE RoomInv'
  BY <1>2, <1>4, <1>6, SoldKeepsRoom DEF Limits!DeleteOrderBook
<1>7. ASSUME NEW d \in Limits!Deals,
             \/ Limits!CancelTransaction(d) \/ Limits!ConfirmPayment(d)
             \/ Limits!SettleTransaction(d) \/ Limits!DayPasses(d)
      PROVE  RoomInv'
  <2>1. CASE Limits!CancelTransaction(d)
    BY <1>2, <2>1, UndoneKeepsRoom DEF Limits!CancelTransaction
  <2>2. CASE Limits!ConfirmPayment(d) \/ Limits!SettleTransaction(d) \/ Limits!DayPasses(d)
    BY <1>5, <2>2 DEF Limits!ConfirmPayment, Limits!SettleTransaction, Limits!DayPasses
  <2>3. QED BY <1>7, <2>1, <2>2
<1>8. CASE Limits!BlockCancels
  <2>1. block.todo \subseteq Limits!Deals /\ UNCHANGED check
    BY <1>8 DEF Limits!BlockCancels, LimitTypes, Blocks, Limits!InPhase, Limits!Phases
  <2>2. PICK d \in Limits!Deals : \/ deals[d].status = "pending" /\ Limits!Undone(d)
                                  \/ UNCHANGED <<listings, deals>>
    BY <1>8, <2>1 DEF Limits!BlockCancels
  <2>3. QED BY <1>2, <1>4, <2>1, <2>2, UndoneKeepsRoom
<1>9. CASE Limits!BlockDeletes
  <2>1. block.todo \subseteq Limits!Listings /\ UNCHANGED <<deals, check>>
    BY <1>9 DEF Limits!BlockDeletes, LimitTypes, Blocks, Limits!InPhase, Limits!Phases
  <2>2. QED BY <1>4, <1>9, <2>1 DEF Limits!BlockDeletes
<1>10. CASE Limits!BlockBegin \/ Limits!BlockGoesOn \/ Limits!BlockSets \/ Limits!Unblock
  BY <1>4, <1>10 DEF Limits!BlockBegin, Limits!BlockGoesOn, Limits!BlockSets, Limits!Unblock
<1>11. QED BY <1>2, <1>6, <1>7, <1>8, <1>9, <1>10, RequestKeepsRoom DEF Limits!Next

LEMMA LimitsAreTyped == ASSUME LimitTypes, RoomInv PROVE Limits!TypeOK
<1>1. ASSUME NEW l \in Limits!Listings
      PROVE  listings[l] \in [status : {"none", "pending", "executed", "failed"}, remaining : 0..Limit]
  <2>1. listings[l] \in Post /\ Owed(l) \in Nat /\ Limit \in Nat /\ listings[l].remaining + Owed(l) <= Limit
    BY OwedNat, LimitsConstants DEF RoomInv, LimitTypes
  <2>2. listings[l].remaining \in 0..Limit
    BY <2>1 DEF Post
  <2>3. QED BY <2>1, <2>2 DEF Post
<1>2. block.at \in 0..3 /\ block.todo \subseteq Limits!Listings \cup Limits!Deals
  BY DEF LimitTypes, Blocks
<1>3. QED BY <1>1, <1>2 DEF LimitTypes, Limits!TypeOK, Deal, Found

-----------------------------------------------------------------------------
(* TradingLimits: a trade block.                                           *)

\* What a block that gets as far as a phase has done away with.
NoDealPends == \A d \in Limits!Deals : deals[d].status # "pending"
NoPostPends == \A l \in Limits!Listings : listings[l].status # "pending"

BlockInv ==
  /\ LimitTypes
  /\ block.at = 0 => block = Limits!Idle
  /\ block.at # 0 => ~blocked
  /\ blocked \/ block.at # 0 => check["r1"].kind = "none"
  /\ blocked \/ block.at \in {2, 3} => NoDealPends
  /\ blocked \/ block.at = 3 => NoPostPends
  /\ block.at = 1 => \A d \in Limits!Deals : deals[d].status = "pending" => d \in block.todo
  /\ block.at = 2 => \A l \in Limits!Listings : listings[l].status = "pending" => l \in block.todo

LEMMA BlockInit == ASSUME Limits!Init PROVE BlockInv
<1>1. check["r1"] = Limits!NoCheck /\ ~blocked /\ block = Limits!Idle /\ block.at = 0
  BY DEF Limits!Init, Limits!Idle
<1>2. QED BY <1>1, LimitTypesInit DEF BlockInv

\* Where no block has begun, anything goes.
LEMMA UnblockedIsFree ==
  ASSUME BlockInv, LimitTypes', ~blocked, block.at = 0, UNCHANGED <<blocked, block>>
  PROVE  BlockInv'
  BY DEF BlockInv

\* A request, and who sells to a listing, finds no block.
LEMMA RequestIsUnblocked ==
  ASSUME BlockInv,
         \/ \E r \in {"r1"} : \/ Limits!Check(r, "post") \/ Limits!Check(r, "take")
                              \/ Limits!CreateOrderBook(r) \/ Limits!CreateTransaction(r)
         \/ \E l \in Limits!Listings : Limits!SoldTo(l)
  PROVE  UNCHANGED <<blocked, block>> /\ (blocked \/ block.at = 0)
<1>1. Limits!Idle.at = 0
  BY DEF Limits!Idle
<1>2. QED
  BY <1>1 DEF BlockInv, Limits!Check, Limits!CreateOrderBook, Limits!CreateTransaction,
              Limits!SoldTo, Limits!Undisturbed

\* ... and where one has, what goes on brings nothing back: only a deal that was
\* pending makes its listing pending again.
LEMMA TradeEnds ==
  ASSUME BlockInv, LimitTypes', UNCHANGED <<blocked, block, check>>,
         \A d \in Limits!Deals : deals'[d].status = "pending" => deals[d].status = "pending",
         \A l \in Limits!Listings : listings'[l].status = "pending" =>
           listings[l].status = "pending" \/ \E d \in Limits!Deals : deals[d].status = "pending"
  PROVE  BlockInv'
<1>1. NoDealPends => NoDealPends'
  BY DEF NoDealPends
<1>2. NoDealPends =>
        \A l \in Limits!Listings : listings'[l].status = "pending" => listings[l].status = "pending"
  BY DEF NoDealPends
<1>3. NoDealPends /\ NoPostPends => NoPostPends'
  BY <1>2 DEF NoPostPends
<1>4. QED BY <1>1, <1>2, <1>3 DEF BlockInv

LEMMA BlockGoes ==
  ASSUME BlockInv, LimitTypes',
         Limits!BlockBegin \/ Limits!BlockCancels \/ Limits!BlockDeletes \/ Limits!BlockGoesOn
  PROVE  BlockInv'
<1>1. Limits!Idle.at = 0 /\ block \in Blocks /\ LimitTypes
  BY DEF Limits!Idle, BlockInv, LimitTypes
<1>2. ASSUME block' = Limits!Idle, ~blocked, UNCHANGED blocked
      PROVE  BlockInv'
  BY <1>1, <1>2 DEF BlockInv
<1>3. CASE Limits!BlockBegin
  <2>1. block' = [at |-> 1, todo |-> Limits!Todo("deals")]
    BY <1>3 DEF Limits!BlockBegin, Limits!Phases
  <2>2. \A d \in Limits!Deals : deals[d].status = "pending" => d \in Limits!Todo("deals")
    BY <1>1 DEF LimitTypes, Limits!Todo, Limits!Pending
  <2>3. check["r1"] = Limits!NoCheck /\ ~blocked /\ UNCHANGED <<blocked, listings, deals, check>>
    BY <1>3 DEF Limits!BlockBegin
  <2>4. QED BY <2>1, <2>2, <2>3, NoRows DEF BlockInv
<1>4. CASE Limits!BlockCancels
  <2>1. block.at = 1 /\ block.todo \subseteq Limits!Deals /\ UNCHANGED <<blocked, check>>
    BY <1>1, <1>4 DEF Limits!BlockCancels, LimitTypes, Blocks, Limits!InPhase, Limits!Phases
  <2>2. PICK d \in Limits!Deals :
          \/ Limits!Undone(d) /\ block' = [block EXCEPT !.todo = block.todo \ {d}]
          \/ block' = Limits!Idle /\ UNCHANGED <<listings, deals>>
    BY <1>4, <2>1 DEF Limits!BlockCancels
  <2>3. CASE Limits!Undone(d) /\ block' = [block EXCEPT !.todo = block.todo \ {d}]
    <3>1. block'.at = 1 /\ block'.todo = block.todo \ {d}
      BY <1>1, <2>1, <2>3 DEF Blocks
    <3>2. \A i \in Limits!Deals : deals'[i].status = "pending" => i # d /\ deals[i].status = "pending"
      BY <1>1, <2>3 DEF Limits!Undone, LimitTypes, Deal
    <3>3. QED BY <2>1, <3>1, <3>2 DEF BlockInv
  <2>4. QED BY <1>2, <2>1, <2>2, <2>3 DEF BlockInv
<1>5. CASE Limits!BlockDeletes
  <2>1. block.at = 2 /\ UNCHANGED <<blocked, deals, check>>
    BY <1>1, <1>5 DEF Limits!BlockDeletes, LimitTypes, Blocks, Limits!InPhase, Limits!Phases
  <2>2. PICK l :
          \/ Limits!Failed(l) /\ block' = [block EXCEPT !.todo = block.todo \ {l}]
          \/ block' = Limits!Idle /\ UNCHANGED listings
    BY <1>5 DEF Limits!BlockDeletes
  <2>3. CASE Limits!Failed(l) /\ block' = [block EXCEPT !.todo = block.todo \ {l}]
    <3>1. block'.at = 2 /\ block'.todo = block.todo \ {l}
      BY <1>1, <2>1, <2>3 DEF Blocks
    <3>2. \A i \in Limits!Listings : listings'[i].status = "pending" => i # l /\ listings[i].status = "pending"
      BY <1>1, <2>3 DEF Limits!Failed, LimitTypes, Post
    <3>3. QED BY <2>1, <3>1, <3>2 DEF BlockInv, NoDealPends
  <2>4. QED BY <1>2, <2>1, <2>2, <2>3 DEF BlockInv
<1>6. CASE Limits!BlockGoesOn
  <2>1. /\ block.todo = {} /\ UNCHANGED <<blocked, listings, deals, check>>
        /\ \/ block.at = 1 /\ block' = [at |-> 2, todo |-> Limits!Todo("listings")]
           \/ block.at = 2 /\ block' = [at |-> 3, todo |-> Limits!Todo("status")]
    <3>1. block # Limits!Idle /\ block.at \in {1, 2, 3}
      BY <1>1, <1>6 DEF Limits!BlockGoesOn, BlockInv, Blocks
    <3>2. QED BY <1>6, <3>1 DEF Limits!BlockGoesOn, Limits!InPhase, Limits!Phases
  <2>2. \A l \in Limits!Listings : listings[l].status = "pending" => l \in Limits!Todo("listings")
    BY <1>1 DEF LimitTypes, Limits!Todo, Limits!Pending
  <2>3. CASE block.at = 1 /\ block' = [at |-> 2, todo |-> Limits!Todo("listings")]
    BY <2>1, <2>2, <2>3 DEF BlockInv, NoDealPends
  <2>4. CASE block.at = 2 /\ block' = [at |-> 3, todo |-> Limits!Todo("status")]
    BY <2>1, <2>4 DEF BlockInv, NoDealPends, NoPostPends
  <2>5. QED BY <2>1, <2>3, <2>4
<1>7. QED BY <1>3, <1>4, <1>5, <1>6

LEMMA BlockStep == ASSUME BlockInv, Limits!Next \/ UNCHANGED limits PROVE BlockInv'
<1>1. CASE UNCHANGED limits
  BY <1>1 DEF limits, BlockInv, LimitTypes, NoDealPends, NoPostPends
<1> SUFFICES ASSUME Limits!Next PROVE BlockInv'
  BY <1>1
<1>2. LimitTypes /\ LimitTypes'
  BY LimitTypesStep DEF BlockInv
<1>3. ASSUME \/ \E r \in {"r1"} : \/ Limits!Check(r, "post") \/ Limits!Check(r, "take")
                                  \/ Limits!CreateOrderBook(r) \/ Limits!CreateTransaction(r)
             \/ \E l \in Limits!Listings : Limits!SoldTo(l)
      PROVE  BlockInv'
  <2>1. UNCHANGED <<blocked, block>> /\ (blocked \/ block.at = 0)
    BY <1>3, RequestIsUnblocked
  <2>2. CASE ~blocked
    BY <1>2, <2>1, <2>2, UnblockedIsFree
  <2>3. CASE blocked
    <3>1. check["r1"].kind = "none" /\ NoPostPends
      BY <2>3 DEF BlockInv
    <3>2. FALSE
      BY <1>3, <2>3, <3>1 DEF Limits!Check, Limits!CreateOrderBook, Limits!CreateTransaction,
                              Limits!SoldTo, NoPostPends
    <3>3. QED BY <3>2
  <2>4. QED BY <2>2, <2>3
<1>4. ASSUME NEW l \in Limits!Listings, Limits!DeleteOrderBook(l)
      PROVE  BlockInv'
  <2>1. \A i \in Limits!Listings : listings'[i].status = "pending" => listings[i].status = "pending"
    BY <1>2, <1>4 DEF Limits!DeleteOrderBook, Limits!Failed, LimitTypes, Post
  <2>2. QED BY <1>2, <1>4, <2>1, TradeEnds DEF Limits!DeleteOrderBook
<1>5. ASSUME NEW d \in Limits!Deals, Limits!CancelTransaction(d)
      PROVE  BlockInv'
  <2>1. \A i \in Limits!Deals : deals'[i].status = "pending" => deals[i].status = "pending"
    BY <1>2, <1>5 DEF Limits!CancelTransaction, Limits!Undone, LimitTypes, Deal
  <2>2. QED BY <1>2, <1>5, <2>1, UndoneTypes, TradeEnds DEF Limits!CancelTransaction
<1>6. ASSUME NEW d \in Limits!Deals,
             Limits!ConfirmPayment(d) \/ Limits!SettleTransaction(d) \/ Limits!DayPasses(d)
      PROVE  BlockInv'
  <2>1. \A i \in Limits!Deals : deals'[i].status = "pending" => deals[i].status = "pending"
    BY <1>2, <1>6 DEF Limits!ConfirmPayment, Limits!SettleTransaction, Limits!DayPasses, LimitTypes, Deal
  <2>2. UNCHANGED <<blocked, listings, check, block>>
    BY <1>6 DEF Limits!ConfirmPayment, Limits!SettleTransaction, Limits!DayPasses
  <2>3. QED BY <1>2, <2>1, <2>2, TradeEnds
<1>7. CASE Limits!BlockBegin \/ Limits!BlockCancels \/ Limits!BlockDeletes \/ Limits!BlockGoesOn
  BY <1>2, <1>7, BlockGoes
<1>8. CASE Limits!BlockSets
  <2>1. block.at = 3 /\ blocked' = TRUE /\ block' = Limits!Idle /\ UNCHANGED <<listings, deals, check>>
    BY <1>2, <1>8 DEF Limits!BlockSets, LimitTypes, Blocks, Limits!InPhase, Limits!Phases
  <2>2. Limits!Idle.at = 0
    BY DEF Limits!Idle
  <2>3. QED BY <1>2, <2>1, <2>2 DEF BlockInv, NoDealPends, NoPostPends
<1>9. CASE Limits!Unblock
  BY <1>2, <1>9 DEF Limits!Unblock, BlockInv, NoDealPends, NoPostPends
<1>10. QED BY <1>3, <1>4, <1>5, <1>6, <1>7, <1>8, <1>9 DEF Limits!Next

LEMMA BlockIsOut == ASSUME BlockInv PROVE Limits!BlockedIsOut
  BY DEF BlockInv, LimitTypes, NoDealPends, NoPostPends, Limits!BlockedIsOut, Limits!Pending

-----------------------------------------------------------------------------
(* LevelUp: the rows in memory have earned their levels, too.  The window  *)
(* of a row is what keeps a trade from counting twice: only trades that    *)
(* began before it are spent.                                              *)

Done(trs, usd, w) == {t \in DOMAIN trs : trs[t].executed /\ trs[t].usd >= usd /\ trs[t].at < w}
Earned(trs, level, w) ==
  /\ level <= 1 + Cardinality(Done(trs, 100, w))
  /\ level <= 2 + Cardinality(Done(trs, 1000, w))
EarnedRow(trs, n, m) ==
  /\ m.window <= n
  /\ Earned(trs, m.level, m.window)
  /\ m.need => Earned(trs, m.level + 1, m.window)

\* Trades are added and executed.
Grown(old, new) ==
  /\ DOMAIN old \subseteq DOMAIN new
  /\ \A t \in DOMAIN old : /\ old[t].executed => new[t].executed
                           /\ new[t].usd = old[t].usd /\ new[t].at = old[t].at

LevelsInv ==
  /\ Levels!TypeOK
  /\ EarnedRow(trades, now, member)
  /\ stale # Levels!NoMember => EarnedRow(trades, now, stale)
  /\ \A a \in Reviewers : verdicts[a] # Levels!NoReview => Earned(trades, verdicts[a].level + 1, now)

LEMMA LevelsConstants == WindowLen \in Nat \ {0} /\ MaxTime \in Nat /\ MaxTrades \in Nat
  BY MembersAssumption DEF Levels!Parameters

LEMMA TradeFields ==
  ASSUME NEW trs \in Seq(Levels!Trade), NEW t \in DOMAIN trs
  PROVE  trs[t].at \in Nat /\ trs[t].at <= MaxTime /\ trs[t].usd \in {100, 1000}
<1>1. trs[t] \in Levels!Trade
  OBVIOUS
<1>2. QED BY <1>1, LevelsConstants DEF Levels!Trade

LEMMA LargerSet ==
  ASSUME NEW S, NEW T, IsFiniteSet(T), S \subseteq T
  PROVE  Cardinality(S) \in Nat /\ Cardinality(T) \in Nat /\ Cardinality(S) <= Cardinality(T)
  BY FS_Subset, FS_CardinalityType

LEMMA DoneFinite ==
  ASSUME NEW trs \in Seq(Levels!Trade), NEW usd, NEW w
  PROVE  IsFiniteSet(Done(trs, usd, w))
<1>1. Done(trs, usd, w) \subseteq 1..Len(trs) /\ Len(trs) \in Int
  BY DEF Done
<1>2. QED BY <1>1, FS_Interval, FS_Subset

\* What has been earned stays earned, as trades go on and time passes ...
LEMMA EarnedGrows ==
  ASSUME NEW old \in Seq(Levels!Trade), NEW new \in Seq(Levels!Trade), Grown(old, new),
         NEW w \in Int, NEW v \in Int, w <= v, NEW level \in Int, Earned(old, level, w)
  PROVE  Earned(new, level, v)
<1>1. ASSUME NEW usd
      PROVE  /\ Cardinality(Done(old, usd, w)) \in Nat /\ Cardinality(Done(new, usd, v)) \in Nat
             /\ Cardinality(Done(old, usd, w)) <= Cardinality(Done(new, usd, v))
  <2>1. \A t \in DOMAIN old : old[t].at \in Nat
    BY TradeFields
  <2>2. Done(old, usd, w) \subseteq Done(new, usd, v)
    BY <2>1 DEF Done, Grown
  <2>3. QED BY <2>2, DoneFinite, LargerSet
<1>2. QED BY <1>1 DEF Earned

LEMMA MuchLargerSet ==
  ASSUME NEW T, IsFiniteSet(T), NEW S \in SUBSET T, NEW t \in T, t \notin S
  PROVE  Cardinality(S) + 1 <= Cardinality(T)
<1>1. IsFiniteSet(S)
  BY FS_Subset
<1>2. IsFiniteSet(S \cup {t}) /\ Cardinality(S \cup {t}) = Cardinality(S) + 1
  BY <1>1, FS_AddElement
<1>3. Cardinality(S \cup {t}) <= Cardinality(T)
  BY LargerSet
<1>4. QED BY <1>2, <1>3

\* ... and a trade that is not spent yet earns one level more.
LEMMA EarnedMore ==
  ASSUME NEW trs \in Seq(Levels!Trade), NEW w \in Int, NEW v \in Int,
         NEW level \in 1..4, Earned(trs, level, w),
         NEW t \in DOMAIN trs, trs[t].executed, trs[t].usd >= Levels!Threshold(level),
         w <= trs[t].at, trs[t].at < v
  PROVE  Earned(trs, level + 1, v)
<1>1. trs[t].usd \in {100, 1000}
  BY TradeFields
<1>2. trs[t].usd >= 100 /\ (level = 1 \/ trs[t].usd >= 1000)
  BY <1>1 DEF Levels!Threshold
<1>3. ASSUME NEW usd \in {100, 1000}
      PROVE  level + 1 <= (IF usd = 100 THEN 1 ELSE 2) + Cardinality(Done(trs, usd, v))
  <2> DEFINE old == Done(trs, usd, w)
             new == Done(trs, usd, v)
  <2>1. level <= (IF usd = 100 THEN 1 ELSE 2) + Cardinality(old)
    BY DEF Earned
  <2>2. old \subseteq new /\ t \notin old /\ (trs[t].usd >= usd => t \in new)
    <3>1. \A i \in DOMAIN trs : trs[i].at \in Nat
      BY TradeFields
    <3>2. QED BY <3>1 DEF Done
  <2>3. IsFiniteSet(new)
    BY DoneFinite
  <2> HIDE DEF old, new
  <2>4. Cardinality(old) \in Nat /\ Cardinality(new) \in Nat /\ Cardinality(old) <= Cardinality(new)
    BY <2>2, <2>3, LargerSet
  <2>5. trs[t].usd >= usd => Cardinality(old) + 1 <= Cardinality(new)
    BY <2>2, <2>3, MuchLargerSet
  <2>6. level + 1 <= (IF usd = 100 THEN 1 ELSE 2) + Cardinality(new)
    BY ONLY <1>2, <2>1, <2>4, <2>5, level \in 1..4, usd \in {100, 1000}
  <2>7. QED BY <2>6 DEF new
<1>4. QED BY <1>3 DEF Earned

\* A row keeps what it has earned.
LEMMA EarnedRowGrows ==
  ASSUME NEW old \in Seq(Levels!Trade), NEW new \in Seq(Levels!Trade), Grown(old, new),
         NEW n \in Int, NEW later \in Int, n <= later,
         NEW m \in Levels!Member, EarnedRow(old, n, m)
  PROVE  EarnedRow(new, later, m)
<1>1. m.window \in Int /\ m.level \in Int /\ m.level + 1 \in Int
  BY LevelsConstants DEF Levels!Member, Levels!MaxLevel
<1>2. m.window <= m.window /\ Earned(new, m.level, m.window)
  BY <1>1, EarnedGrows DEF EarnedRow
<1>3. m.need => Earned(new, m.level + 1, m.window)
  BY <1>1, EarnedGrows DEF EarnedRow
<1>4. QED BY <1>1, <1>2, <1>3 DEF EarnedRow

LEMMA LevelsInit == ASSUME Levels!Init PROVE LevelsInv
<1>1. /\ member = [level |-> 1, need |-> FALSE, window |-> 0] /\ trades = <<>> /\ now = 0
      /\ verdicts = [a \in Reviewers |-> Levels!NoReview] /\ stale = Levels!NoMember
  BY DEF Levels!Init
<1>2. Levels!TypeOK
  BY <1>1, LevelsConstants DEF Levels!TypeOK, Levels!Member, Levels!MaxLevel, Levels!NoReview
<1>3. \A usd : Cardinality(Done(trades, usd, 0)) = 0
  <2>1. \A usd : Done(trades, usd, 0) = {}
    BY <1>1 DEF Done
  <2>2. QED BY <2>1, FS_EmptySet
<1>4. EarnedRow(trades, now, member)
  BY <1>1, <1>3 DEF EarnedRow, Earned
<1>5. QED BY <1>1, <1>2, <1>4 DEF LevelsInv

\* Time and trades take nothing from what was earned.
LEMMA TimeKeepsLevels ==
  ASSUME LevelsInv, Levels!Tick \/ Levels!CreateTrade \/ \E t \in DOMAIN trades : Levels!ExecuteTrade(t)
  PROVE  LevelsInv'
<1>1. /\ member \in Levels!Member /\ now \in 0..MaxTime /\ trades \in Seq(Levels!Trade)
      /\ stale \in Levels!Member \cup {Levels!NoMember}
      /\ verdicts \in [Reviewers -> [verdict : {"none", "approve", "reject"}, level : 1..4]]
  BY DEF LevelsInv, Levels!TypeOK, Levels!MaxLevel
<1>2. /\ UNCHANGED <<member, stale, verdicts>> /\ now' \in 0..MaxTime /\ now <= now'
      /\ trades' \in Seq(Levels!Trade) /\ Len(trades') <= MaxTrades /\ Grown(trades, trades')
  <2>1. CASE Levels!Tick
    BY <1>1, <2>1, LevelsConstants DEF Levels!Tick, LevelsInv, Levels!TypeOK, Grown
  <2>2. CASE Levels!CreateTrade
    <3> DEFINE Fresh(usd) == [at |-> now, usd |-> usd, executed |-> FALSE]
    <3>0. \A usd \in {100, 1000} : Fresh(usd) \in Levels!Trade
      BY <1>1 DEF Levels!Trade
    <3>1. \E usd \in {100, 1000} :
            /\ Len(trades) < MaxTrades
            /\ trades' = Append(trades, Fresh(usd))
            /\ UNCHANGED <<member, now, verdicts, stale>>
      BY <2>2 DEF Levels!CreateTrade
    <3> HIDE DEF Fresh
    <3>2. PICK x \in Levels!Trade : Len(trades) < MaxTrades /\ trades' = Append(trades, x)
      BY <3>0, <3>1
    <3>3. QED BY <1>1, <2>2, <3>1, <3>2, LevelsConstants DEF Levels!CreateTrade, Grown
  <2>3. ASSUME NEW t \in DOMAIN trades, Levels!ExecuteTrade(t)
        PROVE  /\ UNCHANGED <<member, stale, verdicts>> /\ now' = now
               /\ trades' \in Seq(Levels!Trade) /\ Len(trades') <= MaxTrades /\ Grown(trades, trades')
    <3>1. trades[t] \in Levels!Trade
      BY <1>1
    <3>2. [trades[t] EXCEPT !.executed = TRUE] \in Levels!Trade
      <4>1. ASSUME NEW x \in Levels!Trade, NEW b \in BOOLEAN
            PROVE  [x EXCEPT !.executed = b] \in Levels!Trade
        BY DEF Levels!Trade
      <4>2. QED BY <3>1, <4>1
    <3>3. trades' = [trades EXCEPT ![t] = [trades[t] EXCEPT !.executed = TRUE]]
      BY <2>3 DEF Levels!ExecuteTrade
    <3>4. QED BY <1>1, <2>3, <3>1, <3>2, <3>3 DEF Levels!ExecuteTrade, LevelsInv, Levels!TypeOK, Levels!Trade, Grown
  <2>4. QED BY <1>1, <2>1, <2>2, <2>3, LevelsConstants
<1>3. EarnedRow(trades', now', member)
  BY <1>1, <1>2, EarnedRowGrows DEF LevelsInv
<1>4. stale # Levels!NoMember => EarnedRow(trades', now', stale)
  BY <1>1, <1>2, EarnedRowGrows DEF LevelsInv
<1>5. ASSUME NEW a \in Reviewers, verdicts[a] # Levels!NoReview
      PROVE  Earned(trades', verdicts[a].level + 1, now')
  <2>1. verdicts[a].level + 1 \in Int /\ Earned(trades, verdicts[a].level + 1, now)
    BY <1>1, <1>5 DEF LevelsInv
  <2>2. QED BY <1>1, <1>2, <2>1, EarnedGrows
<1>6. QED BY <1>1, <1>2, <1>3, <1>4, <1>5 DEF LevelsInv, Levels!TypeOK, Levels!MaxLevel

\* The windows that have closed lie between the row's and now.
LEMMA ClosedWindow ==
  ASSUME Levels!TypeOK, NEW w \in Levels!Closed
  PROVE  w \in Nat /\ member.window <= w /\ w + WindowLen \in 0..MaxTime /\ w + WindowLen <= now /\ w < w + WindowLen
<1>1. member.window \in 0..MaxTime /\ now \in 0..MaxTime /\ WindowLen \in Nat \ {0} /\ MaxTime \in Nat
  BY LevelsConstants DEF Levels!TypeOK, Levels!Member
<1>2. PICK k \in 0..now : w = member.window + k * WindowLen /\ w + WindowLen <= now
  BY DEF Levels!Closed
<1>3. k * WindowLen \in Nat
  BY <1>1
<1>4. QED BY <1>1, <1>2, <1>3

\* The job: the trade it found is not spent yet.
LEMMA EvaluateKeepsLevels ==
  ASSUME LevelsInv, Levels!EvaluateLevelUp
  PROVE  LevelsInv'
<1>1. /\ Levels!TypeOK /\ member \in Levels!Member /\ now \in 0..MaxTime /\ trades \in Seq(Levels!Trade)
      /\ UNCHANGED <<trades, now, verdicts, stale>>
  BY DEF LevelsInv, Levels!TypeOK, Levels!EvaluateLevelUp
<1>2. /\ member.level \in 1..4 /\ member.need \in BOOLEAN /\ member.window \in 0..MaxTime
      /\ MaxTime \in Nat /\ EarnedRow(trades, now, member)
  BY <1>1, LevelsConstants DEF Levels!Member, Levels!MaxLevel, LevelsInv
<1>3. SUFFICES member' \in Levels!Member /\ EarnedRow(trades, now, member')
  BY <1>1 DEF LevelsInv, Levels!TypeOK
<1>4. CASE \E w \in Levels!Closed :
             /\ Levels!FirstQualified(w)
             /\ member' = IF Levels!AutoApprove(member.level) THEN Levels!Raised(member) ELSE Levels!Flagged(member, w)
  <2>1. PICK w \in Levels!Closed :
          /\ Levels!FirstQualified(w)
          /\ member' = IF Levels!AutoApprove(member.level) THEN Levels!Raised(member) ELSE Levels!Flagged(member, w)
    BY <1>4
  <2>2. /\ w \in Nat /\ member.window <= w /\ w + WindowLen \in 0..MaxTime
        /\ w + WindowLen <= now /\ w < w + WindowLen
    BY <1>1, ClosedWindow
  <2>3. PICK t \in DOMAIN trades : /\ trades[t].executed /\ trades[t].usd >= Levels!Threshold(member.level)
                                   /\ w <= trades[t].at /\ trades[t].at < w + WindowLen
    BY <2>1 DEF Levels!FirstQualified, Levels!Qualified
  <2>4. trades[t].at \in Nat /\ member.window <= trades[t].at /\ trades[t].at < now
    BY <1>1, <1>2, <2>2, <2>3, TradeFields
  <2>5. Earned(trades, member.level + 1, now) /\ Earned(trades, member.level + 1, w + WindowLen)
    <3>1. /\ member.window \in Int /\ now \in Int /\ w + WindowLen \in Int
          /\ Earned(trades, member.level, member.window)
      BY <1>1, <1>2, <2>2 DEF EarnedRow
    <3>2. Earned(trades, member.level + 1, now)
      BY <1>1, <1>2, <2>3, <2>4, <3>1, EarnedMore
    <3>3. Earned(trades, member.level + 1, w + WindowLen)
      BY <1>1, <1>2, <2>3, <2>4, <3>1, EarnedMore
    <3>4. QED BY <3>2, <3>3
  <2>6. CASE member.level <= 2
    <3>1. member' = [level |-> member.level + 1, need |-> FALSE, window |-> now]
      BY <2>1, <2>6 DEF Levels!AutoApprove, Levels!Raised
    <3>2. member' \in Levels!Member
      BY <1>1, <1>2, <2>6, <3>1 DEF Levels!Member, Levels!MaxLevel
    <3>3. QED BY <1>1, <2>5, <3>1, <3>2 DEF EarnedRow
  <2>7. CASE ~(member.level <= 2)
    <3>1. member' = [member EXCEPT !.need = TRUE, !.window = w + WindowLen]
      BY <2>1, <2>7 DEF Levels!AutoApprove, Levels!Flagged
    <3>2. member'.level = member.level /\ member'.window = w + WindowLen /\ member' \in Levels!Member
      <4>1. ASSUME NEW m \in Levels!Member, NEW b \in BOOLEAN, NEW v \in 0..MaxTime
            PROVE  LET n == [m EXCEPT !.need = b, !.window = v]
                   IN  n.level = m.level /\ n.window = v /\ n \in Levels!Member
        BY DEF Levels!Member
      <4>2. QED BY <1>1, <2>2, <3>1, <4>1
    <3>3. Earned(trades, member.level, w + WindowLen)
      <4>1. Grown(trades, trades)
        BY DEF Grown
      <4>2. QED BY <1>1, <1>2, <2>2, <4>1, EarnedGrows DEF EarnedRow
    <3>4. QED BY <2>2, <2>5, <3>2, <3>3 DEF EarnedRow
  <2>8. QED BY <2>6, <2>7
<1>5. CASE \E w \in Levels!Closed : member' = [member EXCEPT !.window = w + WindowLen]
  <2>1. PICK w \in Levels!Closed : member' = [member EXCEPT !.window = w + WindowLen]
    BY <1>5
  <2>2. w + WindowLen \in 0..MaxTime /\ w + WindowLen <= now /\ member.window <= w + WindowLen
    BY <1>1, <1>2, ClosedWindow
  <2>3. /\ member'.level = member.level /\ member'.need = member.need
        /\ member'.window = w + WindowLen /\ member' \in Levels!Member
    BY <1>1, <2>1, <2>2 DEF Levels!Member
  <2>4. Grown(trades, trades)
    BY DEF Grown
  <2>5. Earned(trades, member.level, w + WindowLen)
    BY <1>1, <1>2, <2>2, <2>4, EarnedGrows DEF EarnedRow
  <2>6. ~member.need
    BY DEF Levels!EvaluateLevelUp
  <2>7. QED BY <2>2, <2>3, <2>5, <2>6 DEF EarnedRow
<1>6. QED BY <1>4, <1>5 DEF Levels!EvaluateLevelUp

\* Verdicts, and rows that are saved late.
LEMMA ReviewKeepsLevels ==
  ASSUME LevelsInv, NEW a \in Reviewers,
         (\E v \in {"approve", "reject"} : Levels!ReviewRead(a, v)) \/ Levels!ReviewSave(a)
  PROVE  LevelsInv'
<1>1. /\ Levels!TypeOK /\ member \in Levels!Member /\ now \in 0..MaxTime /\ MaxTime \in Nat
      /\ trades \in Seq(Levels!Trade) /\ EarnedRow(trades, now, member)
      /\ verdicts \in [Reviewers -> [verdict : {"none", "approve", "reject"}, level : 1..4]]
  BY LevelsConstants DEF LevelsInv, Levels!TypeOK, Levels!MaxLevel
<1>2. Grown(trades, trades) /\ now \in Int /\ now <= now
  BY <1>1 DEF Grown
<1>3. ASSUME NEW v \in {"approve", "reject"}, Levels!ReviewRead(a, v)
      PROVE  LevelsInv'
  <2> DEFINE verdict == [verdict |-> v, level |-> member.level]
  <2>1. /\ member.need /\ verdicts' = [verdicts EXCEPT ![a] = verdict]
        /\ UNCHANGED <<member, trades, now, stale>>
    BY <1>3 DEF Levels!ReviewRead
  <2>2. member.level \in 1..4 /\ member.window \in 0..MaxTime /\ member.window <= now
    BY <1>1 DEF Levels!Member, Levels!MaxLevel, EarnedRow
  <2>3. Earned(trades, member.level + 1, now)
    BY <1>1, <1>2, <2>1, <2>2, EarnedGrows DEF EarnedRow
  <2>4. verdict \in [verdict : {"none", "approve", "reject"}, level : 1..4] /\ verdict.level = member.level
    BY <2>2
  <2> HIDE DEF verdict
  <2>5. verdicts' \in [Reviewers -> [verdict : {"none", "approve", "reject"}, level : 1..4]]
    BY <1>1, <2>1, <2>4
  <2>6. \A b \in Reviewers : verdicts'[b] # Levels!NoReview => Earned(trades, verdicts'[b].level + 1, now)
    BY <1>1, <2>1, <2>3, <2>4 DEF LevelsInv
  <2>7. QED BY <2>1, <2>5, <2>6 DEF LevelsInv, Levels!TypeOK, Levels!MaxLevel
<1>4. CASE Levels!ReviewSave(a)
  <2>1. /\ verdicts[a] # Levels!NoReview /\ member' = Levels!Reviewed(verdicts[a])
        /\ verdicts' = [verdicts EXCEPT ![a] = Levels!NoReview] /\ UNCHANGED <<trades, now, stale>>
    BY <1>4 DEF Levels!ReviewSave
  <2>2. verdicts[a].level \in 1..4 /\ Earned(trades, verdicts[a].level + 1, now)
    BY <1>1, <2>1 DEF LevelsInv
  <2>3. Earned(trades, verdicts[a].level, now)
    <3>1. ASSUME NEW level \in Int, Earned(trades, level + 1, now)
          PROVE  Earned(trades, level, now)
      <4>1. \A usd : Cardinality(Done(trades, usd, now)) \in Nat
        BY <1>1, DoneFinite, FS_CardinalityType
      <4>2. QED BY <3>1, <4>1 DEF Earned
    <3>2. QED BY <2>2, <3>1
  <2>4. /\ member'.level \in 1..4 /\ Earned(trades, member'.level, now)
        /\ member' = [level |-> member'.level, need |-> FALSE, window |-> now]
    <3> DEFINE level == IF verdicts[a].verdict = "approve" /\ verdicts[a].level < 4
                        THEN verdicts[a].level + 1 ELSE verdicts[a].level
    <3>1. member' = [level |-> level, need |-> FALSE, window |-> now]
      BY <2>1 DEF Levels!Reviewed, Levels!MaxLevel
    <3>2. level \in 1..4 /\ Earned(trades, level, now)
      BY <2>2, <2>3
    <3>3. QED BY <3>1, <3>2
  <2>5. member' \in Levels!Member /\ EarnedRow(trades, now, member')
    <3>1. PICK level \in 1..4 : /\ member' = [level |-> level, need |-> FALSE, window |-> now]
                                /\ Earned(trades, level, now)
      BY <2>4
    <3>2. QED BY <1>1, <1>2, <3>1 DEF EarnedRow, Levels!Member, Levels!MaxLevel
  <2>6. Levels!NoReview \in [verdict : {"none", "approve", "reject"}, level : 1..4]
    BY DEF Levels!NoReview
  <2>7. /\ verdicts' \in [Reviewers -> [verdict : {"none", "approve", "reject"}, level : 1..4]]
        /\ \A b \in Reviewers : verdicts'[b] # Levels!NoReview => verdicts'[b] = verdicts[b]
    BY <1>1, <2>1, <2>6
  <2>8. QED BY <1>1, <2>1, <2>5, <2>7 DEF LevelsInv, Levels!TypeOK, Levels!MaxLevel
<1>5. QED BY <1>3, <1>4

LEMMA LevelsStep == ASSUME LevelsInv, Levels!Next \/ UNCHANGED levels PROVE LevelsInv'
<1>1. CASE UNCHANGED levels
  BY <1>1 DEF levels, LevelsInv, Levels!TypeOK
<1>2. CASE Levels!HoldRow \/ Levels!SaveRow
  BY <1>2 DEF Levels!HoldRow, Levels!SaveRow, LevelsInv, Levels!TypeOK
<1>3. QED BY <1>1, <1>2, TimeKeepsLevels, EvaluateKeepsLevels, ReviewKeepsLevels DEF Levels!Next

LEMMA SameCardinality == \A S : Levels!Cardinality(S) = Cardinality(S)
  BY DEF Cardinality, Levels!Cardinality

LEMMA LevelsAreEarned == ASSUME LevelsInv PROVE Levels!LevelIsEarned
<1>1. /\ member.level \in Int /\ trades \in Seq(Levels!Trade) /\ Earned(trades, member.level, member.window)
  BY DEF LevelsInv, Levels!TypeOK, Levels!Member, Levels!MaxLevel, EarnedRow
<1>2. ASSUME NEW usd
      PROVE  /\ Cardinality(Done(trades, usd, member.window)) \in Nat
             /\ Cardinality(Levels!Executed(usd)) \in Nat
             /\ Cardinality(Done(trades, usd, member.window)) <= Cardinality(Levels!Executed(usd))
  <2>1. Done(trades, usd, member.window) \subseteq Levels!Executed(usd)
    BY DEF Done, Levels!Executed
  <2>2. Levels!Executed(usd) \subseteq 1..Len(trades) /\ Len(trades) \in Int
    BY <1>1 DEF Levels!Executed
  <2>3. IsFiniteSet(Levels!Executed(usd))
    <3>1. IsFiniteSet(1..Len(trades))
      BY <2>2, FS_Interval
    <3>2. QED BY <2>2, <3>1, FS_Subset
  <2>4. QED BY <2>1, <2>3, LargerSet
<1> DEFINE Old(usd) == Cardinality(Done(trades, usd, member.window))
           New(usd) == Cardinality(Levels!Executed(usd))
<1>3. member.level <= 1 + Old(100) /\ member.level <= 2 + Old(1000)
  BY <1>1 DEF Earned
<1>4. \A usd : Old(usd) \in Nat /\ New(usd) \in Nat /\ Old(usd) <= New(usd)
  BY <1>2
<1> HIDE DEF Old, New
<1>5. member.level <= 1 + New(100) /\ member.level <= 2 + New(1000)
  BY <1>1, <1>3, <1>4
<1>6. QED BY <1>5, SameCardinality DEF New, Levels!LevelIsEarned

-----------------------------------------------------------------------------
(* LevelUp, for one administrator and no late saves: a verdict is on the   *)
(* flag that is up.                                                        *)

TurnRow   == [level : Nat, need : BOOLEAN, window : Nat]
TurnTrade == [at : Nat, usd : {100, 1000}, executed : BOOLEAN]

TurnInv ==
  /\ member \in TurnRow /\ now \in Nat /\ trades \in Seq(TurnTrade)
  /\ verdicts \in [{"a1"} -> [verdict : {"none", "approve", "reject"}, level : Nat]]
  /\ stale = LevelsInTurn!NoMember
  /\ verdicts["a1"] # LevelsInTurn!NoReview => member.need

\* The instant a lies in the k-th window from s on, no later than the j-th.
LEMMA WindowOf ==
  ASSUME NEW len \in Nat \ {0}, NEW s \in Nat, NEW a \in Nat, s <= a,
         NEW j \in Nat, a < s + j * len + len
  PROVE  \E k \in 0..j : /\ s + k * len <= a /\ a < s + k * len + len
                         /\ k * len \in Nat /\ k * len <= j * len
<1> DEFINE T == {k \in Nat : a < s + k * len + len}
<1>1. j \in T /\ T \subseteq Nat
  OBVIOUS
<1>2. PICK k \in T : \A m \in T : k <= m
  BY <1>1, LeastNat
<1>3. k \in 0..j /\ a < s + k * len + len
  BY <1>1, <1>2
<1>4. s + k * len <= a
  <2>1. CASE k = 0
    BY <2>1
  <2>2. CASE k # 0
    <3>1. k - 1 \in Nat /\ k - 1 \notin T
      BY <1>2, <1>3, <2>2
    <3>2. (k - 1) * len + len = k * len
      BY <1>3
    <3>3. s + (k - 1) * len + len <= a
      BY <3>1
    <3>4. QED BY <3>1, <3>2, <3>3, <1>3
  <2>3. QED BY <2>1, <2>2
<1>5. k * len \in Nat /\ k * len <= j * len
  <2>1. PICK d \in Nat : j = k + d
    <3>1. j - k \in Nat /\ j = k + (j - k)
      BY <1>3
    <3>2. QED BY <3>1
  <2>2. j * len = k * len + d * len /\ d * len \in Nat /\ k * len \in Nat
    BY <1>3, <2>1
  <2>3. QED BY <2>2
<1>6. QED BY <1>3, <1>4, <1>5

LEMMA TurnConstants == WindowLen \in Nat \ {0} /\ MaxTime \in Nat
  BY MembersAssumption DEF LevelsInTurn!Parameters

LEMMA TurnInit == ASSUME LevelsInTurn!Init PROVE TurnInv
<1>1. /\ member = [level |-> 1, need |-> FALSE, window |-> 0] /\ trades = <<>> /\ now = 0
      /\ verdicts = [a \in {"a1"} |-> LevelsInTurn!NoReview] /\ stale = LevelsInTurn!NoMember
  BY DEF LevelsInTurn!Init
<1>2. LevelsInTurn!NoReview \in [verdict : {"none", "approve", "reject"}, level : Nat]
  BY DEF LevelsInTurn!NoReview
<1>3. QED BY <1>1, <1>2 DEF TurnInv, TurnRow

LEMMA TurnTradeAt == ASSUME TurnInv, NEW t \in DOMAIN trades PROVE trades[t].at \in Nat
<1>1. trades[t] \in TurnTrade
  BY DEF TurnInv
<1>2. QED BY <1>1 DEF TurnTrade

LEMMA TurnClosed ==
  ASSUME TurnInv, NEW w \in LevelsInTurn!Closed
  PROVE  /\ w \in Nat /\ member.window \in Nat /\ w + WindowLen \in Nat /\ w + WindowLen <= now
         /\ \E j \in 0..now : w = member.window + j * WindowLen
<1>1. member.window \in Nat /\ now \in Nat /\ WindowLen \in Nat \ {0}
  BY TurnConstants DEF TurnInv, TurnRow
<1>2. PICK k \in 0..now : w = member.window + k * WindowLen /\ w + WindowLen <= now
  BY DEF LevelsInTurn!Closed
<1>3. k * WindowLen \in Nat
  BY <1>1
<1>4. QED BY <1>1, <1>2, <1>3

\* The job and time, while no verdict waits to be saved or one does.
LEMMA TurnGoes ==
  ASSUME TurnInv,
         \/ LevelsInTurn!Tick \/ LevelsInTurn!CreateTrade
         \/ \E t \in DOMAIN trades : LevelsInTurn!ExecuteTrade(t)
         \/ LevelsInTurn!EvaluateLevelUp
  PROVE  TurnInv'
<1>1. member \in TurnRow /\ now \in Nat /\ trades \in Seq(TurnTrade)
  BY DEF TurnInv
<1>2. CASE LevelsInTurn!Tick
  BY <1>2, TurnConstants DEF LevelsInTurn!Tick, TurnInv
<1>3. CASE LevelsInTurn!CreateTrade
  <2> DEFINE Fresh(usd) == [at |-> now, usd |-> usd, executed |-> FALSE]
  <2>1. \A usd \in {100, 1000} : Fresh(usd) \in TurnTrade
    BY <1>1 DEF TurnTrade
  <2>2. \E usd \in {100, 1000} :
          /\ Len(trades) < MaxTrades
          /\ trades' = Append(trades, Fresh(usd))
          /\ UNCHANGED <<member, now, verdicts, stale>>
    BY <1>3 DEF LevelsInTurn!CreateTrade
  <2> HIDE DEF Fresh
  <2>3. PICK x \in TurnTrade : trades' = Append(trades, x) /\ UNCHANGED <<member, now, verdicts, stale>>
    BY <2>1, <2>2
  <2>4. trades' \in Seq(TurnTrade)
    BY <1>1, <2>3
  <2>5. QED BY <2>3, <2>4 DEF TurnInv
<1>4. ASSUME NEW t \in DOMAIN trades, LevelsInTurn!ExecuteTrade(t)
      PROVE  TurnInv'
  <2>1. ASSUME NEW x \in TurnTrade, NEW b \in BOOLEAN
        PROVE  [x EXCEPT !.executed = b] \in TurnTrade
    BY DEF TurnTrade
  <2>2. [trades[t] EXCEPT !.executed = TRUE] \in TurnTrade
    <3>1. trades[t] \in TurnTrade
      BY <1>1
    <3>2. QED BY <2>1, <3>1
  <2>3. /\ trades' = [trades EXCEPT ![t] = [trades[t] EXCEPT !.executed = TRUE]]
        /\ UNCHANGED <<member, now, verdicts, stale>>
    BY <1>4 DEF LevelsInTurn!ExecuteTrade
  <2>4. trades' \in Seq(TurnTrade)
    BY <1>1, <2>2, <2>3
  <2>5. QED BY <2>3, <2>4 DEF TurnInv
<1>5. CASE LevelsInTurn!EvaluateLevelUp
  <2>1. UNCHANGED <<trades, now, verdicts, stale>> /\ verdicts["a1"] = LevelsInTurn!NoReview
    BY <1>5 DEF LevelsInTurn!EvaluateLevelUp, TurnInv
  <2>2. PICK w \in LevelsInTurn!Closed :
          \/ member' = LevelsInTurn!Raised(member)
          \/ member' = LevelsInTurn!Flagged(member, w)
          \/ member' = [member EXCEPT !.window = w + WindowLen]
    BY <1>5 DEF LevelsInTurn!EvaluateLevelUp
  <2>3. w + WindowLen \in Nat
    BY TurnClosed
  <2>4. ASSUME NEW m \in TurnRow, NEW v \in Nat, NEW b \in BOOLEAN
        PROVE  /\ [m EXCEPT !.need = b, !.window = v] \in TurnRow
               /\ [m EXCEPT !.window = v] \in TurnRow
               /\ [level |-> m.level + 1, need |-> b, window |-> v] \in TurnRow
    <3>1. [m EXCEPT !.window = v] \in TurnRow
      BY <2>4 DEF TurnRow
    <3>2. [m EXCEPT !.need = b, !.window = v] \in TurnRow
      BY <2>4 DEF TurnRow
    <3>3. m.level + 1 \in Nat
      BY <2>4 DEF TurnRow
    <3>4. [level |-> m.level + 1, need |-> b, window |-> v] \in TurnRow
      BY <2>4, <3>3 DEF TurnRow
    <3>5. QED BY <3>1, <3>2, <3>4
  <2>5. member' \in TurnRow
    <3>1. LevelsInTurn!Raised(member) \in TurnRow
      BY <1>1, <2>4 DEF LevelsInTurn!Raised
    <3>2. LevelsInTurn!Flagged(member, w) \in TurnRow
      BY <1>1, <2>3, <2>4 DEF LevelsInTurn!Flagged
    <3>3. [member EXCEPT !.window = w + WindowLen] \in TurnRow
      BY <1>1, <2>3, <2>4
    <3>4. QED BY <2>2, <3>1, <3>2, <3>3
  <2>6. QED BY <1>1, <2>1, <2>5 DEF TurnInv
<1>6. QED BY <1>2, <1>3, <1>4, <1>5

LEMMA TurnStep == ASSUME TurnInv, LevelsInTurn!Next \/ UNCHANGED levels PROVE TurnInv'
<1>1. CASE UNCHANGED levels
  BY <1>1 DEF levels, TurnInv
<1>2. CASE LevelsInTurn!HoldRow \/ LevelsInTurn!SaveRow
  BY <1>2 DEF LevelsInTurn!HoldRow, LevelsInTurn!SaveRow, TurnInv
<1>3. ASSUME NEW v \in {"approve", "reject"}, LevelsInTurn!ReviewRead("a1", v)
      PROVE  TurnInv'
  <2>1. /\ member.need /\ verdicts' = [verdicts EXCEPT !["a1"] = [verdict |-> v, level |-> member.level]]
        /\ UNCHANGED <<member, trades, now, stale>>
    BY <1>3 DEF LevelsInTurn!ReviewRead
  <2>2. QED BY <2>1 DEF TurnInv, TurnRow
<1>4. CASE LevelsInTurn!ReviewSave("a1")
  <2>1. /\ member' = LevelsInTurn!Reviewed(verdicts["a1"])
        /\ verdicts' = [verdicts EXCEPT !["a1"] = LevelsInTurn!NoReview] /\ UNCHANGED <<trades, now, stale>>
    BY <1>4 DEF LevelsInTurn!ReviewSave
  <2>2. LevelsInTurn!NoReview \in [verdict : {"none", "approve", "reject"}, level : Nat]
    BY DEF LevelsInTurn!NoReview
  <2>3. member' \in TurnRow
    BY <2>1 DEF LevelsInTurn!Reviewed, TurnInv, TurnRow
  <2>4. QED BY <2>1, <2>2, <2>3 DEF TurnInv
<1>5. QED BY <1>1, <1>2, <1>3, <1>4, TurnGoes DEF LevelsInTurn!Next

\* Windows without a trade that counts are all that is passed over: each trade
\* up to the last closed window lies in a closed one.
LEMMA EvaluatePassesNone ==
  ASSUME TurnInv, LevelsInTurn!EvaluateLevelUp
  PROVE  LevelsInTurn!PassesNoneOver
<1>1. CASE \E w \in LevelsInTurn!Closed :
             member' = IF LevelsInTurn!AutoApprove(member.level)
                       THEN LevelsInTurn!Raised(member) ELSE LevelsInTurn!Flagged(member, w)
  <2>1. PICK w \in LevelsInTurn!Closed :
          member' = IF LevelsInTurn!AutoApprove(member.level)
                    THEN LevelsInTurn!Raised(member) ELSE LevelsInTurn!Flagged(member, w)
    BY <1>1
  <2>2. member'.level > member.level \/ member'.need
    BY <2>1 DEF LevelsInTurn!Raised, LevelsInTurn!Flagged, TurnInv, TurnRow
  <2>3. QED BY <2>2 DEF LevelsInTurn!PassesNoneOver
<1>2. CASE /\ \A w \in LevelsInTurn!Closed : LevelsInTurn!Qualified(member.level, w) = {}
           /\ \E w \in LevelsInTurn!Closed : member' = [member EXCEPT !.window = w + WindowLen]
  <2>1. PICK w \in LevelsInTurn!Closed : member' = [member EXCEPT !.window = w + WindowLen]
    BY <1>2
  <2>2. /\ member'.window = w + WindowLen /\ w \in Nat /\ member.window \in Nat /\ w + WindowLen <= now
        /\ now \in Nat
    BY <2>1, TurnClosed DEF TurnInv, TurnRow
  <2>3. PICK j \in 0..now : w = member.window + j * WindowLen
    BY TurnClosed
  <2>4. ASSUME NEW t \in DOMAIN trades, LevelsInTurn!Countable(t), member'.window > trades[t].at
        PROVE  FALSE
    <3>1. trades[t].at \in Nat
      BY <2>4, TurnTradeAt
    <3>2. member.window <= trades[t].at /\ trades[t].at < member.window + j * WindowLen + WindowLen
      BY <2>2, <2>3, <2>4, <3>1 DEF LevelsInTurn!Countable
    <3>3. PICK k \in 0..j : /\ member.window + k * WindowLen <= trades[t].at
                            /\ trades[t].at < member.window + k * WindowLen + WindowLen
                            /\ k * WindowLen \in Nat /\ k * WindowLen <= j * WindowLen
      <4>1. /\ j \in Nat /\ member.window <= trades[t].at
            /\ trades[t].at < member.window + j * WindowLen + WindowLen
        BY <2>2, <2>3, <3>2
      <4>2. QED BY <2>2, <3>1, <4>1, TurnConstants, WindowOf
    <3> DEFINE v == member.window + k * WindowLen
    <3>4. v + WindowLen <= now
      BY <2>2, <2>3, <3>3, TurnConstants
    <3>5. v \in LevelsInTurn!Closed
      BY <2>2, <2>3, <3>3, <3>4 DEF LevelsInTurn!Closed
    <3>6. t \in LevelsInTurn!Qualified(member.level, v)
      BY <2>4, <3>3 DEF LevelsInTurn!Qualified, LevelsInTurn!Countable
    <3>7. QED BY <1>2, <3>5, <3>6
  <2>5. QED BY <2>4 DEF LevelsInTurn!PassesNoneOver
<1>3. QED BY <1>1, <1>2 DEF LevelsInTurn!EvaluateLevelUp

\* A verdict is on a flag that is up, and nothing else moves the window.
LEMMA TurnPassesNone ==
  ASSUME TurnInv, LevelsInTurn!Next \/ UNCHANGED levels
  PROVE  LevelsInTurn!PassesNoneOver
<1>1. CASE UNCHANGED member
  <2>1. (\A t \in DOMAIN trades : trades[t].at \in Nat) /\ member.window \in Nat
    BY TurnTradeAt DEF TurnInv, TurnRow
  <2>2. QED BY <1>1, <2>1 DEF LevelsInTurn!PassesNoneOver, LevelsInTurn!Countable
<1>2. CASE LevelsInTurn!EvaluateLevelUp
  BY <1>2, EvaluatePassesNone
<1>3. CASE LevelsInTurn!ReviewSave("a1")
  BY <1>3 DEF LevelsInTurn!ReviewSave, TurnInv, LevelsInTurn!PassesNoneOver, LevelsInTurn!Countable
<1>4. CASE LevelsInTurn!SaveRow
  BY <1>4 DEF LevelsInTurn!SaveRow, TurnInv
<1>5. QED
  BY <1>1, <1>2, <1>3, <1>4
     DEF LevelsInTurn!Next, LevelsInTurn!Tick, LevelsInTurn!CreateTrade, LevelsInTurn!ExecuteTrade,
         LevelsInTurn!ReviewRead, LevelsInTurn!HoldRow, levels

-----------------------------------------------------------------------------
(* Kol: when handlers take turns, a revocation is final however it is cut  *)
(* short: no approved request survives it for registerKol to act on.       *)

\* What is left of an administrator's update, however far it came.
GrantLeft   == << <<"flag", "TRUE">> >>
RevokeLeft  == << <<"pending", "fail">>, <<"flag", "FALSE">> >>
RevokeLast  == << <<"flag", "FALSE">> >>
Left == {<<>>, Kols!Grant, GrantLeft, Kols!Revoke, RevokeLeft, RevokeLast}

\* An approved request, or a flag about to be saved, is one of a user whom the
\* last decision made a KOL; none is left once a revocation has begun.
KolInv ==
  /\ toggle \in Left
  /\ registers \in Seq({"pending", "success", "fail"})
  /\ Kols!Is("success") => granted
  /\ healing => granted /\ toggle = <<>>
  /\ toggle = GrantLeft => granted
  /\ toggle \in {RevokeLeft, RevokeLast} => ~Kols!Is("success")

LEMMA RegisterKolKeeps == ASSUME KolInv, Kols!RegisterKol PROVE KolInv'
<1>1. ~healing /\ toggle = <<>> /\ UNCHANGED <<toggle, granted>>
  BY DEF Kols!RegisterKol
<1>2. CASE Kols!Is("success")
  BY <1>1, <1>2 DEF Kols!RegisterKol, KolInv, Kols!Is
<1>3. CASE ~Kols!Is("success")
  <2>1. registers' = Append(registers, "pending") /\ UNCHANGED healing
    BY <1>3 DEF Kols!RegisterKol
  <2>2. registers' \in Seq({"pending", "success", "fail"})
    BY <2>1 DEF KolInv
  <2>3. ~Kols!Is("success")'
    BY <1>3, <2>1 DEF Kols!Is, KolInv
  <2>4. QED BY <1>1, <2>1, <2>2, <2>3 DEF KolInv
<1>4. QED BY <1>2, <1>3

\* What an update does to the requests: those of one status get another.
LEMMA RequestsUpdated ==
  ASSUME KolInv, NEW from \in {"pending", "success"}, NEW to \in {"success", "fail"},
         registers' = [i \in DOMAIN registers |-> IF registers[i] = from THEN to ELSE registers[i]]
  PROVE  /\ registers' \in Seq({"pending", "success", "fail"})
         /\ to = "fail" => (Kols!Is("success")' => Kols!Is("success") /\ from # "success")
  BY DEF KolInv, Kols!Is

\* Each update of the administrator, at its place in the plan.
LEMMA ToggleUpdateKeeps ==
  ASSUME KolInv, Kols!ToggleUpdate
  PROVE  KolInv' /\ (kol' => kol \/ granted)
<1>1. toggle # <<>> /\ ~healing /\ toggle' = Tail(toggle) /\ UNCHANGED healing
  BY DEF Kols!ToggleUpdate, KolInv
<1>2. CASE toggle = Kols!Grant
  <2>1. Head(toggle) = <<"pending", "success">> /\ Tail(toggle) = GrantLeft /\ toggle[Len(toggle)] = <<"flag", "TRUE">>
    BY <1>2 DEF Kols!Grant, GrantLeft
  <2>2. UNCHANGED kol /\ granted' /\ toggle' = GrantLeft
    <3>1. toggle[Len(toggle)][2] = "TRUE" BY <2>1
    <3>2. granted' BY <3>1 DEF Kols!ToggleUpdate
    <3>3. UNCHANGED kol BY <2>1 DEF Kols!ToggleUpdate
    <3>4. QED BY <1>1, <2>1, <3>2, <3>3
  <2>3. registers' = [i \in DOMAIN registers |-> IF registers[i] = "pending" THEN "success" ELSE registers[i]]
    BY <2>1 DEF Kols!ToggleUpdate
  <2>4. GrantLeft \notin {RevokeLeft, RevokeLast}
    BY DEF GrantLeft, RevokeLeft, RevokeLast
  <2>5. QED BY <1>1, <2>2, <2>3, <2>4, RequestsUpdated DEF KolInv, Left
<1>3. CASE toggle = Kols!Revoke
  <2>1. Head(toggle) = <<"success", "fail">> /\ Tail(toggle) = RevokeLeft /\ toggle[Len(toggle)] = <<"flag", "FALSE">>
    BY <1>3 DEF Kols!Revoke, RevokeLeft
  <2>2. UNCHANGED kol /\ toggle' = RevokeLeft /\ RevokeLeft # GrantLeft
    BY <1>1, <2>1 DEF Kols!ToggleUpdate, GrantLeft, RevokeLeft
  <2>3. registers' = [i \in DOMAIN registers |-> IF registers[i] = "success" THEN "fail" ELSE registers[i]]
    BY <2>1 DEF Kols!ToggleUpdate
  <2>4. ~Kols!Is("success")'
    BY <2>3, RequestsUpdated
  <2>5. QED BY <1>1, <2>2, <2>3, <2>4, RequestsUpdated DEF KolInv, Left
<1>4. CASE toggle = RevokeLeft
  <2>1. Head(toggle) = <<"pending", "fail">> /\ Tail(toggle) = RevokeLast
    BY <1>4 DEF RevokeLeft, RevokeLast
  <2>2. UNCHANGED kol /\ toggle' = RevokeLast /\ RevokeLast # GrantLeft
    BY <1>1, <2>1 DEF Kols!ToggleUpdate, GrantLeft, RevokeLast
  <2>3. registers' = [i \in DOMAIN registers |-> IF registers[i] = "pending" THEN "fail" ELSE registers[i]]
    BY <2>1 DEF Kols!ToggleUpdate
  <2>4. ~Kols!Is("success")'
    BY <1>4, <2>3, RequestsUpdated DEF KolInv
  <2>5. QED BY <1>1, <2>2, <2>3, <2>4, RequestsUpdated DEF KolInv, Left
<1>5. CASE toggle = GrantLeft \/ toggle = RevokeLast
  <2>1. Head(toggle) = toggle[Len(toggle)] /\ Head(toggle)[1] = "flag" /\ Tail(toggle) = <<>>
    <3>1. CASE toggle = GrantLeft
      BY <3>1 DEF GrantLeft
    <3>2. CASE toggle = RevokeLast
      BY <3>2 DEF RevokeLast
    <3>3. QED BY <1>5, <3>1, <3>2
  <2>2. UNCHANGED registers /\ kol' = granted' /\ toggle' = <<>>
    BY <1>1, <2>1 DEF Kols!ToggleUpdate
  <2>3. <<>> \notin {GrantLeft, RevokeLeft, RevokeLast}
    BY DEF GrantLeft, RevokeLeft, RevokeLast
  <2>4. granted' <=> toggle = GrantLeft
    <3>1. CASE toggle = GrantLeft
      <4>1. toggle[Len(toggle)][2] = "TRUE" BY <3>1 DEF GrantLeft
      <4>2. QED BY <3>1, <4>1 DEF Kols!ToggleUpdate
    <3>2. CASE toggle = RevokeLast
      <4>1. toggle[Len(toggle)][2] # "TRUE" /\ toggle # GrantLeft BY <3>2 DEF GrantLeft, RevokeLast
      <4>2. QED BY <4>1 DEF Kols!ToggleUpdate
    <3>3. QED BY <1>5, <3>1, <3>2
  <2>5. Kols!Is("success") => granted'
    BY <1>5, <2>4 DEF KolInv
  <2>6. QED BY <1>1, <2>2, <2>3, <2>4, <2>5 DEF KolInv, Left, Kols!Is
<1>6. QED BY <1>1, <1>2, <1>3, <1>4, <1>5 DEF KolInv, Left

\* A crash leaves the rows as they are.
LEMMA CrashKeepsKol == ASSUME KolInv, Kols!Crash PROVE KolInv'
<1>1. <<>> \notin {GrantLeft, RevokeLeft, RevokeLast}
  BY DEF GrantLeft, RevokeLeft, RevokeLast
<1>2. QED BY <1>1 DEF Kols!Crash, KolInv, Left, Kols!Is

\* No step but a grant, or a save that a grant allows, makes the user a KOL.
LEMMA KolStep ==
  ASSUME KolInv, Kols!Next \/ UNCHANGED kols
  PROVE  KolInv' /\ (~kol /\ kol' => granted)
<1>1. CASE Kols!RegisterKol
  BY <1>1, RegisterKolKeeps DEF Kols!RegisterKol
<1>2. CASE Kols!SaveKol
  BY <1>2 DEF Kols!SaveKol, KolInv, Kols!Is
<1>3. ASSUME NEW grant \in BOOLEAN, Kols!ToggleUserKol(grant) PROVE KolInv' /\ kol' = kol
  <2>1. toggle' \in {Kols!Grant, Kols!Revoke} /\ ~healing /\ UNCHANGED <<kol, registers, healing, granted>>
    BY <1>3 DEF Kols!ToggleUserKol
  <2>2. {Kols!Grant, Kols!Revoke} \cap {GrantLeft, RevokeLeft, RevokeLast} = {}
    BY DEF Kols!Grant, Kols!Revoke, GrantLeft, RevokeLeft, RevokeLast
  <2>3. QED BY <2>1, <2>2 DEF KolInv, Left, Kols!Is
<1>4. CASE Kols!ToggleUpdate
  BY <1>4, ToggleUpdateKeeps
<1>5. CASE Kols!Crash
  BY <1>5, CrashKeepsKol DEF Kols!Crash
<1>6. CASE UNCHANGED kols
  BY <1>6 DEF kols, KolInv, Kols!Is
<1>7. QED BY <1>1, <1>2, <1>3, <1>4, <1>5, <1>6 DEF Kols!Next

LEMMA KolInit == ASSUME Kols!Init PROVE KolInv
<1>1. <<>> \notin {GrantLeft, RevokeLeft, RevokeLast}
  BY DEF GrantLeft, RevokeLeft, RevokeLast
<1>2. QED BY <1>1 DEF Kols!Init, KolInv, Left, Kols!Is

-----------------------------------------------------------------------------
(* LevelUp and Kol for handlers that take turns: their types.              *)

LEMMA LevelsInTurnInit == ASSUME LevelsInTurn!Init PROVE LevelsInTurn!TypeOK
<1>1. MaxTime \in Nat /\ MaxTrades \in Nat
  BY MembersAssumption DEF LevelsInTurn!Parameters
<1>2. QED BY <1>1 DEF LevelsInTurn!Init, LevelsInTurn!TypeOK, LevelsInTurn!Member, LevelsInTurn!MaxLevel,
               LevelsInTurn!NoReview

LEMMA LevelsInTurnTypes ==
  ASSUME TurnInv, LevelsInTurn!TypeOK, LevelsInTurn!Next \/ UNCHANGED levels
  PROVE  LevelsInTurn!TypeOK'
<1>1. /\ member \in LevelsInTurn!Member /\ now \in 0..MaxTime /\ MaxTime \in Nat /\ WindowLen \in Nat \ {0}
      /\ MaxTrades \in Nat /\ trades \in Seq(LevelsInTurn!Trade) /\ Len(trades) <= MaxTrades
  BY TurnConstants, MembersAssumption DEF LevelsInTurn!TypeOK, LevelsInTurn!Parameters
<1>2. CASE UNCHANGED levels
  BY <1>2 DEF levels, LevelsInTurn!TypeOK
<1>3. CASE LevelsInTurn!HoldRow \/ LevelsInTurn!SaveRow
  BY <1>3 DEF LevelsInTurn!HoldRow, LevelsInTurn!SaveRow, TurnInv
<1>4. CASE LevelsInTurn!Tick
  BY <1>1, <1>4 DEF LevelsInTurn!Tick, LevelsInTurn!TypeOK
<1>5. CASE LevelsInTurn!CreateTrade
  <2> DEFINE Fresh(usd) == [at |-> now, usd |-> usd, executed |-> FALSE]
  <2>1. \A usd \in {100, 1000} : Fresh(usd) \in LevelsInTurn!Trade
    BY <1>1 DEF LevelsInTurn!Trade
  <2>2. \E usd \in {100, 1000} :
          /\ Len(trades) < MaxTrades
          /\ trades' = Append(trades, Fresh(usd))
          /\ UNCHANGED <<member, now, verdicts, stale>>
    BY <1>5 DEF LevelsInTurn!CreateTrade
  <2> HIDE DEF Fresh
  <2>3. PICK x \in LevelsInTurn!Trade :
          Len(trades) < MaxTrades /\ trades' = Append(trades, x) /\ UNCHANGED <<member, now, verdicts, stale>>
    BY <2>1, <2>2
  <2>4. trades' \in Seq(LevelsInTurn!Trade) /\ Len(trades') <= MaxTrades
    BY <1>1, <2>3
  <2>5. QED BY <2>3, <2>4 DEF LevelsInTurn!TypeOK
<1>6. ASSUME NEW t \in DOMAIN trades, LevelsInTurn!ExecuteTrade(t)
      PROVE  LevelsInTurn!TypeOK'
  <2>1. ASSUME NEW x \in LevelsInTurn!Trade, NEW b \in BOOLEAN
        PROVE  [x EXCEPT !.executed = b] \in LevelsInTurn!Trade
    BY DEF LevelsInTurn!Trade
  <2>2. [trades[t] EXCEPT !.executed = TRUE] \in LevelsInTurn!Trade
    <3>1. trades[t] \in LevelsInTurn!Trade
      BY <1>1
    <3>2. QED BY <2>1, <3>1
  <2>3. /\ trades' = [trades EXCEPT ![t] = [trades[t] EXCEPT !.executed = TRUE]]
        /\ UNCHANGED <<member, now, verdicts, stale>>
    BY <1>6 DEF LevelsInTurn!ExecuteTrade
  <2>4. trades' \in Seq(LevelsInTurn!Trade) /\ Len(trades') = Len(trades)
    BY <1>1, <2>2, <2>3
  <2>5. QED BY <1>1, <2>3, <2>4 DEF LevelsInTurn!TypeOK
<1>7. CASE LevelsInTurn!EvaluateLevelUp
  <2>1. UNCHANGED <<trades, now, verdicts, stale>>
    BY <1>7 DEF LevelsInTurn!EvaluateLevelUp
  <2>2. PICK w \in LevelsInTurn!Closed :
          \/ LevelsInTurn!AutoApprove(member.level) /\ member' = LevelsInTurn!Raised(member)
          \/ member' = LevelsInTurn!Flagged(member, w)
          \/ member' = [member EXCEPT !.window = w + WindowLen]
    BY <1>7 DEF LevelsInTurn!EvaluateLevelUp
  <2>3. w + WindowLen \in 0..MaxTime
    BY <1>1, TurnClosed
  <2>4. /\ LevelsInTurn!AutoApprove(member.level) => LevelsInTurn!Raised(member) \in LevelsInTurn!Member
        /\ [member EXCEPT !.window = w + WindowLen] \in LevelsInTurn!Member
    BY <1>1, <2>3 DEF LevelsInTurn!AutoApprove, LevelsInTurn!Raised, LevelsInTurn!Member, LevelsInTurn!MaxLevel
  <2>5. LevelsInTurn!Flagged(member, w) \in LevelsInTurn!Member
    BY <1>1, <2>3 DEF LevelsInTurn!Flagged, LevelsInTurn!Member, LevelsInTurn!MaxLevel
  <2>6. QED BY <2>1, <2>2, <2>4, <2>5 DEF LevelsInTurn!TypeOK
<1>8. ASSUME NEW v \in {"approve", "reject"}, LevelsInTurn!ReviewRead("a1", v)
      PROVE  LevelsInTurn!TypeOK'
  <2>1. /\ verdicts' = [verdicts EXCEPT !["a1"] = [verdict |-> v, level |-> member.level]]
        /\ UNCHANGED <<member, trades, now, stale>>
    BY <1>8 DEF LevelsInTurn!ReviewRead
  <2>2. QED BY <1>1, <2>1 DEF LevelsInTurn!TypeOK, LevelsInTurn!Member
<1>9. CASE LevelsInTurn!ReviewSave("a1")
  <2>1. /\ member' = LevelsInTurn!Reviewed(verdicts["a1"])
        /\ verdicts' = [verdicts EXCEPT !["a1"] = LevelsInTurn!NoReview] /\ UNCHANGED <<trades, now, stale>>
    BY <1>9 DEF LevelsInTurn!ReviewSave
  <2>2. verdicts["a1"].level \in 1..LevelsInTurn!MaxLevel
    BY DEF LevelsInTurn!TypeOK
  <2>3. member' \in LevelsInTurn!Member
    BY <1>1, <2>1, <2>2 DEF LevelsInTurn!Reviewed, LevelsInTurn!Member, LevelsInTurn!MaxLevel
  <2>4. LevelsInTurn!NoReview \in [verdict : {"none", "approve", "reject"}, level : 1..LevelsInTurn!MaxLevel]
    BY DEF LevelsInTurn!NoReview, LevelsInTurn!MaxLevel
  <2>5. QED BY <2>1, <2>3, <2>4 DEF LevelsInTurn!TypeOK
<1>10. QED BY <1>2, <1>3, <1>4, <1>5, <1>6, <1>7, <1>8, <1>9 DEF LevelsInTurn!Next

KolTypes ==
  /\ kol \in BOOLEAN /\ healing \in BOOLEAN /\ granted \in BOOLEAN
  /\ Len(registers) <= MaxRegisters

LEMMA KolTypesInit == ASSUME Kols!Init PROVE KolTypes
<1>1. MaxRegisters \in Nat
  BY MembersAssumption DEF Kols!Parameters
<1>2. kol = FALSE /\ healing = FALSE /\ granted = FALSE /\ registers = <<>>
  BY DEF Kols!Init
<1>3. kol \in BOOLEAN /\ healing \in BOOLEAN /\ granted \in BOOLEAN
  BY <1>2
<1>4. Len(registers) <= MaxRegisters
  BY <1>1, <1>2
<1>5. QED BY <1>3, <1>4 DEF KolTypes

LEMMA KolTypesStep == ASSUME KolInv, KolTypes, Kols!Next \/ UNCHANGED kols PROVE KolTypes'
<1>1. MaxRegisters \in Nat /\ registers \in Seq({"pending", "success", "fail"})
  BY MembersAssumption DEF Kols!Parameters, KolInv
<1>2. CASE Kols!RegisterKol
  <2>1. UNCHANGED <<kol, granted>> /\ healing' \in BOOLEAN
    BY <1>2 DEF Kols!RegisterKol, KolTypes
  <2>2. \/ UNCHANGED registers
        \/ Len(registers) < MaxRegisters /\ registers' = Append(registers, "pending")
    BY <1>2 DEF Kols!RegisterKol
  <2>3. Len(registers') <= MaxRegisters
    BY <1>1, <2>2 DEF KolTypes
  <2>4. QED BY <2>1, <2>3 DEF KolTypes
<1>3. CASE Kols!SaveKol \/ Kols!Crash \/ \E grant \in BOOLEAN : Kols!ToggleUserKol(grant)
  BY <1>3 DEF Kols!SaveKol, Kols!Crash, Kols!ToggleUserKol, KolTypes
<1>4. CASE Kols!ToggleUpdate
  <2>1. kol' \in BOOLEAN /\ granted' \in BOOLEAN /\ UNCHANGED healing
    BY <1>4 DEF Kols!ToggleUpdate, KolTypes
  <2>2. \/ UNCHANGED registers
        \/ registers' = [i \in DOMAIN registers |->
             IF registers[i] = Head(toggle)[1] THEN Head(toggle)[2] ELSE registers[i]]
    BY <1>4 DEF Kols!ToggleUpdate
  <2>3. DOMAIN registers' = 1..Len(registers) /\ registers' \in Seq({"pending", "success", "fail"})
    BY <1>1, <1>4, <2>2, ToggleUpdateKeeps DEF KolInv
  <2>4. Len(registers') = Len(registers)
    BY <1>1, <2>3
  <2>5. QED BY <2>1, <2>4 DEF KolTypes
<1>5. CASE UNCHANGED kols
  BY <1>5 DEF kols, KolTypes
<1>6. QED BY <1>2, <1>3, <1>4, <1>5 DEF Kols!Next

LEMMA KolIsTyped == ASSUME KolInv, KolTypes PROVE Kols!TypeOK
<1>1. Len(<<>>) = 0 /\ Len(Kols!Grant) = 2 /\ Len(GrantLeft) = 1
  BY DEF Kols!Grant, GrantLeft
<1>2. Len(Kols!Revoke) = 3 /\ Len(RevokeLeft) = 2 /\ Len(RevokeLast) = 1
  BY DEF Kols!Revoke, RevokeLeft, RevokeLast
<1>3. Len(toggle) \in {0, 1, 2, 3}
  BY <1>1, <1>2 DEF KolInv, Left
<1>4. Len(toggle) <= 3
  <2>1. \A n \in {0, 1, 2, 3} : n <= 3
    OBVIOUS
  <2>2. QED BY <1>3, <2>1
<1>5. QED BY <1>4 DEF KolInv, KolTypes, Kols!TypeOK

-----------------------------------------------------------------------------
(* Identity and BankAccounts for handlers that take turns: their types.    *)

TurnSavers == {"r1", "a1"}
TurnDraft == [id : IdInTurn!Records, rec : IdInTurn!Record]

\* What the SELECT of a save has read is there until its UPDATE.
TurnLoaded(p) ==
  loaded[p] # IdInTurn!NoRow =>
    /\ ~IdInTurn!Free(p)
    /\ loaded[p] \in IF held[p] # IdInTurn!NoRow THEN IdInTurn!Row ELSE IdInTurn!Record
TurnRows ==
  /\ row \in IdInTurn!Row /\ records \in [IdInTurn!Records -> IdInTurn!Record]
  /\ held \in [TurnSavers -> IdInTurn!Row \cup {IdInTurn!NoRow}]
  /\ draft \in [TurnSavers -> TurnDraft \cup {IdInTurn!NoDraft}]
  /\ loaded \in [TurnSavers -> IdInTurn!Row \cup IdInTurn!Record \cup {IdInTurn!NoRow}]
  /\ \A p \in TurnSavers : TurnLoaded(p)
TurnReview ==
  /\ DOMAIN review = {"a1"}
  /\ review["a1"] # IdInTurn!Idle =>
       /\ review["a1"].verdict \in {"verify", "retry"}
       /\ review["a1"].user \in IdInTurn!Row
       /\ review["a1"].recs \in [IdInTurn!Records -> IdInTurn!Record]
       /\ review["a1"].todo \subseteq IdInTurn!Records

LEMMA TurnParts == IdInTurn!TypeOK <=> TurnRows /\ TurnReview
<1>1. IdInTurn!Savers = TurnSavers
  BY DEF IdInTurn!Savers, TurnSavers
<1>2. QED BY <1>1 DEF IdInTurn!TypeOK, TurnRows, TurnLoaded, TurnReview, TurnDraft

\* A row or a record that will be saved.
LEMMA TurnKeeps ==
  ASSUME TurnRows, NEW p \in TurnSavers, UNCHANGED <<row, records, loaded>>,
         \/ /\ UNCHANGED draft
            /\ \E user \in IdInTurn!Row : IdInTurn!Holds(p, user)
         \/ /\ UNCHANGED held
            /\ \E i \in IdInTurn!Records, rec \in IdInTurn!Record : IdInTurn!Drafts(p, i, rec)
  PROVE  TurnRows'
<1>1. CASE UNCHANGED draft /\ \E user \in IdInTurn!Row : IdInTurn!Holds(p, user)
  <2>1. PICK user \in IdInTurn!Row : IdInTurn!Holds(p, user)
    BY <1>1
  <2>2. held' = [held EXCEPT ![p] = user] /\ loaded[p] = IdInTurn!NoRow
    BY <2>1 DEF IdInTurn!Holds, TurnRows, TurnLoaded
  <2>3. QED BY <1>1, <2>2 DEF TurnRows, TurnLoaded, IdInTurn!Free
<1>2. CASE UNCHANGED held /\ \E i \in IdInTurn!Records, rec \in IdInTurn!Record : IdInTurn!Drafts(p, i, rec)
  <2>1. PICK i \in IdInTurn!Records, rec \in IdInTurn!Record : IdInTurn!Drafts(p, i, rec)
    BY <1>2
  <2>2. draft' = [draft EXCEPT ![p] = [id |-> i, rec |-> rec]] /\ loaded[p] = IdInTurn!NoRow
    BY <2>1 DEF IdInTurn!Drafts, TurnRows, TurnLoaded
  <2>3. [id |-> i, rec |-> rec] \in TurnDraft
    BY DEF TurnDraft
  <2>4. draft' \in [TurnSavers -> TurnDraft \cup {IdInTurn!NoDraft}]
    BY <2>2, <2>3 DEF TurnRows
  <2>5. \A q \in TurnSavers : TurnLoaded(q)'
    BY <1>2, <2>2 DEF TurnRows, TurnLoaded, IdInTurn!Free
  <2>6. QED BY <1>2, <2>4, <2>5 DEF TurnRows
<1>3. QED BY <1>1, <1>2

LEMMA TurnHolds ==
  ASSUME TurnRows, TurnReview, IdInTurn!UserRequest("r1") \/ IdInTurn!AskStatus("r1")
  PROVE  TurnRows' /\ TurnReview'
<1>1. row \in IdInTurn!Row
  BY DEF TurnRows
<1>2. ASSUME NEW p \in Passwords PROVE [row EXCEPT !.password = p] \in IdInTurn!Row
  BY <1>1 DEF IdInTurn!Row
<1>3. ASSUME NEW s \in Secrets PROVE [row EXCEPT !.secret = s, !.active = FALSE] \in IdInTurn!Row
  BY <1>1 DEF IdInTurn!Row
<1>4. /\ [row EXCEPT !.active = TRUE] \in IdInTurn!Row
      /\ IdInTurn!Disabled(row) \in IdInTurn!Row /\ IdInTurn!Verified(row) \in IdInTurn!Row
  BY <1>1 DEF IdInTurn!Row, IdInTurn!Disabled, IdInTurn!Verified
<1>5. \E user \in IdInTurn!Row : IdInTurn!Hold("r1", user)
  <2>1. CASE IdInTurn!UpdateProfile("r1") \/ IdInTurn!LoginWithGoogle("r1") \/ IdInTurn!VerifyEmail("r1")
    BY <1>1, <2>1 DEF IdInTurn!UpdateProfile, IdInTurn!LoginWithGoogle, IdInTurn!VerifyEmail
  <2>2. CASE IdInTurn!ChangePassword("r1") \/ IdInTurn!SetNewPassword("r1")
    BY <1>2, <2>2 DEF IdInTurn!ChangePassword, IdInTurn!SetNewPassword
  <2>3. CASE IdInTurn!SetupTwoFactor("r1")
    BY <1>3, <2>3 DEF IdInTurn!SetupTwoFactor
  <2>4. CASE IdInTurn!VerifyTwoFactorSetup("r1")
    BY <1>4, <2>4 DEF IdInTurn!VerifyTwoFactorSetup
  <2>5. CASE IdInTurn!DisableTwoFactor("r1") \/ IdInTurn!AskStatus("r1")
    BY <1>4, <2>5 DEF IdInTurn!DisableTwoFactor, IdInTurn!AskStatus
  <2>6. QED BY <2>1, <2>2, <2>3, <2>4, <2>5 DEF IdInTurn!UserRequest
<1>6. UNCHANGED <<row, records, draft, loaded, review>> /\ \E user \in IdInTurn!Row : IdInTurn!Holds("r1", user)
  BY <1>5 DEF IdInTurn!Hold
<1>7. "r1" \in TurnSavers BY DEF TurnSavers
<1>8. TurnRows' BY <1>6, <1>7, TurnKeeps
<1>9. QED BY <1>6, <1>8 DEF TurnReview

LEMMA TurnPrepares ==
  ASSUME TurnRows, TurnReview, IdInTurn!KycRequest("r1")
  PROVE  TurnRows' /\ TurnReview'
<1>1. \A i \in IdInTurn!Records : records[i] \in IdInTurn!Record
  BY DEF TurnRows
<1>2. \A docs \in Documents : IdInTurn!Challenged(docs) \in IdInTurn!Record
  BY DEF IdInTurn!Challenged, IdInTurn!Record, IdInTurn!KycStatus
<1>3. \E i \in IdInTurn!Records, rec \in IdInTurn!Record : IdInTurn!Prepare("r1", i, rec)
  <2>1. CASE IdInTurn!SubmitKyc("r1")
    BY <1>2, <2>1 DEF IdInTurn!SubmitKyc
  <2>2. CASE IdInTurn!RetryKyc("r1")
    BY <1>2, <2>2 DEF IdInTurn!RetryKyc, IdInTurn!Retried
  <2>3. CASE IdInTurn!SubmitKycPaper("r1")
    <3>1. PICK i \in IdInTurn!Records :
            IdInTurn!Prepare("r1", i, [records[i] EXCEPT !.status = "pending", !.paper = records[i].docs])
      BY <2>3 DEF IdInTurn!SubmitKycPaper
    <3>2. [records[i] EXCEPT !.status = "pending", !.paper = records[i].docs] \in IdInTurn!Record
      BY <1>1 DEF IdInTurn!Record, IdInTurn!KycStatus
    <3>3. QED BY <3>1, <3>2
  <2>4. CASE IdInTurn!RenewKycChallenge("r1")
    BY <1>1, <2>4 DEF IdInTurn!RenewKycChallenge
  <2>5. QED BY <2>1, <2>2, <2>3, <2>4 DEF IdInTurn!KycRequest
<1>4. /\ UNCHANGED <<row, records, held, loaded, review>>
      /\ \E i \in IdInTurn!Records, rec \in IdInTurn!Record : IdInTurn!Drafts("r1", i, rec)
  BY <1>3 DEF IdInTurn!Prepare
<1>5. "r1" \in TurnSavers BY DEF TurnSavers
<1>6. TurnRows' BY <1>4, <1>5, TurnKeeps
<1>7. QED BY <1>4, <1>6 DEF TurnReview

\* Whatever was selected, what an UPDATE leaves is a row or a record.
LEMMA TurnUpdated ==
  ASSUME NEW read
  PROVE  /\ \A old, new \in IdInTurn!Row : IdInTurn!Updated(old, read, new) \in IdInTurn!Row
         /\ \A old, new \in IdInTurn!Record : IdInTurn!Updated(old, read, new) \in IdInTurn!Record
<1>1. ASSUME NEW old \in IdInTurn!Row, NEW new \in IdInTurn!Row
      PROVE  IdInTurn!Updated(old, read, new) \in IdInTurn!Row
  BY DEF IdInTurn!Updated, IdInTurn!Row
<1>2. ASSUME NEW old \in IdInTurn!Record, NEW new \in IdInTurn!Record
      PROVE  IdInTurn!Updated(old, read, new) \in IdInTurn!Record
  BY DEF IdInTurn!Updated, IdInTurn!Record
<1>3. QED BY <1>1, <1>2

LEMMA TurnSaves ==
  ASSUME TurnRows, TurnReview, NEW p \in TurnSavers, IdInTurn!SaveStep(p)
  PROVE  TurnRows' /\ TurnReview'
<1>1. TurnReview'
  <2>1. UNCHANGED review
    BY DEF IdInTurn!SaveStep, IdInTurn!SaveBegins, IdInTurn!SaveUser, IdInTurn!SaveRecord
  <2>2. QED BY <2>1 DEF TurnReview
<1>2. CASE IdInTurn!SaveBegins(p)
  <2>1. /\ loaded' = [loaded EXCEPT ![p] = IF held[p] # IdInTurn!NoRow THEN row ELSE records[draft[p].id]]
        /\ ~IdInTurn!Free(p) /\ UNCHANGED <<row, records, held, draft>>
    BY <1>2 DEF IdInTurn!SaveBegins
  <2>2. held[p] = IdInTurn!NoRow => draft[p] \in TurnDraft
    BY <2>1 DEF TurnRows, IdInTurn!Free
  <2>3. loaded'[p] \in IF held[p] # IdInTurn!NoRow THEN IdInTurn!Row ELSE IdInTurn!Record
    BY <2>1, <2>2 DEF TurnRows, TurnDraft
  <2>4. \A q \in TurnSavers : loaded'[q] = IF q = p THEN loaded'[p] ELSE loaded[q]
    BY <2>1 DEF TurnRows
  <2>5. loaded' \in [TurnSavers -> IdInTurn!Row \cup IdInTurn!Record \cup {IdInTurn!NoRow}]
    BY <2>1, <2>3 DEF TurnRows
  <2>6. \A q \in TurnSavers : TurnLoaded(q)'
    BY <2>1, <2>3, <2>4 DEF TurnRows, TurnLoaded, IdInTurn!Free
  <2>7. TurnRows'
    BY <2>1, <2>5, <2>6 DEF TurnRows
  <2>8. QED BY <1>1, <2>7
<1>3. ASSUME loaded' = [loaded EXCEPT ![p] = IdInTurn!NoRow], NEW q \in TurnSavers,
             q # p => held'[q] = held[q] /\ draft'[q] = draft[q]
      PROVE  TurnLoaded(q)'
  BY <1>3 DEF TurnRows, TurnLoaded, IdInTurn!Free
<1>4. CASE IdInTurn!SaveUser(p)
  <2>1. /\ held[p] # IdInTurn!NoRow /\ row' = IdInTurn!Updated(row, loaded[p], held[p])
        /\ held' = [held EXCEPT ![p] = IdInTurn!NoRow] /\ loaded' = [loaded EXCEPT ![p] = IdInTurn!NoRow]
        /\ UNCHANGED <<records, draft>>
    BY <1>4 DEF IdInTurn!SaveUser
  <2>2. row' \in IdInTurn!Row
    BY <2>1, TurnUpdated DEF TurnRows
  <2>3. /\ held' \in [TurnSavers -> IdInTurn!Row \cup {IdInTurn!NoRow}]
        /\ \A q \in TurnSavers : q # p => held'[q] = held[q] /\ draft'[q] = draft[q]
    BY <2>1 DEF TurnRows
  <2>4. \A q \in TurnSavers : TurnLoaded(q)'
    BY <1>3, <2>1, <2>3
  <2>5. TurnRows'
    BY <2>1, <2>2, <2>3, <2>4 DEF TurnRows
  <2>6. QED BY <1>1, <2>5
<1>5. CASE IdInTurn!SaveRecord(p)
  <2>1. /\ draft[p] # IdInTurn!NoDraft
        /\ records' = [records EXCEPT ![draft[p].id] =
                         IdInTurn!Updated(records[draft[p].id], loaded[p], draft[p].rec)]
        /\ draft' = [draft EXCEPT ![p] = IdInTurn!NoDraft] /\ loaded' = [loaded EXCEPT ![p] = IdInTurn!NoRow]
        /\ UNCHANGED <<row, held>>
    BY <1>5 DEF IdInTurn!SaveRecord
  <2>2. draft[p].id \in IdInTurn!Records /\ draft[p].rec \in IdInTurn!Record
    BY <2>1 DEF TurnRows, TurnDraft
  <2>3. IdInTurn!Updated(records[draft[p].id], loaded[p], draft[p].rec) \in IdInTurn!Record
    BY <2>2, TurnUpdated DEF TurnRows
  <2>4. records' \in [IdInTurn!Records -> IdInTurn!Record]
    BY <2>1, <2>2, <2>3 DEF TurnRows
  <2>5. /\ draft' \in [TurnSavers -> TurnDraft \cup {IdInTurn!NoDraft}]
        /\ \A q \in TurnSavers : q # p => held'[q] = held[q] /\ draft'[q] = draft[q]
    BY <2>1 DEF TurnRows
  <2>6. \A q \in TurnSavers : TurnLoaded(q)'
    BY <1>3, <2>1, <2>5
  <2>7. TurnRows'
    BY <2>1, <2>4, <2>5, <2>6 DEF TurnRows
  <2>8. QED BY <1>1, <2>7
<1>6. QED BY <1>2, <1>4, <1>5 DEF IdInTurn!SaveStep

LEMMA TurnReviews ==
  ASSUME TurnRows, TurnReview,
         IdInTurn!Review("a1") \/ \E v \in {"verify", "retry"} : IdInTurn!ReviewRead("a1", v)
  PROVE  TurnRows' /\ TurnReview'
<1>1. "a1" \in TurnSavers BY DEF TurnSavers
<1>2. ASSUME NEW v \in {"verify", "retry"}, IdInTurn!ReviewRead("a1", v) PROVE TurnRows' /\ TurnReview'
  <2> DEFINE new == [verdict |-> v, user |-> row, recs |-> records,
                     todo |-> {i \in IdInTurn!Records : IdInTurn!Reviewable(i)}]
  <2>1. review' = [review EXCEPT !["a1"] = new] /\ UNCHANGED <<row, records, held, draft, loaded>>
    BY <1>2 DEF IdInTurn!ReviewRead
  <2>2. DOMAIN review' = {"a1"} /\ review'["a1"] = new
    BY <2>1 DEF TurnReview
  <2>3. TurnReview' BY <2>2 DEF TurnReview, TurnRows
  <2>4. TurnRows' BY <2>1 DEF TurnRows, TurnLoaded, IdInTurn!Free
  <2>5. QED BY <2>3, <2>4
<1>3. CASE IdInTurn!ReviewRecord("a1")
  <2>1. PICK i \in review["a1"].todo :
          /\ IdInTurn!Drafts("a1", i, [review["a1"].recs[i] EXCEPT !.status = review["a1"].verdict])
          /\ review' = IF review["a1"].todo = {i} /\ review["a1"].verdict = "retry"
                       THEN [review EXCEPT !["a1"] = IdInTurn!Idle]
                       ELSE [review EXCEPT !["a1"].todo = @ \ {i}]
    BY <1>3 DEF IdInTurn!ReviewRecord
  <2>2. review["a1"] # IdInTurn!Idle
    BY <2>1 DEF IdInTurn!Idle
  <2>3. [review["a1"].recs[i] EXCEPT !.status = review["a1"].verdict] \in IdInTurn!Record
    BY <2>1, <2>2 DEF TurnReview, IdInTurn!Record, IdInTurn!KycStatus
  <2>4. i \in IdInTurn!Records /\ UNCHANGED <<row, records, held, loaded>>
    BY <1>3, <2>1, <2>2 DEF TurnReview, IdInTurn!ReviewRecord
  <2>5. TurnRows'
    BY <1>1, <2>1, <2>3, <2>4, TurnKeeps
  <2>6. CASE review' = [review EXCEPT !["a1"] = IdInTurn!Idle]
    BY <2>5, <2>6 DEF TurnReview
  <2>7. CASE review' = [review EXCEPT !["a1"].todo = @ \ {i}]
    <3> DEFINE new == [review["a1"] EXCEPT !.todo = @ \ {i}]
    <3>1. DOMAIN review' = {"a1"} /\ review'["a1"] = new
      BY <2>7 DEF TurnReview
    <3>2. /\ new.verdict = review["a1"].verdict /\ new.user = review["a1"].user
          /\ new.recs = review["a1"].recs /\ new.todo \subseteq review["a1"].todo
      OBVIOUS
    <3> HIDE DEF new
    <3>3. TurnReview' BY <2>2, <3>1, <3>2 DEF TurnReview
    <3>4. QED BY <2>5, <3>3
  <2>8. QED BY <2>1, <2>6, <2>7
<1>4. CASE IdInTurn!ReviewUser("a1")
  <2>1. /\ review["a1"].verdict = "verify" /\ IdInTurn!Holds("a1", IdInTurn!Verified(review["a1"].user))
        /\ review' = [review EXCEPT !["a1"] = IdInTurn!Idle] /\ UNCHANGED <<row, records, draft, loaded>>
    BY <1>4 DEF IdInTurn!ReviewUser
  <2>2. review["a1"] # IdInTurn!Idle
    BY <2>1 DEF IdInTurn!Idle
  <2>3. IdInTurn!Verified(review["a1"].user) \in IdInTurn!Row
    BY <2>2 DEF TurnReview, IdInTurn!Verified, IdInTurn!Row
  <2>4. TurnRows' BY <1>1, <2>1, <2>3, TurnKeeps
  <2>5. TurnReview' BY <2>1 DEF TurnReview
  <2>6. QED BY <2>4, <2>5
<1>5. QED BY <1>2, <1>3, <1>4 DEF IdInTurn!Review

LEMMA TurnOthers ==
  ASSUME TurnRows, TurnReview, IdInTurn!UpdateUserStatus \/ IdInTurn!Crash \/ UNCHANGED identity
  PROVE  TurnRows' /\ TurnReview'
<1>1. CASE IdInTurn!UpdateUserStatus
  <2>1. PICK s \in {"active", "block"} :
          row' = [row EXCEPT !.status = s] /\ UNCHANGED <<records, held, draft, loaded, review>>
    BY <1>1 DEF IdInTurn!UpdateUserStatus
  <2>2. row' \in IdInTurn!Row
    BY <2>1 DEF TurnRows, IdInTurn!Row
  <2>3. QED BY <2>1, <2>2 DEF TurnRows, TurnLoaded, TurnReview, IdInTurn!Free
<1>2. CASE IdInTurn!Crash
  <2>1. IdInTurn!Savers = TurnSavers
    BY DEF IdInTurn!Savers, TurnSavers
  <2>2. QED BY <1>2, <2>1 DEF IdInTurn!Crash, TurnRows, TurnLoaded, TurnReview
<1>3. CASE UNCHANGED identity
  BY <1>3 DEF identity, TurnRows, TurnLoaded, TurnReview, IdInTurn!Free
<1>4. QED BY <1>1, <1>2, <1>3

LEMMA IdInTurnTypes == ASSUME IdInTurn!TypeOK, IdInTurn!Next \/ UNCHANGED identity PROVE IdInTurn!TypeOK'
<1>1. TurnRows /\ TurnReview
  BY TurnParts
<1>2. IdInTurn!Savers = TurnSavers
  BY DEF IdInTurn!Savers, TurnSavers
<1>3. CASE IdInTurn!Next
  <2>1. TurnRows' /\ TurnReview'
    BY <1>1, <1>2, <1>3, TurnHolds, TurnPrepares, TurnSaves, TurnReviews, TurnOthers DEF IdInTurn!Next
  <2>2. QED BY <2>1, TurnParts, PTL
<1>4. CASE UNCHANGED identity
  <2>1. TurnRows' /\ TurnReview'
    BY <1>1, <1>4, TurnOthers
  <2>2. QED BY <2>1, TurnParts, PTL
<1>5. QED BY <1>3, <1>4

LEMMA IdInTurnInit == ASSUME IdInTurn!Init PROVE IdInTurn!TypeOK
<1>1. row \in IdInTurn!Row
  BY DEF IdInTurn!Init, IdInTurn!Row
<1>2. IdInTurn!NoRecord \in IdInTurn!Record
  BY DEF IdInTurn!NoRecord, IdInTurn!Record, IdInTurn!KycStatus
<1>3. QED BY <1>1, <1>2 DEF IdInTurn!Init, IdInTurn!TypeOK

BankOrNone == {0} \cup BankInTurn!Banks
TurnSetting == [bank : BankOrNone, pending : BankOrNone]
TurnRequest == [kind : {"none", "create", "update", "delete", "post", "attach"},
                bank : BankOrNone, setting : TurnSetting]
TurnBankReview == [kind : {"none", "create", "change"}, approve : BOOLEAN,
                   bank : BankOrNone, setting : TurnSetting]
TurnBanks ==
  /\ banks \in [BankInTurn!Banks -> Status] /\ setting \in TurnSetting
  /\ request \in [{"r1"} -> TurnRequest] /\ bankReview \in [{"a1"} -> TurnBankReview]

LEMMA TurnBanksInit == ASSUME BankInTurn!Init PROVE TurnBanks
<1>1. [bank |-> 0, pending |-> 0] \in TurnSetting
  BY DEF TurnSetting, BankOrNone
<1>2. BankInTurn!NoRequest \in TurnRequest /\ BankInTurn!NoReview \in TurnBankReview
  BY <1>1 DEF BankInTurn!NoRequest, BankInTurn!NoReview, TurnRequest, TurnBankReview, BankOrNone
<1>3. QED BY <1>1, <1>2 DEF BankInTurn!Init, TurnBanks, Status

\* A handler that begins keeps what it has read; one that ends leaves nothing.
LEMMA TurnBankGoes ==
  ASSUME TurnBanks, NEW r \in {"r1"}
  PROVE  /\ \A kind \in {"create", "update", "delete", "post", "attach"}, b \in BankOrNone :
              BankInTurn!Goes(r, kind, b) => TurnBanks'
         /\ BankInTurn!Ends(r) => request' \in [{"r1"} -> TurnRequest]
<1>1. ASSUME NEW kind \in {"create", "update", "delete", "post", "attach"}, NEW b \in BankOrNone,
             BankInTurn!Goes(r, kind, b)
      PROVE  TurnBanks'
  <2>1. [kind |-> kind, bank |-> b, setting |-> setting] \in TurnRequest
    BY DEF TurnBanks, TurnRequest
  <2>2. QED BY <1>1, <2>1 DEF BankInTurn!Goes, TurnBanks
<1>2. BankInTurn!NoRequest \in TurnRequest
  BY DEF BankInTurn!NoRequest, TurnRequest, TurnSetting, BankOrNone
<1>3. ASSUME BankInTurn!Ends(r) PROVE request' \in [{"r1"} -> TurnRequest]
  BY <1>2, <1>3 DEF BankInTurn!Ends, TurnBanks
<1>4. QED BY <1>1, <1>3

\* A setting that is saved, or not.
LEMMA TurnSettings ==
  ASSUME TurnBanks, NEW s \in TurnSetting, BankInTurn!SettingBecomes(s) \/ BankInTurn!SettingSaved(s)
  PROVE  setting' \in TurnSetting
<1>1. ASSUME NEW q \in TurnSetting, BankInTurn!SettingBecomes(q) PROVE setting' \in TurnSetting
  BY <1>1 DEF BankInTurn!SettingBecomes, TurnBanks
<1>2. CASE BankInTurn!SettingSaved(s)
  <2>1. BankInTurn!SettingBecomes([bank |-> s.bank, pending |-> s.pending])
    BY <1>2 DEF BankInTurn!SettingSaved, BankInTurn!Saved
  <2>2. [bank |-> s.bank, pending |-> s.pending] \in TurnSetting
    BY DEF TurnSetting
  <2>3. QED BY <1>1, <2>1, <2>2
<1>3. QED BY <1>1, <1>2

LEMMA TurnBankRequests ==
  ASSUME TurnBanks, NEW r \in {"r1"},
         \/ BankInTurn!CreateBank(r) \/ BankInTurn!InsertBank(r) \/ BankInTurn!UpdateBank(r)
         \/ BankInTurn!SaveBank(r) \/ BankInTurn!DeleteBank(r) \/ BankInTurn!DropBank(r)
         \/ BankInTurn!CreateOrderBook(r) \/ BankInTurn!LinkBank(r)
         \/ BankInTurn!AttachBank(r) \/ BankInTurn!SaveSetting(r)
  PROVE  TurnBanks'
<1>1. /\ request[r].bank \in BankOrNone /\ request[r].setting \in TurnSetting
      /\ \A q \in TurnSetting : q.bank \in BankOrNone
  BY DEF TurnBanks, TurnRequest, TurnSetting
<1>2. CASE \/ BankInTurn!CreateBank(r) \/ BankInTurn!UpdateBank(r) \/ BankInTurn!DeleteBank(r)
           \/ BankInTurn!CreateOrderBook(r) \/ BankInTurn!AttachBank(r)
  BY <1>2, TurnBankGoes DEF BankInTurn!CreateBank, BankInTurn!UpdateBank, BankInTurn!DeleteBank,
       BankInTurn!CreateOrderBook, BankInTurn!AttachBank, BankInTurn!Usable, BankInTurn!With, BankOrNone
<1>3. CASE BankInTurn!InsertBank(r) \/ BankInTurn!SaveBank(r) \/ BankInTurn!DropBank(r)
  <2>1. BankInTurn!Ends(r) /\ UNCHANGED <<setting, bankReview>>
    BY <1>3 DEF BankInTurn!InsertBank, BankInTurn!SaveBank, BankInTurn!DropBank
  <2>2. banks' \in [BankInTurn!Banks -> Status]
    BY <1>3 DEF BankInTurn!InsertBank, BankInTurn!SaveBank, BankInTurn!DropBank,
         BankInTurn!Saved, TurnBanks, Status
  <2>3. QED BY <2>1, <2>2, TurnBankGoes DEF TurnBanks
<1>4. CASE BankInTurn!LinkBank(r) \/ BankInTurn!SaveSetting(r)
  <2>1. BankInTurn!Ends(r) /\ UNCHANGED <<banks, bankReview>>
    BY <1>4 DEF BankInTurn!LinkBank, BankInTurn!SaveSetting
  <2>2. /\ [bank |-> request[r].bank, pending |-> 0] \in TurnSetting
        /\ [request[r].setting EXCEPT !.pending = request[r].bank] \in TurnSetting
    BY <1>1 DEF TurnSetting, BankOrNone
  <2>3. setting' \in TurnSetting
    BY <1>4, <2>2, TurnSettings DEF BankInTurn!LinkBank, BankInTurn!SaveSetting
  <2>4. QED BY <2>1, <2>3, TurnBankGoes DEF TurnBanks
<1>5. QED BY <1>2, <1>3, <1>4

LEMMA TurnBankReviews ==
  ASSUME TurnBanks,
         \/ BankInTurn!ReviewCreateSave("a1") \/ BankInTurn!ReviewChangeSave("a1")
         \/ \E approve \in BOOLEAN :
              BankInTurn!ReviewCreateRead("a1", approve) \/ BankInTurn!ReviewChangeRead("a1", approve)
  PROVE  TurnBanks'
<1>1. ASSUME NEW kind \in {"create", "change"}, NEW approve \in BOOLEAN, NEW b \in BankOrNone,
             BankInTurn!Reviews("a1", kind, approve, b)
      PROVE  TurnBanks'
  <2>1. [kind |-> kind, approve |-> approve, bank |-> b, setting |-> setting] \in TurnBankReview
    BY DEF TurnBanks, TurnBankReview
  <2>2. QED BY <1>1, <2>1 DEF BankInTurn!Reviews, TurnBanks
<1>2. ASSUME NEW approve \in BOOLEAN,
             BankInTurn!ReviewCreateRead("a1", approve) \/ BankInTurn!ReviewChangeRead("a1", approve)
      PROVE  TurnBanks'
  <2>1. setting.pending \in BankOrNone /\ BankInTurn!Banks \subseteq BankOrNone
    BY DEF TurnBanks, TurnSetting, BankOrNone
  <2>2. QED
    BY <1>1, <1>2, <2>1 DEF BankInTurn!ReviewCreateRead, BankInTurn!ReviewChangeRead, BankInTurn!With
<1>3. BankInTurn!NoReview \in TurnBankReview
  BY DEF BankInTurn!NoReview, TurnBankReview, TurnSetting, BankOrNone
<1>4. BankInTurn!Reviewed("a1") => bankReview' \in [{"a1"} -> TurnBankReview]
  BY <1>3 DEF BankInTurn!Reviewed, TurnBanks
<1>5. CASE BankInTurn!ReviewCreateSave("a1")
  BY <1>4, <1>5 DEF BankInTurn!ReviewCreateSave, BankInTurn!Saved, TurnBanks, Status
<1>6. CASE BankInTurn!ReviewChangeSave("a1")
  <2>1. bankReview["a1"].bank \in BankOrNone /\ bankReview["a1"].setting \in TurnSetting
    BY DEF TurnBanks, TurnBankReview
  <2>2. /\ [bankReview["a1"].setting EXCEPT !.pending = 0] \in TurnSetting
        /\ [bank |-> bankReview["a1"].bank, pending |-> 0] \in TurnSetting
    BY <2>1 DEF TurnSetting, BankOrNone
  <2>3. setting' \in TurnSetting
    BY <1>6, <2>2, TurnSettings DEF BankInTurn!ReviewChangeSave, TurnBanks
  <2>4. QED BY <1>4, <1>6, <2>3 DEF BankInTurn!ReviewChangeSave, TurnBanks
<1>7. QED BY <1>2, <1>5, <1>6

LEMMA TurnBanksStep == ASSUME TurnBanks, BankInTurn!Next \/ UNCHANGED accounts PROVE TurnBanks'
<1>1. CASE BankInTurn!Next
  BY <1>1, TurnBankRequests, TurnBankReviews DEF BankInTurn!Next
<1>2. CASE UNCHANGED accounts
  BY <1>2 DEF accounts, TurnBanks
<1>3. QED BY <1>1, <1>2

-----------------------------------------------------------------------------
(* The components together.                                                *)

Component == {"identity", "identity in turn", "levels", "levels in turn", "limits", "banks",
              "banks in turn", "kol"}

MembersInv ==
  /\ which = "identity" => IdentityInv
  /\ which = "levels" => LevelsInv
  /\ which = "identity in turn" => IdInTurn!TypeOK
  /\ which = "levels in turn" => TurnInv /\ LevelsInTurn!TypeOK
  /\ which = "limits" => LimitsInv /\ RoomInv /\ BlockInv
  /\ which = "banks" => BanksInv
  /\ which = "banks in turn" => TurnBanks
  /\ KolInv /\ KolTypes

\* A behaviour is one of the component it names.
LEMMA NextOf ==
  ASSUME [Next]_vars
  PROVE  /\ which' = which
         /\ which = "identity" => Id!Next \/ UNCHANGED identity
         /\ which = "identity in turn" => IdInTurn!Next \/ UNCHANGED identity
         /\ which = "levels" => Levels!Next \/ UNCHANGED levels
         /\ which = "levels in turn" => LevelsInTurn!Next \/ UNCHANGED levels
         /\ which = "limits" => Limits!Next \/ UNCHANGED limits
         /\ which = "banks" => Bank!Next \/ UNCHANGED accounts
         /\ which = "banks in turn" => BankInTurn!Next \/ UNCHANGED accounts
         /\ Kols!Next \/ UNCHANGED kols
BY DEF Next, vars

LEMMA MembersInit == ASSUME Init PROVE MembersInv
<1>1. Limits!Init /\ Kols!Init
  BY DEF Init
<1>2. /\ which \in {"identity", "levels", "banks"} => Id!Init /\ Levels!Init /\ Bank!Init
      /\ which \in {"identity in turn", "levels in turn", "banks in turn"} =>
           IdInTurn!Init /\ LevelsInTurn!Init /\ BankInTurn!Init
  BY DEF Init
<1>3. QED
  BY <1>1, <1>2, IdentityInit, IdInTurnInit, LevelsInit, TurnInit, LevelsInTurnInit, LimitsInit, RoomInit,
     BlockInit, BanksInit, TurnBanksInit, KolInit, KolTypesInit DEF MembersInv

LEMMA MembersStep == ASSUME MembersInv, [Next]_vars PROVE MembersInv'
<1>1. which = "limits" => LimitTypes
  BY DEF MembersInv, LimitsInv
<1>2. QED
  BY <1>1, NextOf, IdentityStep, IdInTurnTypes, LevelsStep, TurnStep, LevelsInTurnTypes, LimitsStep, RoomStep,
     BlockStep, BanksStep, TurnBanksStep, KolStep, KolTypesStep DEF MembersInv

LEMMA MembersInvariant == Spec => []MembersInv
  BY MembersInit, MembersStep, PTL DEF Spec

\* Every component keeps its types and bounds, which for a listing says that it
\* never asks for more than the limit of its user's level (createOrderBook,
\* cancelTransaction).
THEOREM MembersTypes == Spec => []TypeOK
<1>1. Init => which \in Component
  BY DEF Init, Component
<1>2. which \in Component /\ [Next]_vars => (which \in Component)'
  BY DEF Next, vars
<1>3. MembersInv /\ which \in Component => TypeOK
  <2> SUFFICES ASSUME MembersInv, which \in Component PROVE TypeOK
    OBVIOUS
  <2>1. CASE which = "identity" \/ which = "identity in turn"
    BY <2>1, IdentityTypes DEF MembersInv, TypeOK
  <2>2. CASE which = "levels" \/ which = "levels in turn"
    BY <2>2 DEF MembersInv, LevelsInv, TypeOK
  <2>3. CASE which = "limits"
    BY <2>3, LimitsAreTyped DEF MembersInv, LimitsInv, TypeOK
  <2>4. CASE which = "banks"
    <3>1. BanksInv
      BY <2>4 DEF MembersInv
    <3>2. Bank!TypeOK
      BY <3>1 DEF BanksInv, Setting, BankRequest, BankReview, Status, Bank!TypeOK
    <3>3. QED BY <2>4, <3>2 DEF TypeOK
  <2>5. CASE which = "banks in turn"
    <3>1. TurnBanks
      BY <2>5 DEF MembersInv
    <3>2. BankInTurn!TypeOK
      BY <3>1 DEF TurnBanks, TurnSetting, TurnRequest, TurnBankReview, BankOrNone, Status, BankInTurn!TypeOK
    <3>3. QED BY <2>5, <3>2 DEF TypeOK
  <2>6. CASE which = "kol"
    BY <2>6, KolIsTyped DEF MembersInv, TypeOK
  <2>7. QED BY <2>1, <2>2, <2>3, <2>4, <2>5, <2>6 DEF Component
<1>4. QED BY <1>1, <1>2, <1>3, MembersInvariant, PTL DEF Spec

\* Two-factor authentication is never on without a secret, for any number of
\* requests and administrators that read, wait and save over each other, and a
\* process that dies at any point, as long as no save comes between the SELECT and
\* the UPDATE of another (user-security.service).
THEOREM SecretIsThere == Spec => []TwoFactorHasSecret
<1>1. MembersInv => TwoFactorHasSecret
  BY DEF MembersInv, IdentityInv, RowsOK, Solid, TwoFactorHasSecret, Id!TwoFactorHasSecret
<1>2. QED BY <1>1, MembersInvariant, PTL

\* Documents are approved with the photo that was made for them, however many
\* submissions, retries and reviews race, as long as no save comes between the
\* SELECT and the UPDATE of another (submitKycPaper, updateKycStatus).
THEOREM ApprovalIsProven == Spec => []ApprovedAsProven
<1>1. MembersInv => ApprovedAsProven
  BY DEF MembersInv, IdentityInv, RowsOK, Proven, ApprovedAsProven, Id!ApprovedAsProven
<1>2. QED BY <1>1, MembersInvariant, PTL

\* No trade lifts a user twice, for any number of administrators who review the
\* same flag and handlers that save the row late (user-level-up.worker).
THEOREM LevelsEarned == Spec => []LevelIsEarned
<1>1. MembersInv => LevelIsEarned
  BY LevelsAreEarned DEF MembersInv, LevelIsEarned
<1>2. QED BY <1>1, MembersInvariant, PTL

\* The job passes over no window with a trade that counts, however long it has
\* not run (evaluateLevelUpForUser); of verdicts, which find the flag up, it says
\* nothing.
THEOREM TradesCount == Spec => TradeCounts
<1>1. MembersInv /\ [Next]_vars => [which = "levels in turn" => LevelsInTurn!PassesNoneOver]_levels
  BY NextOf, TurnPassesNone DEF MembersInv
<1>2. QED BY <1>1, MembersInvariant, PTL DEF Spec, TradeCounts

\* What a user is buying stays within his level's limit, if his requests take
\* turns (createTransaction, computeBuyerAvailableCoinBudget).
THEOREM BuyingWithinLimit == Spec => []BoughtWithinLimit
<1>1. MembersInv => BoughtWithinLimit
  BY LimitsIsBought DEF MembersInv, BoughtWithinLimit
<1>2. QED BY <1>1, MembersInvariant, PTL

\* A trade block that completes leaves nothing that trades (updateUserStatus).
THEOREM BlockedStaysOut == Spec => []BlockedIsOut
<1>1. MembersInv => BlockedIsOut
  BY BlockIsOut DEF MembersInv, BlockedIsOut
<1>2. QED BY <1>1, MembersInvariant, PTL

\* A listing is paid to an account that is approved and was not deleted, for any
\* number of accounts, requests of the owner and administrators, as long as no two
\* administrators decide on the same new account at a time (attachBankToOrderBook,
\* reviewCreateBankRequest).
THEOREM AttachedStaysActive == Spec => []AttachedIsActive
<1>1. MembersInv => AttachedIsActive
  <2>1. BanksInv => Bank!AttachedIsActive
    <3>1. BanksInv => setting.bank \in {0} \cup Bank!Banks /\ setting.pending \in {0} \cup Bank!Banks
      BY DEF BanksInv, Setting
    <3>2. QED BY <3>1 DEF BanksInv, InSetting, Bank!AttachedIsActive
  <2>2. QED BY <2>1 DEF MembersInv, AttachedIsActive
<1>2. QED BY <1>1, MembersInvariant, PTL

\* registerKol repairs a flag that toggleUserKol has left behind, and never
\* makes a KOL of a user whose last decision was a revocation, whole or cut
\* short, as long as a request and an update do not overlap.
THEOREM RevocationStays == Spec => RevokedIsNotHealed
<1>1. MembersInv /\ [Next]_vars => [~kol /\ kol' => granted]_kols
  BY NextOf, KolStep DEF MembersInv
<1>2. QED BY <1>1, MembersInvariant, PTL DEF Spec, RevokedIsNotHealed, Kols!RevokedIsNotHealed, Kols!vars, kols

=============================================================================
