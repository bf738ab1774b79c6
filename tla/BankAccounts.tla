---------------------------- MODULE BankAccounts ----------------------------
(***************************************************************************)
(* One user's bank accounts, their approval, and the account a SELL        *)
(* listing of his is paid to: user_bank rows and the listing's row of      *)
(* setting_bank_order.  Every handler reads, awaits and saves; only the    *)
(* approval of a change runs in a transaction.  A save is a SELECT and an  *)
(* UPDATE of the columns in which the entity differs from what it saw, so  *)
(* that, where handlers overlap, a column may be left as it is.            *)
(*                                                                         *)
(* What is edited in an account (name, number, passbook) is left out; that *)
(* the edit saves the whole row is kept: one deleted meanwhile is inserted *)
(* again.  A row that another row refers to cannot be deleted, and none    *)
(* can refer to a deleted one (foreign keys of setting_bank_order).        *)
(*                                                                         *)
(* AnyBank is a slip the properties are tried against.                     *)
(***************************************************************************)
EXTENDS Naturals, FiniteSets

CONSTANTS
  Requests,   \* requests of the user that may be under way at the same time
  Admins,     \* administrators who may be reviewing at the same time
  Overlap,    \* handlers begin while others are between their read and save
  TwoVerdicts, \* two administrators may be deciding on the same new account
  NumBanks,   \* bound on the accounts ever created
  MaxBanks    \* accounts a user may have (MAX_BANKS_PER_USER)

Parameters == {NumBanks, MaxBanks} \subseteq Nat /\ {Overlap, TwoVerdicts} \subseteq BOOLEAN

Banks == 1..NumBanks

VARIABLES
  banks,    \* bu_approval_status per account
  setting,  \* the listing's account and the one it is to change to (0: none)
  request,  \* per request, what it has read and is about to write
  review    \* per administrator, the review under way

vars == <<banks, setting, request, review>>

NoRequest == [kind |-> "none", bank |-> 0, setting |-> [bank |-> 0, pending |-> 0]]
NoReview  == [kind |-> "none", approve |-> FALSE, bank |-> 0, setting |-> [bank |-> 0, pending |-> 0]]

With(s) == {b \in Banks : banks[b] = s}

-----------------------------------------------------------------------------
Init ==
  /\ banks = [b \in Banks |-> "none"]
  /\ setting = [bank |-> 0, pending |-> 0]
  /\ request = [r \in Requests |-> NoRequest]
  /\ review = [a \in Admins |-> NoReview]

Quiet ==
  /\ \A r \in Requests : request[r] = NoRequest
  /\ \A a \in Admins : review[a] = NoReview

\* What a save may leave in a column: the entity's value or, when it is what was
\* selected, the one written since.
Saved(entity, current) == IF Overlap THEN {entity, current} ELSE {entity}

\* A request has read what it needs and goes on to write.
Goes(r, kind, b) ==
  /\ request[r] = NoRequest /\ (Quiet \/ Overlap)
  /\ request' = [request EXCEPT ![r] = [kind |-> kind, bank |-> b, setting |-> setting]]
  /\ UNCHANGED <<banks, setting, review>>
Ends(r) == request' = [request EXCEPT ![r] = NoRequest]

\* createMyBank counts, then inserts.
Counted == With("active") \cup With("pending")
CreateBank(r) == Cardinality(Counted) < MaxBanks /\ Goes(r, "create", 0)
InsertBank(r) ==
  /\ request[r].kind = "create"
  /\ \E b \in With("none") :
       /\ \A c \in With("none") : b <= c
       /\ banks' = [banks EXCEPT ![b] = "pending"]
  /\ Ends(r) /\ UNCHANGED <<setting, review>>

\* updateMyBank saves the row as it was read: one deleted meanwhile is inserted
\* again, or stays deleted if the SELECT still saw it.
UpdateBank(r) == \E b \in With("active") : Goes(r, "update", b)
SaveBank(r) ==
  /\ request[r].kind = "update"
  /\ \E s \in Saved("active", banks[request[r].bank]) : banks' = [banks EXCEPT ![request[r].bank] = s]
  /\ Ends(r) /\ UNCHANGED <<setting, review>>

\* deleteMyBank counts the links, then deletes.
Linked == {setting.bank, setting.pending}
DeleteBank(r) ==
  \E b \in Banks : banks[b] \notin {"none", "deleted"} /\ b \notin Linked /\ Goes(r, "delete", b)
DropBank(r) ==
  /\ request[r].kind = "delete"
  /\ IF request[r].bank \in Linked THEN UNCHANGED banks
     ELSE banks' = [banks EXCEPT ![request[r].bank] = "deleted"]
  /\ Ends(r) /\ UNCHANGED <<setting, review>>

\* Accounts a listing may be paid to.
AnyBank == With("active") \cup With("pending")
Usable  == With("active")

\* setting_bank_order becomes s, or its foreign keys refuse it.
SettingBecomes(s) ==
  setting' = IF \E b \in {s.bank, s.pending} \ {0} : banks[b] = "deleted" THEN setting ELSE s
SettingSaved(s) ==
  \E b \in Saved(s.bank, setting.bank), p \in Saved(s.pending, setting.pending) :
    SettingBecomes([bank |-> b, pending |-> p])

\* createOrderBook links an account to the new listing.
CreateOrderBook(r) ==
  /\ setting.bank = 0 /\ \A q \in Requests : request[q].kind # "post"
  /\ \E b \in Usable : Goes(r, "post", b)
LinkBank(r) ==
  /\ request[r].kind = "post"
  /\ SettingBecomes([bank |-> request[r].bank, pending |-> 0])
  /\ Ends(r) /\ UNCHANGED <<banks, review>>

\* attachBankToOrderBook asks for another.  (Its branch for a listing without
\* a link is left out: createOrderBook makes one for every SELL listing.)
AttachBank(r) == setting.bank # 0 /\ \E b \in Usable : Goes(r, "attach", b)
SaveSetting(r) ==
  /\ request[r].kind = "attach"
  /\ SettingSaved([request[r].setting EXCEPT !.pending = request[r].bank])
  /\ Ends(r) /\ UNCHANGED <<banks, review>>

-----------------------------------------------------------------------------
(* The administrators.                                                     *)

Reviews(a, kind, approve, b) ==
  /\ review[a] = NoReview /\ (Quiet \/ Overlap)
  /\ review' = [review EXCEPT ![a] = [kind |-> kind, approve |-> approve, bank |-> b, setting |-> setting]]
  /\ UNCHANGED <<banks, setting, request>>
Reviewed(a) == review' = [review EXCEPT ![a] = NoReview]

\* Read an account that is pending; nothing keeps another from reading it too.
ReviewCreateRead(a, approve) ==
  /\ approve => Cardinality(With("active")) < MaxBanks
  /\ \E b \in With("pending") :
       /\ TwoVerdicts \/ \A c \in Admins : ~(review[c].kind = "create" /\ review[c].bank = b)
       /\ Reviews(a, "create", approve, b)
ReviewCreateSave(a) ==
  /\ review[a].kind = "create"
  /\ \E s \in Saved(IF review[a].approve THEN "active" ELSE "rejected", banks[review[a].bank]) \ {"pending"} :
       banks' = [banks EXCEPT ![review[a].bank] = s]
  /\ Reviewed(a) /\ UNCHANGED <<setting, request>>

ReviewChangeRead(a, approve) == setting.pending # 0 /\ Reviews(a, "change", approve, setting.pending)
\* An approval checks again the account it has read, and that some change is
\* still asked for, in a transaction that locks the setting; a rejection saves the
\* row as it was.
ReviewChangeSave(a) ==
  /\ review[a].kind = "change"
  /\ \/ ~review[a].approve /\ SettingSaved([review[a].setting EXCEPT !.pending = 0])
     \/ /\ review[a].approve
        /\ setting' = IF review[a].bank \in With("active") /\ setting.pending # 0
                      THEN [bank |-> review[a].bank, pending |-> 0] ELSE setting
  /\ Reviewed(a) /\ UNCHANGED <<banks, request>>

Next ==
  \/ \E r \in Requests :
       \/ CreateBank(r) \/ InsertBank(r) \/ UpdateBank(r) \/ SaveBank(r)
       \/ DeleteBank(r) \/ DropBank(r) \/ CreateOrderBook(r) \/ LinkBank(r)
       \/ AttachBank(r) \/ SaveSetting(r)
  \/ \E a \in Admins :
       \/ \E approve \in BOOLEAN : ReviewCreateRead(a, approve) \/ ReviewChangeRead(a, approve)
       \/ ReviewCreateSave(a) \/ ReviewChangeSave(a)
Spec == Init /\ [][Next]_vars

-----------------------------------------------------------------------------
(* Properties.                                                             *)

TypeOK ==
  /\ banks \in [Banks -> {"none", "pending", "active", "rejected", "deleted"}]
  /\ setting \in [bank : {0} \cup Banks, pending : {0} \cup Banks]
  /\ \A r \in Requests : request[r].kind \in {"none", "create", "update", "delete", "post", "attach"}
  /\ \A a \in Admins : review[a].kind \in {"none", "create", "change"}

\* "Only active bank accounts can be used for an orderbook"
\* (orderbook.service.ts:999): the account a listing is paid to, and the one it is
\* to change to, exist and are approved, whichever edits, deletions, requests and
\* reviews overlap, as long as no two administrators decide on the same new account
\* at a time.  (When they do, the second may reject what the first has approved
\* and the owner has put to use.)
AttachedIsActive ==
  \A b \in {setting.bank, setting.pending} \ {0} : banks[b] = "active"

\* A user never has more accounts than allowed, counting those that wait for
\* approval, when handlers take turns.  (Two creations that overlap both count
\* before either inserts; a review inserts an account deleted meanwhile again.)
AtMostMaxBanks == Cardinality({b \in Banks : banks[b] \in {"active", "pending"}}) <= MaxBanks

=============================================================================
