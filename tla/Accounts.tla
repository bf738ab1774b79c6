------------------------------ MODULE Accounts ------------------------------
(***************************************************************************)
(* One person's account: signing up and in, the tokens of the browser, and *)
(* the codes sent by e-mail (user_codes) that activate the address, reset  *)
(* the password, confirm a transfer to another user or a change of bank    *)
(* accounts.  A handler reads, then writes in separate steps, and the      *)
(* process may die between any two of them.                                *)
(*                                                                         *)
(* The clock is in minutes; a request takes less than one.  A code stands  *)
(* for its value: values do not collide.  Sending mail never fails, and    *)
(* how often a valid code is sent again is left out.  A refresh token      *)
(* lasts as long as a behaviour.  Other columns of the user's row are in   *)
(* Identity.                                                               *)
(*                                                                         *)
(* SpendNothing is a slip the properties are tried against.                *)
(***************************************************************************)
EXTENDS Naturals, Sequences

CONSTANTS
  Requests,   \* requests under way at the same time
  MaxCodes,   \* bound on the codes ever made
  CodeLife,   \* how long a code is valid (3 minutes)
  TokenLife,  \* how long an access token is (15 minutes)
  MaxCuts     \* bound on the crashes while a code is accepted and not marked

Parameters == {MaxCodes, CodeLife, TokenLife} \subseteq Nat \ {0} /\ MaxCuts \in Nat

Kinds == {"active-email", "reset-password", "internal-exchange", "bank-mutation"}

VARIABLES
  user,      \* the row: it exists, its e-mail address is active, it is blocked
  wallets,   \* how many times the default wallets were created
  codes,     \* user_codes
  request,   \* per request, where it is and what it has read
  access,    \* what is left of the access token in the browser
  refresh    \* the browser has a refresh token

vars == <<user, wallets, codes, request, access, refresh>>
session == <<access, refresh>>

\* uses and cut are history: how often a code was accepted, and how often the
\* process died between accepting it and marking it.
Code == [kind : Kinds, left : 0..CodeLife, alive : BOOLEAN, uses : Nat, cut : 0..MaxCuts]
Idle == [stage |-> "idle", kind |-> "active-email", code |-> 0, had |-> 0]

Init ==
  /\ user = [exists |-> FALSE, active |-> FALSE, blocked |-> FALSE]
  /\ wallets = 0 /\ codes = <<>> /\ request = [r \in Requests |-> Idle]
  /\ access = 0 /\ refresh = FALSE

At(r, stage) == request[r].stage = stage
Goes(r, stage) == request' = [request EXCEPT ![r].stage = stage]
Ends(r) == request' = [request EXCEPT ![r] = Idle]
Begins(r, stage, kind, c) ==
  /\ At(r, "idle")
  /\ request' = [request EXCEPT ![r] = [Idle EXCEPT !.stage = stage, !.kind = kind, !.code = c]]

-----------------------------------------------------------------------------
(* Signing up and in.                                                      *)

\* register saves the user; registerAndGenerateTokens then makes a code and
\* signs him in, whether there is a code or not.
Register(r) ==
  /\ ~user.exists
  /\ Begins(r, "insert", "active-email", 0)
  /\ user' = [user EXCEPT !.exists = TRUE]
  /\ UNCHANGED <<wallets, codes, session>>
NoCode(r) ==
  /\ At(r, "insert") /\ request[r].kind = "active-email" /\ Goes(r, "issue")
  /\ UNCHANGED <<user, wallets, codes, session>>

\* Google vouches for the address; the row is saved before a block is noticed.
\* A person it creates gets no wallets here.
LoginWithGoogle(r) ==
  /\ At(r, "idle")
  /\ user' = [user EXCEPT !.exists = TRUE, !.active = TRUE]
  /\ Goes(r, IF user.blocked THEN "idle" ELSE "issue")
  /\ UNCHANGED <<wallets, codes, session>>

\* By password, or with the refresh token of the browser.
Issuable(r)     == At(r, "idle") /\ user.exists /\ ~user.blocked
Login(r)        == Issuable(r) /\ Goes(r, "issue") /\ UNCHANGED <<user, wallets, codes, session>>
RefreshToken(r) == refresh /\ Login(r)

GenerateTokens(r) ==
  /\ At(r, "issue")
  /\ access' = TokenLife /\ refresh' = TRUE
  /\ Ends(r)
  /\ UNCHANGED <<user, wallets, codes>>

Logout == access' = 0 /\ refresh' = FALSE /\ UNCHANGED <<user, wallets, codes, request>>

\* BlockedUserMiddleware and JwtStrategy, on every request with a token; only
\* what activates the address is there before it is active.
SignedIn == access > 0 /\ ~user.blocked
Admitted == SignedIn /\ user.active

-----------------------------------------------------------------------------
(* Codes.                                                                  *)

Valid(c) == codes[c].alive /\ codes[c].left > 0

\* No code of this kind that lives is valid yet: a new one may be made.
Alive(kind) == {c \in DOMAIN codes : codes[c].kind = kind /\ codes[c].alive}
NoneValid(kind) == \A c \in Alive(kind) : (\A d \in Alive(kind) : d <= c) => ~Valid(c)

GenerateCodeVerifyEmail(r) ==
  /\ SignedIn /\ ~user.active /\ NoneValid("active-email")
  /\ Begins(r, "insert only", "active-email", 0)
  /\ UNCHANGED <<user, wallets, codes, session>>
ResetPassword(r) ==
  /\ user.exists /\ NoneValid("reset-password")
  /\ Begins(r, "insert only", "reset-password", 0)
  /\ UNCHANGED <<user, wallets, codes, session>>

\* The others end the codes of their kind that live.
Killed(kind) == [c \in DOMAIN codes |-> IF c \in Alive(kind) THEN [codes[c] EXCEPT !.alive = FALSE] ELSE codes[c]]
SendVerifyCode(r, kind) ==
  /\ Admitted /\ kind \in {"internal-exchange", "bank-mutation"}
  /\ Begins(r, "insert only", kind, 0)
  /\ codes' = Killed(kind)
  /\ UNCHANGED <<user, wallets, session>>

InsertCode(r) ==
  /\ At(r, "insert") \/ At(r, "insert only")
  /\ Len(codes) < MaxCodes
  /\ codes' = Append(codes, [kind |-> request[r].kind, left |-> CodeLife, alive |-> TRUE, uses |-> 0, cut |-> 0])
  /\ IF At(r, "insert") THEN Goes(r, "issue") ELSE Ends(r)
  /\ UNCHANGED <<user, wallets, session>>

\* An expired code that somebody tries is dead.
Dead(c) == [codes EXCEPT ![c].alive = FALSE]
TryExpired(r, c) ==
  /\ At(r, "idle") /\ codes[c].alive /\ ~Valid(c)
  /\ codes[c].kind = "active-email" => SignedIn /\ ~user.active
  /\ codes[c].kind \in {"internal-exchange", "bank-mutation"} => Admitted
  /\ codes' = Dead(c)
  /\ UNCHANGED <<user, wallets, request, session>>

\* verifyEmail, setNewPassword: the user is saved first, then the code.
VerifyEmail(r, c) ==
  /\ SignedIn /\ ~user.active
  /\ codes[c].kind = "active-email" /\ Valid(c) /\ Begins(r, "accept", "active-email", c)
  /\ UNCHANGED <<user, wallets, codes, session>>
SetNewPassword(r, c) ==
  /\ codes[c].kind = "reset-password" /\ Valid(c) /\ Begins(r, "accept", "reset-password", c)
  /\ UNCHANGED <<user, wallets, codes, session>>
Accept(r) ==
  /\ At(r, "accept")
  /\ IF request[r].kind = "active-email" THEN user' = [user EXCEPT !.active = TRUE] ELSE UNCHANGED user
  /\ codes' = [codes EXCEPT ![request[r].code].uses = @ + 1]
  /\ Goes(r, "spend")
  /\ UNCHANGED <<wallets, session>>
SpendNothing(c) == codes
Spent(c)        == Dead(c)
Spend(r) ==
  /\ At(r, "spend")
  /\ codes' = Spent(request[r].code)
  /\ IF request[r].kind = "active-email" THEN Goes(r, "look at wallets") ELSE Ends(r)
  /\ UNCHANGED <<user, wallets, session>>

\* createDefaultUserWallet: those that are missing.
LookAtWallets(r) ==
  /\ At(r, "look at wallets")
  /\ request' = [request EXCEPT ![r].stage = "create wallets", ![r].had = wallets]
  /\ UNCHANGED <<user, wallets, codes, session>>
CreateDefaultUserWallet(r) ==
  /\ At(r, "create wallets")
  /\ wallets' = IF request[r].had = 0 THEN wallets + 1 ELSE wallets
  /\ Ends(r)
  /\ UNCHANGED <<user, codes, session>>

\* A transfer or a change of accounts is let through once its code is dead.
VerifyCode(r, c) ==
  /\ Admitted /\ codes[c].kind \in {"internal-exchange", "bank-mutation"} /\ Valid(c)
  /\ Begins(r, "let through", codes[c].kind, c)
  /\ UNCHANGED <<user, wallets, codes, session>>
LetThrough(r) ==
  /\ At(r, "let through")
  /\ codes' = [Spent(request[r].code) EXCEPT ![request[r].code].uses = @ + 1]
  /\ Ends(r)
  /\ UNCHANGED <<user, wallets, session>>

-----------------------------------------------------------------------------
(* The administrator, the clock, and crashes.                              *)

SetBlocked(b) ==
  /\ user.exists /\ user.blocked # b
  /\ user' = [user EXCEPT !.blocked = b]
  /\ UNCHANGED <<wallets, codes, request, session>>

Less(n) == IF n = 0 THEN 0 ELSE n - 1
Tick ==
  /\ \A r \in Requests : At(r, "idle")
  /\ codes' = [c \in DOMAIN codes |-> [codes[c] EXCEPT !.left = Less(@)]]
  /\ access' = Less(access)
  /\ UNCHANGED <<user, wallets, request, refresh>>

Crash(r) ==
  /\ ~At(r, "idle") /\ Ends(r)
  /\ At(r, "spend") => codes[request[r].code].cut < MaxCuts
  /\ codes' = IF At(r, "spend") THEN [codes EXCEPT ![request[r].code].cut = @ + 1] ELSE codes
  /\ UNCHANGED <<user, wallets, session>>

Next ==
  \/ \E r \in Requests :
       \/ Register(r) \/ NoCode(r) \/ LoginWithGoogle(r) \/ Login(r) \/ RefreshToken(r) \/ GenerateTokens(r)
       \/ GenerateCodeVerifyEmail(r) \/ ResetPassword(r) \/ InsertCode(r)
       \/ \E k \in Kinds : SendVerifyCode(r, k)
       \/ \E c \in DOMAIN codes : TryExpired(r, c) \/ VerifyEmail(r, c) \/ SetNewPassword(r, c) \/ VerifyCode(r, c)
       \/ Accept(r) \/ Spend(r) \/ LookAtWallets(r) \/ CreateDefaultUserWallet(r) \/ LetThrough(r) \/ Crash(r)
  \/ Logout \/ Tick \/ \E b \in BOOLEAN : SetBlocked(b)
Spec == Init /\ [][Next]_vars

-----------------------------------------------------------------------------
TypeOK ==
  /\ user \in [exists : BOOLEAN, active : BOOLEAN, blocked : BOOLEAN]
  /\ wallets \in Nat /\ codes \in Seq(Code) /\ Len(codes) <= MaxCodes
  /\ \A r \in Requests : request[r].kind \in Kinds /\ request[r].code \in {0} \cup DOMAIN codes
  /\ access \in 0..TokenLife /\ refresh \in BOOLEAN

\* At most one code of a kind is valid; a code is accepted once, and a new
\* password once more for each time the process died before the code was
\* marked; the default wallets are created once.  (Two requests at the same
\* time break each of these.)
CodesKept ==
  /\ \A c, d \in DOMAIN codes : Valid(c) /\ Valid(d) /\ codes[c].kind = codes[d].kind => c = d
  /\ \A c \in DOMAIN codes :
       codes[c].uses <= IF codes[c].kind = "reset-password" THEN 1 + codes[c].cut ELSE 1
  /\ wallets <= 1

=============================================================================
