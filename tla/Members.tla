------------------------------ MODULE Members ------------------------------
(***************************************************************************)
(* The components that each look after one column or table of a user, side *)
(* by side: they share no state that their properties read, so that a      *)
(* behaviour is one of a single component, named by `which`, and the run   *)
(* checks every one of them.  Identity and BankAccounts are there twice,   *)
(* with handlers that overlap and for what holds when they take turns.     *)
(***************************************************************************)
EXTENDS Naturals

CONSTANTS
  Requests,                                         \* of a user, where they overlap
  Reviewers,                                        \* of levels and bank accounts
  Admins, NumRecords, Documents, Passwords, Secrets, Statuses, \* Identity
  WindowLen, MaxTime, MaxTrades,                    \* LevelUp
  NumListings, NumDeals, Amounts, Limit,            \* TradingLimits
  NumBanks, MaxBanks,                               \* BankAccounts
  MaxRegisters                                      \* Kol

VARIABLES
  which,
  row, records, held, draft, loaded, review, \* Identity
  member, trades, now, verdicts, stale,    \* LevelUp
  blocked, listings, deals, check, block,  \* TradingLimits
  banks, setting, request, bankReview,     \* BankAccounts
  kol, registers, toggle, healing, granted \* Kol

Id       == INSTANCE Identity WITH MixedSaves <- FALSE
IdInTurn == INSTANCE Identity WITH
  Requests <- {"r1"}, Admins <- {"a1"}, MixedSaves <- FALSE, Statuses <- {"active", "block"}

Levels       == INSTANCE LevelUp WITH StaleSaves <- TRUE, review <- verdicts, held <- stale
LevelsInTurn == INSTANCE LevelUp WITH
  Reviewers <- {"a1"}, StaleSaves <- FALSE, review <- verdicts, held <- stale

Limits == INSTANCE TradingLimits WITH Requests <- {"r1"}, Quiet <- TRUE

Bank       == INSTANCE BankAccounts WITH
  Admins <- Reviewers, Overlap <- TRUE, TwoVerdicts <- FALSE, review <- bankReview
BankInTurn == INSTANCE BankAccounts WITH
  Requests <- {"r1"}, Admins <- {"a1"}, Overlap <- FALSE, TwoVerdicts <- FALSE,
  NumBanks <- NumBanks + MaxBanks, review <- bankReview

Kols == INSTANCE Kol WITH Overlap <- FALSE

ASSUME MembersAssumption ==
  /\ Id!Parameters /\ IdInTurn!Parameters
  /\ Levels!Parameters /\ LevelsInTurn!Parameters /\ Limits!Parameters
  /\ Bank!Parameters /\ BankInTurn!Parameters /\ Kols!Parameters

identity == <<row, records, held, draft, loaded, review>>
levels   == <<member, trades, now, verdicts, stale>>
limits   == <<blocked, listings, deals, check, block>>
accounts == <<banks, setting, request, bankReview>>
kols     == <<kol, registers, toggle, healing, granted>>
vars     == <<which, identity, levels, limits, accounts, kols>>

Init ==
  /\ \/ which \in {"identity", "levels", "limits", "banks", "kol"}
        /\ Id!Init /\ Levels!Init /\ Bank!Init
     \/ which \in {"identity in turn", "levels in turn", "banks in turn"}
        /\ IdInTurn!Init /\ LevelsInTurn!Init /\ BankInTurn!Init
  /\ Limits!Init /\ Kols!Init

Next ==
  /\ UNCHANGED which
  /\ \/ /\ UNCHANGED <<levels, limits, accounts, kols>>
        /\ \/ which = "identity" /\ Id!Next
           \/ which = "identity in turn" /\ IdInTurn!Next
     \/ /\ UNCHANGED <<identity, limits, accounts, kols>>
        /\ \/ which = "levels" /\ Levels!Next
           \/ which = "levels in turn" /\ LevelsInTurn!Next
     \/ which = "limits" /\ Limits!Next /\ UNCHANGED <<identity, levels, accounts, kols>>
     \/ /\ UNCHANGED <<identity, levels, limits, kols>>
        /\ \/ which = "banks" /\ Bank!Next
           \/ which = "banks in turn" /\ BankInTurn!Next
     \/ which = "kol" /\ Kols!Next /\ UNCHANGED <<identity, levels, limits, accounts>>

\* The fairness of Identity, for the behaviours in which it runs.
Fairly(A) == which = "identity in turn" /\ A
Fairness ==
  /\ WF_identity(Fairly(IdInTurn!SaveStep("r1")))
  /\ WF_identity(Fairly(IdInTurn!SaveStep("a1")))
  /\ WF_identity(Fairly(IdInTurn!Review("a1")))
  /\ SF_identity(Fairly(IdInTurn!Heals(IdInTurn!SaveBegins("r1"), "r1")))
  /\ SF_identity(Fairly(IdInTurn!Heals(IdInTurn!SaveUser("r1"), "r1")))
  /\ SF_identity(Fairly(IdInTurn!AskStatus("r1")))

Spec == Init /\ [][Next]_vars /\ Fairness

-----------------------------------------------------------------------------
(* The properties, stated in the modules of the components.                *)

\* Every component keeps its types.
TypeOK ==
  CASE which = "identity"         -> Id!TypeOK
    [] which = "identity in turn" -> IdInTurn!TypeOK
    [] which = "levels"           -> Levels!TypeOK
    [] which = "levels in turn"   -> LevelsInTurn!TypeOK
    [] which = "limits"           -> Limits!TypeOK
    [] which = "banks"            -> Bank!TypeOK
    [] which = "banks in turn"    -> BankInTurn!TypeOK
    [] which = "kol"              -> Kols!TypeOK

\* Two-factor authentication is never on without a secret, as long as saves of the
\* row do not mix (user-security.service).
TwoFactorHasSecret == which = "identity" => Id!TwoFactorHasSecret
\* Documents are approved with a photo made for them, likewise (submitKycPaper,
\* updateKycStatus).
ApprovedAsProven   == which = "identity" => Id!ApprovedAsProven
\* An approved record verifies its user in the end (getKycStatus).
ApprovedIsVerified == which = "identity in turn" => IdInTurn!ApprovedIsVerified
\* No trade lifts a user twice (user-level-up.worker).
LevelIsEarned      == which = "levels" => Levels!LevelIsEarned
\* The daily job passes over no window with a trade that counts
\* (evaluateLevelUpForUser); verdicts on a flag are not part of it.
TradeCounts == [][which = "levels in turn" => LevelsInTurn!PassesNoneOver]_levels
\* What a user is buying stays within his level's limit (createTransaction).
BoughtWithinLimit  == which = "limits" => Limits!BoughtWithinLimit
\* A user whose trading is blocked has nothing left that trades (updateUserStatus).
BlockedIsOut       == which = "limits" => Limits!BlockedIsOut
\* A listing is paid to an approved account that exists, as long as no two
\* administrators decide on one new account (attachBankToOrderBook).
AttachedIsActive   == which = "banks" => Bank!AttachedIsActive
\* Repairing a half-written grant undoes no revocation (registerKol).
RevokedIsNotHealed == Kols!RevokedIsNotHealed

=============================================================================
