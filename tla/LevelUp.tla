------------------------------ MODULE LevelUp ------------------------------
(***************************************************************************)
(* The level of one verified user: the daily job that looks for a large    *)
(* enough trade in every closed window, the flag an administrator reviews, *)
(* and handlers that save the whole row of the user as they read it.       *)
(*                                                                         *)
(* Time is counted in steps of which a window has WindowLen.  The job's    *)
(* cap of 500 windows per run is beyond the time modelled.                 *)
(*                                                                         *)
(* QualifiedAfterStart and RaisedInPlace are slips the properties are      *)
(* tried against.                                                          *)
(***************************************************************************)
EXTENDS Naturals, Sequences, FiniteSets

CONSTANTS
  WindowLen,   \* length of a window
  MaxTime,     \* bound on the time modelled
  MaxTrades,   \* bound on the trades of the user
  Reviewers,   \* administrators who may review at the same time
  StaleSaves   \* handlers of the user may save a row that was read earlier

Parameters == WindowLen \in Nat \ {0} /\ {MaxTime, MaxTrades} \subseteq Nat

VARIABLES
  member,  \* the user's row: ulevel, need_levelup, levelup_window_started_at
  trades,  \* the user's transactions
  now,     \* the time
  review,  \* per administrator, the verdict and the row it was reached on
  held     \* the row a handler of the user will save, or none

vars == <<member, trades, now, review, held>>

MaxLevel == 4
Member   == [level : 1..MaxLevel, need : BOOLEAN, window : 0..MaxTime]
Trade    == [at : 0..MaxTime, usd : {100, 1000}, executed : BOOLEAN]
NoReview == [verdict |-> "none", level |-> 1]
NoMember == [level |-> 1, need |-> FALSE, window |-> MaxTime + 1]

\* What a trade must be worth, and whether a level is given without a review.
Threshold(level)   == IF level = 1 THEN 100 ELSE 1000
AutoApprove(level) == level <= 2

-----------------------------------------------------------------------------
\* KYC approval opens the first window.
Init ==
  /\ member = [level |-> 1, need |-> FALSE, window |-> 0]
  /\ trades = <<>> /\ now = 0
  /\ review = [a \in Reviewers |-> NoReview]
  /\ held = NoMember

Tick == now < MaxTime /\ now' = now + 1 /\ UNCHANGED <<member, trades, review, held>>

CreateTrade ==
  \E usd \in {100, 1000} :
    /\ Len(trades) < MaxTrades
    /\ trades' = Append(trades, [at |-> now, usd |-> usd, executed |-> FALSE])
    /\ UNCHANGED <<member, now, review, held>>

ExecuteTrade(t) ==
  /\ ~trades[t].executed
  /\ trades' = [trades EXCEPT ![t].executed = TRUE]
  /\ UNCHANGED <<member, now, review, held>>

\* The trades that count for the window that starts at w.
QualifiedAfterStart(level, w) ==
  {t \in DOMAIN trades : /\ trades[t].executed /\ trades[t].usd >= Threshold(level)
                         /\ w < trades[t].at /\ trades[t].at < w + WindowLen}
Qualified(level, w) ==
  {t \in DOMAIN trades : /\ trades[t].executed /\ trades[t].usd >= Threshold(level)
                         /\ w <= trades[t].at /\ trades[t].at < w + WindowLen}

\* The windows that have closed since the row's, and the first of them with a
\* trade that counts.
Closed ==
  {w \in {member.window + k * WindowLen : k \in 0..now} : w + WindowLen <= now}
FirstQualified(w) ==
  w \in Closed /\ Qualified(member.level, w) # {}
    /\ \A v \in Closed : v < w => Qualified(member.level, v) = {}

RaisedInPlace(row) == [row EXCEPT !.level = @ + 1, !.need = FALSE]
Raised(row)        == [level |-> row.level + 1, need |-> FALSE, window |-> now]

\* The daily job, in one transaction that locks the row.
Flagged(row, w) == [row EXCEPT !.need = TRUE, !.window = w + WindowLen]
EvaluateLevelUp ==
  /\ ~member.need /\ Closed # {}
  /\ \/ \E w \in Closed :
          /\ FirstQualified(w)
          /\ member' = IF AutoApprove(member.level) THEN Raised(member) ELSE Flagged(member, w)
     \/ /\ \A w \in Closed : Qualified(member.level, w) = {}
        /\ \E w \in Closed : /\ \A v \in Closed : v <= w
                             /\ member' = [member EXCEPT !.window = w + WindowLen]
  /\ UNCHANGED <<trades, now, review, held>>

-----------------------------------------------------------------------------
\* reviewUserLevelUp reads the row ...
ReviewRead(a, verdict) ==
  /\ review[a] = NoReview /\ member.need
  /\ review' = [review EXCEPT ![a] = [verdict |-> verdict, level |-> member.level]]
  /\ UNCHANGED <<member, trades, now, held>>

\* ... and saves what it makes of it.
Reviewed(r) ==
  [level  |-> IF r.verdict = "approve" /\ r.level < MaxLevel THEN r.level + 1 ELSE r.level,
   need   |-> FALSE, window |-> now]
ReviewSave(a) ==
  /\ review[a] # NoReview
  /\ member' = Reviewed(review[a])
  /\ review' = [review EXCEPT ![a] = NoReview]
  /\ UNCHANGED <<trades, now, held>>

\* A handler of the user (see Identity) saves the whole row as it read it.
HoldRow ==
  StaleSaves /\ held = NoMember /\ held' = member /\ UNCHANGED <<member, trades, now, review>>
SaveRow ==
  held # NoMember /\ member' = held /\ held' = NoMember /\ UNCHANGED <<trades, now, review>>

Next ==
  \/ Tick \/ CreateTrade \/ (\E t \in DOMAIN trades : ExecuteTrade(t))
  \/ EvaluateLevelUp
  \/ \E a \in Reviewers : (\E v \in {"approve", "reject"} : ReviewRead(a, v)) \/ ReviewSave(a)
  \/ HoldRow \/ SaveRow
Spec == Init /\ [][Next]_vars

-----------------------------------------------------------------------------
(* Properties.                                                             *)

TypeOK ==
  /\ member \in Member /\ now \in 0..MaxTime
  /\ trades \in Seq(Trade) /\ Len(trades) <= MaxTrades
  /\ review \in [Reviewers -> [verdict : {"none", "approve", "reject"}, level : 1..MaxLevel]]
  /\ held \in Member \cup {NoMember}

Executed(usd) == {t \in DOMAIN trades : trades[t].executed /\ trades[t].usd >= usd}

\* A level is earned by a trade of its own: the same trade never lifts a user
\* twice, through the job, reviews that race and rows saved late.
LevelIsEarned ==
  /\ member.level <= 1 + Cardinality(Executed(100))
  /\ member.level <= 2 + Cardinality(Executed(1000))

\* The daily job, however late it evaluates a window, never passes over one that
\* holds an executed trade of the size asked for without lifting the user or
\* flagging him for review.  (A trade executed after its window was evaluated
\* counts for none.)  It says nothing of verdicts: they are passed on a flag that
\* is up, and set the window to now (admins-users-ops.service.ts:487), which
\* passes over what was executed between the flag and the verdict.  Checked with
\* one administrator and no late saves: a second verdict would open a new window
\* when the flag is down.
Countable(t) ==
  /\ ~member.need /\ trades[t].executed /\ trades[t].usd >= Threshold(member.level)
  /\ trades[t].at >= member.window
PassesNoneOver ==
  \A t \in DOMAIN trades :
    Countable(t) /\ member'.window > trades[t].at => member'.level > member.level \/ member'.need
TradeCounts == [][PassesNoneOver]_vars

=============================================================================
