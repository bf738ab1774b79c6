-------------------------------- MODULE Kol --------------------------------
(***************************************************************************)
(* Whether a user is a KOL: his requests in kol_registers, the flag ukol   *)
(* of his row, and the administrator who grants and revokes it row by row. *)
(*                                                                         *)
(* RevokeFlagFirst is a slip the property is tried against.                *)
(***************************************************************************)
EXTENDS Naturals, Sequences

CONSTANTS
  MaxRegisters,  \* bound on the requests of the user
  Overlap        \* a request may begin while another handler is under way

Parameters == MaxRegisters \in Nat

VARIABLES
  kol,        \* ukol
  registers,  \* kr_status of his requests
  toggle,     \* what the administrator's update has yet to write
  healing,    \* a request of the user is about to save ukol = true
  granted     \* history: the last decision written, or half-written, made him a KOL

vars == <<kol, registers, toggle, healing, granted>>

Is(s) == \E i \in DOMAIN registers : registers[i] = s

Init == kol = FALSE /\ registers = <<>> /\ toggle = <<>> /\ healing = FALSE /\ granted = FALSE

\* registerKol: a request that was approved makes the flag true; otherwise,
\* unless one is pending, a new one is inserted.
RegisterKol ==
  /\ ~kol /\ ~healing /\ (toggle = <<>> \/ Overlap)
  /\ IF Is("success")
     THEN healing' = TRUE /\ UNCHANGED registers
     ELSE /\ ~Is("pending") /\ Len(registers) < MaxRegisters
          /\ registers' = Append(registers, "pending")
          /\ UNCHANGED healing
  /\ UNCHANGED <<kol, toggle, granted>>
SaveKol ==
  healing /\ kol' = TRUE /\ healing' = FALSE /\ UNCHANGED <<registers, toggle, granted>>

\* toggleUserKol updates the requests of one status after the other, then the flag.
Grant           == << <<"pending", "success">>, <<"flag", "TRUE">> >>
RevokeFlagFirst == << <<"flag", "FALSE">>, <<"success", "fail">>, <<"pending", "fail">> >>
Revoke          == << <<"success", "fail">>, <<"pending", "fail">>, <<"flag", "FALSE">> >>
ToggleUserKol(grant) ==
  /\ toggle = <<>> /\ (~healing \/ Overlap)
  /\ toggle' = IF grant THEN Grant ELSE Revoke
  /\ UNCHANGED <<kol, registers, healing, granted>>
ToggleUpdate ==
  /\ toggle # <<>>
  /\ LET from == Head(toggle)[1]
         to   == Head(toggle)[2]
     IN IF from = "flag"
        THEN kol' = (to = "TRUE") /\ UNCHANGED registers
        ELSE /\ registers' = [i \in DOMAIN registers |-> IF registers[i] = from THEN to ELSE registers[i]]
             /\ UNCHANGED kol
  /\ granted' = (toggle[Len(toggle)][2] = "TRUE")
  /\ toggle' = Tail(toggle)
  /\ UNCHANGED healing

\* The process dies, or a statement throws: what is left is not done.
Crash ==
  /\ toggle # <<>> \/ healing
  /\ toggle' = <<>> /\ healing' = FALSE
  /\ UNCHANGED <<kol, registers, granted>>

Next ==
  \/ RegisterKol \/ SaveKol \/ (\E grant \in BOOLEAN : ToggleUserKol(grant)) \/ ToggleUpdate \/ Crash
Spec == Init /\ [][Next]_vars

-----------------------------------------------------------------------------
TypeOK ==
  /\ {kol, healing, granted} \subseteq BOOLEAN
  /\ registers \in Seq({"pending", "success", "fail"}) /\ Len(registers) <= MaxRegisters
  /\ Len(toggle) <= 3

\* The repair of a half-written grant never undoes a revocation, half-written
\* or not: nobody becomes a KOL after the last decision was to revoke it.
\* (A request that found the approved row before the revocation does: checked
\* for handlers that take turns.)
RevokedIsNotHealed == [][~kol /\ kol' => granted]_vars

=============================================================================
