-------------------------- MODULE TransferPromise --------------------------
(***************************************************************************)
(* What sending an amount on a chain promises its caller: the amount goes  *)
(* out once for every time the answer to a broadcast was lost, and once    *)
(* more.  A hash that was checked against a receipt stands for a payment.  *)
(***************************************************************************)
EXTENDS Naturals

VARIABLES
  checked, \* a hash is returned only with a receipt
  paid,    \* how many times the amount has gone out
  unseen,  \* how many broadcasts threw although the chain has the transaction
  result   \* what the caller got

vars == <<checked, paid, unseen, result>>

Init == checked \in BOOLEAN /\ paid = 0 /\ unseen = 0 /\ result = "none"

\* The amount goes out; the answer may be lost.
Pay ==
  /\ result = "none" /\ paid <= unseen
  /\ paid' = paid + 1
  /\ unseen' \in {unseen, unseen + 1}
  /\ UNCHANGED <<checked, result>>

\* The answer to a broadcast is lost, after it or with the payment made.
Unseen == result = "none" /\ paid > unseen /\ unseen' = unseen + 1 /\ UNCHANGED <<checked, paid, result>>

Return(r) ==
  /\ result = "none"
  /\ r = "hash" /\ checked => paid > unseen
  /\ result' = r
  /\ UNCHANGED <<checked, paid, unseen>>

Next == Pay \/ Unseen \/ \E r \in {"hash", "null", "error"} : Return(r)
Spec == Init /\ [][Next]_vars

=============================================================================
