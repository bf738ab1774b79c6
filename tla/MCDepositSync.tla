--------------------------- MODULE MCDepositSync ---------------------------
(* Values of the constants of DepositSync for model checking. *)
EXTENDS DepositSync

\* When 2 is too little to sweep, no sum of transfers equals what a half-done
\* sweep leaves.
UnequalAmounts == <<4, 1>>

\* Every transfer has a transaction of its own ...
OwnHashes == <<1, 2>>
\* ... or the first two are of one.
SharedHash == <<1, 1, 3>>
SharedAmounts == <<2, 1, 1>>
=============================================================================
