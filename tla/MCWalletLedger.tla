--------------------------- MODULE MCWalletLedger ---------------------------
(* Values of the constants of WalletLedger for model checking. *)
EXTENDS WalletLedger

\* One user may receive two coins, the other one.
TwoAndOne == <<2, 1>>

\* One coin of the deposits has to stay.
KeepOne == -1
=============================================================================
