-------------------------------- MODULE Sums --------------------------------
(***************************************************************************)
(* Finite sums over 1..n, written with a recursive function of partial     *)
(* sums so that TLC evaluates them and TLAPS can reason about them.        *)
(***************************************************************************)
EXTENDS Integers

\* f[1] + ... + f[n].
Total(f, n) ==
  LET partial[i \in 0..n] == IF i = 0 THEN 0 ELSE partial[i - 1] + f[i]
  IN  partial[n]

=============================================================================
