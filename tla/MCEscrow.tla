------------------------------ MODULE MCEscrow ------------------------------
(* Values of the constants of Escrow for model checking. *)
EXTENDS EscrowProperties

AnyPart   == {[min |-> 4, max |-> 8]}
TwoBounds == {[min |-> 4, max |-> 8], [min |-> 8, max |-> 8]}

\* In quarters: at BothFees a listing of 8 locks 12 and half of it settles for
\* 6, at LowFees for 5; no product is rounded.  The smartref fee is never 0:
\* an unset or zero setting counts as 0.5 %.
LowFees   == [transaction |-> 0, smartref |-> 1]
BothFees  == [transaction |-> 1, smartref |-> 1]
FixedFees == {BothFees}
FeesRise  == {LowFees, BothFees}
=============================================================================
