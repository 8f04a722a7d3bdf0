------------------------- MODULE MCOfframpSettlement ------------------------
(***************************************************************************)
(* TLC instances of off-ramp settlement: withdrawals, one or two workers,  *)
(* an operator with a retry key.                                           *)
(***************************************************************************)
EXTENDS OfframpSettlement
=============================================================================
