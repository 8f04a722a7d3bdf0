------------------------- MODULE MCOnrampSettlement -------------------------
(***************************************************************************)
(* TLC instances of on-ramp settlement: a deposit made today and one that  *)
(* migration 013 backfilled, one or two workers, an operator with a key.   *)
(***************************************************************************)
EXTENDS OnrampSettlement
=============================================================================
