---------------------------- MODULE MCRampLedger ----------------------------
(***************************************************************************)
(* TLC instances of the ramp ledger: a deposit of today, one backfilled by *)
(* migration 013, a withdrawal, and an operator with a retry key.          *)
(***************************************************************************)
EXTENDS RampLedger
=============================================================================
