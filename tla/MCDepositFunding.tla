-------------------------- MODULE MCDepositFunding --------------------------
(***************************************************************************)
(* TLC instances of deposit funding: the deposits of one account.          *)
(***************************************************************************)
EXTENDS DepositFunding
=============================================================================
