---------------------------- MODULE MCRampPolicy ----------------------------
(***************************************************************************)
(* TLC instances of the ramp policy.  Amount 1 is below, 2 above the       *)
(* manual threshold that is seeded; the cumulative rule lets either pass   *)
(* alone, and 2 not together with anything else.                           *)
(***************************************************************************)
EXTENDS RampPolicy

Seeded == [enabled |-> TRUE, manual |-> 1, cumulative |-> FALSE,
           threshold |-> 0, window |-> 0]
Cumulative == [enabled |-> TRUE, manual |-> 2, cumulative |-> TRUE,
               threshold |-> 2, window |-> 1]
Disabled == [Seeded EXCEPT !.enabled = FALSE]

RuleChoices == {Cumulative, Disabled}
=============================================================================
