---------------------------- MODULE RampPromise ----------------------------
(***************************************************************************)
(* What the ramp ledger promises its readers, with no tables, keys or      *)
(* events: a transaction is cleared or refused once, only a cleared one is *)
(* ever executed, one execution runs at a time, and a completed            *)
(* transaction is never executed again.  RampLedger implements this.       *)
(***************************************************************************)
CONSTANT Tx

VARIABLES
  cleared,    \* policy or an operator allowed the transaction to execute
  refused,    \* an operator rejected it
  executing,  \* an execution attempt holds it
  done        \* it was executed

promiseVars == <<cleared, refused, executing, done>>

\* Rows migrated from the time before the ledger may already be cleared.
PromiseInit ==
  /\ cleared \subseteq Tx
  /\ refused = {}
  /\ executing = {}
  /\ done = {}

Clear(t) ==
  /\ t \notin cleared \cup refused
  /\ cleared' = cleared \cup {t}
  /\ UNCHANGED <<refused, executing, done>>

Refuse(t) ==
  /\ t \notin cleared \cup refused
  /\ refused' = refused \cup {t}
  /\ UNCHANGED <<cleared, executing, done>>

Claim(t) ==
  /\ t \in cleared \ (executing \cup done)
  /\ executing' = executing \cup {t}
  /\ UNCHANGED <<cleared, refused, done>>

Settle(t) ==
  /\ t \in executing
  /\ executing' = executing \ {t}
  /\ done' = done \cup {t}
  /\ UNCHANGED <<cleared, refused>>

Abandon(t) ==
  /\ t \in executing
  /\ executing' = executing \ {t}
  /\ UNCHANGED <<cleared, refused, done>>

PromiseNext ==
  \E t \in Tx : Clear(t) \/ Refuse(t) \/ Claim(t) \/ Settle(t) \/ Abandon(t)

PromiseSpec == PromiseInit /\ [][PromiseNext]_promiseVars
=============================================================================
