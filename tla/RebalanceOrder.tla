--------------------------- MODULE RebalanceOrder ---------------------------
(***************************************************************************)
(* Opening a rebalancing order of the vault: POST /rebalancing/orders      *)
(* (ramp/routes.ts), createVaultRebalanceOrder (ramp/protocol.ts) and      *)
(* submitRampInvocation (ramp/soroban.ts).  A request has an idempotency   *)
(* key and, on chain, an order id of its own; a transaction that is        *)
(* neither found nor refused within two minutes may still be included.     *)
(* What the order asks for is not modelled.                                *)
(***************************************************************************)
EXTENDS Integers, FiniteSets

CONSTANTS
  Requests, Keys,
  MaxFaults,     \* bound on timeouts, failed statements and crashes
  None

ConstantsOK == MaxFaults \in Nat /\ None \notin Requests \cup Keys

VARIABLES
  row,      \* vault_rebalance_orders by key: state and request_id
  chain,    \* orders on chain, by the request that opened them
  flying,   \* submitted and neither included nor refused
  pc, key,  \* where a request is, and its key
  audited,  \* requests with an entry in audit_logs
  doubtful, \* requests that timed out, failed to write, or stopped
  faults

vars == <<row, chain, flying, pc, key, audited, doubtful, faults>>

Row(state, request) == [state |-> state, request |-> request]

TypeOK ==
  /\ row \in [Keys -> {Row(s, r) : s \in {"absent", "SUBMITTING", "FAILED"}, r \in Requests \cup {None}}
                       \cup {Row("OPEN", r) : r \in Requests}]
  /\ chain \subseteq Requests /\ flying \subseteq Requests
  /\ pc \in [Requests -> {"new", "insert", "prepare", "wait", "open", "audit", "fail", "over"}]
  /\ key \in [Requests -> Keys \cup {None}]
  /\ audited \subseteq Requests /\ doubtful \subseteq Requests
  /\ faults \in 0..MaxFaults

Init ==
  /\ row = [k \in Keys |-> Row("absent", None)]
  /\ chain = {} /\ flying = {}
  /\ pc = [r \in Requests |-> "new"] /\ key = [r \in Requests |-> None]
  /\ audited = {} /\ doubtful = {} /\ faults = 0

ToStep(r, step) == pc' = [pc EXCEPT ![r] = step]
Doubt(r) == faults < MaxFaults /\ faults' = faults + 1 /\ doubtful' = doubtful \cup {r}

----------------------------------------------------------------------------
\* SELECT by the key: a row is the answer, whatever its state.
Post(r, k) ==
  /\ pc[r] = "new"
  /\ key' = [key EXCEPT ![r] = k]
  /\ ToStep(r, IF row[k].state = "absent" THEN "insert" ELSE "over")
  /\ UNCHANGED <<row, chain, flying, audited, doubtful, faults>>

\* Mutant of InsertRow: idempotency_key is not UNIQUE.
InsertAnyway(r) ==
  /\ pc[r] = "insert"
  /\ row' = [row EXCEPT ![key[r]] = Row("SUBMITTING", None)]
  /\ ToStep(r, "prepare")
  /\ UNCHANGED <<chain, flying, key, audited, doubtful, faults>>

\* Of two requests with one key the second fails on the unique index.
InsertRow(r) ==
  /\ pc[r] = "insert"
  /\ IF row[key[r]].state = "absent"
     THEN row' = [row EXCEPT ![key[r]] = Row("SUBMITTING", None)] /\ ToStep(r, "prepare")
     ELSE UNCHANGED row /\ ToStep(r, "over")
  /\ UNCHANGED <<chain, flying, key, audited, doubtful, faults>>

\* The overview is read and the transaction prepared and sent, unless the vault
\* needs nothing, the amounts or the rate do not fit, or a call fails.
Submit(r) ==
  /\ pc[r] = "prepare"
  /\ \/ flying' = flying \cup {r} /\ ToStep(r, "wait")
     \/ UNCHANGED flying /\ ToStep(r, "fail")
  /\ UNCHANGED <<row, chain, key, audited, doubtful, faults>>

\* The chain includes the transaction or refuses it, whoever still waits.
Include(r) ==
  /\ r \in flying
  /\ flying' = flying \ {r}
  /\ chain' = chain \cup {r}
  /\ UNCHANGED <<row, pc, key, audited, doubtful, faults>>

Refuse(r) ==
  /\ r \in flying
  /\ flying' = flying \ {r}
  /\ UNCHANGED <<row, chain, pc, key, audited, doubtful, faults>>

\* getTransaction answers SUCCESS or FAILED.
LearnOutcome(r) ==
  /\ pc[r] = "wait" /\ r \notin flying
  /\ ToStep(r, IF r \in chain THEN "open" ELSE "fail")
  /\ UNCHANGED <<row, chain, flying, key, audited, doubtful, faults>>

\* The two minutes are over, or a poll throws.
GiveUp(r) ==
  /\ Doubt(r)
  /\ pc[r] = "wait"
  /\ ToStep(r, "fail")
  /\ UNCHANGED <<row, chain, flying, key, audited>>

OpenRow(r) ==
  /\ pc[r] = "open"
  /\ row' = [row EXCEPT ![key[r]] = Row("OPEN", r)]
  /\ ToStep(r, "audit")
  /\ UNCHANGED <<chain, flying, key, audited, doubtful, faults>>

Audit(r) ==
  /\ pc[r] = "audit"
  /\ audited' = audited \cup {r}
  /\ ToStep(r, "over")
  /\ UNCHANGED <<row, chain, flying, key, doubtful, faults>>

\* One of the two statements fails.
WriteFails(r) ==
  /\ Doubt(r)
  /\ pc[r] \in {"open", "audit"}
  /\ ToStep(r, "fail")
  /\ UNCHANGED <<row, chain, flying, key, audited>>

\* The catch block, also over OPEN; request_id stays.
FailRow(r) ==
  /\ pc[r] = "fail"
  /\ row' = [row EXCEPT ![key[r]] = Row("FAILED", row[key[r]].request)]
  /\ ToStep(r, "over")
  /\ UNCHANGED <<chain, flying, key, audited, doubtful, faults>>

\* The process stops, or the UPDATE of the catch block fails.
Stop(r) ==
  /\ Doubt(r)
  /\ pc[r] \notin {"new", "over"}
  /\ ToStep(r, "over")
  /\ UNCHANGED <<row, chain, flying, key, audited>>

Next == \E r \in Requests :
  \/ \E k \in Keys : Post(r, k)
  \/ InsertRow(r) \/ Submit(r) \/ Include(r) \/ Refuse(r) \/ LearnOutcome(r) \/ GiveUp(r)
  \/ OpenRow(r) \/ Audit(r) \/ WriteFails(r) \/ FailRow(r) \/ Stop(r)

Spec == Init /\ [][Next]_vars

----------------------------------------------------------------------------
OrdersOf(k) == {r \in chain \cup flying : key[r] = k}

\* "creates an idempotent ... order" (docs/internal/ramp-control.md:39): a key
\* opens one order at most.  What its row says is what is on chain (OPEN the
\* order of its request_id, FAILED or SUBMITTING none that is not being waited
\* for) unless the request timed out, failed to write or stopped: the order is
\* then open, or may still be, under a row that no operation looks at again.
OneOrderPerKey ==
  \A k \in Keys :
    /\ Cardinality(OrdersOf(k)) <= 1
    /\ row[k].state = "OPEN" => row[k].request \in chain
    /\ row[k].state # "OPEN" =>
         \A r \in OrdersOf(k) : pc[r] \in {"wait", "open"} \/ r \in doubtful
    /\ row[k].state = "SUBMITTING" =>
         \E r \in Requests : key[r] = k /\ (pc[r] # "over" \/ r \in doubtful)
=============================================================================
