-------------------------- MODULE RampPolicyProofs --------------------------
(***************************************************************************)
(* Theorems about the ramp policy, for any amounts, rules and bounds: what *)
(* is proved of the ledger holds under it, and what a policy withheld is   *)
(* executed only after an operator's approval.                             *)
(***************************************************************************)
EXTENDS RampPolicy, RampLedgerProofs

(***************************************************************************)
(* The inductive invariant: where the policy row stands against its        *)
(* history, and what every evaluated transaction, created or still open,   *)
(* carries with it.                                                        *)
(***************************************************************************)
VersionsKept ==
  /\ config.version \in Nat \ {0}
  /\ DOMAIN history = 1..config.version
  /\ history[config.version] = config.rule

Explained(t) ==
  /\ quote[t].version \in 1..config.version
  /\ quote[t].outcome =
       Evaluate(history[quote[t].version], quote[t].amount, quote[t].prior)

PolicyInv ==
  /\ VersionsKept
  /\ DOMAIN quote = Tx
  /\ \A t \in open : t \in Tx /\ ~Exists(t)
  /\ \A t \in Tx : t \in open \/ Exists(t) => Explained(t)
  /\ \A t \in Tx : Exists(t) /\ approval[t] = "NOT_REQUIRED" =>
       quote[t].outcome = "AUTO_APPROVED"

\* evaluateRampPolicy returns one of the three outcomes.
LEMMA OutcomeType ==
  ASSUME NEW rule, NEW amount, NEW prior
  PROVE  Evaluate(rule, amount, prior) \in DOMAIN Verdict
  BY DEF Evaluate, Verdict

\* Before the first transaction the seeded rule is version 1 and nothing has
\* been evaluated.
LEMMA PolicyInitInv == PolicyInit => PolicyInv
  BY NoBackfill
  DEF PolicyInit, Init, PolicyInv, VersionsKept, Exists, Explained

\* After its creation no operation removes a row or sets approval_state back
\* to NOT_REQUIRED.
LEMMA ProgressKeeps ==
  ASSUME TypeOK, NEW t \in Tx, state[t] # "ABSENT", LedgerStep(t)
  PROVE  \A u \in Tx : /\ Exists(u)' <=> Exists(u)
                       /\ approval'[u] = "NOT_REQUIRED" =>
                            approval[u] = "NOT_REQUIRED"
<1> USE DEF Exists, TypeOK, Transition
<1>1. CASE \E outcome \in DOMAIN Verdict : CreateRampTransaction(t, outcome)
  BY <1>1 DEF CreateRampTransaction
<1>2. CASE \E status \in {"CONFIRMED", "REVIEW"} :
             Expected(t, status) /\ RecordProviderConfirmation(t, status)
  BY <1>2 DEF RecordProviderConfirmation, ConfirmedState
<1>3. CASE \E action \in Actions : DecideRampTransaction(t, action)
  BY <1>3 DEF DecideRampTransaction, DecidedState
<1>4. CASE \E key \in RetryKeys : RetryRampTransaction(t, key)
  BY <1>4 DEF RetryRampTransaction
<1>5. CASE \E key \in ExecutionKeys :
             Selected(t, key) /\ BeginRampExecution(t, key)
  BY <1>5 DEF BeginRampExecution
<1>6. CASE \E key \in ExecutionKeys, succeeded \in BOOLEAN :
             FinishRampExecution(t, key, succeeded)
  BY <1>6 DEF FinishRampExecution
<1>7. CASE StartDepositRow(t)
  BY <1>7 DEF StartDepositRow, WriteOnchain
<1>8. CASE ConfirmOfframpFundingRow(t)
  BY <1>8 DEF ConfirmOfframpFundingRow, WriteFunding
<1>9. CASE \E found \in {"AWAITING_FIAT", "COMPLETED"} : AdoptRequest(t, found)
  BY <1>9 DEF AdoptRequest, WriteOnchain
<1>10. CASE \E outcome \in {"COMPLETED", "REFUNDED"} : MarkSettled(t, outcome)
  BY <1>10 DEF MarkSettled, WriteOnchain
<1>11. CASE \E status \in {"PENDING", "SUCCESS", "FAILED"} :
              StorePayout(t, status)
  BY <1>11 DEF StorePayout, WritePayout
<1> QED
  BY <1>1, <1>2, <1>3, <1>4, <1>5, <1>6, <1>7, <1>8, <1>9, <1>10, <1>11
  DEF LedgerStep

\* Under the invariant every step here is a step of the ledger or leaves it
\* alone.
LEMMA PolicyStepIsLedgerStep ==
  ASSUME PolicyInv, [PolicyNext]_allVars
  PROVE  [Next]_vars
<1>1. CASE \E t \in Tx, amount \in Amounts : EvaluatePolicy(t, amount)
  BY <1>1 DEF EvaluatePolicy
<1>2. ASSUME NEW t \in Tx, CommitCreation(t) PROVE Next
  <2>1. quote[t].outcome \in DOMAIN Verdict
    BY <1>2, OutcomeType DEF CommitCreation, PolicyInv, Explained
  <2>2. CreateRampTransaction(t, quote[t].outcome)
    BY <1>2 DEF CommitCreation
  <2> QED
    BY <2>1, <2>2 DEF Next, LedgerStep
<1>3. CASE \E t \in Tx : RollBackCreation(t)
  BY <1>3 DEF RollBackCreation
<1>4. CASE \E t \in Tx : Progress(t)
  BY <1>4 DEF Progress, Next
<1>5. CASE \E rule \in Rules : UpdateRampPolicy(rule)
  BY <1>5 DEF UpdateRampPolicy
<1>6. CASE Tick
  BY <1>6 DEF Tick
<1>7. CASE UNCHANGED allVars
  BY <1>7 DEF allVars
<1> QED
  BY <1>1, <1>2, <1>3, <1>4, <1>5, <1>6, <1>7 DEF PolicyNext

----------------------------------------------------------------------------
(***************************************************************************)
(* One lemma per kind of step: it preserves the invariant.                 *)
(***************************************************************************)
\* createRampTransaction, up to its INSERT: the row in force is read, and the
\* decision recorded is the one that row gives.
LEMMA EvaluateKeeps ==
  ASSUME PolicyInv, NEW t \in Tx, NEW amount \in Amounts,
         EvaluatePolicy(t, amount)
  PROVE  PolicyInv'
<1>1. VersionsKept' /\ DOMAIN quote' = Tx
  BY DEF EvaluatePolicy, PolicyInv, VersionsKept
<1>2. \A u \in Tx : Exists(u)' <=> Exists(u)
  BY DEF EvaluatePolicy, vars, Exists
<1>3. \A u \in open' : u \in Tx /\ ~Exists(u)'
  BY <1>2 DEF EvaluatePolicy, PolicyInv, Exists
<1>4. Explained(t)'
  BY DEF EvaluatePolicy, PolicyInv, VersionsKept, Explained
<1>5. ASSUME NEW u \in Tx, u # t, u \in open' \/ Exists(u)'
      PROVE  Explained(u)'
  BY <1>2, <1>5 DEF EvaluatePolicy, PolicyInv, Explained
<1>6. ASSUME NEW u \in Tx, Exists(u)', approval'[u] = "NOT_REQUIRED"
      PROVE  quote'[u].outcome = "AUTO_APPROVED"
  BY <1>2, <1>6 DEF EvaluatePolicy, vars, PolicyInv, Exists
<1> QED
  BY <1>1, <1>3, <1>4, <1>5, <1>6 DEF PolicyInv

\* The COMMIT: the row gets the approval_state of its recorded outcome.
LEMMA CommitKeeps ==
  ASSUME PolicyInv, TypeOK, NEW t \in Tx, CommitCreation(t)
  PROVE  PolicyInv'
<1> USE DEF CommitCreation, CreateRampTransaction, Transition
<1>1. VersionsKept' /\ DOMAIN quote' = Tx
  BY DEF PolicyInv, VersionsKept
<1>2. \A u \in Tx : u # t => (Exists(u)' <=> Exists(u))
                             /\ approval'[u] = approval[u]
  BY DEF Exists, TypeOK
<1>3. \A u \in open' : u \in Tx /\ ~Exists(u)'
  BY <1>2 DEF PolicyInv
<1>4. ASSUME NEW u \in Tx, u \in open' \/ Exists(u)'
      PROVE  Explained(u)'
  <2>1. u \in open \/ Exists(u)
    BY <1>2, <1>4
  <2> QED
    BY <2>1 DEF PolicyInv, Explained
<1>5. ASSUME NEW u \in Tx, Exists(u)', approval'[u] = "NOT_REQUIRED"
      PROVE  quote'[u].outcome = "AUTO_APPROVED"
  <2>1. CASE u = t
    <3>1. quote[t].outcome \in DOMAIN Verdict
      BY OutcomeType DEF PolicyInv, Explained
    <3>2. approval'[t] = Verdict[quote[t].outcome].approval
      BY DEF TypeOK
    <3> QED
      BY <1>5, <2>1, <3>1, <3>2 DEF Verdict
  <2>2. CASE u # t
    BY <1>2, <1>5, <2>2 DEF PolicyInv
  <2> QED
    BY <2>1, <2>2
<1> QED
  BY <1>1, <1>3, <1>4, <1>5 DEF PolicyInv

\* A rolled-back creation leaves no row behind.
LEMMA RollBackKeeps ==
  ASSUME PolicyInv, NEW t \in Tx, RollBackCreation(t)
  PROVE  PolicyInv'
<1>1. VersionsKept' /\ DOMAIN quote' = Tx
  BY DEF RollBackCreation, PolicyInv, VersionsKept
<1>2. \A u \in Tx : (Exists(u)' <=> Exists(u)) /\ approval'[u] = approval[u]
  BY DEF RollBackCreation, vars, Exists
<1>3. \A u \in open' : u \in Tx /\ ~Exists(u)'
  BY <1>2 DEF RollBackCreation, PolicyInv
<1>4. ~Exists(t)' /\ t \notin open'
  BY <1>2 DEF RollBackCreation, PolicyInv
<1>5. ASSUME NEW u \in Tx, u # t
      PROVE  quote'[u] = quote[u] /\ (u \in open' => u \in open)
  BY <1>5 DEF RollBackCreation, PolicyInv
<1>6. ASSUME NEW u \in Tx, u \in open' \/ Exists(u)'
      PROVE  Explained(u)'
  BY <1>2, <1>4, <1>5, <1>6 DEF RollBackCreation, PolicyInv, Explained
<1>7. ASSUME NEW u \in Tx, Exists(u)', approval'[u] = "NOT_REQUIRED"
      PROVE  quote'[u].outcome = "AUTO_APPROVED"
  BY <1>2, <1>4, <1>5, <1>7 DEF PolicyInv
<1> QED
  BY <1>1, <1>3, <1>6, <1>7 DEF PolicyInv

\* updateRampPolicy adds a version and keeps the earlier ones, so every
\* recorded decision is still explained by the version it names.
LEMMA UpdateKeeps ==
  ASSUME PolicyInv, NEW rule \in Rules, UpdateRampPolicy(rule)
  PROVE  PolicyInv'
<1>1. VersionsKept' /\ DOMAIN quote' = Tx
  BY DEF UpdateRampPolicy, PolicyInv, VersionsKept
<1>2. \A u \in Tx : (Exists(u)' <=> Exists(u)) /\ approval'[u] = approval[u]
  BY DEF UpdateRampPolicy, vars, Exists
<1>3. ASSUME NEW u \in Tx, Explained(u) PROVE Explained(u)'
  <2>1. /\ quote[u].version \in 1..(config.version + 1)
        /\ history'[quote[u].version] = history[quote[u].version]
    BY <1>3 DEF UpdateRampPolicy, PolicyInv, VersionsKept, Explained
  <2> QED
    BY <1>3, <2>1 DEF UpdateRampPolicy, Explained
<1> QED
  BY <1>1, <1>2, <1>3 DEF UpdateRampPolicy, PolicyInv

\* Every step preserves the invariant.
LEMMA PolicyStepInv ==
  ASSUME PolicyInv, TypeOK, [PolicyNext]_allVars
  PROVE  PolicyInv'
<1>1. CASE \E t \in Tx, amount \in Amounts : EvaluatePolicy(t, amount)
  BY <1>1, EvaluateKeeps
<1>2. CASE \E t \in Tx : CommitCreation(t)
  BY <1>2, CommitKeeps
<1>3. CASE \E t \in Tx : RollBackCreation(t)
  BY <1>3, RollBackKeeps
<1>4. ASSUME NEW t \in Tx, Progress(t) PROVE PolicyInv'
  <2>1. \A u \in Tx : /\ Exists(u)' <=> Exists(u)
                      /\ approval'[u] = "NOT_REQUIRED" =>
                           approval[u] = "NOT_REQUIRED"
    BY <1>4, ProgressKeeps DEF Progress
  <2>2. UNCHANGED policyVars
    BY <1>4 DEF Progress
  <2> QED
    BY <2>1, <2>2 DEF policyVars, PolicyInv, VersionsKept, Explained
<1>5. CASE \E rule \in Rules : UpdateRampPolicy(rule)
  BY <1>5, UpdateKeeps
<1>6. CASE Tick
  BY <1>6 DEF Tick, vars, PolicyInv, VersionsKept, Explained, Exists
<1>7. CASE UNCHANGED allVars
  BY <1>7 DEF allVars, policyVars, vars, PolicyInv, VersionsKept, Explained,
              Exists
<1> QED
  BY <1>1, <1>2, <1>3, <1>4, <1>5, <1>6, <1>7 DEF PolicyNext

----------------------------------------------------------------------------
(***************************************************************************)
(* The theorems.                                                           *)
(***************************************************************************)
\* The invariant of the policy and the type invariant of the ledger.
THEOREM PolicyInductive == PolicySpec => [](PolicyInv /\ TypeOK)
<1>1. PolicyInit => PolicyInv /\ TypeOK
  BY PolicyInitInv, InitType DEF PolicyInit
<1>2. PolicyInv /\ TypeOK /\ [PolicyNext]_allVars => (PolicyInv /\ TypeOK)'
  <2> SUFFICES ASSUME PolicyInv, TypeOK, [PolicyNext]_allVars
               PROVE  PolicyInv' /\ TypeOK'
    OBVIOUS
  <2>1. [Next]_vars
    BY PolicyStepIsLedgerStep
  <2>2. TypeOK'
    <3>1. CASE Next
      BY <3>1, StepType DEF Next
    <3>2. CASE UNCHANGED vars
      BY <3>2 DEF vars, TypeOK
    <3> QED
      BY <2>1, <3>1, <3>2
  <2> QED
    BY <2>2, PolicyStepInv
<1> QED
  BY <1>1, <1>2, PTL DEF PolicySpec

\* The ledger under its policy is the ledger: whatever is proved of
\* RampLedger!Spec holds when outcomes come from a versioned policy.
THEOREM PolicyImplementsLedger == PolicySpec => Spec
<1>1. PolicyInit => Init
  BY DEF PolicyInit
<1>2. PolicyInv /\ [PolicyNext]_allVars => [Next]_vars
  BY PolicyStepIsLedgerStep
<1> QED
  BY <1>1, <1>2, PolicyInductive, PTL DEF PolicySpec, Spec

\* The version a row names still yields the outcome it was given.
THEOREM SpecDecisionExplained == PolicySpec => []DecisionExplained
<1>1. PolicyInv => DecisionExplained
  BY DEF PolicyInv, DecisionExplained, Explained
<1> QED
  BY <1>1, PolicyInductive, PTL

\* Creations under way were evaluated under the rule in force: updateRampPolicy
\* waits for them.
OpenCurrent == \A t \in open : quote[t].version = config.version

LEMMA OpenCurrentStep ==
  ASSUME PolicyInv, OpenCurrent, [PolicyNext]_allVars
  PROVE  OpenCurrent'
<1> USE DEF PolicyInv, OpenCurrent
<1>1. ASSUME NEW t \in Tx, NEW amount \in Amounts, EvaluatePolicy(t, amount) PROVE OpenCurrent'
  BY <1>1 DEF EvaluatePolicy
<1>2. ASSUME NEW t \in Tx, CommitCreation(t) PROVE OpenCurrent'
  BY <1>2 DEF CommitCreation
<1>3. ASSUME NEW t \in Tx, RollBackCreation(t) PROVE OpenCurrent'
  BY <1>3 DEF RollBackCreation
<1>4. CASE UNCHANGED policyVars
  BY <1>4 DEF policyVars
<1>5. ASSUME NEW rule \in Rules, UpdateRampPolicy(rule) PROVE OpenCurrent'
  BY <1>5 DEF UpdateRampPolicy
<1>6. CASE Tick
  BY <1>6 DEF Tick
<1> QED
  BY <1>1, <1>2, <1>3, <1>4, <1>5, <1>6 DEF PolicyNext, Progress, allVars

\* A transaction is created under the policy in force at its COMMIT: only a
\* commit makes a row exist, and the rule has not changed since it was read.
THEOREM SpecDecidedByPolicyInForce == PolicySpec => DecidedByPolicyInForce
<1> DEFINE InForce == \A t \in Tx : ~Exists(t) /\ Exists(t)' => quote[t].version = config.version
<1>1. PolicyInit => OpenCurrent
  BY DEF PolicyInit, OpenCurrent
<1>2. PolicyInv /\ OpenCurrent /\ [PolicyNext]_allVars => OpenCurrent'
  BY OpenCurrentStep
<1>3. PolicyInv /\ TypeOK /\ OpenCurrent /\ [PolicyNext]_allVars => [InForce]_allVars
  <2> SUFFICES ASSUME PolicyInv, TypeOK, OpenCurrent, PolicyNext,
                      NEW t \in Tx, ~Exists(t), Exists(t)'
               PROVE  quote[t].version = config.version
    OBVIOUS
  <2>1. ASSUME NEW u \in Tx, CommitCreation(u) PROVE t = u
    BY <2>1 DEF CommitCreation, CreateRampTransaction, Transition, Exists, TypeOK
  <2>2. ASSUME NEW u \in Tx, Progress(u) PROVE FALSE
    BY <2>2, ProgressKeeps DEF Progress
  <2>3. \E u \in Tx : CommitCreation(u)
    BY <2>2 DEF PolicyNext, EvaluatePolicy, RollBackCreation, UpdateRampPolicy, Tick, vars, Exists
  <2> QED
    BY <2>1, <2>3 DEF CommitCreation, OpenCurrent
<1> QED
  BY <1>1, <1>2, <1>3, PolicyInductive, PTL DEF PolicySpec, DecidedByPolicyInForce

\* What the policy withheld is executed only after an operator's approval: an
\* execution attempt is of a cleared row (the ledger's invariant), a row that
\* is cleared without an approval was AUTO_APPROVED, and that outcome rules
\* out each of the three reasons.
THEOREM SpecLargeNeedsOperator == PolicySpec => []LargeNeedsOperator
<1>1. IInv /\ PolicyInv => LargeNeedsOperator
  <2> SUFFICES ASSUME IInv, PolicyInv,
                      NEW k \in Keys, attempt[k] # NoAttempt,
                      decision[attempt[k].tx] # "APPROVE"
               PROVE  LET q == quote[attempt[k].tx]
                          rule == history[q.version]
                      IN ~(\/ ~rule.enabled
                           \/ q.amount > rule.manual
                           \/ rule.cumulative
                              /\ q.prior + q.amount > rule.threshold)
    BY DEF LargeNeedsOperator
  <2> DEFINE t == attempt[k].tx
             q == quote[t]
             rule == history[q.version]
  <2>1. t \in Tx /\ Cleared(t) /\ Exists(t)
    BY DEF IInv, Owned, ExecutionStates, Exists
  <2>2. approval[t] = "NOT_REQUIRED"
    BY <2>1 DEF IInv, Decided, Cleared
  <2>3. Evaluate(rule, q.amount, q.prior) = "AUTO_APPROVED"
    BY <2>1, <2>2 DEF PolicyInv, Explained
  <2>4. rule.enabled /\ Reasons(rule, q.amount, q.prior) = {}
    BY <2>3, Zenon DEF Evaluate
  <2> QED
    BY <2>4, Zenon DEF Reasons
<1> QED
  BY <1>1, PolicyImplementsLedger, PolicyInductive, Inductive, PTL
=============================================================================
