----------------------------- MODULE RampPolicy -----------------------------
(***************************************************************************)
(* How a ramp transaction's outcome is reached: the versioned policy of a  *)
(* direction (ramp_policy_configs, ramp_policy_versions), its evaluation   *)
(* (policy.ts) against what the subject has already moved in the window,   *)
(* and the decision stored with the row.  The transactions here are those  *)
(* of one subject in one direction: policies of the two directions, and    *)
(* sums of two subjects, have nothing in common.                           *)
(*                                                                         *)
(* createRampTransaction holds the policy row FOR SHARE from reading it to *)
(* its COMMIT, so evaluation and insertion are two steps; creations of one *)
(* subject's two accounts interleave, an update of the policy waits.       *)
(*                                                                         *)
(* Every caller passes the USDC amount, so the amount that is unknown      *)
(* (manual approval, whatever the thresholds) does not occur.              *)
(***************************************************************************)
EXTENDS RampLedger, FiniteSetsExt

CONSTANTS
  Amounts,     \* USDC amounts
  Rules,       \* configurations operators may choose
  SeededRule,  \* the configuration migration 012 seeds as version 1
  MaxVersion,  \* bound on the policy's versions
  MaxTime      \* bound on the clock

ASSUME OneDirection == OnRamp = {} \/ OffRamp = {}
ASSUME NoBackfill == Legacy = {}
ASSUME AmountsPositive == Amounts \subseteq Nat \ {0}
ASSUME BoundsAreNat == MaxVersion \in Nat \ {0} /\ MaxTime \in Nat
ASSUME RulesWellFormed ==
  Rules \cup {SeededRule} \subseteq
    [enabled : BOOLEAN, manual : Nat, cumulative : BOOLEAN,
     threshold : Nat, window : Nat]

VARIABLES
  now,      \* the clock
  config,   \* ramp_policy_configs: the rule in force and its version
  history,  \* ramp_policy_versions.configuration, by version
  quote,    \* amount, time and policy decision of a transaction
  open      \* transactions evaluated whose creation has not committed

policyVars == <<now, config, history, quote, open>>
allVars == <<vars, policyVars>>

Time == 0..MaxTime
Versions == 1..MaxVersion
Outcomes == DOMAIN Verdict

NoQuote == [amount |-> 0, at |-> 0, version |-> 0, prior |-> 0,
            outcome |-> "NONE"]

PolicyTypeOK ==
  /\ TypeOK
  /\ now \in Time
  /\ config \in [rule : Rules \cup {SeededRule}, version : Versions]
  /\ DOMAIN history = 1..config.version
  /\ \A v \in DOMAIN history : history[v] \in Rules \cup {SeededRule}
  /\ quote \in [Tx -> [amount : Amounts \cup {0}, at : Time,
                       version : 0..MaxVersion, prior : Nat,
                       outcome : Outcomes \cup {"NONE"}]]
  /\ open \subseteq Tx

PolicyInit ==
  /\ Init
  /\ now = 0
  /\ config = [rule |-> SeededRule, version |-> 1]
  /\ history = [v \in {1} |-> SeededRule]
  /\ quote = [t \in Tx |-> NoQuote]
  /\ open = {}

----------------------------------------------------------------------------
(***************************************************************************)
(* evaluateRampPolicy.                                                     *)
(***************************************************************************)
\* Mutant of Reasons: a transaction that reaches the threshold alone.
ReasonsOfAmountOnly(rule, amount, prior) ==
  IF amount > rule.manual THEN {"AMOUNT_THRESHOLD_EXCEEDED"} ELSE {}

Reasons(rule, amount, prior) ==
  (IF amount > rule.manual THEN {"AMOUNT_THRESHOLD_EXCEEDED"} ELSE {})
  \cup (IF rule.cumulative /\ prior + amount > rule.threshold
        THEN {"CUMULATIVE_THRESHOLD_EXCEEDED"} ELSE {})

Evaluate(rule, amount, prior) ==
  IF ~rule.enabled THEN "BLOCKED"
  ELSE IF Reasons(rule, amount, prior) # {} THEN "MANUAL_APPROVAL"
  ELSE "AUTO_APPROVED"

\* WHERE state IN (...) OR provider_reference IS NOT NULL: a quote nobody has
\* paid yet is not in the sum.
Counted(t) ==
  \/ state[t] \in {"APPROVED", "PROCESSING", "COMPLETED"}
  \/ provider[t] # "NONE"

Amount(t) == quote[t].amount

Prior(rule) ==
  IF rule.cumulative
  THEN MapThenSumSet(Amount, {t \in Tx : Counted(t) /\ quote[t].at + rule.window > now})
  ELSE 0

----------------------------------------------------------------------------
(***************************************************************************)
(* createRampTransaction.                                                  *)
(***************************************************************************)
EvaluatePolicy(t, amount) ==
  /\ state[t] = "ABSENT"
  /\ t \notin open
  /\ quote' = [quote EXCEPT ![t] =
       [amount |-> amount, at |-> now, version |-> config.version,
        prior |-> Prior(config.rule),
        outcome |-> Evaluate(config.rule, amount, Prior(config.rule))]]
  /\ open' = open \cup {t}
  /\ UNCHANGED <<vars, now, config, history>>

CommitCreation(t) ==
  /\ t \in open
  /\ CreateRampTransaction(t, quote[t].outcome)
  /\ open' = open \ {t}
  /\ UNCHANGED <<now, config, history, quote>>

\* A later statement of the caller's transaction fails.
RollBackCreation(t) ==
  /\ t \in open
  /\ quote' = [quote EXCEPT ![t] = NoQuote]
  /\ open' = open \ {t}
  /\ UNCHANGED <<vars, now, config, history>>

(***************************************************************************)
(* updateRampPolicy, FOR UPDATE: waits for the creations under way.        *)
(***************************************************************************)
\* Mutant of UpdateRampPolicy: the policy row is not locked.
UpdateUnlocked(rule) ==
  /\ config.version < MaxVersion
  /\ config' = [rule |-> rule, version |-> config.version + 1]
  /\ history' = [v \in 1..(config.version + 1) |->
                   IF v = config.version + 1 THEN rule ELSE history[v]]
  /\ UNCHANGED <<vars, now, quote, open>>

\* Mutant of UpdateRampPolicy: the version in force is edited.
UpdateInPlace(rule) ==
  /\ config.version < MaxVersion
  /\ open = {}
  /\ config' = [rule |-> rule, version |-> config.version]
  /\ history' = [history EXCEPT ![config.version] = rule]
  /\ UNCHANGED <<vars, now, quote, open>>

UpdateRampPolicy(rule) ==
  /\ config.version < MaxVersion
  /\ open = {}
  /\ config' = [rule |-> rule, version |-> config.version + 1]
  /\ history' = [v \in 1..(config.version + 1) |->
                   IF v = config.version + 1 THEN rule ELSE history[v]]
  /\ UNCHANGED <<vars, now, quote, open>>

Tick ==
  /\ now < MaxTime
  /\ now' = now + 1
  /\ UNCHANGED <<vars, config, history, quote, open>>

\* Everything else that happens to a transaction that exists.
Progress(t) ==
  /\ state[t] # "ABSENT"
  /\ LedgerStep(t)
  /\ UNCHANGED policyVars

PolicyNext ==
  \/ \E t \in Tx :
       \/ \E amount \in Amounts : EvaluatePolicy(t, amount)
       \/ CommitCreation(t) \/ RollBackCreation(t) \/ Progress(t)
  \/ \E rule \in Rules : UpdateRampPolicy(rule)
  \/ Tick

PolicySpec == PolicyInit /\ [][PolicyNext]_allVars

----------------------------------------------------------------------------
(***************************************************************************)
(* Properties.                                                             *)
(***************************************************************************)
Exists(t) == state[t] # "ABSENT"

\* A transaction is created under the policy in force at its COMMIT: an
\* operator who has tightened a threshold, or disabled the direction, sees no
\* new transaction of the old policy afterwards (FOR SHARE against FOR UPDATE).
DecidedByPolicyInForce ==
  [][\A t \in Tx : ~Exists(t) /\ Exists(t)' =>
       quote[t].version = config.version]_allVars

\* "Each transaction stores the evaluated version and snapshot, so edits do
\* not alter an in-flight decision" (docs/internal/ramp-control.md:24): the
\* version a row names, its amount and the recorded prior volume still yield
\* the outcome it was given, whatever operators have changed since.
DecisionExplained ==
  \A t \in Tx : Exists(t) =>
    LET q == quote[t]
    IN q.outcome = Evaluate(history[q.version], q.amount, q.prior)

\* A transaction above the manual threshold of its policy, one that takes the
\* recorded volume above the cumulative threshold, and one of a disabled
\* direction, is executed only after an operator approved it, whatever
\* payments, reviews, retries and policy edits come in between.
LargeNeedsOperator ==
  \A k \in Keys : attempt[k] # NoAttempt =>
    LET t == attempt[k].tx
        q == quote[t]
        rule == history[q.version]
    IN (\/ ~rule.enabled
        \/ q.amount > rule.manual
        \/ rule.cumulative /\ q.prior + q.amount > rule.threshold)
         => decision[t] = "APPROVE"

(***************************************************************************)
(* What the documents and tests say and the code does not do.              *)
(***************************************************************************)
\* "can enforce rules such as more than 1,500 USDC per user within 24 hours"
\* (docs/internal/ramp-control.md:24): two transactions of one policy within
\* its window, cleared without an operator and executed, fit in the cumulative
\* threshold together.  Quotes count only once they are paid, so two that are
\* open at the same time do not see each other.
CumulativeEnforced ==
  \A t, u \in Tx :
    LET rule == history[quote[t].version]
    IN /\ t # u
       /\ Exists(t) /\ Exists(u)
       /\ quote[t].outcome = "AUTO_APPROVED" /\ quote[u].outcome = "AUTO_APPROVED"
       /\ quote[t].version = quote[u].version
       /\ rule.cumulative /\ quote[t].at + rule.window > quote[u].at
       /\ quote[t].at <= quote[u].at
       /\ state[t] = "COMPLETED" /\ state[u] = "COMPLETED"
       => Amount(t) + Amount(u) <= rule.threshold
=============================================================================
