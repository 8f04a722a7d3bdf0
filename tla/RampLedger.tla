----------------------------- MODULE RampLedger -----------------------------
(***************************************************************************)
(* The canonical ramp ledger: the rows of ramp_transactions, the approval  *)
(* actions, the execution attempts and the append-only event log, and the  *)
(* operations of ramp/service.ts on them.  Each operation runs in one      *)
(* PostgreSQL transaction that locks the row it changes (FOR UPDATE), so   *)
(* it is one action here.  A call that the code refuses, or answers from   *)
(* what is already recorded, changes nothing and is a stuttering step.     *)
(*                                                                         *)
(* The direct UPDATEs other components make to the same rows (the deposit  *)
(* and withdrawal handlers, the settlement worker) are actions too: their  *)
(* guards are what those callers have established when they write.         *)
(***************************************************************************)
EXTENDS Naturals

CONSTANTS
  OnRamp,        \* transactions with direction ON_RAMP
  OffRamp,       \* transactions with direction OFF_RAMP
  Legacy,        \* the on-ramp rows that migration 013 backfilled
  OperatorKeys,  \* Idempotency-Key headers operators send with a retry
  NoTx           \* no transaction: the owner of an attempt not yet inserted

Tx == OnRamp \cup OffRamp

ASSUME DirectionsDisjoint == OnRamp \cap OffRamp = {}
ASSUME LegacyIsOnRamp == Legacy \subseteq OnRamp
ASSUME NoTxIsNotTx == NoTx \notin Tx

VARIABLES
  state,        \* ramp_transactions.state, "ABSENT" before the row exists
  approval,     \* ramp_transactions.approval_state
  risk,         \* ramp_transactions.risk_state
  provider,     \* provider_status; "NONE" while provider_reference is NULL
  onchain,      \* onchain_state; "NULL" on backfilled rows, whose
                \* orchestrator_request_id is NULL as well
  completedAt,  \* ramp_transactions.completed_at IS NOT NULL
  decision,     \* the row of ramp_approval_actions, UNIQUE(transaction_id)
  attempt,      \* ramp_execution_attempts, by idempotency_key
  logged        \* to_state of the transaction's last event row

vars == <<state, approval, risk, provider, onchain, completedAt,
          decision, attempt, logged>>

(***************************************************************************)
(* The domains, as the CHECK constraints of migration 012 state them, less *)
(* the values no code writes (POLICY_CHECK, FLAGGED).                      *)
(***************************************************************************)
RampStates == {"CREATED", "PENDING_APPROVAL", "APPROVED", "PROCESSING",
               "COMPLETED", "FAILED", "REJECTED", "CANCELLED"}
ApprovalStates == {"NOT_REQUIRED", "PENDING", "APPROVED", "REJECTED"}
RiskStates == {"CLEAR", "REVIEW_REQUIRED", "BLOCKED"}
ProviderStates == {"NONE", "CONFIRMED", "REVIEW",
                   "PENDING", "SUCCESS", "FAILED"}
OnchainStates == {"NULL", "NOT_CREATED", "AWAITING_FIAT", "AWAITING_PAYOUT",
                  "COMPLETED", "REFUNDED"}
Actions == {"APPROVE", "REJECT"}
AttemptStates == {"NONE", "QUEUED", "PROCESSING", "SUCCEEDED", "FAILED"}

\* The worker derives one key per operation and transaction; an operator
\* brings a key of their own.
ExecutionKeys == {"CONFIRM_ONRAMP", "RECONCILE_ONRAMP", "PAYOUT"} \X Tx
RetryKeys == {"SETTLE"} \X OperatorKeys
Keys == ExecutionKeys \cup RetryKeys

NoAttempt == [tx |-> NoTx, state |-> "NONE"]

TypeOK ==
  /\ state \in [Tx -> RampStates \cup {"ABSENT"}]
  /\ approval \in [Tx -> ApprovalStates]
  /\ risk \in [Tx -> RiskStates]
  /\ provider \in [Tx -> ProviderStates]
  /\ onchain \in [Tx -> OnchainStates]
  /\ completedAt \in [Tx -> BOOLEAN]
  /\ decision \in [Tx -> Actions \cup {"NONE"}]
  /\ attempt \in [Keys -> [tx : Tx \cup {NoTx}, state : AttemptStates]]
  /\ logged \in [Tx -> RampStates \cup {"ABSENT"}]

----------------------------------------------------------------------------
(***************************************************************************)
(* Policy outcomes (policy.ts) and the rows migration 013 produced.        *)
(***************************************************************************)
Verdict ==
  [AUTO_APPROVED |->
     [state |-> "CREATED", approval |-> "NOT_REQUIRED", risk |-> "CLEAR"],
   MANUAL_APPROVAL |->
     [state |-> "PENDING_APPROVAL", approval |-> "PENDING",
      risk |-> "REVIEW_REQUIRED"],
   BLOCKED |->
     [state |-> "PENDING_APPROVAL", approval |-> "PENDING",
      risk |-> "BLOCKED"]]

\* CASE order of the backfill: an expired intent is cancelled whatever its
\* amount; a receipt under review or a large amount awaits an operator; a
\* received one is approved; anything else is still a quote or a reservation.
BackfilledRows ==
  [state : {"CANCELLED"}, approval : {"PENDING", "NOT_REQUIRED"},
   provider : {"NONE"}]
  \cup [state : {"PENDING_APPROVAL"}, approval : {"PENDING"},
        provider : {"NONE", "REVIEW", "CONFIRMED"}]
  \cup [state : {"APPROVED"}, approval : {"NOT_REQUIRED"},
        provider : {"CONFIRMED"}]
  \cup [state : {"CREATED"}, approval : {"NOT_REQUIRED"},
        provider : {"NONE"}]

Init ==
  \E old \in [Legacy -> BackfilledRows] :
    /\ state = [t \in Tx |-> IF t \in Legacy THEN old[t].state ELSE "ABSENT"]
    /\ approval = [t \in Tx |-> IF t \in Legacy THEN old[t].approval
                                ELSE "PENDING"]
    /\ risk = [t \in Tx |-> IF t \in Legacy /\ old[t].approval # "PENDING"
                            THEN "CLEAR" ELSE "REVIEW_REQUIRED"]
    /\ provider = [t \in Tx |-> IF t \in Legacy THEN old[t].provider
                                ELSE "NONE"]
    /\ onchain = [t \in Tx |-> IF t \in Legacy THEN "NULL"
                               ELSE "NOT_CREATED"]
    /\ completedAt = [t \in Tx |-> FALSE]
    /\ decision = [t \in Tx |-> "NONE"]
    /\ attempt = [k \in Keys |-> NoAttempt]
    /\ logged = state

\* A state change together with the event row it writes.
Transition(t, next) ==
  /\ state' = [state EXCEPT ![t] = next]
  /\ logged' = [logged EXCEPT ![t] = next]

----------------------------------------------------------------------------
(***************************************************************************)
(* Creation.  The outcome of the policy is an input here: RampPolicy       *)
(* models how it is reached.                                               *)
(***************************************************************************)
CreateRampTransaction(t, outcome) ==
  /\ state[t] = "ABSENT"
  /\ Transition(t, Verdict[outcome].state)
  /\ approval' = [approval EXCEPT ![t] = Verdict[outcome].approval]
  /\ risk' = [risk EXCEPT ![t] = Verdict[outcome].risk]
  /\ UNCHANGED <<provider, onchain, completedAt, decision, attempt>>

(***************************************************************************)
(* Provider confirmation of an on-ramp.  A second confirmation with the    *)
(* same reference changes nothing, one with another reference is refused.  *)
(***************************************************************************)
ConfirmedState(t) ==
  IF approval[t] = "PENDING" THEN "PENDING_APPROVAL"
  ELSE IF approval[t] = "REJECTED" THEN "REJECTED" ELSE "APPROVED"

\* Mutant of RecordProviderConfirmation: the event is forgotten.
ConfirmationWithoutEvent(t, status) ==
  /\ t \in OnRamp
  /\ state[t] # "ABSENT"
  /\ provider[t] = "NONE"
  /\ provider' = [provider EXCEPT ![t] = status]
  /\ state' = [state EXCEPT ![t] = IF status = "CONFIRMED" THEN ConfirmedState(t)
                                   ELSE "PENDING_APPROVAL"]
  /\ UNCHANGED <<approval, risk, onchain, completedAt, decision, attempt, logged>>

\* Mutant of RecordProviderConfirmation: a payment under review reopens the
\* approval.
ConfirmationReopening(t, status) ==
  /\ t \in OnRamp
  /\ state[t] # "ABSENT"
  /\ provider[t] = "NONE"
  /\ provider' = [provider EXCEPT ![t] = status]
  /\ Transition(t, "PENDING_APPROVAL")
  /\ approval' = [approval EXCEPT ![t] = "PENDING"]
  /\ risk' = [risk EXCEPT ![t] = "REVIEW_REQUIRED"]
  /\ UNCHANGED <<onchain, completedAt, decision, attempt>>

RecordProviderConfirmation(t, status) ==
  /\ t \in OnRamp
  /\ state[t] # "ABSENT"
  /\ provider[t] = "NONE"
  /\ provider' = [provider EXCEPT ![t] = status]
  /\ Transition(t, IF status = "CONFIRMED" THEN ConfirmedState(t)
                   ELSE "PENDING_APPROVAL")
  /\ risk' = [risk EXCEPT ![t] = IF status = "CONFIRMED" THEN @
                                 ELSE "REVIEW_REQUIRED"]
  /\ UNCHANGED <<approval, onchain, completedAt, decision, attempt>>

(***************************************************************************)
(* An operator's decision.  The handler writes the same word into state    *)
(* and approval_state, and CHECK(approval_state IN ...) then refuses       *)
(* "CREATED": approving a transaction that nobody has paid rolls back.     *)
(***************************************************************************)
ApprovalTransition(t, action) ==
  /\ state[t] = "PENDING_APPROVAL"
  /\ approval[t] = "PENDING"
  /\ decision[t] = "NONE"
  /\ action = "APPROVE" => risk[t] # "BLOCKED"

ExecutionReady(t) == provider[t] # "NONE" \/ onchain[t] = "AWAITING_PAYOUT"

DecidedState(t, action) ==
  IF action = "REJECT" THEN "REJECTED"
  ELSE IF ExecutionReady(t) THEN "APPROVED" ELSE "CREATED"

\* Mutant of DecideRampTransaction: the CHECK on approval_state is missing.
DecideUnchecked(t, action) ==
  /\ ApprovalTransition(t, action)
  /\ decision' = [decision EXCEPT ![t] = action]
  /\ Transition(t, DecidedState(t, action))
  /\ approval' = [approval EXCEPT ![t] = DecidedState(t, action)]
  /\ UNCHANGED <<risk, provider, onchain, completedAt, attempt>>

DecideRampTransaction(t, action) ==
  /\ ApprovalTransition(t, action)
  /\ DecidedState(t, action) \in ApprovalStates
  /\ decision' = [decision EXCEPT ![t] = action]
  /\ Transition(t, DecidedState(t, action))
  /\ approval' = [approval EXCEPT ![t] = DecidedState(t, action)]
  /\ risk' = [risk EXCEPT ![t] = IF action = "APPROVE" THEN "CLEAR"
                                 ELSE "BLOCKED"]
  /\ UNCHANGED <<provider, onchain, completedAt, attempt>>

(***************************************************************************)
(* Execution: retry, begin, finish.                                        *)
(***************************************************************************)
Cleared(t) == approval[t] \in {"NOT_REQUIRED", "APPROVED"}

\* Mutant of RetryAllowed: an execution that is still running may be retried.
RetryWhileRunning(t) ==
  /\ state[t] \in {"FAILED", "PROCESSING"}
  /\ approval[t] \notin {"PENDING", "REJECTED"}

RetryAllowed(t) ==
  /\ state[t] = "FAILED"
  /\ approval[t] \notin {"PENDING", "REJECTED"}

RetryRampTransaction(t, key) ==
  /\ key \in RetryKeys
  /\ attempt[key] = NoAttempt
  /\ RetryAllowed(t)
  /\ attempt' = [attempt EXCEPT ![key] = [tx |-> t, state |-> "QUEUED"]]
  /\ Transition(t, "APPROVED")
  /\ UNCHANGED <<approval, risk, provider, onchain, completedAt, decision>>

\* Mutant of BeginRampExecution: only the state is checked.
BeginUnapproved(t, key) ==
  /\ attempt[key] = NoAttempt
  /\ state[t] = "APPROVED"
  /\ attempt' = [attempt EXCEPT ![key] = [tx |-> t, state |-> "PROCESSING"]]
  /\ Transition(t, "PROCESSING")
  /\ UNCHANGED <<approval, risk, provider, onchain, completedAt, decision>>

BeginRampExecution(t, key) ==
  /\ attempt[key] = NoAttempt
  /\ state[t] = "APPROVED"
  /\ Cleared(t)
  /\ attempt' = [attempt EXCEPT ![key] = [tx |-> t, state |-> "PROCESSING"]]
  /\ Transition(t, "PROCESSING")
  /\ UNCHANGED <<approval, risk, provider, onchain, completedAt, decision>>

\* Mutant of FinishRampExecution: completed_at is left alone.
FinishWithoutStamp(t, key, succeeded) ==
  /\ attempt[key] = [tx |-> t, state |-> "PROCESSING"]
  /\ attempt' = [attempt EXCEPT ![key] =
       [tx |-> t, state |-> IF succeeded THEN "SUCCEEDED" ELSE "FAILED"]]
  /\ Transition(t, IF succeeded THEN "COMPLETED" ELSE "FAILED")
  /\ UNCHANGED <<approval, risk, provider, onchain, completedAt, decision>>

\* Mutant of FinishRampExecution: a late failure overrides a recorded success.
FinishAgain(t, key, succeeded) ==
  /\ attempt[key].tx = t
  /\ attempt[key].state \in {"PROCESSING", "SUCCEEDED"}
  /\ attempt' = [attempt EXCEPT ![key] =
       [tx |-> t, state |-> IF succeeded THEN "SUCCEEDED" ELSE "FAILED"]]
  /\ Transition(t, IF succeeded THEN "COMPLETED" ELSE "FAILED")
  /\ completedAt' = [completedAt EXCEPT ![t] = succeeded]
  /\ UNCHANGED <<approval, risk, provider, onchain, decision>>

FinishRampExecution(t, key, succeeded) ==
  /\ attempt[key].tx = t
  /\ attempt[key].state = "PROCESSING"
  /\ attempt' = [attempt EXCEPT ![key] =
       [tx |-> t, state |-> IF succeeded THEN "SUCCEEDED" ELSE "FAILED"]]
  /\ Transition(t, IF succeeded THEN "COMPLETED" ELSE "FAILED")
  /\ completedAt' = [completedAt EXCEPT ![t] = succeeded]
  /\ UNCHANGED <<approval, risk, provider, onchain, decision>>

(***************************************************************************)
(* What a caller of begin and finish gets.                                 *)
(***************************************************************************)
\* beginRampExecution returns the attempt that holds the key, whatever its
\* state, and the caller goes on; it throws when the row is not approved.
Begun(t, key) ==
  \/ BeginRampExecution(t, key)
  \/ attempt[key] # NoAttempt /\ UNCHANGED vars

Refused(t, key) ==
  /\ attempt[key] = NoAttempt
  /\ ~(state[t] = "APPROVED" /\ Cleared(t))
  /\ UNCHANGED vars

\* finishRampExecution returns the row when the attempt is already over.
Finished(t, key, succeeded) ==
  \/ FinishRampExecution(t, key, succeeded)
  \/ attempt[key].state # "PROCESSING" /\ UNCHANGED vars

----------------------------------------------------------------------------
(***************************************************************************)
(* Direct UPDATEs of the row by its other writers: WHERE id = $1, and no   *)
(* condition on what the row holds.                                        *)
(***************************************************************************)
WriteOnchain(t, next) ==
  /\ onchain' = [onchain EXCEPT ![t] = next]
  /\ UNCHANGED <<state, approval, risk, provider, completedAt,
                 decision, attempt, logged>>

\* confirmOfframpFunding: the new state looks at PENDING only, and no event
\* row is written.
WriteFunding(t) ==
  /\ onchain' = [onchain EXCEPT ![t] = "AWAITING_PAYOUT"]
  /\ state' = [state EXCEPT ![t] = IF approval[t] = "PENDING"
                                   THEN "PENDING_APPROVAL" ELSE "APPROVED"]
  /\ UNCHANGED <<approval, risk, provider, completedAt,
                 decision, attempt, logged>>

\* startOfframp; "PENDING" stands for both statuses that are not final.
WritePayout(t, status) ==
  /\ provider' = [provider EXCEPT ![t] = status]
  /\ UNCHANGED <<state, approval, risk, onchain, completedAt,
                 decision, attempt, logged>>

(***************************************************************************)
(* What those writers, and the callers of the operations above, have       *)
(* established when they write.  OnrampSettlement and OfframpSettlement    *)
(* model the writers themselves, without these guards, and show that they  *)
(* hold.                                                                   *)
(***************************************************************************)
\* reconcile files a payment of a quote, or of an expired intent, for review.
Expected(t, status) ==
  status = "CONFIRMED" => onchain[t] # "NOT_CREATED" /\ state[t] # "CANCELLED"

\* The request exists on chain.  startDeposit reads the row's metadata but
\* not its state, so a rejected transaction is started too.
StartDepositRow(t) ==
  /\ t \in OnRamp
  /\ state[t] # "ABSENT"
  /\ onchain[t] = "NOT_CREATED"
  /\ provider[t] = "NONE"
  /\ WriteOnchain(t, "AWAITING_FIAT")

\* The escrow is funded on chain.
ConfirmOfframpFundingRow(t) ==
  /\ t \in OffRamp
  /\ state[t] # "ABSENT"
  /\ onchain[t] = "NOT_CREATED"
  /\ WriteFunding(t)

\* recoverInterruptedOnramp: a backfilled row gets its request id.
AdoptRequest(t, found) ==
  /\ t \in Legacy
  /\ provider[t] = "CONFIRMED"
  /\ found = "COMPLETED" => attempt[<<"RECONCILE_ONRAMP", t>>] # NoAttempt
  /\ WriteOnchain(t, found)

\* completeOnramp and finishOfframp: the orchestrator accepted the outcome.
MarkSettled(t, outcome) ==
  /\ IF t \in OnRamp
     THEN /\ outcome = "COMPLETED"
          /\ attempt[<<"CONFIRM_ONRAMP", t>>] # NoAttempt
     ELSE attempt[<<"PAYOUT", t>>] # NoAttempt
  /\ WriteOnchain(t, outcome)

\* startOfframp: the payout exists at the provider.
StorePayout(t, status) ==
  /\ t \in OffRamp
  /\ attempt[<<"PAYOUT", t>>] # NoAttempt
  /\ WritePayout(t, status)

\* What the worker had read when it called beginRampExecution: the row's
\* provider_status for an on-ramp, the funded escrow for an off-ramp.
Selected(t, key) ==
  \/ /\ key = <<"CONFIRM_ONRAMP", t>>
     /\ t \in OnRamp
     /\ provider[t] = "CONFIRMED"
     /\ onchain[t] \notin {"NULL", "NOT_CREATED"}
  \/ /\ key = <<"RECONCILE_ONRAMP", t>>
     /\ t \in Legacy
     /\ provider[t] = "CONFIRMED"
  \/ /\ key = <<"PAYOUT", t>>
     /\ t \in OffRamp
     /\ onchain[t] # "NOT_CREATED"

----------------------------------------------------------------------------
LedgerStep(t) ==
  \/ \E outcome \in DOMAIN Verdict : CreateRampTransaction(t, outcome)
  \/ \E status \in {"CONFIRMED", "REVIEW"} :
       Expected(t, status) /\ RecordProviderConfirmation(t, status)
  \/ \E action \in Actions : DecideRampTransaction(t, action)
  \/ \E key \in RetryKeys : RetryRampTransaction(t, key)
  \/ \E key \in ExecutionKeys : Selected(t, key) /\ BeginRampExecution(t, key)
  \/ \E key \in ExecutionKeys, succeeded \in BOOLEAN :
       FinishRampExecution(t, key, succeeded)
  \/ StartDepositRow(t)
  \/ ConfirmOfframpFundingRow(t)
  \/ \E found \in {"AWAITING_FIAT", "COMPLETED"} : AdoptRequest(t, found)
  \/ \E outcome \in {"COMPLETED", "REFUNDED"} : MarkSettled(t, outcome)
  \/ \E status \in {"PENDING", "SUCCESS", "FAILED"} : StorePayout(t, status)

Next == \E t \in Tx : LedgerStep(t)

Spec == Init /\ [][Next]_vars

----------------------------------------------------------------------------
(***************************************************************************)
(* Properties.                                                             *)
(***************************************************************************)
AttemptsOf(t, s) == {k \in Keys : attempt[k] = [tx |-> t, state |-> s]}

\* Money moves only for a transaction that policy or an operator let through:
\* every execution attempt, queued, running or finished, belongs to a cleared
\* transaction, and a decision on record is the one the row shows.  Guards
\* beginRampExecution, retryRampTransaction and decideRampTransaction against
\* each other, whatever order operators, payments and the worker come in.
ExecutionCleared ==
  /\ \A k \in Keys : attempt[k] # NoAttempt => Cleared(attempt[k].tx)
  /\ \A t \in Tx :
       /\ decision[t] = "APPROVE" <=> approval[t] = "APPROVED"
       /\ decision[t] = "REJECT" <=> approval[t] = "REJECTED"

\* A row is PROCESSING exactly while one execution attempt of it is running,
\* and never two: a retry or a late payment cannot open a second execution
\* beside the first (beginRampExecution, finishRampExecution).
OneLiveAttempt ==
  \A t \in Tx :
    /\ state[t] = "PROCESSING" <=> AttemptsOf(t, "PROCESSING") # {}
    /\ \A k, l \in AttemptsOf(t, "PROCESSING") : k = l

\* A row is COMPLETED exactly when one attempt of it, and only one, succeeded,
\* and completed_at is set on exactly those rows, as the CHECK constraint of
\* migration 012 demands of every UPDATE.
CompletedOnce ==
  \A t \in Tx :
    /\ state[t] = "COMPLETED" <=> AttemptsOf(t, "SUCCEEDED") # {}
    /\ \A k, l \in AttemptsOf(t, "SUCCEEDED") : k = l
    /\ completedAt[t] <=> state[t] = "COMPLETED"

\* The event log of an on-ramp replays to the state of its row: no operation
\* on an on-ramp changes the state without an event.
OnrampLogComplete == \A t \in OnRamp : logged[t] = state[t]

\* "Approval has a single terminal record" (docs/internal/ramp-control.md:58):
\* once decided, neither the action nor approval_state changes again.
DecisionFinal ==
  [][\A t \in Tx : decision[t] # "NONE" =>
       decision'[t] = decision[t] /\ approval'[t] = approval[t]]_vars

\* The ledger keeps the promise of RampPromise: cleared or refused once, only
\* cleared transactions are claimed, a completed one is never claimed again.
Promise == INSTANCE RampPromise WITH
  cleared <- {t \in Tx : state[t] # "ABSENT" /\ Cleared(t)},
  refused <- {t \in Tx : approval[t] = "REJECTED"},
  executing <- {t \in Tx : state[t] = "PROCESSING"},
  done <- {t \in Tx : state[t] = "COMPLETED"}

KeepsPromise == Promise!PromiseSpec

(***************************************************************************)
(* What the documents and tests say and the code does not do.              *)
(***************************************************************************)
\* "rejection is terminal" (ramp/state.test.ts:4): a rejected transaction
\* stays REJECTED.  recordProviderConfirmation and confirmOfframpFunding
\* overwrite it.
RejectionTerminal ==
  [][\A t \in Tx : state[t] = "REJECTED" => state'[t] = "REJECTED"]_vars
=============================================================================
