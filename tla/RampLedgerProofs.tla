-------------------------- MODULE RampLedgerProofs --------------------------
(***************************************************************************)
(* Theorems about the ramp ledger, for any set of transactions and keys.   *)
(***************************************************************************)
EXTENDS RampLedger, TLAPS

USE DirectionsDisjoint, LegacyIsOnRamp, NoTxIsNotTx

(***************************************************************************)
(* Type correctness.                                                       *)
(***************************************************************************)
\* New rows and backfilled ones start within those domains.
LEMMA InitType == Init => TypeOK
  BY DEF Init, TypeOK, BackfilledRows, RampStates, ApprovalStates, RiskStates,
     ProviderStates, OnchainStates, AttemptStates, NoAttempt

\* Every operation of ramp/service.ts, and every direct UPDATE of the row,
\* leaves each column within the CHECK constraints of migration 012.
LEMMA StepType ==
  ASSUME TypeOK, NEW t \in Tx, LedgerStep(t)
  PROVE  TypeOK'
<1> USE DEF TypeOK, RampStates, ApprovalStates, RiskStates, ProviderStates,
            OnchainStates, AttemptStates, Actions
<1>1. CASE \E outcome \in DOMAIN Verdict : CreateRampTransaction(t, outcome)
  BY <1>1 DEF CreateRampTransaction, Transition, Verdict
<1>2. CASE \E status \in {"CONFIRMED", "REVIEW"} :
             Expected(t, status) /\ RecordProviderConfirmation(t, status)
  BY <1>2 DEF RecordProviderConfirmation, Transition, ConfirmedState
<1>3. CASE \E action \in Actions : DecideRampTransaction(t, action)
  BY <1>3 DEF DecideRampTransaction, Transition, DecidedState
<1>4. CASE \E key \in RetryKeys : RetryRampTransaction(t, key)
  BY <1>4 DEF RetryRampTransaction, Transition, Keys
<1>5. CASE \E key \in ExecutionKeys :
             Selected(t, key) /\ BeginRampExecution(t, key)
  BY <1>5 DEF BeginRampExecution, Transition, Keys
<1>6. CASE \E key \in ExecutionKeys, succeeded \in BOOLEAN :
             FinishRampExecution(t, key, succeeded)
  BY <1>6 DEF FinishRampExecution, Transition, Keys
<1>7. CASE StartDepositRow(t)
  BY <1>7 DEF StartDepositRow, WriteOnchain
<1>8. CASE ConfirmOfframpFundingRow(t)
  BY <1>8 DEF ConfirmOfframpFundingRow, WriteFunding
<1>9. CASE \E found \in {"AWAITING_FIAT", "COMPLETED"} : AdoptRequest(t, found)
  BY <1>9 DEF AdoptRequest, WriteOnchain
<1>10. CASE \E outcome \in {"COMPLETED", "REFUNDED"} : MarkSettled(t, outcome)
  BY <1>10 DEF MarkSettled, WriteOnchain
<1>11. CASE \E status \in {"PENDING", "SUCCESS", "FAILED"} :
              StorePayout(t, status)
  BY <1>11 DEF StorePayout, WritePayout
<1> QED
  BY <1>1, <1>2, <1>3, <1>4, <1>5, <1>6, <1>7, <1>8, <1>9, <1>10, <1>11
  DEF LedgerStep

\* Every reachable ledger state satisfies TypeOK.
THEOREM TypeCorrect == Spec => []TypeOK
<1>1. TypeOK /\ [Next]_vars => TypeOK'
  <2> SUFFICES ASSUME TypeOK, [Next]_vars PROVE TypeOK'
    OBVIOUS
  <2>1. CASE Next
    BY <2>1, StepType DEF Next
  <2>2. CASE UNCHANGED vars
    BY <2>2 DEF vars, TypeOK
  <2> QED
    BY <2>1, <2>2
<1> QED
  BY <1>1, InitType, PTL DEF Spec

----------------------------------------------------------------------------
(***************************************************************************)
(* The inductive invariant.  ExecutionCleared, OneLiveAttempt and          *)
(* CompletedOnce speak of attempts and rows; what makes them inductive is  *)
(* where a row that has attempts can be: it has been paid or escrowed, so  *)
(* no first payment can arrive and move it, and it is in one of the four   *)
(* execution states, so no operator can decide it.                         *)
(***************************************************************************)
Funded(t) == IF t \in OnRamp THEN provider[t] # "NONE"
                             ELSE onchain[t] # "NOT_CREATED"

ExecutionStates == {"APPROVED", "PROCESSING", "COMPLETED", "FAILED"}

Owned ==
  \A k \in Keys : attempt[k] # NoAttempt =>
    /\ attempt[k].tx \in Tx
    /\ attempt[k].state # "NONE"
    /\ Cleared(attempt[k].tx)
    /\ Funded(attempt[k].tx)
    /\ state[attempt[k].tx] \in ExecutionStates

Claimed ==
  \A t \in Tx : state[t] \in {"PROCESSING", "COMPLETED", "FAILED"} =>
    Cleared(t) /\ Funded(t)

Decided ==
  \A t \in Tx :
    /\ decision[t] = "APPROVE" <=> approval[t] = "APPROVED"
    /\ decision[t] = "REJECT" <=> approval[t] = "REJECTED"
    /\ state[t] = "ABSENT" => decision[t] = "NONE"

Holds(k, t, s) == attempt[k] = [tx |-> t, state |-> s]

Live ==
  /\ \A k \in Keys, t \in Tx :
       Holds(k, t, "PROCESSING") => state[t] = "PROCESSING"
  /\ \A t \in Tx : state[t] = "PROCESSING" =>
       \E k \in Keys : Holds(k, t, "PROCESSING")
  /\ \A k, l \in Keys, t \in Tx :
       Holds(k, t, "PROCESSING") /\ Holds(l, t, "PROCESSING") => k = l

Done ==
  /\ \A k \in Keys, t \in Tx :
       Holds(k, t, "SUCCEEDED") => state[t] = "COMPLETED"
  /\ \A t \in Tx : state[t] = "COMPLETED" =>
       \E k \in Keys : Holds(k, t, "SUCCEEDED")
  /\ \A k, l \in Keys, t \in Tx :
       Holds(k, t, "SUCCEEDED") /\ Holds(l, t, "SUCCEEDED") => k = l
  /\ \A t \in Tx : completedAt[t] <=> state[t] = "COMPLETED"

IInv == /\ TypeOK /\ Owned /\ Claimed /\ Decided /\ Live /\ Done
        /\ OnrampLogComplete

\* No row has an attempt, a decision or a completion before the first step.
LEMMA InitIInv == Init => IInv
<1> SUFFICES ASSUME Init PROVE IInv
  OBVIOUS
<1>1. TypeOK
  BY InitType
<1>2. \A k \in Keys : attempt[k] = NoAttempt
  BY DEF Init
<1>3. \A t \in Tx : state[t] \notin {"PROCESSING", "COMPLETED", "FAILED"}
  BY DEF Init, BackfilledRows
<1>4. Owned /\ Claimed
  BY <1>2, <1>3 DEF Owned, Claimed
<1>5. Decided
  BY DEF Init, BackfilledRows, Decided
<1>6. Live /\ Done
  BY <1>2, <1>3 DEF Live, Done, Holds, NoAttempt, Init
<1>7. OnrampLogComplete
  BY DEF Init, OnrampLogComplete, Tx
<1> QED
  BY <1>1, <1>4, <1>5, <1>6, <1>7 DEF IInv

\* A step that leaves the attempts alone and moves a row only among the
\* states an unexecuted transaction can be in preserves Live and Done.
LEMMA QuietStep ==
  ASSUME IInv, NEW t \in Tx, TypeOK',
         UNCHANGED <<attempt, completedAt>>,
         \A u \in Tx : u # t => state'[u] = state[u],
         \/ state'[t] = state[t]
         \/ /\ \A k \in Keys : attempt[k].tx # t
            /\ {state[t], state'[t]} \cap {"PROCESSING", "COMPLETED"} = {}
  PROVE  Live' /\ Done'
<1> USE DEF IInv, TypeOK, Holds
<1>1. CASE state'[t] = state[t]
  <2>1. \A u \in Tx : state'[u] = state[u]
    BY <1>1
  <2> QED
    BY <2>1 DEF Live, Done
<1>2. CASE /\ \A k \in Keys : attempt[k].tx # t
           /\ {state[t], state'[t]} \cap {"PROCESSING", "COMPLETED"} = {}
  <2>1. \A k \in Keys, u \in Tx, s \in AttemptStates :
          Holds(k, u, s) => u # t
    BY <1>2
  <2>2. state[t] \notin {"PROCESSING", "COMPLETED"}
        /\ state'[t] \notin {"PROCESSING", "COMPLETED"}
    BY <1>2
  <2>3. Live'
    BY <2>1, <2>2 DEF Live, AttemptStates
  <2>4. Done'
    BY <2>1, <2>2 DEF Done, AttemptStates
  <2> QED
    BY <2>3, <2>4
<1> QED
  BY <1>1, <1>2

\* No attempt belongs to a row outside the execution states, or to one that
\* has not been paid or escrowed.
LEMMA Unattempted ==
  ASSUME IInv, NEW t \in Tx, state[t] \notin ExecutionStates \/ ~Funded(t)
  PROVE  \A k \in Keys : attempt[k].tx # t
<1> SUFFICES ASSUME NEW k \in Keys, attempt[k].tx = t PROVE FALSE
  OBVIOUS
<1>1. attempt[k] # NoAttempt
  BY DEF NoAttempt
<1> QED
  BY <1>1 DEF IInv, Owned

----------------------------------------------------------------------------
(***************************************************************************)
(* One lemma per operation: it preserves the invariant.                    *)
(***************************************************************************)
\* createRampTransaction: the new row has no attempt, so only its verdict and
\* its first event matter.
LEMMA CreateIInv ==
  ASSUME IInv, NEW t \in Tx, NEW outcome \in DOMAIN Verdict,
         CreateRampTransaction(t, outcome)
  PROVE  IInv'
<1> USE DEF CreateRampTransaction, Transition, Verdict
<1>1. TypeOK'
  BY StepType DEF LedgerStep, IInv
<1>2. \A k \in Keys : attempt[k].tx # t
  BY Unattempted DEF ExecutionStates
<1>3. state'[t] \in {"CREATED", "PENDING_APPROVAL"}
  BY DEF IInv, TypeOK
<1>4. \A u \in Tx : u # t => state'[u] = state[u] /\ approval'[u] = approval[u]
  BY DEF IInv, TypeOK
<1>5. Owned'
  BY <1>2, <1>4 DEF IInv, Owned, NoAttempt, Cleared, Funded
<1>6. Claimed'
  BY <1>3, <1>4 DEF IInv, Claimed, Cleared, Funded
<1>7. Decided'
  <2>1. decision'[t] = "NONE" /\ approval'[t] \in {"NOT_REQUIRED", "PENDING"}
    BY DEF IInv, Decided, TypeOK
  <2> QED
    BY <1>4, <2>1 DEF IInv, Decided
<1>8. Live' /\ Done'
  BY <1>1, <1>2, <1>3, <1>4, QuietStep
<1>9. OnrampLogComplete'
  BY DEF IInv, OnrampLogComplete, TypeOK, Tx
<1> QED
  BY <1>1, <1>5, <1>6, <1>7, <1>8, <1>9 DEF IInv

\* recordProviderConfirmation: the row was not paid, hence has no attempt, and
\* moves among the states before execution.
LEMMA ConfirmIInv ==
  ASSUME IInv, NEW t \in Tx, NEW status \in {"CONFIRMED", "REVIEW"},
         Expected(t, status), RecordProviderConfirmation(t, status)
  PROVE  IInv'
<1> USE DEF RecordProviderConfirmation, Transition
<1>1. TypeOK'
  BY StepType DEF LedgerStep, IInv
<1>2. \A k \in Keys : attempt[k].tx # t
  BY Unattempted DEF Funded
<1>3. state[t] \notin {"PROCESSING", "COMPLETED", "FAILED"}
  BY DEF IInv, Claimed, Funded
<1>4. state'[t] \in {"PENDING_APPROVAL", "REJECTED", "APPROVED"}
  BY DEF IInv, TypeOK, ConfirmedState
<1>5. \A u \in Tx : u # t => state'[u] = state[u] /\ provider'[u] = provider[u]
  BY DEF IInv, TypeOK
<1>6. Owned'
  BY <1>2, <1>5 DEF IInv, Owned, NoAttempt, Cleared, Funded
<1>7. Claimed'
  BY <1>4, <1>5 DEF IInv, Claimed, Cleared, Funded
<1>8. Decided'
  BY <1>4, <1>5 DEF IInv, Decided
<1>9. Live' /\ Done'
  BY <1>1, <1>2, <1>3, <1>4, <1>5, QuietStep
<1>10. OnrampLogComplete'
  BY DEF IInv, OnrampLogComplete, TypeOK, Tx
<1> QED
  BY <1>1, <1>6, <1>7, <1>8, <1>9, <1>10 DEF IInv

\* decideRampTransaction: a row that is decided was PENDING, hence has no
\* attempt; action, approval_state and state agree afterwards.
LEMMA DecideIInv ==
  ASSUME IInv, NEW t \in Tx, NEW action \in Actions,
         DecideRampTransaction(t, action)
  PROVE  IInv'
<1> USE DEF DecideRampTransaction, ApprovalTransition, Transition
<1>1. TypeOK'
  BY StepType DEF LedgerStep, IInv
<1>2. \A k \in Keys : attempt[k].tx # t
  BY Unattempted DEF ExecutionStates
<1>3. \/ action = "APPROVE" /\ DecidedState(t, action) = "APPROVED"
      \/ action = "REJECT" /\ DecidedState(t, action) = "REJECTED"
  BY DEF DecidedState, ApprovalStates, Actions
<1>4. state'[t] \in {"APPROVED", "REJECTED"}
  BY <1>3 DEF IInv, TypeOK
<1>5. \A u \in Tx : u # t => /\ state'[u] = state[u]
                             /\ approval'[u] = approval[u]
                             /\ decision'[u] = decision[u]
  BY DEF IInv, TypeOK
<1>6. Owned'
  BY <1>2, <1>5 DEF IInv, Owned, NoAttempt, Cleared, Funded
<1>7. Claimed'
  BY <1>4, <1>5 DEF IInv, Claimed, Cleared, Funded
<1>8. Decided'
  <2>1. decision'[t] = action /\ approval'[t] = DecidedState(t, action)
    BY DEF IInv, TypeOK
  <2> QED
    BY <1>3, <1>4, <1>5, <2>1 DEF IInv, Decided
<1>9. Live' /\ Done'
  BY <1>1, <1>2, <1>4, <1>5, QuietStep
<1>10. OnrampLogComplete'
  BY DEF IInv, OnrampLogComplete, TypeOK, Tx
<1> QED
  BY <1>1, <1>6, <1>7, <1>8, <1>9, <1>10 DEF IInv

\* retryRampTransaction: a FAILED row has no running and no successful attempt,
\* and the queued one is neither.
LEMMA RetryIInv ==
  ASSUME IInv, NEW t \in Tx, NEW key \in RetryKeys,
         RetryRampTransaction(t, key)
  PROVE  IInv'
<1> USE DEF RetryRampTransaction, RetryAllowed, Transition
<1>1. TypeOK'
  BY StepType DEF LedgerStep, IInv
<1>2. key \in Keys /\ Cleared(t) /\ Funded(t)
  BY DEF IInv, Claimed, Keys
<1>3. attempt'[key] = [tx |-> t, state |-> "QUEUED"] /\ state'[t] = "APPROVED"
  BY <1>2 DEF IInv, TypeOK
<1>4. /\ \A k \in Keys : k # key => attempt'[k] = attempt[k]
      /\ \A u \in Tx : u # t => state'[u] = state[u]
  BY DEF IInv, TypeOK
<1>5. Owned'
  BY <1>2, <1>3, <1>4
  DEF IInv, Owned, Cleared, Funded, ExecutionStates, NoAttempt
<1>6. Claimed' /\ Decided'
  BY <1>3, <1>4 DEF IInv, Claimed, Decided, Cleared, Funded
<1>7. \A k \in Keys : ~Holds(k, t, "PROCESSING") /\ ~Holds(k, t, "SUCCEEDED")
  BY DEF IInv, Live, Done
<1>8. \A k \in Keys, u \in Tx, s \in {"PROCESSING", "SUCCEEDED"} :
        Holds(k, u, s)' <=> Holds(k, u, s)
  BY <1>3, <1>4 DEF Holds, NoAttempt
<1>9. Live' /\ Done'
  BY <1>3, <1>4, <1>7, <1>8 DEF IInv, Live, Done
<1>10. OnrampLogComplete'
  BY DEF IInv, OnrampLogComplete, TypeOK, Tx
<1> QED
  BY <1>1, <1>5, <1>6, <1>9, <1>10 DEF IInv

\* beginRampExecution: an APPROVED row has no running attempt, so the new one
\* is the only one.
LEMMA BeginIInv ==
  ASSUME IInv, NEW t \in Tx, NEW key \in ExecutionKeys,
         Selected(t, key), BeginRampExecution(t, key)
  PROVE  IInv'
<1> USE DEF BeginRampExecution, Transition
<1>1. TypeOK'
  BY StepType DEF LedgerStep, IInv
<1>2. key \in Keys /\ Funded(t)
  BY DEF Keys, Selected, Funded
<1>3. /\ attempt'[key] = [tx |-> t, state |-> "PROCESSING"]
      /\ state'[t] = "PROCESSING"
  BY <1>2 DEF IInv, TypeOK
<1>4. /\ \A k \in Keys : k # key => attempt'[k] = attempt[k]
      /\ \A u \in Tx : u # t => state'[u] = state[u]
  BY DEF IInv, TypeOK
<1>5. Owned'
  BY <1>2, <1>3, <1>4
  DEF IInv, Owned, Cleared, Funded, ExecutionStates, NoAttempt
<1>6. Claimed' /\ Decided'
  BY <1>2, <1>3, <1>4 DEF IInv, Claimed, Decided, Cleared, Funded
<1>7. \A k \in Keys : ~Holds(k, t, "PROCESSING") /\ ~Holds(k, t, "SUCCEEDED")
  BY DEF IInv, Live, Done
<1>8. /\ Holds(key, t, "PROCESSING")'
      /\ \A k \in Keys, u \in Tx : Holds(k, u, "SUCCEEDED")' <=>
                                   Holds(k, u, "SUCCEEDED")
      /\ \A k \in Keys, u \in Tx : k # key =>
           (Holds(k, u, "PROCESSING")' <=> Holds(k, u, "PROCESSING"))
      /\ \A u \in Tx : u # t => ~Holds(key, u, "PROCESSING")'
      /\ \A u \in Tx : ~Holds(key, u, "PROCESSING")
  BY <1>3, <1>4 DEF Holds, NoAttempt
<1>9. Live'
  BY <1>2, <1>3, <1>4, <1>7, <1>8 DEF IInv, Live
<1>10. Done'
  BY <1>3, <1>4, <1>7, <1>8 DEF IInv, Done
<1>11. OnrampLogComplete'
  BY DEF IInv, OnrampLogComplete, TypeOK, Tx
<1> QED
  BY <1>1, <1>5, <1>6, <1>9, <1>10, <1>11 DEF IInv

\* finishRampExecution: the attempt that ends is the only running one, and no
\* other has succeeded.
LEMMA FinishIInv ==
  ASSUME IInv, NEW t \in Tx, NEW key \in ExecutionKeys,
         NEW succeeded \in BOOLEAN, FinishRampExecution(t, key, succeeded)
  PROVE  IInv'
<1> USE DEF FinishRampExecution, Transition
<1> DEFINE outcome == IF succeeded THEN "SUCCEEDED" ELSE "FAILED"
<1>1. TypeOK'
  BY StepType DEF LedgerStep, IInv
<1>2. key \in Keys /\ Holds(key, t, "PROCESSING") /\ state[t] = "PROCESSING"
  <2>1. key \in Keys
    BY DEF Keys
  <2>2. Holds(key, t, "PROCESSING")
    BY <2>1 DEF Holds, IInv, TypeOK
  <2> QED
    BY <2>1, <2>2 DEF IInv, Live
<1>3. /\ attempt'[key] = [tx |-> t, state |-> outcome]
      /\ state'[t] = IF succeeded THEN "COMPLETED" ELSE "FAILED"
      /\ completedAt'[t] = succeeded
  BY <1>2 DEF IInv, TypeOK
<1>4. /\ \A k \in Keys : k # key => attempt'[k] = attempt[k]
      /\ \A u \in Tx : u # t => /\ state'[u] = state[u]
                                /\ completedAt'[u] = completedAt[u]
  BY DEF IInv, TypeOK
<1>5. Cleared(t) /\ Funded(t)
  BY <1>2 DEF IInv, Claimed
<1>6. Owned'
  BY <1>3, <1>4, <1>5
  DEF IInv, Owned, Cleared, Funded, ExecutionStates, NoAttempt
<1>7. Claimed' /\ Decided'
  BY <1>3, <1>4, <1>5 DEF IInv, Claimed, Decided, Cleared, Funded
<1>8. \A k \in Keys : ~Holds(k, t, "SUCCEEDED")
  BY <1>2 DEF IInv, Done
<1>9. /\ \A k \in Keys, u \in Tx : u # t =>
           /\ Holds(k, u, "PROCESSING")' <=> Holds(k, u, "PROCESSING")
           /\ Holds(k, u, "SUCCEEDED")' <=> Holds(k, u, "SUCCEEDED")
      /\ \A k \in Keys : k # key =>
           /\ Holds(k, t, "PROCESSING")' <=> Holds(k, t, "PROCESSING")
           /\ ~Holds(k, t, "SUCCEEDED")'
      /\ Holds(key, t, "SUCCEEDED")' <=> succeeded
      /\ ~Holds(key, t, "PROCESSING")'
  BY <1>2, <1>3, <1>4, <1>8 DEF Holds
<1>10. \A k \in Keys : ~Holds(k, t, "PROCESSING")'
  BY <1>2, <1>9 DEF IInv, Live
<1>11. Live'
  BY <1>3, <1>4, <1>9, <1>10 DEF IInv, Live
<1>12. Done'
  BY <1>2, <1>3, <1>4, <1>9 DEF IInv, Done
<1>13. OnrampLogComplete'
  BY DEF IInv, OnrampLogComplete, TypeOK, Tx
<1> QED
  BY <1>1, <1>6, <1>7, <1>11, <1>12, <1>13 DEF IInv

\* The direct UPDATEs.  Only confirmOfframpFunding moves the state, and it
\* finds an escrow that was not funded, hence a row without attempts.
LEMMA FundingIInv ==
  ASSUME IInv, NEW t \in Tx, ConfirmOfframpFundingRow(t)
  PROVE  IInv'
<1> USE DEF ConfirmOfframpFundingRow, WriteFunding
<1>1. TypeOK'
  BY StepType DEF LedgerStep, IInv
<1>2. t \notin OnRamp /\ ~Funded(t)
  BY DEF Funded
<1>3. \A k \in Keys : attempt[k].tx # t
  BY <1>2, Unattempted
<1>4. state[t] \notin {"PROCESSING", "COMPLETED", "FAILED"}
  BY <1>2 DEF IInv, Claimed
<1>5. state'[t] \in {"PENDING_APPROVAL", "APPROVED"}
  BY DEF IInv, TypeOK
<1>6. \A u \in Tx : u # t => state'[u] = state[u] /\ onchain'[u] = onchain[u]
  BY DEF IInv, TypeOK
<1>7. Owned'
  BY <1>3, <1>6 DEF IInv, Owned, NoAttempt, Cleared, Funded
<1>8. Claimed'
  BY <1>5, <1>6 DEF IInv, Claimed, Cleared, Funded
<1>9. Decided'
  BY <1>5, <1>6 DEF IInv, Decided
<1>10. Live' /\ Done'
  BY <1>1, <1>3, <1>4, <1>5, <1>6, QuietStep
<1>11. OnrampLogComplete'
  BY <1>2, <1>6 DEF IInv, OnrampLogComplete, TypeOK, Tx
<1> QED
  BY <1>1, <1>7, <1>8, <1>9, <1>10, <1>11 DEF IInv

\* A write to onchain_state or to the payout's reference and status that keeps
\* a funded row funded disturbs nothing else.
LEMMA ColumnWrite ==
  ASSUME IInv, TypeOK',
         UNCHANGED <<state, approval, completedAt, decision, attempt, logged>>,
         \A u \in Tx : Funded(u) => Funded(u)'
  PROVE  IInv'
<1>1. Owned' /\ Claimed' /\ Decided' /\ OnrampLogComplete'
  BY DEF IInv, Owned, Claimed, Decided, OnrampLogComplete, Cleared
<1>2. Live' /\ Done'
  BY DEF IInv, Live, Done, Holds
<1> QED
  BY <1>1, <1>2 DEF IInv

\* Every direct UPDATE preserves the invariant.
LEMMA UpdateIInv ==
  ASSUME IInv, NEW t \in Tx,
         \/ StartDepositRow(t)
         \/ \E found \in {"AWAITING_FIAT", "COMPLETED"} : AdoptRequest(t, found)
         \/ \E outcome \in {"COMPLETED", "REFUNDED"} : MarkSettled(t, outcome)
         \/ \E status \in {"PENDING", "SUCCESS", "FAILED"} :
              StorePayout(t, status)
  PROVE  IInv'
<1> USE DEF WriteOnchain, WritePayout
<1>1. TypeOK'
  BY StepType DEF LedgerStep, IInv
<1>2. CASE StartDepositRow(t)
  <2>1. \A u \in Tx : Funded(u) => Funded(u)'
    BY <1>2 DEF StartDepositRow, Funded, IInv, TypeOK
  <2> QED
    BY <1>1, <1>2, <2>1, ColumnWrite DEF StartDepositRow
<1>3. CASE \E found \in {"AWAITING_FIAT", "COMPLETED"} : AdoptRequest(t, found)
  <2>1. \A u \in Tx : Funded(u) => Funded(u)'
    BY <1>3 DEF AdoptRequest, Funded, IInv, TypeOK
  <2> QED
    BY <1>1, <1>3, <2>1, ColumnWrite DEF AdoptRequest
<1>4. CASE \E outcome \in {"COMPLETED", "REFUNDED"} : MarkSettled(t, outcome)
  <2>1. \A u \in Tx : Funded(u) => Funded(u)'
    BY <1>4 DEF MarkSettled, Funded, IInv, TypeOK
  <2> QED
    BY <1>1, <1>4, <2>1, ColumnWrite DEF MarkSettled
<1>5. CASE \E status \in {"PENDING", "SUCCESS", "FAILED"} :
             StorePayout(t, status)
  <2>1. \A u \in Tx : Funded(u) => Funded(u)'
    BY <1>5 DEF StorePayout, Funded, IInv, TypeOK
  <2> QED
    BY <1>1, <1>5, <2>1, ColumnWrite DEF StorePayout
<1> QED
  BY <1>2, <1>3, <1>4, <1>5

\* Every step of the ledger, stuttering included, preserves the invariant.
LEMMA NextIInv == IInv /\ [Next]_vars => IInv'
<1> SUFFICES ASSUME IInv, [Next]_vars PROVE IInv'
  OBVIOUS
<1>1. CASE UNCHANGED vars
  <2>1. TypeOK' /\ Owned' /\ Claimed' /\ Decided' /\ OnrampLogComplete'
    BY <1>1 DEF vars, IInv, TypeOK, Owned, Claimed, Decided,
                OnrampLogComplete, Cleared, Funded
  <2>2. Live' /\ Done'
    BY <1>1 DEF vars, IInv, Live, Done, Holds
  <2> QED
    BY <2>1, <2>2 DEF IInv
<1>2. ASSUME NEW t \in Tx, LedgerStep(t) PROVE IInv'
  BY <1>2, CreateIInv, ConfirmIInv, DecideIInv, RetryIInv, BeginIInv,
     FinishIInv, FundingIInv, UpdateIInv DEF LedgerStep
<1> QED
  BY <1>1, <1>2 DEF Next

\* The inductive invariant holds in every reachable ledger state.
THEOREM Inductive == Spec => []IInv
<1> QED
  BY InitIInv, NextIInv, PTL DEF Spec

----------------------------------------------------------------------------
(***************************************************************************)
(* The invariants the runs check.                                          *)
(***************************************************************************)
\* Every attempt belongs to a cleared transaction; decisions match rows.
THEOREM SpecExecutionCleared == Spec => []ExecutionCleared
<1>1. IInv => ExecutionCleared
  BY DEF IInv, Owned, Decided, ExecutionCleared
<1> QED
  BY <1>1, Inductive, PTL

\* PROCESSING rows and running attempts correspond one to one.
THEOREM SpecOneLiveAttempt == Spec => []OneLiveAttempt
<1>1. IInv => OneLiveAttempt
  BY DEF IInv, Live, Holds, OneLiveAttempt, AttemptsOf
<1> QED
  BY <1>1, Inductive, PTL

\* COMPLETED rows, successful attempts and completed_at correspond one to one.
THEOREM SpecCompletedOnce == Spec => []CompletedOnce
<1>1. IInv => CompletedOnce
  BY DEF IInv, Done, Holds, CompletedOnce, AttemptsOf
<1> QED
  BY <1>1, Inductive, PTL

\* The event log of an on-ramp ends in the state of its row.
THEOREM SpecOnrampLogComplete == Spec => []OnrampLogComplete
<1>1. IInv => OnrampLogComplete
  BY DEF IInv
<1> QED
  BY <1>1, Inductive, PTL

----------------------------------------------------------------------------
(***************************************************************************)
(* Action properties and the refinement.                                   *)
(***************************************************************************)
\* A decided row is not PENDING, so it cannot be created or decided again, and
\* no other operation writes approval_state.
THEOREM SpecDecisionFinal == Spec => DecisionFinal
<1> DEFINE Kept == \A t \in Tx : decision[t] # "NONE" =>
                     decision'[t] = decision[t] /\ approval'[t] = approval[t]
<1>1. ASSUME IInv, NEW t \in Tx, LedgerStep(t) PROVE Kept
  <2> USE DEF IInv, TypeOK
  <2>1. CASE \E outcome \in DOMAIN Verdict : CreateRampTransaction(t, outcome)
    <3>1. decision[t] = "NONE" /\ UNCHANGED decision
      BY <1>1, <2>1 DEF CreateRampTransaction, Decided
    <3>2. \A u \in Tx : u # t => approval'[u] = approval[u]
      BY <1>1, <2>1 DEF CreateRampTransaction
    <3> QED
      BY <3>1, <3>2
  <2>2. CASE \E action \in Actions : DecideRampTransaction(t, action)
    <3>1. decision[t] = "NONE"
      BY <2>2 DEF DecideRampTransaction, ApprovalTransition
    <3>2. \A u \in Tx : u # t => approval'[u] = approval[u]
                                 /\ decision'[u] = decision[u]
      BY <1>1, <2>2 DEF DecideRampTransaction
    <3> QED
      BY <3>1, <3>2
  <2>3. CASE UNCHANGED <<approval, decision>>
    BY <2>3
  <2> QED
    BY <1>1, <2>1, <2>2, <2>3
    DEF LedgerStep, RecordProviderConfirmation, RetryRampTransaction,
        BeginRampExecution, FinishRampExecution, StartDepositRow,
        ConfirmOfframpFundingRow, AdoptRequest, MarkSettled, StorePayout,
        WriteOnchain, WriteFunding, WritePayout
<1>2. IInv /\ [Next]_vars => [Kept]_vars
  BY <1>1 DEF Next
<1> QED
  BY <1>2, Inductive, PTL DEF Spec, DecisionFinal

\* The ledger starts in a state the promise allows: nothing refused, executing
\* or done.
LEMMA PromiseInitHolds == Init => Promise!PromiseInit
<1> SUFFICES ASSUME Init PROVE Promise!PromiseInit
  OBVIOUS
<1>1. \A t \in Tx : /\ approval[t] # "REJECTED"
                    /\ state[t] \notin {"PROCESSING", "COMPLETED"}
  BY DEF Init, BackfilledRows
<1> QED
  BY <1>1 DEF Promise!PromiseInit

\* Under the invariant each operation clears, refuses, claims, settles or
\* abandons one transaction, or leaves the promise alone.
LEMMA PromiseStepHolds ==
  ASSUME IInv, NEW t \in Tx, LedgerStep(t)
  PROVE  Promise!PromiseNext \/ UNCHANGED Promise!promiseVars
<1> USE DEF IInv, TypeOK, Cleared
<1> DEFINE cl == {u \in Tx : state[u] # "ABSENT" /\ Cleared(u)}
           re == {u \in Tx : approval[u] = "REJECTED"}
           ex == {u \in Tx : state[u] = "PROCESSING"}
           dn == {u \in Tx : state[u] = "COMPLETED"}
<1>1. CASE \E outcome \in DOMAIN Verdict : CreateRampTransaction(t, outcome)
  <2> USE DEF CreateRampTransaction, Transition, Verdict
  <2>1. t \notin cl \cup re /\ ex' = ex /\ dn' = dn /\ re' = re
    BY <1>1 DEF Decided
  <2>2. cl' = cl \/ cl' = cl \cup {t}
    BY <1>1
  <2> QED
    BY <2>1, <2>2 DEF Promise!PromiseNext, Promise!Clear, Promise!promiseVars
<1>2. CASE \E action \in Actions : DecideRampTransaction(t, action)
  <2> USE DEF DecideRampTransaction, ApprovalTransition, Transition,
              DecidedState, ApprovalStates
  <2>1. t \notin cl \cup re /\ ex' = ex /\ dn' = dn
    BY <1>2
  <2>2. \/ cl' = cl \cup {t} /\ re' = re
        \/ cl' = cl /\ re' = re \cup {t}
    BY <1>2
  <2> QED
    BY <2>1, <2>2
    DEF Promise!PromiseNext, Promise!Clear, Promise!Refuse
<1>3. CASE \E key \in ExecutionKeys :
             Selected(t, key) /\ BeginRampExecution(t, key)
  <2>1. t \in cl \ (ex \cup dn) /\ ex' = ex \cup {t}
        /\ cl' = cl /\ re' = re /\ dn' = dn
    BY <1>3 DEF BeginRampExecution, Transition
  <2> QED
    BY <2>1 DEF Promise!PromiseNext, Promise!Claim
<1>4. CASE \E key \in ExecutionKeys, succeeded \in BOOLEAN :
             FinishRampExecution(t, key, succeeded)
  <2>1. PICK key \in ExecutionKeys, succeeded \in BOOLEAN :
          FinishRampExecution(t, key, succeeded)
    BY <1>4
  <2>2. t \in ex
    <3>1. key \in Keys
      BY DEF Keys
    <3> QED
      BY <2>1, <3>1 DEF FinishRampExecution, Live, Holds
  <2>3. /\ cl' = cl /\ re' = re /\ ex' = ex \ {t}
        /\ dn' = IF succeeded THEN dn \cup {t} ELSE dn
    BY <2>1, <2>2 DEF FinishRampExecution, Transition
  <2> QED
    BY <2>2, <2>3 DEF Promise!PromiseNext, Promise!Settle, Promise!Abandon
<1>5. ASSUME UNCHANGED approval,
             \A u \in Tx : u # t => state'[u] = state[u],
             {state[t], state'[t]} \cap {"ABSENT", "PROCESSING", "COMPLETED"}
               = {}
      PROVE  UNCHANGED Promise!promiseVars
  <2>1. cl' = cl /\ re' = re /\ ex' = ex /\ dn' = dn
    BY <1>5
  <2> QED
    BY <2>1 DEF Promise!promiseVars
<1>6. CASE \E status \in {"CONFIRMED", "REVIEW"} :
             Expected(t, status) /\ RecordProviderConfirmation(t, status)
  <2>1. Funded(t) = FALSE
    BY <1>6 DEF RecordProviderConfirmation, Funded
  <2> QED
    BY <1>5, <1>6, <2>1
    DEF RecordProviderConfirmation, Transition, ConfirmedState, Claimed
<1>7. CASE \E key \in RetryKeys : RetryRampTransaction(t, key)
  BY <1>5, <1>7 DEF RetryRampTransaction, RetryAllowed, Transition
<1>8. CASE ConfirmOfframpFundingRow(t)
  <2>1. Funded(t) = FALSE
    BY <1>8 DEF ConfirmOfframpFundingRow, Funded
  <2> QED
    BY <1>5, <1>8, <2>1 DEF ConfirmOfframpFundingRow, WriteFunding, Claimed
<1>9. CASE UNCHANGED <<state, approval>>
  BY <1>9 DEF Promise!promiseVars
<1> QED
  BY <1>1, <1>2, <1>3, <1>4, <1>6, <1>7, <1>8, <1>9
  DEF LedgerStep, StartDepositRow, AdoptRequest, MarkSettled, StorePayout,
      WriteOnchain, WritePayout

\* The ledger implements RampPromise under the mapping of its Promise instance.
THEOREM LedgerKeepsPromise == Spec => KeepsPromise
<1>1. IInv /\ [Next]_vars => [Promise!PromiseNext]_(Promise!promiseVars)
  <2>1. CASE UNCHANGED vars
    BY <2>1 DEF vars, Promise!promiseVars, Cleared
  <2>2. CASE Next
    BY <2>2, PromiseStepHolds DEF Next
  <2> QED
    BY <2>1, <2>2
<1> QED
  BY <1>1, PromiseInitHolds, Inductive, PTL
  DEF Spec, KeepsPromise, Promise!PromiseSpec
=============================================================================
