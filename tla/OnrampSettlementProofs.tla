----------------------- MODULE OnrampSettlementProofs -----------------------
(***************************************************************************)
(* Theorems about on-ramp settlement, for any transactions, operators,     *)
(* workers and number of faults: it implements the ledger, USDC is         *)
(* released only against a verified payment of a cleared transaction, and  *)
(* what is shown as settled was released.                                  *)
(***************************************************************************)
EXTENDS OnrampSettlement, RampLedgerProofs

USE SettlesOnRampOnly, MaxFaultsIsNat

(***************************************************************************)
(* What a worker knows of the rows it selected and of the row it is at.    *)
(***************************************************************************)
HasRequest(t) == onchain[t] \notin {"NULL", "NOT_CREATED"}

\* Once true these stay true, which is why a worker may act on stale rows.
Sure(t) == provider[t] = "CONFIRMED" /\ Cleared(t) /\ state[t] # "ABSENT"

SelectedOK(w) ==
  /\ worker[w].pc \in {"settle"} \cup SettlementSteps =>
       \A t \in worker[w].todo : provider[t] = "CONFIRMED" /\ HasRequest(t)
  /\ worker[w].pc \in {"recover"} \cup RecoverySteps =>
       \A t \in worker[w].todo : provider[t] = "CONFIRMED" /\ t \in Legacy

RowOK(w) ==
  LET t == worker[w].tx
  IN /\ worker[w].pc \in SettlementSteps =>
          t \in Tx /\ provider[t] = "CONFIRMED" /\ attempt[ConfirmKey(t)] # NoAttempt
     /\ worker[w].pc \in RecoverySteps => t \in Legacy /\ provider[t] = "CONFIRMED"
     /\ worker[w].pc \in {"credit", "adoptCompleted", "finishReconcile"} =>
          attempt[ReconcileKey(t)] # NoAttempt
     /\ worker[w].pc \in {"mark", "received", "finish", "reconcile", "credit",
                          "adoptCompleted", "finishReconcile"} => chain[t] = "COMPLETED"
     /\ worker[w].pc \in {"finish", "adoptCompleted", "finishReconcile"} =>
          intent[t] = "RECEIVED"

(***************************************************************************)
(* How the ledger row, the intent and the request of a transaction fit.    *)
(***************************************************************************)
IntentFits(t) ==
  /\ t \notin Legacy => onchain[t] # "NULL"
  /\ t \in Legacy => onchain[t] # "NOT_CREATED"
  /\ state[t] = "ABSENT" =>
       /\ intent[t] = "ABSENT" /\ onchain[t] = "NOT_CREATED" /\ provider[t] = "NONE"
       /\ t \notin Legacy
  /\ intent[t] = "QUOTED" /\ t \notin Legacy => onchain[t] = "NOT_CREATED" /\ provider[t] = "NONE"
  /\ intent[t] = "OPEN" => onchain[t] # "NOT_CREATED"
  /\ state[t] = "CANCELLED" => intent[t] = "EXPIRED"

ReleaseOK(t) ==
  chain[t] = "COMPLETED" \/ <<"confirm", t>> \in late => Sure(t)

ShownOK(t) ==
  /\ state[t] = "COMPLETED" => intent[t] = "RECEIVED"
  /\ (\/ state[t] = "COMPLETED" \/ onchain[t] = "COMPLETED"
      \/ intent[t] = "RECEIVED" /\ t \notin Legacy)
       => chain[t] = "COMPLETED"

KeyOwner == \A k \in ExecutionKeys : attempt[k] # NoAttempt => attempt[k].tx = k[2]

SInv ==
  /\ IInv /\ SettlementTypeOK /\ KeyOwner
  /\ \A w \in Workers : SelectedOK(w) /\ RowOK(w)
  /\ \A t \in Tx : IntentFits(t) /\ ReleaseOK(t) /\ ShownOK(t)

LEMMA InitSInv == SettlementInit => SInv
<1> SUFFICES ASSUME SettlementInit PROVE SInv
  OBVIOUS
<1>1. IInv /\ TypeOK /\ Init
  BY InitIInv DEF SettlementInit, IInv
<1>2. SettlementTypeOK
  BY <1>1 DEF SettlementInit, SettlementTypeOK, Idle, Steps
<1>3. KeyOwner
  BY <1>1 DEF Init, KeyOwner, Keys
<1>4. ASSUME NEW w \in Workers PROVE SelectedOK(w) /\ RowOK(w)
  BY DEF SettlementInit, Idle, SelectedOK, RowOK, SettlementSteps, RecoverySteps
<1>5. ASSUME NEW t \in Tx PROVE IntentFits(t)
  <2>1. CASE t \in Legacy
    BY <1>1, <1>5, <2>1 DEF SettlementInit, LegacyIntents, Init, BackfilledRows, IntentFits
  <2>2. CASE t \notin Legacy
    BY <1>1, <1>5, <2>2 DEF SettlementInit, Init, IntentFits
  <2>3. QED  BY <2>1, <2>2
<1>6. ASSUME NEW t \in Tx PROVE ReleaseOK(t)
  <2>1. chain[t] # "NONE" => t \in Legacy /\ state[t] = "APPROVED" /\ provider[t] = "CONFIRMED"
    BY <1>6 DEF SettlementInit
  <2>2. t \in Legacy /\ state[t] = "APPROVED" => approval[t] = "NOT_REQUIRED"
    BY <1>1, <1>6 DEF Init, BackfilledRows
  <2>3. late = {}
    BY DEF SettlementInit
  <2>4. QED  BY <2>1, <2>2, <2>3 DEF ReleaseOK, Sure, Cleared
<1>7. ASSUME NEW t \in Tx PROVE ShownOK(t)
  <2>1. state[t] # "COMPLETED" /\ onchain[t] # "COMPLETED"
    BY <1>1, <1>7 DEF Init, BackfilledRows
  <2>2. t \notin Legacy => intent[t] = "ABSENT"
    BY <1>7 DEF SettlementInit
  <2>3. QED  BY <2>1, <2>2 DEF ShownOK
<1>8. QED  BY <1>1, <1>2, <1>3, <1>4, <1>5, <1>6, <1>7 DEF SInv

(***************************************************************************)
(* Every step is a step of the ledger, or leaves the ledger alone.         *)
(***************************************************************************)
LEMMA FinishedStep ==
  ASSUME SInv, NEW key \in ExecutionKeys, NEW succeeded \in BOOLEAN,
         attempt[key] # NoAttempt, Finished(key[2], key, succeeded)
  PROVE  [Next]_vars
<1>1. key[2] \in Tx
  BY DEF ExecutionKeys
<1>2. QED  BY <1>1 DEF Finished, Next, LedgerStep

LEMMA StepRefines == SInv /\ [SettlementNext]_allVars => [Next]_vars
<1> SUFFICES ASSUME SInv, [SettlementNext]_allVars PROVE [Next]_vars
  OBVIOUS
<1> USE DEF allVars, settleVars
<1>1. ASSUME NEW t \in Tx, CreateQuote(t) PROVE [Next]_vars
  BY <1>1 DEF CreateQuote, Next, LedgerStep
<1>2. ASSUME NEW t \in Tx, StartDeposit(t) PROVE [Next]_vars
  <2>1. IntentFits(t) /\ intent[t] = "QUOTED" /\ t \notin Legacy /\ WriteOnchain(t, "AWAITING_FIAT")
    BY <1>2 DEF StartDeposit, SInv
  <2>2. StartDepositRow(t)
    BY <2>1 DEF IntentFits, StartDepositRow, Tx
  <2>3. QED  BY <2>2 DEF Next, LedgerStep
<1>3. ASSUME NEW t \in Tx, NEW mismatch \in BOOLEAN, Reconcile(t, mismatch) PROVE [Next]_vars
  <2>1. PICK status \in {"CONFIRMED", "REVIEW"} :
          /\ RecordProviderConfirmation(t, status)
          /\ status = "CONFIRMED" => intent[t] = "OPEN"
    BY <1>3 DEF Reconcile
  <2>2. Expected(t, status)
    BY <2>1 DEF Expected, SInv, IntentFits
  <2>3. QED  BY <2>1, <2>2 DEF Next, LedgerStep
<1>4. ASSUME NEW t \in Tx, OperatorStep(t) PROVE [Next]_vars
  BY <1>4 DEF OperatorStep, Next, LedgerStep
<1>5. ASSUME NEW w \in Workers, ClaimRow(w) PROVE [Next]_vars
  <2>1. PICK t \in worker[w].todo : Begun(t, ConfirmKey(t)) \/ Refused(t, ConfirmKey(t))
    BY <1>5 DEF ClaimRow
  <2>2. t \in Tx /\ provider[t] = "CONFIRMED" /\ HasRequest(t)
    BY <1>5 DEF ClaimRow, At, SInv, SelectedOK, SettlementTypeOK
  <2>3. ConfirmKey(t) \in ExecutionKeys /\ Selected(t, ConfirmKey(t))
    BY <2>2 DEF ConfirmKey, ExecutionKeys, Selected, HasRequest, Tx
  <2>4. QED  BY <2>1, <2>2, <2>3 DEF Begun, Refused, Next, LedgerStep
<1>6. ASSUME NEW w \in Workers, ClaimReconciliation(w) PROVE [Next]_vars
  <2> DEFINE t == worker[w].tx
  <2>1. t \in Legacy /\ provider[t] = "CONFIRMED"
    BY <1>6 DEF ClaimReconciliation, At, SInv, RowOK, RecoverySteps
  <2>2. t \in Tx /\ ReconcileKey(t) \in ExecutionKeys /\ Selected(t, ReconcileKey(t))
    BY <2>1, LegacyIsOnRamp DEF ReconcileKey, ExecutionKeys, Selected, Tx
  <2>3. QED  BY <1>6, <2>2 DEF ClaimReconciliation, Begun, Refused, Next, LedgerStep
<1>7. ASSUME NEW w \in Workers, MarkOnchain(w) PROVE [Next]_vars
  <2> DEFINE t == worker[w].tx
  <2>1. t \in Tx /\ attempt[ConfirmKey(t)] # NoAttempt /\ WriteOnchain(t, "COMPLETED")
    BY <1>7 DEF MarkOnchain, At, SInv, RowOK, SettlementSteps
  <2>2. MarkSettled(t, "COMPLETED")
    BY <2>1 DEF MarkSettled, ConfirmKey, Tx
  <2>3. QED  BY <2>1, <2>2 DEF Next, LedgerStep
<1>8. ASSUME NEW w \in Workers, AdoptCompleted(w) \/ AdoptAwaiting(w) PROVE [Next]_vars
  <2> DEFINE t == worker[w].tx
  <2>1. t \in Legacy /\ provider[t] = "CONFIRMED"
    BY <1>8 DEF AdoptCompleted, AdoptAwaiting, At, SInv, RowOK, RecoverySteps
  <2>2. PICK found \in {"AWAITING_FIAT", "COMPLETED"} :
          /\ WriteOnchain(t, found)
          /\ found = "COMPLETED" => attempt[ReconcileKey(t)] # NoAttempt
    BY <1>8 DEF AdoptCompleted, AdoptAwaiting, At, SInv, RowOK
  <2>3. t \in Tx /\ AdoptRequest(t, found)
    BY <2>1, <2>2, LegacyIsOnRamp DEF AdoptRequest, ReconcileKey, Tx
  <2>4. QED  BY <2>3 DEF Next, LedgerStep
<1>9. ASSUME NEW w \in Workers, FinishConfirmed(w) \/ FinishFailed(w) \/ CommitUnacknowledged(w)
      PROVE  [Next]_vars
  <2> DEFINE t == worker[w].tx
  <2>1. /\ t \in Tx /\ attempt[ConfirmKey(t)] # NoAttempt
        /\ \E succeeded \in BOOLEAN : Finished(t, ConfirmKey(t), succeeded)
    BY <1>9 DEF FinishConfirmed, FinishFailed, CommitUnacknowledged, At, SInv, RowOK, SettlementSteps
  <2>2. ConfirmKey(t) \in ExecutionKeys /\ ConfirmKey(t)[2] = t
    BY <2>1 DEF ConfirmKey, ExecutionKeys
  <2>3. QED  BY <2>1, <2>2, FinishedStep
<1>10. ASSUME NEW w \in Workers, FinishReconciled(w) PROVE [Next]_vars
  <2> DEFINE t == worker[w].tx
  <2>1. /\ t \in Legacy /\ attempt[ReconcileKey(t)] # NoAttempt
        /\ Finished(t, ReconcileKey(t), TRUE)
    BY <1>10 DEF FinishReconciled, At, SInv, RowOK, RecoverySteps
  <2>2. ReconcileKey(t) \in ExecutionKeys /\ ReconcileKey(t)[2] = t
    BY <2>1, LegacyIsOnRamp DEF ReconcileKey, ExecutionKeys, Tx
  <2>3. QED  BY <2>1, <2>2, FinishedStep
<1>11. QED
  BY <1>1, <1>2, <1>3, <1>4, <1>5, <1>6, <1>7, <1>8, <1>9, <1>10
     DEF SettlementNext, SubmitRequest, ExpireIntent, AbandonedLands, WorkerStep, FaultStep,
         StartTick, StartSettling, EndTick, ConfirmLands, ConfirmRejected, MarkReceived,
         LookUpRequest, CreditReconciled, RequestCreated, CreateRejected, GiveUp, WriteFails, Crash

(***************************************************************************)
(* What no step takes back.                                                *)
(***************************************************************************)
LEMMA LedgerKeeps ==
  ASSUME IInv, KeyOwner, [Next]_vars
  PROVE  /\ \A t \in Tx : /\ provider[t] = "CONFIRMED" => provider'[t] = "CONFIRMED"
                          /\ Sure(t) => Sure(t)'
                          /\ HasRequest(t) => HasRequest(t)'
                          /\ state[t] # "ABSENT" => state'[t] # "ABSENT"
                          /\ state'[t] = "CANCELLED" => state[t] = "CANCELLED"
         /\ \A k \in ExecutionKeys : attempt[k] # NoAttempt => attempt'[k] # NoAttempt
         /\ KeyOwner'
<1> DEFINE Kept ==
      /\ \A t \in Tx : /\ provider[t] = "CONFIRMED" => provider'[t] = "CONFIRMED"
                       /\ Sure(t) => Sure(t)'
                       /\ HasRequest(t) => HasRequest(t)'
                       /\ state[t] # "ABSENT" => state'[t] # "ABSENT"
                       /\ state'[t] = "CANCELLED" => state[t] = "CANCELLED"
      /\ \A k \in ExecutionKeys : attempt[k] # NoAttempt => attempt'[k] # NoAttempt
      /\ KeyOwner'
<1> SUFFICES Kept
  OBVIOUS
<1> USE DEF IInv, TypeOK, Sure, Cleared, HasRequest, KeyOwner, NoAttempt
<1>1. ASSUME NEW t \in Tx, NEW outcome \in DOMAIN Verdict, CreateRampTransaction(t, outcome) PROVE Kept
  BY <1>1 DEF CreateRampTransaction, Transition, Verdict
<1>2. ASSUME NEW t \in Tx, NEW status \in {"CONFIRMED", "REVIEW"}, RecordProviderConfirmation(t, status)
      PROVE  Kept
  BY <1>2 DEF RecordProviderConfirmation, Transition, ConfirmedState
<1>3. ASSUME NEW t \in Tx, NEW action \in Actions, DecideRampTransaction(t, action) PROVE Kept
  BY <1>3 DEF DecideRampTransaction, ApprovalTransition, Transition, DecidedState, Actions
<1>4. ASSUME NEW t \in Tx, NEW key \in RetryKeys, RetryRampTransaction(t, key) PROVE Kept
  <2>1. key \in Keys /\ key \notin ExecutionKeys
    BY DEF Keys, RetryKeys, ExecutionKeys
  <2>2. QED  BY <1>4, <2>1 DEF RetryRampTransaction, Transition
<1>5. ASSUME NEW t \in Tx, NEW key \in ExecutionKeys, Selected(t, key), BeginRampExecution(t, key)
      PROVE  Kept
  <2>1. key \in Keys /\ key[2] = t
    BY <1>5 DEF Keys, Selected
  <2>2. QED  BY <1>5, <2>1 DEF BeginRampExecution, Transition, Keys
<1>6. ASSUME NEW t \in Tx, NEW key \in ExecutionKeys, NEW succeeded \in BOOLEAN,
             FinishRampExecution(t, key, succeeded)
      PROVE  Kept
  <2>1. key \in Keys /\ attempt[key].tx = key[2] /\ attempt[key].tx = t
    BY <1>6 DEF Keys, FinishRampExecution
  <2>2. QED  BY <1>6, <2>1 DEF FinishRampExecution, Transition, Keys
<1>7. ASSUME NEW t \in Tx, StartDepositRow(t) PROVE Kept
  BY <1>7 DEF StartDepositRow, WriteOnchain
<1>8. ASSUME NEW t \in Tx, NEW found \in {"AWAITING_FIAT", "COMPLETED"}, AdoptRequest(t, found) PROVE Kept
  BY <1>8 DEF AdoptRequest, WriteOnchain
<1>9. ASSUME NEW t \in Tx, NEW outcome \in {"COMPLETED", "REFUNDED"}, MarkSettled(t, outcome) PROVE Kept
  BY <1>9 DEF MarkSettled, WriteOnchain
<1>10. CASE UNCHANGED vars
  BY <1>10 DEF vars
<1>11. QED
  BY <1>1, <1>2, <1>3, <1>4, <1>5, <1>6, <1>7, <1>8, <1>9, <1>10
     DEF Next, LedgerStep, ConfirmOfframpFundingRow, StorePayout

(***************************************************************************)
(* Types, and what the steps do to requests, intents and late calls.       *)
(***************************************************************************)
WorkerType == [pc : Steps, todo : SUBSET Tx, tx : Tx \cup {NoTx}]

LEMMA GotoType ==
  ASSUME SettlementTypeOK, NEW w \in Workers, NEW pc \in Steps,
         \/ Goto(w, pc) \/ NextRow(w, pc)
         \/ \E t \in worker[w].todo : Take(w, t, pc)
         \/ \E rows \in SUBSET Tx :
              worker' = [worker EXCEPT ![w] = [pc |-> pc, todo |-> rows, tx |-> NoTx]]
  PROVE  worker' \in [Workers -> WorkerType]
BY DEF SettlementTypeOK, WorkerType, Goto, NextRow, Take

LEMMA WorkerTypeStep ==
  ASSUME SettlementTypeOK, NEW w \in Workers, WorkerStep(w) \/ FaultStep(w)
  PROVE  worker' \in [Workers -> WorkerType]
<1> USE DEF Steps, RecoverySteps, SettlementSteps
<1>1. CASE StartTick(w) \/ StartSettling(w) \/ EndTick(w) \/ Crash(w)
  <2>1. PICK pc \in Steps, rows \in SUBSET Tx :
          worker' = [worker EXCEPT ![w] = [pc |-> pc, todo |-> rows, tx |-> NoTx]]
    <3>1. CASE StartTick(w)
      BY <3>1 DEF StartTick, InterruptedRows
    <3>2. CASE StartSettling(w)
      BY <3>2 DEF StartSettling, SettlementRows
    <3>3. CASE EndTick(w) \/ Crash(w)
      BY <3>3 DEF EndTick, Crash, Idle
    <3>4. QED  BY <1>1, <3>1, <3>2, <3>3
  <2>2. QED  BY <2>1, GotoType
<1>2. CASE ClaimRow(w) \/ LookUpRequest(w)
  <2>1. \A t \in worker[w].todo : worker[w].todo \ {t} \in SUBSET Tx
    BY DEF SettlementTypeOK
  <2>2. \E pc \in Steps :
          \/ \E t \in worker[w].todo : Take(w, t, pc)
          \/ \E rows \in SUBSET Tx :
               worker' = [worker EXCEPT ![w] = [pc |-> pc, todo |-> rows, tx |-> NoTx]]
    <3>1. CASE ClaimRow(w)
      BY <2>1, <3>1 DEF ClaimRow
    <3>2. CASE LookUpRequest(w)
      BY <3>2 DEF LookUpRequest
    <3>3. QED  BY <1>2, <3>1, <3>2
  <2>3. QED  BY <2>2, GotoType
<1>3. CASE ConfirmLands(w) \/ ConfirmRejected(w) \/ MarkOnchain(w) \/ MarkReceived(w)
           \/ FinishConfirmed(w) \/ FinishFailed(w) \/ CommitUnacknowledged(w)
  BY <1>3, GotoType DEF ConfirmLands, ConfirmRejected, MarkOnchain, MarkReceived,
     FinishConfirmed, FinishFailed, CommitUnacknowledged
<1>4. CASE ClaimReconciliation(w) \/ CreditReconciled(w) \/ AdoptCompleted(w)
           \/ FinishReconciled(w) \/ RequestCreated(w) \/ AdoptAwaiting(w) \/ CreateRejected(w)
  BY <1>4, GotoType DEF ClaimReconciliation, CreditReconciled, AdoptCompleted,
     FinishReconciled, RequestCreated, AdoptAwaiting, CreateRejected
<1>5. CASE GiveUp(w) \/ WriteFails(w)
  BY <1>5, GotoType DEF GiveUp, WriteFails, Loop
<1>6. QED  BY <1>1, <1>2, <1>3, <1>4, <1>5 DEF WorkerStep, FaultStep

\* The row a worker is at.
LEMMA RowType ==
  ASSUME SInv, NEW w \in Workers
  PROVE  /\ worker[w] \in WorkerType
         /\ worker[w].pc \in SettlementSteps \cup RecoverySteps => worker[w].tx \in Tx
         /\ worker[w].pc \in SettlementSteps => Sure(worker[w].tx)
<1>1. worker[w] \in WorkerType
  BY DEF SInv, SettlementTypeOK, WorkerType
<1>2. worker[w].pc \in RecoverySteps => worker[w].tx \in Tx
  BY LegacyIsOnRamp DEF SInv, RowOK, Tx
<1>3. ASSUME worker[w].pc \in SettlementSteps PROVE worker[w].tx \in Tx /\ Sure(worker[w].tx)
  <2> DEFINE t == worker[w].tx
  <2>1. t \in Tx /\ provider[t] = "CONFIRMED" /\ attempt[ConfirmKey(t)] # NoAttempt
    BY <1>3 DEF SInv, RowOK
  <2>2. ConfirmKey(t) \in ExecutionKeys /\ ConfirmKey(t) \in Keys /\ ConfirmKey(t)[2] = t
    BY <2>1 DEF ConfirmKey, ExecutionKeys, Keys
  <2>3. attempt[ConfirmKey(t)].tx = t
    BY <2>1, <2>2 DEF SInv, KeyOwner
  <2>4. Cleared(t) /\ state[t] # "ABSENT"
    BY <2>1, <2>2, <2>3 DEF SInv, IInv, Owned, ExecutionStates
  <2>5. QED  BY <2>1, <2>4 DEF Sure
<1>4. QED  BY <1>1, <1>2, <1>3

\* A step either leaves requests, intents and late calls alone or does one of these.
ChainMoves ==
  \/ UNCHANGED chain
  \/ \E t \in Tx : chain[t] = "NONE" /\ chain' = [chain EXCEPT ![t] = "AWAITING_FIAT"]
  \/ \E t \in Tx : /\ chain' = [chain EXCEPT ![t] = "COMPLETED"]
                   /\ Sure(t)

IntentMoves ==
  \/ UNCHANGED intent
  \/ \E t \in Tx : /\ state[t] = "ABSENT" \/ intent[t] \in {"QUOTED", "OPEN", "EXPIRED"}
                   /\ \E next \in {"QUOTED", "OPEN", "EXPIRED", "REVIEW", "SETTLING"} :
                        intent' = [intent EXCEPT ![t] = next]
  \/ \E t \in Tx : /\ intent' = [intent EXCEPT ![t] = "RECEIVED"]
                   /\ chain[t] = "COMPLETED" /\ state[t] \notin {"ABSENT", "CANCELLED"}

LateMoves ==
  late' \subseteq late \cup ({"create"} \X Tx) \cup {<<"confirm", t>> : t \in {u \in Tx : Sure(u)}}

LEMMA Moves ==
  ASSUME SInv, [SettlementNext]_allVars
  PROVE  ChainMoves /\ IntentMoves /\ LateMoves /\ faults' \in 0..MaxFaults
<1>1. ASSUME NEW w \in Workers, worker[w].pc = "confirm"
      PROVE  worker[w].tx \in Tx /\ Sure(worker[w].tx)
  BY <1>1, RowType DEF SettlementSteps
<1>2. ASSUME NEW w \in Workers, worker[w].pc = "create" PROVE worker[w].tx \in Tx
  BY <1>2, RowType DEF RecoverySteps
<1>3. \A call \in {"create", "confirm"}, t \in Tx :
        <<call, t>> \in late => call = "create" \/ Sure(t)
  BY DEF SInv, ReleaseOK
<1>4. ASSUME NEW w \in Workers, worker[w].pc \in {"received", "credit"}
      PROVE  worker[w].tx \in Tx /\ chain[worker[w].tx] = "COMPLETED"
             /\ state[worker[w].tx] \notin {"ABSENT", "CANCELLED"}
  <2> DEFINE t == worker[w].tx
  <2>1. t \in Tx /\ chain[t] = "COMPLETED"
    BY <1>4, RowType DEF SInv, RowOK, SettlementSteps, RecoverySteps
  <2>2. \E k \in ExecutionKeys : k[2] = t /\ attempt[k] # NoAttempt
    <3>1. ConfirmKey(t) \in ExecutionKeys /\ ReconcileKey(t) \in ExecutionKeys
      BY <2>1 DEF ConfirmKey, ReconcileKey, ExecutionKeys
    <3>2. attempt[ConfirmKey(t)] # NoAttempt \/ attempt[ReconcileKey(t)] # NoAttempt
      BY <1>4 DEF SInv, RowOK, SettlementSteps
    <3>3. QED  BY <3>1, <3>2 DEF ConfirmKey, ReconcileKey
  <2>3. QED  BY <2>1, <2>2 DEF SInv, KeyOwner, IInv, Owned, ExecutionStates, Keys
<1>5. faults' \in 0..MaxFaults
  <2>1. faults' = faults \/ Fault
    BY DEF SettlementNext, CreateQuote, SubmitRequest, StartDeposit, ExpireIntent, OperatorStep,
       Reconcile, AbandonedLands, WorkerStep, FaultStep, StartTick, StartSettling, EndTick, ClaimRow,
       ConfirmLands, ConfirmRejected, MarkOnchain, MarkReceived, FinishConfirmed, FinishFailed,
       LookUpRequest, ClaimReconciliation, CreditReconciled, AdoptCompleted, FinishReconciled,
       RequestCreated, AdoptAwaiting, CreateRejected, GiveUp, WriteFails, CommitUnacknowledged, Crash,
       allVars, settleVars
  <2>2. faults \in 0..MaxFaults
    BY DEF SInv, SettlementTypeOK
  <2>3. QED  BY <2>1, <2>2 DEF Fault
<1>6. ChainMoves
  <2>1. ASSUME NEW t \in Tx, NEW call \in {"create", "confirm"}, AbandonedLands(call, t) PROVE ChainMoves
    <3>1. chain \in [Tx -> ChainStates]
      BY DEF SInv, SettlementTypeOK
    <3>2. CASE call = "create" /\ chain[t] = "NONE"
      BY <2>1, <3>2 DEF AbandonedLands, ChainMoves
    <3>3. CASE call = "confirm" /\ chain[t] = "AWAITING_FIAT"
      BY <1>3, <2>1, <3>3 DEF AbandonedLands, ChainMoves
    <3>4. CASE ~(call = "create" /\ chain[t] = "NONE") /\ ~(call = "confirm" /\ chain[t] = "AWAITING_FIAT")
      BY <2>1, <3>1, <3>4 DEF AbandonedLands, ChainMoves
    <3>5. QED  BY <3>2, <3>3, <3>4
  <2>2. ASSUME NEW w \in Workers, ConfirmLands(w) \/ RequestCreated(w) PROVE ChainMoves
    BY <1>1, <1>2, <2>2 DEF ConfirmLands, RequestCreated, At, ChainMoves
  <2>3. ASSUME NEW t \in Tx, SubmitRequest(t) PROVE ChainMoves
    BY <2>3 DEF SubmitRequest, ChainMoves
  <2>4. UNCHANGED chain => ChainMoves
    BY DEF ChainMoves
  <2>5. QED
    BY <2>1, <2>2, <2>3, <2>4
    DEF SettlementNext, CreateQuote, StartDeposit, ExpireIntent, OperatorStep,
       Reconcile, WorkerStep, FaultStep, StartTick, StartSettling, EndTick, ClaimRow,
       ConfirmRejected, MarkOnchain, MarkReceived, FinishConfirmed, FinishFailed,
       LookUpRequest, ClaimReconciliation, CreditReconciled, AdoptCompleted, FinishReconciled,
       AdoptAwaiting, CreateRejected, GiveUp, WriteFails, CommitUnacknowledged, Crash,
       allVars, settleVars
<1>7. IntentMoves
  <2>1. ASSUME NEW t \in Tx, CreateQuote(t) PROVE IntentMoves
    BY <2>1 DEF CreateQuote, CreateRampTransaction, IntentMoves
  <2>2. ASSUME NEW t \in Tx, StartDeposit(t) \/ ExpireIntent(t) PROVE IntentMoves
    BY <2>2 DEF StartDeposit, ExpireIntent, IntentMoves
  <2>3. ASSUME NEW t \in Tx, NEW mismatch \in BOOLEAN, Reconcile(t, mismatch) PROVE IntentMoves
    BY <2>3 DEF Reconcile, IntentMoves
  <2>4. ASSUME NEW w \in Workers, MarkReceived(w) \/ CreditReconciled(w) PROVE IntentMoves
    BY <1>4, <2>4 DEF MarkReceived, CreditReconciled, At, IntentMoves
  <2>5. UNCHANGED intent => IntentMoves
    BY DEF IntentMoves
  <2>6. QED
    BY <2>1, <2>2, <2>3, <2>4, <2>5
    DEF SettlementNext, SubmitRequest, OperatorStep,
       AbandonedLands, WorkerStep, FaultStep, StartTick, StartSettling, EndTick, ClaimRow,
       ConfirmLands, ConfirmRejected, MarkOnchain, FinishConfirmed, FinishFailed,
       LookUpRequest, ClaimReconciliation, AdoptCompleted, FinishReconciled,
       RequestCreated, AdoptAwaiting, CreateRejected, GiveUp, WriteFails, CommitUnacknowledged, Crash,
       allVars, settleVars
<1>8. LateMoves
  <2>1. ASSUME NEW w \in Workers, GiveUp(w) \/ Crash(w) PROVE LateMoves
    <3>1. late' = late \cup Abandoned(w)
      BY <2>1 DEF GiveUp, Crash
    <3>2. Abandoned(w) \subseteq ({"create"} \X Tx) \cup {<<"confirm", t>> : t \in {u \in Tx : Sure(u)}}
      BY <1>1, <1>2 DEF Abandoned
    <3>3. QED  BY <3>1, <3>2 DEF LateMoves
  <2>2. late' \subseteq late => LateMoves
    BY DEF LateMoves
  <2>3. QED
    BY <2>1, <2>2
    DEF SettlementNext, CreateQuote, SubmitRequest, StartDeposit, ExpireIntent, OperatorStep,
       Reconcile, AbandonedLands, WorkerStep, FaultStep, StartTick, StartSettling, EndTick, ClaimRow,
       ConfirmLands, ConfirmRejected, MarkOnchain, MarkReceived, FinishConfirmed, FinishFailed,
       LookUpRequest, ClaimReconciliation, CreditReconciled, AdoptCompleted, FinishReconciled,
       RequestCreated, AdoptAwaiting, CreateRejected, WriteFails, CommitUnacknowledged,
       allVars, settleVars
<1>9. QED  BY <1>5, <1>6, <1>7, <1>8

\* Nothing a worker relies on is taken back.
LEMMA Keeps ==
  ASSUME SInv, [SettlementNext]_allVars
  PROVE  /\ \A t \in Tx : /\ provider[t] = "CONFIRMED" => provider'[t] = "CONFIRMED"
                          /\ Sure(t) => Sure(t)'
                          /\ HasRequest(t) => HasRequest(t)'
                          /\ state[t] # "ABSENT" => state'[t] # "ABSENT"
                          /\ state'[t] = "CANCELLED" => state[t] = "CANCELLED"
                          /\ chain[t] = "COMPLETED" => chain'[t] = "COMPLETED"
                          /\ intent[t] = "RECEIVED" => intent'[t] = "RECEIVED"
         /\ \A k \in ExecutionKeys : attempt[k] # NoAttempt => attempt'[k] # NoAttempt
         /\ KeyOwner' /\ IInv'
<1>1. [Next]_vars
  BY StepRefines
<1>2. IInv'
  BY <1>1, NextIInv DEF SInv
<1>3. ChainMoves /\ IntentMoves /\ chain \in [Tx -> ChainStates] /\ intent \in [Tx -> IntentStates]
  BY Moves DEF SInv, SettlementTypeOK
<1>4. \A t \in Tx : chain[t] = "COMPLETED" => chain'[t] = "COMPLETED"
  BY <1>3 DEF ChainMoves
<1>5. \A t \in Tx : intent[t] = "RECEIVED" => intent'[t] = "RECEIVED"
  <2>1. \A t \in Tx : state[t] = "ABSENT" => intent[t] = "ABSENT"
    BY DEF SInv, IntentFits
  <2>2. QED  BY <1>3, <2>1 DEF IntentMoves
<1>6. QED  BY <1>1, <1>2, <1>4, <1>5, LedgerKeeps DEF SInv

LEMMA SettlementTypeStep ==
  ASSUME SInv, [SettlementNext]_allVars
  PROVE  SettlementTypeOK'
<1>1. TypeOK'
  BY Keeps DEF IInv
<1>2. chain \in [Tx -> ChainStates] /\ intent \in [Tx -> IntentStates] /\ SettlementTypeOK
  BY DEF SInv, SettlementTypeOK
<1>3. chain' \in [Tx -> ChainStates] /\ intent' \in [Tx -> IntentStates]
  BY <1>2, Moves DEF ChainMoves, IntentMoves, ChainStates, IntentStates
<1>4. late' \subseteq {"create", "confirm"} \X Tx /\ faults' \in 0..MaxFaults
  BY <1>2, Moves DEF LateMoves, SettlementTypeOK
<1>5. worker' \in [Workers -> WorkerType]
  <2>1. CASE \E w \in Workers : WorkerStep(w) \/ FaultStep(w)
    BY <1>2, <2>1, WorkerTypeStep
  <2>2. CASE UNCHANGED worker
    BY <1>2, <2>2 DEF SettlementTypeOK, WorkerType
  <2>3. QED
    BY <2>1, <2>2 DEF SettlementNext, CreateQuote, SubmitRequest, StartDeposit, ExpireIntent,
       OperatorStep, Reconcile, AbandonedLands, allVars, settleVars
<1>6. QED  BY <1>1, <1>3, <1>4, <1>5 DEF SettlementTypeOK, WorkerType

(***************************************************************************)
(* The workers.                                                            *)
(***************************************************************************)
\* A worker that does nothing is still right about its rows.
LEMMA WorkerStays ==
  ASSUME SInv, [SettlementNext]_allVars, NEW w \in Workers, worker'[w] = worker[w]
  PROVE  SelectedOK(w)' /\ RowOK(w)'
<1> DEFINE t == worker[w].tx
<1>1. worker[w] \in WorkerType /\ SelectedOK(w) /\ RowOK(w)
  BY RowType DEF SInv
<1>2. SelectedOK(w)'
  <2>1. worker[w].todo \subseteq Tx
    BY <1>1 DEF WorkerType
  <2>2. QED  BY <1>1, <2>1, Keeps DEF SelectedOK
<1>3. ASSUME worker[w].pc \in SettlementSteps \cup RecoverySteps
      PROVE  t \in Tx /\ ConfirmKey(t) \in ExecutionKeys /\ ReconcileKey(t) \in ExecutionKeys
  BY <1>3, RowType DEF ConfirmKey, ReconcileKey, ExecutionKeys
<1>4. RowOK(w)'
  <2>1. CASE worker[w].pc \in SettlementSteps \cup RecoverySteps
    BY <1>1, <1>3, <2>1, Keeps DEF RowOK, ConfirmKey, ReconcileKey
  <2>2. CASE worker[w].pc \notin SettlementSteps \cup RecoverySteps
    BY <2>2 DEF RowOK, SettlementSteps, RecoverySteps
  <2>3. QED  BY <2>1, <2>2
<1>5. QED  BY <1>2, <1>4

\* A worker that goes on in the same loop, with fewer rows.
LEMMA SameLoop ==
  ASSUME SInv, [SettlementNext]_allVars, NEW w \in Workers,
         worker'[w].todo \subseteq worker[w].todo,
         \/ {worker[w].pc, worker'[w].pc} \subseteq {"settle"} \cup SettlementSteps
         \/ {worker[w].pc, worker'[w].pc} \subseteq {"recover"} \cup RecoverySteps
  PROVE  SelectedOK(w)'
<1>1. worker[w].todo \subseteq Tx /\ SelectedOK(w)
  BY RowType DEF SInv, WorkerType
<1>2. QED  BY <1>1, Keeps DEF SelectedOK, SettlementSteps, RecoverySteps

\* A worker between rows.
LEMMA BetweenRows ==
  ASSUME NEW w \in Workers, worker'[w].pc \in {"idle", "recover", "settle"}
  PROVE  RowOK(w)'
BY DEF RowOK, SettlementSteps, RecoverySteps

LEMMA NewWorker ==
  ASSUME SInv, NEW w \in Workers, NEW doing, worker' = [worker EXCEPT ![w] = doing]
  PROVE  worker'[w] = doing
BY DEF SInv, SettlementTypeOK

LEMMA WorkerMoves ==
  ASSUME SInv, [SettlementNext]_allVars, NEW w \in Workers, WorkerStep(w) \/ FaultStep(w)
  PROVE  SelectedOK(w)' /\ RowOK(w)'
<1> DEFINE t == worker[w].tx
<1> USE DEF SettlementSteps, RecoverySteps
<1>1. CASE StartTick(w)
  <2>1. worker'[w] = [pc |-> "recover", todo |-> InterruptedRows, tx |-> NoTx] /\ UNCHANGED vars
    BY <1>1, NewWorker DEF StartTick
  <2>2. \A u \in InterruptedRows : provider'[u] = "CONFIRMED" /\ u \in Legacy
    BY <2>1 DEF InterruptedRows, Paid, SInv, IntentFits, vars
  <2>3. QED  BY <2>1, <2>2, BetweenRows DEF SelectedOK
<1>2. CASE StartSettling(w)
  <2>1. worker'[w] = [pc |-> "settle", todo |-> SettlementRows, tx |-> NoTx] /\ UNCHANGED vars
    BY <1>2, NewWorker DEF StartSettling
  <2>2. \A u \in SettlementRows : provider'[u] = "CONFIRMED" /\ HasRequest(u)'
    BY <2>1 DEF SettlementRows, Paid, HasRequest, vars
  <2>3. QED  BY <2>1, <2>2, BetweenRows DEF SelectedOK
<1>3. CASE EndTick(w) \/ Crash(w)
  BY <1>3, NewWorker DEF EndTick, Crash, Idle, SelectedOK, RowOK
<1>4. CASE ClaimRow(w)
  <2>1. PICK u \in worker[w].todo :
          \/ Begun(u, ConfirmKey(u)) /\ Take(w, u, "confirm")
          \/ worker' = [worker EXCEPT ![w] =
               [pc |-> "settle", todo |-> worker[w].todo \ {u}, tx |-> NoTx]]
    BY <1>4 DEF ClaimRow
  <2>2. /\ worker'[w].todo = worker[w].todo \ {u}
        /\ \/ worker'[w].pc = "settle"
           \/ worker'[w].pc = "confirm" /\ worker'[w].tx = u /\ Begun(u, ConfirmKey(u))
    BY <2>1, NewWorker DEF Take
  <2>3. SelectedOK(w)'
    BY <1>4, <2>2, SameLoop DEF ClaimRow, At
  <2>4. ASSUME worker'[w].pc = "confirm", worker'[w].tx = u, Begun(u, ConfirmKey(u)) PROVE RowOK(w)'
    <3>1. u \in Tx /\ provider[u] = "CONFIRMED"
      BY <1>4, RowType DEF ClaimRow, At, SInv, SelectedOK, WorkerType
    <3>2. attempt'[ConfirmKey(u)] # NoAttempt
      <4>1. ConfirmKey(u) \in ExecutionKeys /\ ConfirmKey(u) \in Keys
        BY <3>1 DEF ConfirmKey, ExecutionKeys, Keys
      <4>2. CASE BeginRampExecution(u, ConfirmKey(u))
        BY <4>1, <4>2 DEF BeginRampExecution, SInv, IInv, TypeOK, NoAttempt
      <4>3. CASE attempt[ConfirmKey(u)] # NoAttempt
        BY <4>1, <4>3, Keeps
      <4>4. QED  BY <2>4, <4>2, <4>3 DEF Begun
    <3>3. QED  BY <2>4, <3>1, <3>2, Keeps DEF RowOK, ConfirmKey
  <2>5. QED  BY <2>2, <2>3, <2>4, BetweenRows
<1>5. CASE ConfirmLands(w) \/ ConfirmRejected(w)
  <2>1. \E pc \in {"mark", "fail"} :
          /\ worker'[w] = [pc |-> pc, todo |-> worker[w].todo, tx |-> t]
          /\ pc = "mark" => chain'[t] = "COMPLETED"
    <3>1. t \in Tx
      BY <1>5, RowType DEF ConfirmLands, ConfirmRejected, At
    <3>2. QED  BY <1>5, <3>1, NewWorker DEF ConfirmLands, ConfirmRejected, Goto, SInv, SettlementTypeOK
  <2>2. worker[w].pc = "confirm" /\ RowOK(w) /\ t \in Tx /\ ConfirmKey(t) \in ExecutionKeys
    BY <1>5, RowType DEF ConfirmLands, ConfirmRejected, At, SInv, ConfirmKey, ExecutionKeys
  <2>3. RowOK(w)'
    BY <2>1, <2>2, Keeps DEF RowOK, ConfirmKey
  <2>4. QED  BY <2>1, <2>2, <2>3, SameLoop
<1>6. CASE MarkOnchain(w) \/ MarkReceived(w)
  <2>1. \E pc \in {"received", "finish"} :
          /\ worker'[w] = [pc |-> pc, todo |-> worker[w].todo, tx |-> t]
          /\ pc = "finish" => intent'[t] = "RECEIVED"
    <3>1. t \in Tx
      BY <1>6, RowType DEF MarkOnchain, MarkReceived, At
    <3>2. QED  BY <1>6, <3>1, NewWorker DEF MarkOnchain, MarkReceived, Goto, SInv, SettlementTypeOK
  <2>2. worker[w].pc \in {"mark", "received"} /\ RowOK(w) /\ t \in Tx /\ ConfirmKey(t) \in ExecutionKeys
    BY <1>6, RowType DEF MarkOnchain, MarkReceived, At, SInv, ConfirmKey, ExecutionKeys
  <2>3. RowOK(w)'
    BY <2>1, <2>2, Keeps DEF RowOK, ConfirmKey
  <2>4. QED  BY <2>1, <2>2, <2>3, SameLoop
<1>7. CASE FinishConfirmed(w) \/ FinishFailed(w)
  <2>1. worker'[w] = [pc |-> "settle", todo |-> worker[w].todo, tx |-> NoTx] /\ worker[w].pc \in {"finish", "fail"}
    BY <1>7, NewWorker DEF FinishConfirmed, FinishFailed, NextRow, At
  <2>2. QED  BY <2>1, SameLoop, BetweenRows
<1>8. CASE CommitUnacknowledged(w)
  <2>1. worker'[w] = [pc |-> "fail", todo |-> worker[w].todo, tx |-> t] /\ worker[w].pc = "finish"
    BY <1>8, NewWorker DEF CommitUnacknowledged, Goto, At
  <2>2. RowOK(w) /\ t \in Tx /\ ConfirmKey(t) \in ExecutionKeys
    BY <2>1, RowType DEF SInv, ConfirmKey, ExecutionKeys
  <2>3. RowOK(w)'
    BY <2>1, <2>2, Keeps DEF RowOK, ConfirmKey
  <2>4. QED  BY <2>1, <2>3, SameLoop
<1>9. CASE LookUpRequest(w)
  <2>1. PICK u \in worker[w].todo, pc \in {"reconcile", "create", "adopt"} :
          Take(w, u, pc) /\ (pc = "reconcile" => chain[u] = "COMPLETED")
    BY <1>9 DEF LookUpRequest
  <2>2. /\ worker'[w].todo = worker[w].todo \ {u} /\ worker'[w].tx = u
        /\ worker'[w].pc \in {"reconcile", "create", "adopt"}
        /\ worker'[w].pc = "reconcile" => chain[u] = "COMPLETED"
    <3>1. worker' = [worker EXCEPT ![w] = [pc |-> pc, todo |-> worker[w].todo \ {u}, tx |-> u]]
      BY <2>1 DEF Take
    <3>2. worker'[w] = [pc |-> pc, todo |-> worker[w].todo \ {u}, tx |-> u]
      BY <3>1, NewWorker
    <3>3. QED  BY <2>1, <3>2
  <2>3. u \in Legacy /\ provider[u] = "CONFIRMED" /\ u \in Tx
    <3>1. worker[w].pc = "recover"
      BY <1>9 DEF LookUpRequest, At
    <3>2. SelectedOK(w) /\ worker[w] \in WorkerType
      BY RowType DEF SInv
    <3>3. QED  BY <3>1, <3>2 DEF SelectedOK, WorkerType
  <2>4. RowOK(w)'
    BY <2>2, <2>3, Keeps DEF RowOK
  <2>5. SelectedOK(w)'
    BY <1>9, <2>2, SameLoop DEF LookUpRequest, At
  <2>6. QED  BY <2>4, <2>5
<1>10. CASE ClaimReconciliation(w)
  <2>1. worker[w].pc = "reconcile" /\ RowOK(w) /\ t \in Tx
    BY <1>10, RowType DEF ClaimReconciliation, At, SInv
  <2>2. ReconcileKey(t) \in ExecutionKeys /\ ReconcileKey(t) \in Keys
    BY <2>1 DEF ReconcileKey, ExecutionKeys, Keys
  <2>3. CASE Begun(t, ReconcileKey(t)) /\ Goto(w, "credit")
    <3>1. worker'[w] = [pc |-> "credit", todo |-> worker[w].todo, tx |-> t]
      BY <2>3, NewWorker DEF Goto
    <3>2. attempt'[ReconcileKey(t)] # NoAttempt
      <4>1. CASE BeginRampExecution(t, ReconcileKey(t))
        BY <2>2, <4>1 DEF BeginRampExecution, SInv, IInv, TypeOK, NoAttempt
      <4>2. CASE attempt[ReconcileKey(t)] # NoAttempt
        BY <2>2, <4>2, Keeps
      <4>3. QED  BY <2>3, <4>1, <4>2 DEF Begun
    <3>3. RowOK(w)'
      BY <2>1, <3>1, <3>2, Keeps DEF RowOK, ReconcileKey
    <3>4. QED  BY <2>1, <3>1, <3>3, SameLoop
  <2>4. CASE NextRow(w, "recover")
    <3>1. worker'[w] = [pc |-> "recover", todo |-> worker[w].todo, tx |-> NoTx]
      BY <2>4, NewWorker DEF NextRow
    <3>2. QED  BY <2>1, <3>1, SameLoop, BetweenRows
  <2>5. QED  BY <1>10, <2>3, <2>4 DEF ClaimReconciliation
<1>11. CASE CreditReconciled(w) \/ AdoptCompleted(w) \/ RequestCreated(w)
  <2>1. RowOK(w) /\ t \in Tx /\ worker[w].pc \in {"credit", "adoptCompleted", "create"}
    BY <1>11, RowType DEF CreditReconciled, AdoptCompleted, RequestCreated, At, SInv
  <2>2. \/ /\ worker[w].pc \in {"credit", "adoptCompleted"}
           /\ worker'[w] = [pc |-> worker'[w].pc, todo |-> worker[w].todo, tx |-> t]
           /\ worker'[w].pc \in {"adoptCompleted", "finishReconcile"}
           /\ intent'[t] = "RECEIVED"
        \/ worker'[w] = [pc |-> "adopt", todo |-> worker[w].todo, tx |-> t]
    BY <1>11, <2>1, NewWorker, Keeps
       DEF CreditReconciled, AdoptCompleted, RequestCreated, At, Goto, RowOK, SInv, SettlementTypeOK
  <2>3. ReconcileKey(t) \in ExecutionKeys
    BY <2>1 DEF ReconcileKey, ExecutionKeys
  <2>4. worker'[w].tx = t /\ worker'[w].todo = worker[w].todo
        /\ worker'[w].pc \in {"adoptCompleted", "finishReconcile", "adopt"}
        /\ (worker'[w].pc # "adopt" => intent'[t] = "RECEIVED"
                                       /\ worker[w].pc \in {"credit", "adoptCompleted"})
    BY <2>2
  <2>5. RowOK(w)'
    BY <2>1, <2>3, <2>4, Keeps DEF RowOK, ReconcileKey
  <2>6. QED  BY <2>1, <2>4, <2>5, SameLoop
<1>12. CASE FinishReconciled(w) \/ AdoptAwaiting(w) \/ CreateRejected(w)
  <2>1. worker'[w] = [pc |-> "recover", todo |-> worker[w].todo, tx |-> NoTx]
        /\ worker[w].pc \in RecoverySteps
    BY <1>12, NewWorker DEF FinishReconciled, AdoptAwaiting, CreateRejected, NextRow, At
  <2>2. QED  BY <2>1, SameLoop, BetweenRows
<1>13. CASE GiveUp(w) \/ WriteFails(w)
  <2>1. \/ /\ worker'[w] = [pc |-> "fail", todo |-> worker[w].todo, tx |-> t]
           /\ worker[w].pc \in {"confirm", "mark", "received", "finish"}
        \/ /\ worker'[w] = [pc |-> "recover", todo |-> worker[w].todo, tx |-> NoTx]
           /\ worker[w].pc \in RecoverySteps
        \/ /\ worker'[w] = [pc |-> "settle", todo |-> worker[w].todo, tx |-> NoTx]
           /\ worker[w].pc = "fail"
    BY <1>13, NewWorker DEF GiveUp, WriteFails, Goto, NextRow, At, Loop
  <2>2. ASSUME worker'[w] = [pc |-> "fail", todo |-> worker[w].todo, tx |-> t],
               worker[w].pc \in {"confirm", "mark", "received", "finish"}
        PROVE  RowOK(w)'
    <3>1. RowOK(w) /\ t \in Tx /\ ConfirmKey(t) \in ExecutionKeys
      BY <2>2, RowType DEF SInv, ConfirmKey, ExecutionKeys
    <3>2. QED  BY <2>2, <3>1, Keeps DEF RowOK, ConfirmKey
  <2>3. SelectedOK(w)'
    BY <2>1, SameLoop
  <2>4. QED  BY <2>1, <2>2, <2>3, BetweenRows
<1>14. QED
  BY <1>1, <1>2, <1>3, <1>4, <1>5, <1>6, <1>7, <1>8, <1>9, <1>10, <1>11, <1>12, <1>13
     DEF WorkerStep, FaultStep

(***************************************************************************)
(* The rows.                                                               *)
(***************************************************************************)
\* A step disturbs the row, the intent and the payment of one transaction.
LEMMA OneRow ==
  ASSUME SInv, NEW t \in Tx, IntentFits(t)',
         \A u \in Tx \ {t} : /\ state'[u] = state[u] /\ onchain'[u] = onchain[u]
                             /\ provider'[u] = provider[u] /\ intent'[u] = intent[u]
  PROVE  \A u \in Tx : IntentFits(u)'
BY DEF SInv, IntentFits

LEMMA RowsFit ==
  ASSUME SInv, [SettlementNext]_allVars
  PROVE  \A t \in Tx : IntentFits(t)'
<1> USE DEF SInv, IInv, TypeOK, SettlementTypeOK
<1>1. CASE UNCHANGED <<state, onchain, provider, intent>>
  BY <1>1 DEF IntentFits
<1>2. ASSUME NEW t \in Tx, CreateQuote(t) PROVE \A u \in Tx : IntentFits(u)'
  BY <1>2, OneRow DEF CreateQuote, CreateRampTransaction, Transition, Verdict, IntentFits
<1>3. ASSUME NEW t \in Tx, StartDeposit(t) PROVE \A u \in Tx : IntentFits(u)'
  BY <1>3, OneRow DEF StartDeposit, WriteOnchain, IntentFits
<1>4. ASSUME NEW t \in Tx, ExpireIntent(t) PROVE \A u \in Tx : IntentFits(u)'
  BY <1>4, OneRow DEF ExpireIntent, vars, IntentFits
<1>5. ASSUME NEW t \in Tx, NEW mismatch \in BOOLEAN, Reconcile(t, mismatch)
      PROVE  \A u \in Tx : IntentFits(u)'
  <2>1. PICK status \in {"CONFIRMED", "REVIEW"}, next \in {"REVIEW", "SETTLING"} :
          RecordProviderConfirmation(t, status) /\ intent' = [intent EXCEPT ![t] = next]
    BY <1>5 DEF Reconcile
  <2>2. QED  BY <2>1, OneRow DEF RecordProviderConfirmation, Transition, ConfirmedState, IntentFits
<1>6. ASSUME NEW t \in Tx, OperatorStep(t) PROVE \A u \in Tx : IntentFits(u)'
  <2>1. /\ UNCHANGED <<onchain, provider, intent>>
        /\ \E next \in {"APPROVED", "REJECTED"} : state' = [state EXCEPT ![t] = next]
        /\ state[t] \in {"PENDING_APPROVAL", "FAILED"}
    BY <1>6 DEF OperatorStep, DecideRampTransaction, ApprovalTransition, DecidedState, ApprovalStates,
       RetryRampTransaction, RetryAllowed, Transition, settleVars, Actions
  <2>2. QED  BY <2>1, OneRow DEF IntentFits
<1>7. ASSUME NEW t \in Tx, NEW key \in ExecutionKeys, Begun(t, key) \/ Refused(t, key), UNCHANGED intent
      PROVE  \A u \in Tx : IntentFits(u)'
  <2>1. CASE BeginRampExecution(t, key)
    BY <1>7, <2>1, OneRow DEF BeginRampExecution, Transition, IntentFits
  <2>2. CASE UNCHANGED vars
    BY <1>1, <1>7, <2>2 DEF vars
  <2>3. QED  BY <1>7, <2>1, <2>2 DEF Begun, Refused
<1>8. ASSUME NEW t \in Tx, NEW key \in ExecutionKeys, NEW succeeded \in BOOLEAN,
             Finished(t, key, succeeded), UNCHANGED intent
      PROVE  \A u \in Tx : IntentFits(u)'
  <2>1. CASE FinishRampExecution(t, key, succeeded)
    <3>1. key \in Keys /\ state[t] # "ABSENT"
      BY <2>1 DEF FinishRampExecution, Keys, Owned, ExecutionStates, NoAttempt
    <3>2. QED  BY <1>8, <2>1, <3>1, OneRow DEF FinishRampExecution, Transition, IntentFits
  <2>2. CASE UNCHANGED vars
    BY <1>1, <1>8, <2>2 DEF vars
  <2>3. QED  BY <1>8, <2>1, <2>2 DEF Finished
<1>9. ASSUME NEW w \in Workers, ClaimRow(w) \/ ClaimReconciliation(w) PROVE \A u \in Tx : IntentFits(u)'
  <2>1. CASE ClaimRow(w)
    <3>1. PICK t \in worker[w].todo : Begun(t, ConfirmKey(t)) \/ Refused(t, ConfirmKey(t))
      BY <2>1 DEF ClaimRow
    <3>2. t \in Tx /\ ConfirmKey(t) \in ExecutionKeys
      BY DEF ConfirmKey, ExecutionKeys
    <3>3. QED  BY <1>7, <2>1, <3>1, <3>2 DEF ClaimRow
  <2>2. CASE ClaimReconciliation(w)
    <3>1. worker[w].tx \in Tx
      BY <2>2, RowType DEF ClaimReconciliation, At, RecoverySteps
    <3>2. ReconcileKey(worker[w].tx) \in ExecutionKeys
      BY <3>1 DEF ReconcileKey, ExecutionKeys
    <3>3. QED  BY <1>7, <2>2, <3>1, <3>2 DEF ClaimReconciliation
  <2>3. QED  BY <1>9, <2>1, <2>2
<1>10. ASSUME NEW w \in Workers, FinishConfirmed(w) \/ FinishFailed(w) \/ CommitUnacknowledged(w)
                                 \/ FinishReconciled(w)
       PROVE  \A u \in Tx : IntentFits(u)'
  <2> DEFINE t == worker[w].tx
  <2>1. t \in Tx
    BY <1>10, RowType DEF FinishConfirmed, FinishFailed, CommitUnacknowledged, FinishReconciled, At,
       SettlementSteps, RecoverySteps
  <2>2. ConfirmKey(t) \in ExecutionKeys /\ ReconcileKey(t) \in ExecutionKeys
    BY <2>1 DEF ConfirmKey, ReconcileKey, ExecutionKeys
  <2>3. QED
    BY <1>8, <1>10, <2>1, <2>2 DEF FinishConfirmed, FinishFailed, CommitUnacknowledged, FinishReconciled
<1>11. ASSUME NEW w \in Workers, MarkOnchain(w) \/ AdoptCompleted(w) \/ AdoptAwaiting(w)
       PROVE  \A u \in Tx : IntentFits(u)'
  <2> DEFINE t == worker[w].tx
  <2>1. t \in Tx /\ provider[t] = "CONFIRMED"
    BY <1>11, RowType DEF MarkOnchain, AdoptCompleted, AdoptAwaiting, At, RowOK, SettlementSteps, RecoverySteps
  <2>2. UNCHANGED intent /\ \E next \in {"AWAITING_FIAT", "COMPLETED"} : WriteOnchain(t, next)
    BY <1>11 DEF MarkOnchain, AdoptCompleted, AdoptAwaiting
  <2>3. QED  BY <2>1, <2>2, OneRow DEF WriteOnchain, IntentFits
<1>12. ASSUME NEW w \in Workers, MarkReceived(w) \/ CreditReconciled(w) PROVE \A u \in Tx : IntentFits(u)'
  <2> DEFINE t == worker[w].tx
  <2>1. t \in Tx /\ state[t] \in ExecutionStates
    <3>1. t \in Tx
      BY <1>12, RowType DEF MarkReceived, CreditReconciled, At, SettlementSteps, RecoverySteps
    <3>2. attempt[ConfirmKey(t)] # NoAttempt \/ attempt[ReconcileKey(t)] # NoAttempt
      BY <1>12 DEF MarkReceived, CreditReconciled, At, RowOK, SettlementSteps
    <3>3. \A k \in {ConfirmKey(t), ReconcileKey(t)} : k \in ExecutionKeys /\ k \in Keys /\ k[2] = t
      BY <3>1 DEF ConfirmKey, ReconcileKey, ExecutionKeys, Keys
    <3>4. QED  BY <3>1, <3>2, <3>3 DEF KeyOwner, Owned
  <2>2. UNCHANGED vars /\ intent' = [intent EXCEPT ![t] = "RECEIVED"]
    BY <1>12 DEF MarkReceived, CreditReconciled
  <2>3. QED  BY <2>1, <2>2, OneRow DEF vars, IntentFits, ExecutionStates
<1>13. QED
  BY <1>1, <1>2, <1>3, <1>4, <1>5, <1>6, <1>9, <1>10, <1>11, <1>12
     DEF SettlementNext, SubmitRequest, AbandonedLands, WorkerStep, FaultStep,
         StartTick, StartSettling, EndTick, ConfirmLands, ConfirmRejected,
         LookUpRequest, RequestCreated, CreateRejected, GiveUp, WriteFails, Crash,
         allVars, settleVars, vars

\* What was released, or may be by a late call, is paid and cleared.
LEMMA ReleasesStep ==
  ASSUME SInv, [SettlementNext]_allVars
  PROVE  \A t \in Tx : ReleaseOK(t)'
<1>1. \A t \in Tx : Sure(t) => Sure(t)'
  BY Keeps
<1>2. ASSUME NEW t \in Tx, chain'[t] = "COMPLETED" PROVE Sure(t)
  <2>1. chain[t] = "COMPLETED" => Sure(t)
    BY DEF SInv, ReleaseOK
  <2>2. QED  BY <1>2, <2>1, Moves DEF ChainMoves, SInv, SettlementTypeOK
<1>3. ASSUME NEW t \in Tx, <<"confirm", t>> \in late' PROVE Sure(t)
  <2>1. <<"confirm", t>> \in late => Sure(t)
    BY DEF SInv, ReleaseOK
  <2>2. QED  BY <1>3, <2>1, Moves DEF LateMoves
<1>4. QED  BY <1>1, <1>2, <1>3 DEF ReleaseOK

\* A row becomes COMPLETED only after the request did.
LEMMA Completes ==
  ASSUME SInv, [SettlementNext]_allVars
  PROVE  \A t \in Tx :
           /\ state'[t] = "COMPLETED" => \/ state[t] = "COMPLETED"
                                         \/ intent[t] = "RECEIVED" /\ chain[t] = "COMPLETED"
           /\ onchain'[t] = "COMPLETED" => onchain[t] = "COMPLETED" \/ chain[t] = "COMPLETED"
<1> DEFINE Goal ==
      \A t \in Tx :
         /\ state'[t] = "COMPLETED" => \/ state[t] = "COMPLETED"
                                       \/ intent[t] = "RECEIVED" /\ chain[t] = "COMPLETED"
         /\ onchain'[t] = "COMPLETED" => onchain[t] = "COMPLETED" \/ chain[t] = "COMPLETED"
<1> USE DEF SInv, IInv, TypeOK
<1>1. ASSUME UNCHANGED vars PROVE Goal
  BY <1>1 DEF vars
<1>2. ASSUME NEW t \in Tx, UNCHANGED onchain, NEW next \in RampStates \ {"COMPLETED"},
             state' = [state EXCEPT ![t] = next]
      PROVE  Goal
  BY <1>2
<1>3. ASSUME NEW t \in Tx, CreateQuote(t) PROVE Goal
  BY <1>2, <1>3 DEF CreateQuote, CreateRampTransaction, Transition, Verdict, RampStates
<1>4. ASSUME NEW t \in Tx, StartDeposit(t) PROVE Goal
  BY <1>4 DEF StartDeposit, WriteOnchain
<1>5. ASSUME NEW t \in Tx, NEW mismatch \in BOOLEAN, Reconcile(t, mismatch) PROVE Goal
  <2>1. PICK status \in {"CONFIRMED", "REVIEW"} : RecordProviderConfirmation(t, status)
    BY <1>5 DEF Reconcile
  <2>2. QED  BY <2>1 DEF RecordProviderConfirmation, Transition, ConfirmedState
<1>6. ASSUME NEW t \in Tx, OperatorStep(t) PROVE Goal
  BY <1>2, <1>6 DEF OperatorStep, DecideRampTransaction, DecidedState, ApprovalStates,
     RetryRampTransaction, Transition, RampStates, Actions
<1>7. ASSUME NEW t, NEW key, t \in Tx, Begun(t, key) \/ Refused(t, key) PROVE Goal
  BY <1>1, <1>2, <1>7 DEF Begun, Refused, BeginRampExecution, Transition, RampStates
<1>8. ASSUME NEW w \in Workers, ClaimRow(w) PROVE Goal
  <2>1. PICK t \in worker[w].todo : Begun(t, ConfirmKey(t)) \/ Refused(t, ConfirmKey(t))
    BY <1>8 DEF ClaimRow
  <2>2. t \in Tx
    BY <2>1, RowType DEF WorkerType
  <2>3. QED  BY <1>7, <2>1, <2>2
<1>9. ASSUME NEW w \in Workers, ClaimReconciliation(w) PROVE Goal
  <2>1. worker[w].tx \in Tx
    BY <1>9, RowType DEF ClaimReconciliation, At, RecoverySteps
  <2>2. QED  BY <1>7, <1>9, <2>1 DEF ClaimReconciliation
<1>10. ASSUME NEW w \in Workers, FinishConfirmed(w) \/ CommitUnacknowledged(w) \/ FinishReconciled(w)
       PROVE  Goal
  <2> DEFINE t == worker[w].tx
  <2>1. t \in Tx /\ intent[t] = "RECEIVED" /\ chain[t] = "COMPLETED"
    BY <1>10, RowType DEF FinishConfirmed, CommitUnacknowledged, FinishReconciled, At, RowOK,
       SettlementSteps, RecoverySteps
  <2>2. \E key : Finished(t, key, TRUE)
    BY <1>10 DEF FinishConfirmed, CommitUnacknowledged, FinishReconciled
  <2>3. QED  BY <1>1, <2>1, <2>2 DEF Finished, FinishRampExecution, Transition
<1>11. ASSUME NEW w \in Workers, FinishFailed(w) PROVE Goal
  <2>1. worker[w].tx \in Tx
    BY <1>11, RowType DEF FinishFailed, At, SettlementSteps
  <2>2. QED  BY <1>1, <1>2, <1>11, <2>1 DEF FinishFailed, Finished, FinishRampExecution, Transition, RampStates
<1>12. ASSUME NEW w \in Workers, MarkOnchain(w) \/ AdoptCompleted(w) PROVE Goal
  <2>1. worker[w].tx \in Tx /\ chain[worker[w].tx] = "COMPLETED"
    BY <1>12, RowType DEF MarkOnchain, AdoptCompleted, At, RowOK, SettlementSteps, RecoverySteps
  <2>2. QED  BY <1>12, <2>1 DEF MarkOnchain, AdoptCompleted, WriteOnchain
<1>13. ASSUME NEW w \in Workers, AdoptAwaiting(w) PROVE Goal
  <2>1. worker[w].tx \in Tx
    BY <1>13, RowType DEF AdoptAwaiting, At, RecoverySteps
  <2>2. QED  BY <1>13, <2>1 DEF AdoptAwaiting, WriteOnchain
<1>14. QED
  BY <1>1, <1>3, <1>4, <1>5, <1>6, <1>8, <1>9, <1>10, <1>11, <1>12, <1>13
     DEF SettlementNext, SubmitRequest, ExpireIntent, AbandonedLands, WorkerStep, FaultStep,
         StartTick, StartSettling, EndTick, ConfirmLands, ConfirmRejected, MarkReceived,
         LookUpRequest, CreditReconciled, RequestCreated, CreateRejected, GiveUp, WriteFails, Crash, allVars

LEMMA ShownStep ==
  ASSUME SInv, [SettlementNext]_allVars
  PROVE  \A t \in Tx : ShownOK(t)'
<1>1. ASSUME NEW t \in Tx, state'[t] = "COMPLETED"
      PROVE  intent'[t] = "RECEIVED" /\ chain'[t] = "COMPLETED"
  <2>1. intent[t] = "RECEIVED" /\ chain[t] = "COMPLETED"
    BY <1>1, Completes DEF SInv, ShownOK
  <2>2. QED  BY <2>1, Keeps
<1>2. ASSUME NEW t \in Tx, onchain'[t] = "COMPLETED" PROVE chain'[t] = "COMPLETED"
  <2>1. chain[t] = "COMPLETED"
    BY <1>2, Completes DEF SInv, ShownOK
  <2>2. QED  BY <2>1, Keeps
<1>3. ASSUME NEW t \in Tx, intent'[t] = "RECEIVED", t \notin Legacy PROVE chain'[t] = "COMPLETED"
  <2>1. chain[t] = "COMPLETED"
    <3>1. intent[t] = "RECEIVED" => chain[t] = "COMPLETED"
      BY <1>3 DEF SInv, ShownOK
    <3>2. intent \in [Tx -> IntentStates]
      BY DEF SInv, SettlementTypeOK
    <3>3. QED  BY <1>3, <3>1, <3>2, Moves DEF IntentMoves
  <2>2. QED  BY <2>1, Keeps
<1>4. QED  BY <1>1, <1>2, <1>3 DEF ShownOK

LEMMA StepSInv == SInv /\ [SettlementNext]_allVars => SInv'
<1> SUFFICES ASSUME SInv, [SettlementNext]_allVars PROVE SInv'
  OBVIOUS
<1>1. ASSUME NEW w \in Workers PROVE SelectedOK(w)' /\ RowOK(w)'
  <2>1. CASE WorkerStep(w) \/ FaultStep(w)
    BY <2>1, WorkerMoves
  <2>2. CASE worker'[w] = worker[w]
    BY <2>2, WorkerStays
  <2>3. ASSUME NEW v \in Workers, v # w, WorkerStep(v) \/ FaultStep(v) PROVE worker'[w] = worker[w]
    BY <2>3
    DEF WorkerStep, FaultStep, StartTick, StartSettling, EndTick, ClaimRow, ConfirmLands, ConfirmRejected,
        MarkOnchain, MarkReceived, FinishConfirmed, FinishFailed, LookUpRequest, ClaimReconciliation,
        CreditReconciled, AdoptCompleted, FinishReconciled, RequestCreated, AdoptAwaiting, CreateRejected,
        GiveUp, WriteFails, CommitUnacknowledged, Crash, Goto, Take, NextRow, SInv, SettlementTypeOK
  <2>4. (\E v \in Workers : WorkerStep(v) \/ FaultStep(v)) \/ UNCHANGED worker
    BY DEF SettlementNext, CreateQuote, SubmitRequest, StartDeposit, ExpireIntent,
       OperatorStep, Reconcile, AbandonedLands, allVars, settleVars
  <2>5. QED  BY <2>1, <2>2, <2>3, <2>4
<1>2. QED
  BY <1>1, Keeps, SettlementTypeStep, RowsFit, ReleasesStep, ShownStep DEF SInv

(***************************************************************************)
(* The theorems.                                                           *)
(***************************************************************************)
\* The invariant of on-ramp settlement holds in every reachable state.
THEOREM SettlementInductive == SettlementSpec => []SInv
<1>1. QED  BY InitSInv, StepSInv, PTL DEF SettlementSpec

\* Requests, intents, workers and late calls stay within their domains.
THEOREM SettlementTypeCorrect == SettlementSpec => []SettlementTypeOK
<1>1. SInv => SettlementTypeOK
  BY DEF SInv
<1>2. QED  BY SettlementInductive, <1>1, PTL

\* The writers and callers that ramp/service.ts has in on-ramp settlement keep
\* to the ledger: all that is proved of the ledger holds of it, however many
\* workers there are and whatever calls time out, fail or come late.
THEOREM SettlementImplementsLedger == SettlementSpec => ImplementsLedger
<1>1. SettlementInit => Init
  BY DEF SettlementInit
<1>2. QED  BY SettlementInductive, StepRefines, <1>1, PTL DEF SettlementSpec, ImplementsLedger, Spec

\* USDC is released, or about to be, only against a verified payment of a
\* cleared transaction.
THEOREM ReleasesAuthorised == SettlementSpec => []ReleaseAuthorised
<1>1. SInv => ReleaseAuthorised
  <2> SUFFICES ASSUME SInv, NEW t \in Tx,
                      \/ chain[t] = "COMPLETED" \/ <<"confirm", t>> \in late
                      \/ \E w \in Workers : At(w, "confirm") /\ worker[w].tx = t
               PROVE  Sure(t)
    BY DEF ReleaseAuthorised, Sure
  <2>1. CASE chain[t] = "COMPLETED" \/ <<"confirm", t>> \in late
    BY <2>1 DEF SInv, ReleaseOK
  <2>2. CASE \E w \in Workers : At(w, "confirm") /\ worker[w].tx = t
    BY <2>2, RowType DEF At, SettlementSteps
  <2>3. QED  BY <2>1, <2>2
<1>2. QED  BY SettlementInductive, <1>1, PTL

\* What is shown as completed or received was released by the orchestrator.
THEOREM ReleasesShown == SettlementSpec => []ShownReleased
<1>1. SInv => ShownReleased
  BY DEF SInv, ShownOK, ShownReleased
<1>2. QED  BY SettlementInductive, <1>1, PTL

(***************************************************************************)
(* Failures.  Without faults and with one worker a failed row was not      *)
(* released.  That needs to be known of the rows the worker is yet to      *)
(* settle: they are still approved, and none of them was released, since   *)
(* the worker writes onchain_state between a release and its next tick.    *)
(***************************************************************************)
NoFaultOneWorker == MaxFaults = 0 /\ \A v, w \in Workers : v = w

LoneTodo(w) ==
  worker[w].pc \in {"settle"} \cup SettlementSteps =>
    \A t \in worker[w].todo :
      t # worker[w].tx /\ state[t] = "APPROVED" /\ chain[t] # "COMPLETED"

LoneRow(w) ==
  /\ worker[w].pc \in {"confirm", "fail", "create", "adopt"} => chain[worker[w].tx] # "COMPLETED"
  /\ worker[w].pc = "confirm" => state[worker[w].tx] # "FAILED"

\* onchain_state lags behind a release only until the worker's next write.
Adopted(t) ==
  onchain[t] = "AWAITING_FIAT" /\ chain[t] = "COMPLETED" =>
    \E w \in Workers : worker[w].pc = "mark" /\ worker[w].tx = t

LoneInv ==
  /\ late = {}
  /\ \A w \in Workers : LoneTodo(w) /\ LoneRow(w)
  /\ \A t \in Tx : Adopted(t)
  /\ FailureIsReal

\* What a step of another component leaves of this.
Calm ==
  \A t \in Tx :
    /\ chain'[t] = "COMPLETED" => chain[t] = "COMPLETED"
    /\ state[t] = "APPROVED" /\ provider[t] = "CONFIRMED" => state'[t] = "APPROVED"
    /\ state'[t] = "FAILED" => state[t] = "FAILED"
    /\ onchain'[t] = "AWAITING_FIAT" /\ chain'[t] = "COMPLETED" => onchain[t] = "AWAITING_FIAT"

\* Initially nothing has failed, nobody works, and a request that was confirmed
\* belongs to a backfilled row without an onchain_state.
LEMMA InitLone == SettlementInit => LoneInv
<1> SUFFICES ASSUME SettlementInit PROVE LoneInv
  OBVIOUS
<1>1. late = {} /\ \A w \in Workers : worker[w] = Idle
  BY DEF SettlementInit
<1>2. \A w \in Workers : LoneTodo(w) /\ LoneRow(w)
  BY <1>1 DEF LoneTodo, LoneRow, Idle, SettlementSteps
<1>3. \A t \in Tx : Adopted(t)
  BY DEF SettlementInit, Init, Adopted
<1>4. FailureIsReal
  <2>1. \A t \in Tx : state[t] # "FAILED"
    BY DEF SettlementInit, Init, BackfilledRows
  <2>2. QED  BY <2>1 DEF FailureIsReal
<1>5. QED  BY <1>1, <1>2, <1>3, <1>4 DEF LoneInv

\* A calm step of the environment.
LEMMA LoneEnvironment ==
  ASSUME SInv, LoneInv, UNCHANGED <<worker, late>>, Calm
  PROVE  LoneInv'
<1>1. ASSUME NEW w \in Workers PROVE LoneTodo(w)' /\ LoneRow(w)'
  <2>1. LoneTodo(w) /\ LoneRow(w) /\ SelectedOK(w) /\ worker[w] \in WorkerType
    BY RowType DEF LoneInv, SInv
  <2>2. worker[w].pc \in {"confirm", "fail", "create", "adopt"} => worker[w].tx \in Tx
    BY RowType DEF SettlementSteps, RecoverySteps
  <2>3. LoneTodo(w)'
    BY <2>1 DEF LoneTodo, SelectedOK, Calm, WorkerType
  <2>4. LoneRow(w)'
    BY <2>1, <2>2 DEF LoneRow, Calm
  <2>5. QED  BY <2>3, <2>4
<1>2. \A t \in Tx : Adopted(t)'
  BY DEF LoneInv, Adopted, Calm
<1>3. FailureIsReal'
  BY DEF LoneInv, FailureIsReal, Calm
<1>4. QED  BY <1>1, <1>2, <1>3 DEF LoneInv

\* The consumer, the provider and the operators are calm.
LEMMA EnvironmentIsCalm ==
  ASSUME SInv, LoneInv, NEW t \in Tx,
         \/ CreateQuote(t) \/ SubmitRequest(t) \/ StartDeposit(t) \/ ExpireIntent(t)
         \/ OperatorStep(t) \/ \E mismatch \in BOOLEAN : Reconcile(t, mismatch)
  PROVE  Calm /\ UNCHANGED <<worker, late>>
<1> USE DEF SInv, IInv, SettlementTypeOK, TypeOK
<1>1. CASE CreateQuote(t)
  BY <1>1 DEF CreateQuote, CreateRampTransaction, Transition, Verdict, Calm
<1>2. CASE SubmitRequest(t)
  BY <1>2 DEF SubmitRequest, Calm, vars
<1>3. CASE StartDeposit(t)
  BY <1>3 DEF StartDeposit, WriteOnchain, Calm
<1>4. CASE ExpireIntent(t)
  BY <1>4 DEF ExpireIntent, Calm, vars
<1>5. CASE OperatorStep(t)
  <2>1. ASSUME NEW action \in Actions, DecideRampTransaction(t, action)
        PROVE  /\ state[t] = "PENDING_APPROVAL" /\ state'[t] # "FAILED" /\ UNCHANGED onchain
               /\ \A u \in Tx \ {t} : state'[u] = state[u]
    BY <2>1 DEF DecideRampTransaction, ApprovalTransition, DecidedState, Transition
  <2>2. ASSUME NEW key \in RetryKeys, RetryRampTransaction(t, key)
        PROVE  /\ state'[t] = "APPROVED" /\ UNCHANGED onchain
               /\ \A u \in Tx \ {t} : state'[u] = state[u]
    BY <2>2 DEF RetryRampTransaction, Transition
  <2>3. UNCHANGED <<chain, worker, late>>
    BY <1>5 DEF OperatorStep, settleVars
  <2>4. QED  BY <1>5, <2>1, <2>2, <2>3 DEF OperatorStep, Calm
<1>6. ASSUME NEW mismatch \in BOOLEAN, Reconcile(t, mismatch) PROVE Calm /\ UNCHANGED <<worker, late>>
  <2>1. /\ provider[t] = "NONE" /\ state'[t] # "FAILED"
        /\ \A u \in Tx \ {t} : state'[u] = state[u]
        /\ UNCHANGED <<onchain, chain, worker, late>>
    BY <1>6 DEF Reconcile, RecordProviderConfirmation, ConfirmedState, Transition
  <2>2. QED  BY <2>1 DEF Calm
<1>7. QED  BY <1>1, <1>2, <1>3, <1>4, <1>5, <1>6

\* Outside "mark" no released row still awaits fiat.
LEMMA NoneLags ==
  ASSUME LoneInv, NoFaultOneWorker, NEW w \in Workers, worker[w].pc # "mark"
  PROVE  \A t \in Tx : ~(onchain[t] = "AWAITING_FIAT" /\ chain[t] = "COMPLETED")
BY DEF LoneInv, Adopted, NoFaultOneWorker

\* What a step of the only worker has to keep.
LEMMA LoneWorkerKeeps ==
  ASSUME NoFaultOneWorker, LoneInv, UNCHANGED late, NEW w \in Workers,
         LoneTodo(w)', LoneRow(w)', \A t \in Tx : Adopted(t)', FailureIsReal'
  PROVE  LoneInv'
BY DEF LoneInv, NoFaultOneWorker

\* A step of the worker that touches neither a row nor a request.
LEMMA LoneQuiet ==
  ASSUME SInv, LoneInv, NoFaultOneWorker, NEW w \in Workers, UNCHANGED <<state, onchain, chain, late>>,
         worker[w].pc # "mark", LoneTodo(w)', LoneRow(w)'
  PROVE  LoneInv'
<1>1. \A t \in Tx : Adopted(t)'
  BY NoneLags DEF Adopted
<1>2. FailureIsReal'
  BY DEF LoneInv, FailureIsReal
<1>3. QED  BY <1>1, <1>2, LoneWorkerKeeps

\* The steps between rows, and those that only look or are refused.
LEMMA LoneBetween ==
  ASSUME SInv, LoneInv, NoFaultOneWorker, NEW w \in Workers,
         \/ StartTick(w) \/ StartSettling(w) \/ EndTick(w) \/ LookUpRequest(w) \/ ConfirmRejected(w)
         \/ CreateRejected(w) \/ MarkReceived(w) \/ CreditReconciled(w)
  PROVE  LoneInv'
<1> USE DEF SettlementSteps, At
<1>0. LoneTodo(w) /\ LoneRow(w) /\ worker[w] \in WorkerType
  BY RowType DEF LoneInv
<1>1. CASE StartTick(w) \/ EndTick(w) \/ CreateRejected(w)
  <2>1. worker'[w].pc \in {"idle", "recover"} /\ worker[w].pc # "mark" /\ UNCHANGED <<state, onchain, chain, late>>
    BY <1>1, NewWorker DEF StartTick, EndTick, CreateRejected, NextRow, Idle, vars
  <2>2. QED  BY <2>1, LoneQuiet DEF LoneTodo, LoneRow
<1>2. CASE StartSettling(w)
  <2>1. /\ worker'[w] = [pc |-> "settle", todo |-> SettlementRows, tx |-> NoTx] /\ worker[w].pc = "recover"
        /\ UNCHANGED <<state, onchain, chain, late>>
    BY <1>2, NewWorker DEF StartSettling, vars
  <2>2. \A t \in SettlementRows : t # NoTx /\ state[t] = "APPROVED" /\ chain[t] # "COMPLETED"
    BY <2>1, NoneLags, NoTxIsNotTx DEF SettlementRows, Paid
  <2>3. LoneTodo(w)' /\ LoneRow(w)'
    BY <2>1, <2>2 DEF LoneTodo, LoneRow
  <2>4. QED  BY <2>1, <2>3, LoneQuiet
<1>3. CASE LookUpRequest(w)
  <2>1. PICK t \in worker[w].todo :
          Take(w, t, IF chain[t] = "COMPLETED" THEN "reconcile"
                     ELSE IF chain[t] = "NONE" THEN "create" ELSE "adopt")
    BY <1>3 DEF LookUpRequest
  <2>2. PICK pc \in {"reconcile", "create", "adopt"} :
          Take(w, t, pc) /\ (pc # "reconcile" => chain[t] # "COMPLETED")
    BY <2>1
  <2>3. worker'[w] = [pc |-> pc, todo |-> worker[w].todo \ {t}, tx |-> t]
    BY <2>2, NewWorker DEF Take
  <2>4. worker[w].pc = "recover" /\ UNCHANGED <<state, onchain, chain, late>>
    BY <1>3 DEF LookUpRequest, vars
  <2>5. LoneTodo(w)' /\ LoneRow(w)'
    BY <2>2, <2>3, <2>4 DEF LoneTodo, LoneRow
  <2>6. QED  BY <2>4, <2>5, LoneQuiet
<1>4. CASE ConfirmRejected(w) \/ MarkReceived(w) \/ CreditReconciled(w)
  <2>1. /\ \/ worker[w].pc = "confirm" /\ worker'[w].pc = "fail"
           \/ worker[w].pc = "received" /\ worker'[w].pc = "finish"
           \/ worker[w].pc = "credit" /\ worker'[w].pc = "adoptCompleted"
        /\ worker'[w].todo = worker[w].todo /\ worker'[w].tx = worker[w].tx
        /\ UNCHANGED <<state, onchain, chain, late>>
    BY <1>4, NewWorker DEF ConfirmRejected, MarkReceived, CreditReconciled, Goto, vars
  <2>2. LoneTodo(w)' /\ LoneRow(w)'
    BY <1>0, <2>1 DEF LoneTodo, LoneRow
  <2>3. QED  BY <2>1, <2>2, LoneQuiet
<1>5. QED  BY <1>1, <1>2, <1>3, <1>4

\* What claiming and finishing do to states.
LEMMA LedgerStates ==
  ASSUME SInv, NEW t \in Tx, NEW key \in ExecutionKeys
  PROVE  /\ Begun(t, key) => /\ \A u \in Tx \ {t} : state'[u] = state[u]
                             /\ state'[t] = state[t] \/ state'[t] = "PROCESSING"
                             /\ UNCHANGED onchain
         /\ Finished(t, key, TRUE) => /\ \A u \in Tx \ {t} : state'[u] = state[u]
                                      /\ state'[t] = state[t] \/ state'[t] = "COMPLETED"
                                      /\ UNCHANGED onchain
         /\ Finished(t, key, FALSE) => (\A u \in Tx \ {t} : state'[u] = state[u]) /\ UNCHANGED onchain
BY DEF Begun, BeginRampExecution, Finished, FinishRampExecution, Transition, SInv, IInv, TypeOK, vars

\* Selected rows are approved and unreleased, so what is claimed has not failed.
LEMMA LoneClaim ==
  ASSUME SInv, LoneInv, NoFaultOneWorker, NEW w \in Workers, ClaimRow(w)
  PROVE  LoneInv'
<1> USE DEF SettlementSteps, At
<1>1. LoneTodo(w) /\ worker[w] \in WorkerType /\ worker[w].pc = "settle" /\ UNCHANGED <<chain, late>>
  BY RowType DEF LoneInv, ClaimRow
<1>2. PICK t \in worker[w].todo :
        \/ Begun(t, ConfirmKey(t)) /\ Take(w, t, "confirm")
        \/ /\ UNCHANGED vars
           /\ worker' = [worker EXCEPT ![w] =
                [pc |-> "settle", todo |-> worker[w].todo \ {t}, tx |-> NoTx]]
  BY DEF ClaimRow, Refused
<1>3. t \in Tx /\ ConfirmKey(t) \in ExecutionKeys /\ state[t] = "APPROVED" /\ chain[t] # "COMPLETED"
  BY <1>1 DEF LoneTodo, WorkerType, ConfirmKey, ExecutionKeys
<1>4. CASE Begun(t, ConfirmKey(t)) /\ Take(w, t, "confirm")
  <2>1. worker'[w] = [pc |-> "confirm", todo |-> worker[w].todo \ {t}, tx |-> t]
    BY <1>4, NewWorker DEF Take
  <2>2. /\ \A u \in Tx \ {t} : state'[u] = state[u]
        /\ state'[t] \in {"APPROVED", "PROCESSING"} /\ UNCHANGED onchain
    BY <1>3, <1>4, LedgerStates
  <2>3. LoneTodo(w)'
    BY <1>1, <2>1, <2>2 DEF LoneTodo, WorkerType
  <2>4. LoneRow(w)'
    BY <1>1, <1>3, <2>1, <2>2 DEF LoneRow
  <2>5. \A u \in Tx : Adopted(u)'
    BY <1>1, <2>2, NoneLags DEF Adopted
  <2>6. FailureIsReal'
    BY <1>1, <2>2 DEF LoneInv, FailureIsReal
  <2>7. QED  BY <1>1, <2>3, <2>4, <2>5, <2>6, LoneWorkerKeeps
<1>5. CASE UNCHANGED vars /\ worker' = [worker EXCEPT ![w] =
                                   [pc |-> "settle", todo |-> worker[w].todo \ {t}, tx |-> NoTx]]
  <2>1. worker'[w] = [pc |-> "settle", todo |-> worker[w].todo \ {t}, tx |-> NoTx]
    BY <1>5, NewWorker
  <2>2. NoTx \notin Tx
    BY NoTxIsNotTx
  <2>3. UNCHANGED <<state, onchain>>
    BY <1>5 DEF vars
  <2>4. LoneTodo(w)' /\ LoneRow(w)'
    BY <1>1, <2>1, <2>2, <2>3 DEF LoneTodo, LoneRow, WorkerType
  <2>5. QED  BY <1>1, <2>3, <2>4, LoneQuiet
<1>6. QED  BY <1>2, <1>4, <1>5

\* The release, and the write that follows it.
LEMMA LoneRelease ==
  ASSUME SInv, LoneInv, NoFaultOneWorker, NEW w \in Workers, ConfirmLands(w) \/ MarkOnchain(w)
  PROVE  LoneInv'
<1> DEFINE t == worker[w].tx
<1> USE DEF SettlementSteps, At
<1>1. LoneTodo(w) /\ LoneRow(w) /\ worker[w] \in WorkerType /\ t \in Tx
  BY RowType DEF LoneInv, ConfirmLands, MarkOnchain
<1>2. CASE ConfirmLands(w)
  <2>1. /\ worker'[w] = [pc |-> "mark", todo |-> worker[w].todo, tx |-> t] /\ worker[w].pc = "confirm"
        /\ UNCHANGED <<state, onchain, late>>
        /\ \A u \in Tx \ {t} : chain'[u] = chain[u]
    BY <1>1, <1>2, NewWorker DEF ConfirmLands, Goto, vars, SInv, SettlementTypeOK
  <2>2. LoneTodo(w)' /\ LoneRow(w)'
    BY <1>1, <2>1 DEF LoneTodo, LoneRow, WorkerType
  <2>3. ASSUME NEW u \in Tx PROVE Adopted(u)'
    <3>1. CASE u = t
      BY <2>1, <3>1 DEF Adopted
    <3>2. CASE u # t
      BY <2>1, <3>2, NoneLags DEF Adopted
    <3>3. QED  BY <3>1, <3>2
  <2>4. FailureIsReal'
    BY <1>1, <2>1 DEF LoneInv, FailureIsReal, LoneRow
  <2>5. QED  BY <2>1, <2>2, <2>3, <2>4, LoneWorkerKeeps
<1>3. CASE MarkOnchain(w)
  <2>1. /\ worker'[w] = [pc |-> "received", todo |-> worker[w].todo, tx |-> t] /\ worker[w].pc = "mark"
        /\ UNCHANGED <<state, chain, late>> /\ onchain'[t] = "COMPLETED"
        /\ \A u \in Tx \ {t} : onchain'[u] = onchain[u]
    BY <1>1, <1>3, NewWorker DEF MarkOnchain, WriteOnchain, Goto, SInv, IInv, TypeOK
  <2>2. LoneTodo(w)' /\ LoneRow(w)'
    BY <1>1, <2>1 DEF LoneTodo, LoneRow, WorkerType
  <2>3. ASSUME NEW u \in Tx PROVE Adopted(u)'
    <3>1. CASE u = t
      BY <2>1, <3>1 DEF Adopted
    <3>2. CASE u # t
      BY <2>1, <3>2 DEF Adopted, LoneInv, NoFaultOneWorker
    <3>3. QED  BY <3>1, <3>2
  <2>4. FailureIsReal'
    BY <2>1 DEF LoneInv, FailureIsReal
  <2>5. QED  BY <2>1, <2>2, <2>3, <2>4, LoneWorkerKeeps
<1>4. QED  BY <1>2, <1>3

\* The end of an execution: only a rejected one fails.
LEMMA LoneFinish ==
  ASSUME SInv, LoneInv, NoFaultOneWorker, NEW w \in Workers,
         FinishConfirmed(w) \/ FinishFailed(w) \/ FinishReconciled(w)
  PROVE  LoneInv'
<1> DEFINE t == worker[w].tx
<1> USE DEF SettlementSteps, RecoverySteps, At
<1>1. LoneTodo(w) /\ LoneRow(w) /\ worker[w] \in WorkerType /\ t \in Tx
  BY RowType DEF LoneInv, FinishConfirmed, FinishFailed, FinishReconciled
<1>2. ConfirmKey(t) \in ExecutionKeys /\ ReconcileKey(t) \in ExecutionKeys
  BY <1>1 DEF ConfirmKey, ReconcileKey, ExecutionKeys
<1>3. /\ UNCHANGED <<chain, late>> /\ worker'[w].todo = worker[w].todo /\ worker'[w].tx = NoTx
      /\ worker[w].pc \in {"finish", "fail", "finishReconcile"}
      /\ worker'[w].pc \in {"settle", "recover"}
      /\ worker'[w].pc = "settle" => worker[w].pc \in {"finish", "fail"}
  <2>1. CASE FinishConfirmed(w) \/ FinishFailed(w)
    <3>1. worker'[w] = [pc |-> "settle", todo |-> worker[w].todo, tx |-> NoTx]
      BY <2>1, NewWorker DEF FinishConfirmed, FinishFailed, NextRow
    <3>2. UNCHANGED <<chain, late>> /\ worker[w].pc \in {"finish", "fail"}
      BY <2>1 DEF FinishConfirmed, FinishFailed
    <3>3. QED  BY <3>1, <3>2
  <2>2. CASE FinishReconciled(w)
    <3>1. worker'[w] = [pc |-> "recover", todo |-> worker[w].todo, tx |-> NoTx]
      BY <2>2, NewWorker DEF FinishReconciled, NextRow
    <3>2. QED  BY <2>2, <3>1 DEF FinishReconciled
  <2>3. QED  BY <2>1, <2>2
<1>4. (\A u \in Tx \ {t} : state'[u] = state[u]) /\ UNCHANGED onchain
  BY <1>1, <1>2, LedgerStates DEF FinishConfirmed, FinishFailed, FinishReconciled
<1>5. state'[t] = "FAILED" => chain[t] # "COMPLETED"
  <2>1. CASE FinishConfirmed(w) \/ FinishReconciled(w)
    <3>1. state'[t] = state[t] \/ state'[t] = "COMPLETED"
      BY <1>1, <1>2, <2>1, LedgerStates DEF FinishConfirmed, FinishReconciled
    <3>2. QED  BY <1>1, <3>1 DEF LoneInv, FailureIsReal
  <2>2. CASE FinishFailed(w)
    BY <1>1, <2>2 DEF FinishFailed, LoneRow
  <2>3. QED  BY <2>1, <2>2
<1>6. NoTx \notin Tx
  BY NoTxIsNotTx
<1>7. LoneTodo(w)' /\ LoneRow(w)'
  BY <1>1, <1>3, <1>4, <1>6 DEF LoneTodo, LoneRow, WorkerType
<1>8. \A u \in Tx : Adopted(u)'
  BY <1>3, <1>4, NoneLags DEF Adopted
<1>9. FailureIsReal'
  BY <1>3, <1>4, <1>5 DEF LoneInv, FailureIsReal
<1>10. QED  BY <1>3, <1>7, <1>8, <1>9, LoneWorkerKeeps

\* Recovery.
LEMMA LoneRecovery ==
  ASSUME SInv, LoneInv, NoFaultOneWorker, NEW w \in Workers,
         ClaimReconciliation(w) \/ AdoptCompleted(w) \/ RequestCreated(w) \/ AdoptAwaiting(w)
  PROVE  LoneInv'
<1> DEFINE t == worker[w].tx
<1> USE DEF SettlementSteps, RecoverySteps, At
<1>1. LoneRow(w) /\ worker[w] \in WorkerType /\ t \in Tx
      /\ worker[w].pc \in {"reconcile", "adoptCompleted", "create", "adopt"}
  BY RowType DEF LoneInv, ClaimReconciliation, AdoptCompleted, RequestCreated, AdoptAwaiting
<1>2. ReconcileKey(t) \in ExecutionKeys
  BY <1>1 DEF ReconcileKey, ExecutionKeys
<1>3. /\ worker'[w].pc \in {"credit", "recover", "finishReconcile", "adopt"} /\ UNCHANGED late
      /\ worker'[w].pc = "adopt" => worker'[w].tx = t
  BY NewWorker
     DEF ClaimReconciliation, AdoptCompleted, RequestCreated, AdoptAwaiting, Goto, NextRow
<1>4. /\ \A u \in Tx \ {t} : state'[u] = state[u] /\ onchain'[u] = onchain[u] /\ chain'[u] = chain[u]
      /\ chain'[t] = "COMPLETED" => chain[t] = "COMPLETED"
      /\ state'[t] = state[t] \/ state'[t] = "PROCESSING"
      /\ onchain'[t] = onchain[t] \/ onchain'[t] = "COMPLETED" \/ chain'[t] # "COMPLETED"
      /\ worker'[w].pc = "adopt" => chain'[t] # "COMPLETED"
  <2> USE DEF SInv, IInv, TypeOK, SettlementTypeOK
  <2>1. CASE ClaimReconciliation(w)
    <3>1. CASE Begun(t, ReconcileKey(t)) /\ Goto(w, "credit")
      BY <1>1, <1>2, <2>1, <3>1, LedgerStates, NewWorker DEF ClaimReconciliation, Goto
    <3>2. CASE UNCHANGED vars /\ NextRow(w, "recover")
      BY <1>1, <2>1, <3>2, NewWorker DEF ClaimReconciliation, NextRow, vars
    <3>3. QED  BY <2>1, <3>1, <3>2 DEF ClaimReconciliation, Refused
  <2>2. CASE AdoptCompleted(w)
    BY <1>1, <2>2, NewWorker DEF AdoptCompleted, WriteOnchain, Goto
  <2>3. CASE RequestCreated(w)
    BY <1>1, <2>3, NewWorker DEF RequestCreated, Goto, vars
  <2>4. CASE AdoptAwaiting(w)
    BY <1>1, <2>4, NewWorker DEF AdoptAwaiting, WriteOnchain, NextRow, LoneRow
  <2>5. QED  BY <2>1, <2>2, <2>3, <2>4
<1>5. LoneTodo(w)' /\ LoneRow(w)'
  BY <1>3, <1>4 DEF LoneTodo, LoneRow
<1>6. ASSUME NEW u \in Tx PROVE Adopted(u)'
  <2>1. worker[w].pc # "mark"
    BY <1>1
  <2>2. ~(onchain[u] = "AWAITING_FIAT" /\ chain[u] = "COMPLETED")
    BY <2>1, NoneLags
  <2>3. CASE u = t
    BY <1>4, <2>2, <2>3 DEF Adopted
  <2>4. CASE u # t
    BY <1>4, <2>2, <2>4 DEF Adopted
  <2>5. QED  BY <2>3, <2>4
<1>7. FailureIsReal'
  BY <1>1, <1>4 DEF LoneInv, FailureIsReal
<1>8. QED  BY <1>3, <1>5, <1>6, <1>7, LoneWorkerKeeps

\* Every step keeps the invariant: there are no faults and no late calls.
LEMMA StepLone ==
  ASSUME NoFaultOneWorker
  PROVE  SInv /\ LoneInv /\ [SettlementNext]_allVars => LoneInv'
<1> SUFFICES ASSUME SInv, LoneInv, [SettlementNext]_allVars PROVE LoneInv'
  OBVIOUS
<1>1. ASSUME NEW t \in Tx,
             \/ CreateQuote(t) \/ SubmitRequest(t) \/ StartDeposit(t) \/ ExpireIntent(t)
             \/ OperatorStep(t) \/ \E mismatch \in BOOLEAN : Reconcile(t, mismatch)
      PROVE  LoneInv'
  BY <1>1, EnvironmentIsCalm, LoneEnvironment
<1>2. ASSUME NEW w \in Workers, WorkerStep(w) PROVE LoneInv'
  BY <1>2, LoneBetween, LoneClaim, LoneRelease, LoneFinish, LoneRecovery DEF WorkerStep
<1>3. \A w \in Workers : ~FaultStep(w)
  <2>1. faults \in 0..0
    BY DEF SInv, SettlementTypeOK, NoFaultOneWorker
  <2>2. ~Fault
    BY <2>1 DEF Fault, NoFaultOneWorker
  <2>3. QED  BY <2>2 DEF FaultStep, GiveUp, WriteFails, CommitUnacknowledged, Crash
<1>4. \A t \in Tx, call \in {"create", "confirm"} : ~AbandonedLands(call, t)
  BY DEF AbandonedLands, LoneInv
<1>5. CASE UNCHANGED allVars
  <2>1. UNCHANGED <<state, onchain, provider, chain, worker, late>>
    BY <1>5 DEF allVars, settleVars, vars
  <2>2. Calm
    BY <2>1 DEF Calm
  <2>3. QED  BY <2>1, <2>2, LoneEnvironment
<1>6. QED  BY <1>1, <1>2, <1>3, <1>4, <1>5 DEF SettlementNext

\* Without faults and with one worker, FAILED is the truth, however many
\* transactions there are and however often operators retry.
THEOREM FailuresAreReal ==
  ASSUME MaxFaults = 0, \A v, w \in Workers : v = w
  PROVE  SettlementSpec => []FailureIsReal
<1>1. NoFaultOneWorker
  BY DEF NoFaultOneWorker
<1>2. SInv /\ LoneInv /\ [SettlementNext]_allVars => LoneInv'
  BY <1>1, StepLone
<1>3. LoneInv => FailureIsReal
  BY DEF LoneInv
<1>4. QED  BY SettlementInductive, InitLone, <1>2, <1>3, PTL DEF SettlementSpec
=============================================================================
