---------------------- MODULE OfframpSettlementProofs ----------------------
(***************************************************************************)
(* Theorems about off-ramp settlement, for any transactions, operators,    *)
(* workers and number of faults: it implements the ledger, a payout is     *)
(* made only of a funded escrow of a cleared transaction, and the escrow   *)
(* goes where the payout's outcome sends it.                               *)
(***************************************************************************)
EXTENDS OfframpSettlement, RampLedgerProofs

USE SettlesOffRampOnly, MaxFaultsIsNat

(***************************************************************************)
(* What a worker knows of the rows it selected and of the row it is at.    *)
(* All of it stays true, whatever the other workers do.                    *)
(***************************************************************************)
Sure(t) == Cleared(t) /\ state[t] # "ABSENT"

Funding(t) == onchain[t] # "NOT_CREATED"

RowSteps == {"pay", "store", "processing", "confirm", "mark", "close", "finish", "fail"}

SelectedOK(w) ==
  \A job \in worker[w].todo :
    /\ Funding(job[2])
    /\ job[1] = "poll" => provider[job[2]] # "NONE"

RowOK(w) ==
  LET t == worker[w].tx
      seen == worker[w].seen
  IN /\ worker[w].pc \in RowSteps =>
          t \in Tx /\ Funding(t) /\ attempt[PayoutKey(t)] # NoAttempt
     /\ worker[w].pc \in RowSteps \ {"pay", "fail"} =>
          seen # "NONE" /\ payout[t] # "NONE" /\ (Final(seen) => payout[t] = seen)
     /\ worker[w].pc \in RowSteps \ {"pay", "store", "fail"} => provider[t] # "NONE"
     /\ worker[w].pc \in {"confirm", "mark", "close", "finish"} => Final(seen)
     /\ worker[w].pc \in {"mark", "close", "finish"} => escrow[t] = Outcome(w)

(***************************************************************************)
(* How the ledger row, the intent, the escrow and the payout fit.          *)
(***************************************************************************)
IntentFits(t) ==
  /\ intent[t] = "ABSENT" <=> state[t] = "ABSENT"
  /\ intent[t] \in {"ABSENT", "QUOTED"} <=> onchain[t] = "NOT_CREATED"
  /\ intent[t] = "ABSENT" => escrow[t] = "NONE"
  /\ Funding(t) => escrow[t] # "NONE"
  /\ intent[t] \in {"COMPLETED", "REFUNDED"} => escrow[t] = intent[t]
  /\ onchain[t] \in {"COMPLETED", "REFUNDED"} => escrow[t] = onchain[t]

PayoutFits(t) ==
  /\ payout[t] # "NONE" => Sure(t) /\ Funding(t)
  /\ provider[t] # "NONE" => attempt[PayoutKey(t)] # NoAttempt /\ payout[t] # "NONE"
  /\ escrow[t] = "COMPLETED" \/ <<"COMPLETED", t>> \in late => payout[t] = "SUCCESS"
  /\ escrow[t] = "REFUNDED" \/ <<"REFUNDED", t>> \in late => payout[t] = "FAILED"
  /\ state[t] = "COMPLETED" => escrow[t] = "COMPLETED" /\ provider[t] # "NONE"

KeyOwner == \A k \in ExecutionKeys : attempt[k] # NoAttempt => attempt[k].tx = k[2]

SInv ==
  /\ IInv /\ SettlementTypeOK /\ KeyOwner
  /\ \A w \in Workers : SelectedOK(w) /\ RowOK(w)
  /\ \A t \in Tx : IntentFits(t) /\ PayoutFits(t)

LEMMA InitSInv == SettlementInit => SInv
<1> SUFFICES ASSUME SettlementInit PROVE SInv
  OBVIOUS
<1>1. IInv /\ TypeOK /\ Init
  BY InitIInv DEF SettlementInit, IInv
<1>2. SettlementTypeOK
  BY <1>1 DEF SettlementInit, SettlementTypeOK, Idle, Steps, EscrowStates, PayoutStates, IntentStates
<1>3. KeyOwner
  BY <1>1 DEF Init, KeyOwner, Keys
<1>4. ASSUME NEW w \in Workers PROVE SelectedOK(w) /\ RowOK(w)
  BY DEF SettlementInit, Idle, SelectedOK, RowOK, RowSteps
<1>5. ASSUME NEW t \in Tx PROVE IntentFits(t) /\ PayoutFits(t)
  <2>1. state[t] = "ABSENT" /\ onchain[t] = "NOT_CREATED" /\ provider[t] = "NONE"
    BY <1>1, <1>5, LegacyIsOnRamp DEF Init
  <2>2. QED  BY <1>5, <2>1 DEF SettlementInit, IntentFits, PayoutFits, Funding
<1>6. QED  BY <1>1, <1>2, <1>3, <1>4, <1>5 DEF SInv

\* The row a worker is at.
WorkerType == [pc : Steps, todo : SUBSET (Jobs \X Tx), tx : Tx \cup {NoTx}, seen : PayoutStates]

LEMMA RowFacts ==
  ASSUME SInv, NEW w \in Workers
  PROVE  /\ worker[w] \in WorkerType /\ SelectedOK(w) /\ RowOK(w)
         /\ worker[w].pc \in RowSteps =>
              LET t == worker[w].tx
              IN /\ t \in Tx /\ Sure(t) /\ Funding(t) /\ attempt[PayoutKey(t)] # NoAttempt
                 /\ PayoutKey(t) \in ExecutionKeys /\ PayoutKey(t) \in Keys /\ PayoutKey(t)[2] = t
<1> DEFINE t == worker[w].tx
<1>1. worker[w] \in WorkerType /\ SelectedOK(w) /\ RowOK(w)
  BY DEF SInv, SettlementTypeOK, WorkerType
<1>2. ASSUME worker[w].pc \in RowSteps
      PROVE  /\ t \in Tx /\ Sure(t) /\ Funding(t) /\ attempt[PayoutKey(t)] # NoAttempt
             /\ PayoutKey(t) \in ExecutionKeys /\ PayoutKey(t) \in Keys /\ PayoutKey(t)[2] = t
  <2>1. t \in Tx /\ Funding(t) /\ attempt[PayoutKey(t)] # NoAttempt
    BY <1>1, <1>2 DEF RowOK
  <2>2. PayoutKey(t) \in ExecutionKeys /\ PayoutKey(t) \in Keys /\ PayoutKey(t)[2] = t
    BY <2>1 DEF PayoutKey, ExecutionKeys, Keys
  <2>3. attempt[PayoutKey(t)].tx = t
    BY <2>1, <2>2 DEF SInv, KeyOwner
  <2>4. Sure(t)
    BY <2>1, <2>2, <2>3 DEF SInv, IInv, Owned, ExecutionStates, Sure
  <2>5. QED  BY <2>1, <2>2, <2>4
<1>3. QED  BY <1>1, <1>2

(***************************************************************************)
(* Every step is a step of the ledger, or leaves the ledger alone.         *)
(***************************************************************************)
LEMMA StepRefines == SInv /\ [SettlementNext]_allVars => [Next]_vars
<1> SUFFICES ASSUME SInv, [SettlementNext]_allVars PROVE [Next]_vars
  OBVIOUS
<1> USE DEF allVars, settleVars
<1>1. ASSUME NEW t \in Tx, CreateOfframpQuote(t) PROVE [Next]_vars
  BY <1>1 DEF CreateOfframpQuote, Next, LedgerStep
<1>2. ASSUME NEW t \in Tx, ConfirmOfframpFunding(t) PROVE [Next]_vars
  <2>1. /\ intent[t] \in {"ABSENT", "QUOTED", "REFUNDED"} /\ escrow[t] = "AWAITING_PAYOUT"
        /\ WriteFunding(t)
    BY <1>2 DEF ConfirmOfframpFunding, SInv, SettlementTypeOK, IntentStates
  <2>2. state[t] # "ABSENT" /\ onchain[t] = "NOT_CREATED"
    BY <2>1 DEF SInv, IntentFits
  <2>3. ConfirmOfframpFundingRow(t)
    BY <2>1, <2>2 DEF ConfirmOfframpFundingRow, Tx
  <2>4. QED  BY <2>3 DEF Next, LedgerStep
<1>3. ASSUME NEW t \in Tx, OperatorStep(t) PROVE [Next]_vars
  BY <1>3 DEF OperatorStep, Next, LedgerStep
<1>4. ASSUME NEW w \in Workers, ClaimPayout(w) PROVE [Next]_vars
  <2>1. PICK t \in Tx : /\ <<"start", t>> \in worker[w].todo
                        /\ Begun(t, PayoutKey(t)) \/ Refused(t, PayoutKey(t))
    BY <1>4 DEF ClaimPayout
  <2>2. Funding(t)
    BY <2>1, RowFacts DEF SelectedOK
  <2>3. PayoutKey(t) \in ExecutionKeys /\ Selected(t, PayoutKey(t))
    BY <2>2 DEF PayoutKey, ExecutionKeys, Selected, Funding, Tx
  <2>4. QED  BY <2>1, <2>3 DEF Begun, Refused, Next, LedgerStep
<1>5. ASSUME NEW w \in Workers, StoreReference(w) PROVE [Next]_vars
  <2> DEFINE t == worker[w].tx
  <2>1. /\ t \in Tx /\ attempt[PayoutKey(t)] # NoAttempt
        /\ worker[w].seen \in {"PENDING", "SUCCESS", "FAILED"}
        /\ WritePayout(t, worker[w].seen)
    BY <1>5, RowFacts DEF StoreReference, At, RowOK, RowSteps, WorkerType, PayoutStates
  <2>2. StorePayout(t, worker[w].seen)
    BY <2>1 DEF StorePayout, PayoutKey, Tx
  <2>3. QED  BY <2>1, <2>2 DEF Next, LedgerStep
<1>6. ASSUME NEW w \in Workers, MarkOnchain(w) PROVE [Next]_vars
  <2> DEFINE t == worker[w].tx
  <2>1. /\ t \in Tx /\ attempt[PayoutKey(t)] # NoAttempt /\ WriteOnchain(t, Outcome(w))
        /\ Outcome(w) \in {"COMPLETED", "REFUNDED"}
    BY <1>6, RowFacts DEF MarkOnchain, At, RowSteps, Outcome
  <2>2. MarkSettled(t, Outcome(w))
    BY <2>1 DEF MarkSettled, PayoutKey, Tx
  <2>3. QED  BY <2>1, <2>2 DEF Next, LedgerStep
<1>7. ASSUME NEW w \in Workers, FinishPayout(w) \/ FinishFailed(w) \/ CommitUnacknowledged(w)
      PROVE  [Next]_vars
  <2> DEFINE t == worker[w].tx
  <2>1. t \in Tx /\ attempt[PayoutKey(t)] # NoAttempt /\ PayoutKey(t) \in ExecutionKeys
    BY <1>7, RowFacts DEF FinishPayout, FinishFailed, CommitUnacknowledged, At, RowSteps
  <2>2. \E succeeded \in BOOLEAN : Finished(t, PayoutKey(t), succeeded)
    BY <1>7 DEF FinishPayout, FinishFailed, CommitUnacknowledged, Succeeded
  <2>3. QED  BY <2>1, <2>2 DEF Finished, Next, LedgerStep
<1>8. QED
  BY <1>1, <1>2, <1>3, <1>4, <1>5, <1>6, <1>7
     DEF SettlementNext, FundEscrow, PayoutSettles, AbandonedLands, WorkerStep, FaultStep,
         StartTick, EndTick, CreatePayout, MarkProcessing, PollPayout, ConfirmLands, ConfirmRejected,
         CloseIntent, PayoutCallFails, GiveUp, WriteFails, Crash

(***************************************************************************)
(* What no step takes back.                                                *)
(***************************************************************************)
LEMMA LedgerKeeps ==
  ASSUME IInv, KeyOwner, [Next]_vars
  PROVE  /\ \A t \in Tx : /\ Sure(t) => Sure(t)'
                          /\ Funding(t) => Funding(t)'
                          /\ provider[t] # "NONE" => provider'[t] # "NONE"
         /\ \A k \in ExecutionKeys : attempt[k] # NoAttempt => attempt'[k] # NoAttempt
         /\ KeyOwner'
<1> DEFINE Kept ==
      /\ \A t \in Tx : /\ Sure(t) => Sure(t)'
                       /\ Funding(t) => Funding(t)'
                       /\ provider[t] # "NONE" => provider'[t] # "NONE"
      /\ \A k \in ExecutionKeys : attempt[k] # NoAttempt => attempt'[k] # NoAttempt
      /\ KeyOwner'
<1> SUFFICES Kept
  OBVIOUS
<1> USE DEF IInv, TypeOK, Sure, Cleared, Funding, KeyOwner, NoAttempt
<1>1. ASSUME NEW t \in Tx, NEW outcome \in DOMAIN Verdict, CreateRampTransaction(t, outcome) PROVE Kept
  BY <1>1 DEF CreateRampTransaction, Transition, Verdict
<1>2. ASSUME NEW t \in Tx, NEW action \in Actions, DecideRampTransaction(t, action) PROVE Kept
  BY <1>2 DEF DecideRampTransaction, ApprovalTransition, Transition, DecidedState, Actions
<1>3. ASSUME NEW t \in Tx, NEW key \in RetryKeys, RetryRampTransaction(t, key) PROVE Kept
  <2>1. key \in Keys /\ key \notin ExecutionKeys
    BY DEF Keys, RetryKeys, ExecutionKeys
  <2>2. QED  BY <1>3, <2>1 DEF RetryRampTransaction, Transition
<1>4. ASSUME NEW t \in Tx, NEW key \in ExecutionKeys, Selected(t, key), BeginRampExecution(t, key)
      PROVE  Kept
  <2>1. key \in Keys /\ key[2] = t
    BY <1>4 DEF Keys, Selected
  <2>2. QED  BY <1>4, <2>1 DEF BeginRampExecution, Transition, Keys
<1>5. ASSUME NEW t \in Tx, NEW key \in ExecutionKeys, NEW succeeded \in BOOLEAN,
             FinishRampExecution(t, key, succeeded)
      PROVE  Kept
  <2>1. key \in Keys /\ attempt[key].tx = key[2] /\ attempt[key].tx = t
    BY <1>5 DEF Keys, FinishRampExecution
  <2>2. QED  BY <1>5, <2>1 DEF FinishRampExecution, Transition, Keys
<1>6. ASSUME NEW t \in Tx, ConfirmOfframpFundingRow(t) PROVE Kept
  BY <1>6 DEF ConfirmOfframpFundingRow, WriteFunding
<1>7. ASSUME NEW t \in Tx, NEW outcome \in {"COMPLETED", "REFUNDED"}, MarkSettled(t, outcome) PROVE Kept
  BY <1>7 DEF MarkSettled, WriteOnchain
<1>8. ASSUME NEW t \in Tx, NEW status \in {"PENDING", "SUCCESS", "FAILED"}, StorePayout(t, status)
      PROVE  Kept
  BY <1>8 DEF StorePayout, WritePayout
<1>9. CASE UNCHANGED vars
  BY <1>9 DEF vars
<1>10. ASSUME NEW t \in Tx
       PROVE  /\ \A status : ~RecordProviderConfirmation(t, status)
              /\ ~StartDepositRow(t)
              /\ \A found : ~AdoptRequest(t, found)
  <2>1. t \notin OnRamp /\ t \notin Legacy
    BY LegacyIsOnRamp
  <2>2. QED  BY <2>1 DEF RecordProviderConfirmation, StartDepositRow, AdoptRequest
<1>11. QED
  BY <1>1, <1>2, <1>3, <1>4, <1>5, <1>6, <1>7, <1>8, <1>9, <1>10 DEF Next, LedgerStep

(***************************************************************************)
(* What a step does to escrows, payouts, provider references and late      *)
(* calls.                                                                  *)
(***************************************************************************)
\* The payout ended as the outcome says.
Pays(t, outcome) ==
  /\ outcome = "COMPLETED" => payout[t] = "SUCCESS"
  /\ outcome = "REFUNDED" => payout[t] = "FAILED"

EscrowMoves ==
  \/ UNCHANGED escrow
  \/ \E t \in Tx : /\ intent[t] = "QUOTED" /\ escrow[t] = "NONE"
                   /\ escrow' = [escrow EXCEPT ![t] = "AWAITING_PAYOUT"]
  \/ \E t \in Tx, outcome \in {"COMPLETED", "REFUNDED"} :
       /\ escrow[t] = "AWAITING_PAYOUT" /\ Pays(t, outcome)
       /\ escrow' = [escrow EXCEPT ![t] = outcome]

PayoutMoves ==
  \/ UNCHANGED payout
  \/ \E t \in Tx, status \in PayoutStates \ {"NONE"} :
       /\ payout[t] \in {"NONE", "PENDING", status}
       /\ payout[t] = "NONE" => Sure(t) /\ Funding(t)
       /\ payout' = [payout EXCEPT ![t] = status]

ProviderMoves ==
  \/ UNCHANGED provider
  \/ \E t \in Tx : /\ attempt[PayoutKey(t)] # NoAttempt /\ payout[t] # "NONE"
                   /\ \E status \in PayoutStates : provider' = [provider EXCEPT ![t] = status]

LateMoves ==
  \A call \in late' : call \in late \/ (/\ call[1] \in {"COMPLETED", "REFUNDED"} /\ call[2] \in Tx
                                        /\ Pays(call[2], call[1]) /\ call = <<call[1], call[2]>>)

\* A worker about to confirm knows how the payout ended.
LEMMA ConfirmsPaid ==
  ASSUME SInv, NEW w \in Workers, At(w, "confirm")
  PROVE  /\ worker[w].tx \in Tx /\ Outcome(w) \in {"COMPLETED", "REFUNDED"}
         /\ Pays(worker[w].tx, Outcome(w))
BY RowFacts DEF At, RowOK, RowSteps, Final, Outcome, Succeeded, Pays

LEMMA EscrowStep ==
  ASSUME SInv, [SettlementNext]_allVars
  PROVE  EscrowMoves
<1>1. ASSUME NEW t \in Tx, NEW outcome \in {"COMPLETED", "REFUNDED"}, AbandonedLands(outcome, t)
      PROVE  EscrowMoves
  <2>1. escrow \in [Tx -> EscrowStates] /\ Pays(t, outcome)
    BY <1>1 DEF AbandonedLands, SInv, SettlementTypeOK, PayoutFits, Pays
  <2>2. CASE escrow[t] = "AWAITING_PAYOUT"
    BY <1>1, <2>1, <2>2 DEF AbandonedLands, EscrowMoves
  <2>3. CASE escrow[t] # "AWAITING_PAYOUT"
    BY <1>1, <2>1, <2>3 DEF AbandonedLands, EscrowMoves
  <2>4. QED  BY <2>2, <2>3
<1>2. ASSUME NEW w \in Workers, ConfirmLands(w) PROVE EscrowMoves
  BY <1>2, ConfirmsPaid DEF ConfirmLands, EscrowMoves
<1>3. ASSUME NEW t \in Tx, FundEscrow(t) PROVE EscrowMoves
  BY <1>3 DEF FundEscrow, EscrowMoves
<1>4. UNCHANGED escrow => EscrowMoves
  BY DEF EscrowMoves
<1>5. QED
  BY <1>1, <1>2, <1>3, <1>4
     DEF SettlementNext, CreateOfframpQuote, ConfirmOfframpFunding, OperatorStep, PayoutSettles,
         WorkerStep, FaultStep, StartTick, EndTick, ClaimPayout, CreatePayout, StoreReference,
         MarkProcessing, PollPayout, ConfirmRejected, MarkOnchain, CloseIntent, FinishPayout,
         FinishFailed, PayoutCallFails, GiveUp, WriteFails, CommitUnacknowledged, Crash,
         allVars, settleVars

LEMMA PayoutStep ==
  ASSUME SInv, [SettlementNext]_allVars
  PROVE  PayoutMoves
<1>1. ASSUME NEW w \in Workers, CreatePayout(w) \/ PayoutCallFails(w) PROVE PayoutMoves
  <2> DEFINE t == worker[w].tx
  <2>1. t \in Tx /\ Sure(t) /\ Funding(t)
    BY <1>1, RowFacts DEF CreatePayout, PayoutCallFails, At, RowSteps
  <2>2. CASE CreatePayout(w)
    BY <2>1, <2>2 DEF CreatePayout, PayoutMoves
  <2>3. CASE PayoutCallFails(w)
    BY <2>1, <2>3 DEF PayoutCallFails, PayoutMoves, PayoutStates
  <2>4. QED  BY <1>1, <2>2, <2>3
<1>2. ASSUME NEW t \in Tx, PayoutSettles(t) PROVE PayoutMoves
  BY <1>2 DEF PayoutSettles, PayoutMoves, PayoutStates
<1>3. UNCHANGED payout => PayoutMoves
  BY DEF PayoutMoves
<1>4. QED
  BY <1>1, <1>2, <1>3
     DEF SettlementNext, CreateOfframpQuote, FundEscrow, ConfirmOfframpFunding, OperatorStep,
         AbandonedLands, WorkerStep, FaultStep, StartTick, EndTick, ClaimPayout, StoreReference,
         MarkProcessing, PollPayout, ConfirmLands, ConfirmRejected, MarkOnchain, CloseIntent,
         FinishPayout, FinishFailed, GiveUp, WriteFails, CommitUnacknowledged, Crash,
         allVars, settleVars

LEMMA ProviderStep ==
  ASSUME SInv, [SettlementNext]_allVars
  PROVE  ProviderMoves
<1>1. ASSUME NEW w \in Workers, StoreReference(w) PROVE ProviderMoves
  <2>1. /\ worker[w].tx \in Tx /\ attempt[PayoutKey(worker[w].tx)] # NoAttempt
        /\ payout[worker[w].tx] # "NONE" /\ worker[w].seen \in PayoutStates
    BY <1>1, RowFacts DEF StoreReference, At, RowOK, RowSteps, WorkerType
  <2>2. QED  BY <1>1, <2>1 DEF StoreReference, WritePayout, ProviderMoves
<1>2. UNCHANGED provider => ProviderMoves
  BY DEF ProviderMoves
<1>3. ASSUME NEW t, NEW key, Begun(t, key) \/ Refused(t, key) PROVE UNCHANGED provider
  BY <1>3 DEF Begun, Refused, BeginRampExecution, vars
<1>4. ASSUME NEW t, NEW key, NEW succeeded, Finished(t, key, succeeded) PROVE UNCHANGED provider
  BY <1>4 DEF Finished, FinishRampExecution, vars
<1>5. QED
  BY <1>1, <1>2, <1>3, <1>4
     DEF SettlementNext, CreateOfframpQuote, CreateRampTransaction, FundEscrow, ConfirmOfframpFunding,
         WriteFunding, OperatorStep, DecideRampTransaction, RetryRampTransaction, PayoutSettles,
         AbandonedLands, WorkerStep, FaultStep, StartTick, EndTick, ClaimPayout, CreatePayout,
         MarkProcessing, PollPayout, ConfirmLands, ConfirmRejected, MarkOnchain, WriteOnchain,
         CloseIntent, FinishPayout, FinishFailed, PayoutCallFails, GiveUp, WriteFails,
         CommitUnacknowledged, Crash, allVars, vars

LEMMA LateStep ==
  ASSUME SInv, [SettlementNext]_allVars
  PROVE  LateMoves
<1>1. ASSUME NEW w \in Workers, GiveUp(w) \/ Crash(w) PROVE LateMoves
  <2>1. \/ late' = late
        \/ At(w, "confirm") /\ late' = late \cup {<<Outcome(w), worker[w].tx>>}
    BY <1>1 DEF GiveUp, Crash
  <2>2. CASE late' = late
    BY <2>2 DEF LateMoves
  <2>3. CASE At(w, "confirm") /\ late' = late \cup {<<Outcome(w), worker[w].tx>>}
    BY <2>3, ConfirmsPaid DEF LateMoves
  <2>4. QED  BY <2>1, <2>2, <2>3
<1>2. late' \subseteq late => LateMoves
  BY DEF LateMoves
<1>3. QED
  BY <1>1, <1>2
     DEF SettlementNext, CreateOfframpQuote, FundEscrow, ConfirmOfframpFunding, OperatorStep,
         PayoutSettles, AbandonedLands, WorkerStep, FaultStep, StartTick, EndTick, ClaimPayout,
         CreatePayout, StoreReference, MarkProcessing, PollPayout, ConfirmLands, ConfirmRejected,
         MarkOnchain, CloseIntent, FinishPayout, FinishFailed, PayoutCallFails, WriteFails,
         CommitUnacknowledged, allVars, settleVars

\* Nothing a worker relies on is taken back.
LEMMA Keeps ==
  ASSUME SInv, [SettlementNext]_allVars
  PROVE  /\ \A t \in Tx : /\ Sure(t) => Sure(t)'
                          /\ Funding(t) => Funding(t)'
                          /\ provider[t] # "NONE" => provider'[t] # "NONE"
                          /\ payout[t] # "NONE" => payout'[t] # "NONE"
                          /\ Final(payout[t]) => payout'[t] = payout[t]
                          /\ escrow[t] # "NONE" => escrow'[t] # "NONE"
                          /\ escrow[t] \in {"COMPLETED", "REFUNDED"} => escrow'[t] = escrow[t]
         /\ \A k \in ExecutionKeys : attempt[k] # NoAttempt => attempt'[k] # NoAttempt
         /\ KeyOwner' /\ IInv'
<1>1. [Next]_vars
  BY StepRefines
<1>2. IInv'
  BY <1>1, NextIInv DEF SInv
<1>3. escrow \in [Tx -> EscrowStates] /\ payout \in [Tx -> PayoutStates]
  BY DEF SInv, SettlementTypeOK
<1>4. \A t \in Tx : /\ payout[t] # "NONE" => payout'[t] # "NONE"
                    /\ Final(payout[t]) => payout'[t] = payout[t]
  BY <1>3, PayoutStep DEF PayoutMoves, Final
<1>5. \A t \in Tx : /\ escrow[t] # "NONE" => escrow'[t] # "NONE"
                    /\ escrow[t] \in {"COMPLETED", "REFUNDED"} => escrow'[t] = escrow[t]
  BY <1>3, EscrowStep DEF EscrowMoves
<1>6. QED  BY <1>1, <1>2, <1>4, <1>5, LedgerKeeps DEF SInv

(***************************************************************************)
(* Types.                                                                  *)
(***************************************************************************)
LEMMA PayoutRowsType ==
  ASSUME TypeOK
  PROVE  PayoutRows \in SUBSET (Jobs \X Tx)
BY DEF PayoutRows, Jobs

LEMMA FewerRows ==
  ASSUME SettlementTypeOK, NEW w \in Workers, NEW job
  PROVE  worker[w].todo \ {job} \in SUBSET (Jobs \X Tx)
BY DEF SettlementTypeOK

LEMMA WorkerTypeStep ==
  ASSUME SettlementTypeOK, NEW w \in Workers, WorkerStep(w) \/ FaultStep(w)
  PROVE  worker' \in [Workers -> WorkerType]
<1> DEFINE Becomes(doing) == worker' = [worker EXCEPT ![w] = doing]
<1>1. ASSUME NEW doing \in WorkerType, Becomes(doing) PROVE worker' \in [Workers -> WorkerType]
  BY <1>1 DEF SettlementTypeOK, WorkerType
<1>2. worker[w] \in WorkerType
  BY DEF SettlementTypeOK, WorkerType
<1>3. ASSUME NEW pc \in Steps, NEW rows \in SUBSET (Jobs \X Tx), NEW t \in Tx \cup {NoTx},
             NEW status \in PayoutStates
      PROVE  [pc |-> pc, todo |-> rows, tx |-> t, seen |-> status] \in WorkerType
  BY DEF WorkerType
<1>4. ASSUME NEW pc \in Steps, Goto(w, pc) PROVE worker' \in [Workers -> WorkerType]
  <2>1. [pc |-> pc, todo |-> worker[w].todo, tx |-> worker[w].tx, seen |-> worker[w].seen] \in WorkerType
    BY <1>2 DEF WorkerType
  <2>2. QED  BY <1>1, <1>4, <2>1 DEF Goto
<1>5. ASSUME NEW rows \in SUBSET (Jobs \X Tx), NextRow(w, rows) PROVE worker' \in [Workers -> WorkerType]
  <2>1. [pc |-> "work", todo |-> rows, tx |-> NoTx, seen |-> "NONE"] \in WorkerType
    BY DEF WorkerType, Steps, PayoutStates
  <2>2. QED  BY <1>1, <1>5, <2>1 DEF NextRow
<1>6. ASSUME NEW rows \in SUBSET (Jobs \X Tx), NEW t \in Tx \cup {NoTx}, NEW status \in PayoutStates,
             NEW pc \in Steps, Learn(w, rows, t, status, pc)
      PROVE  worker' \in [Workers -> WorkerType]
  BY <1>1, <1>3, <1>6 DEF Learn
<1>7. worker[w].todo \in SUBSET (Jobs \X Tx) /\ worker[w].tx \in Tx \cup {NoTx} /\ PayoutRows \in SUBSET (Jobs \X Tx)
  BY <1>2, PayoutRowsType DEF WorkerType, SettlementTypeOK
<1>8. CASE StartTick(w)
  BY <1>5, <1>7, <1>8 DEF StartTick
<1>9. CASE EndTick(w) \/ Crash(w)
  <2>1. Idle \in WorkerType
    BY DEF Idle, WorkerType, Steps, PayoutStates
  <2>2. QED  BY <1>1, <1>9, <2>1 DEF EndTick, Crash
<1>10. CASE ClaimPayout(w)
  <2>1. PICK t \in Tx : \/ Learn(w, worker[w].todo \ {<<"start", t>>}, t, "NONE", "pay")
                        \/ NextRow(w, worker[w].todo \ {<<"start", t>>})
    BY <1>10 DEF ClaimPayout
  <2>2. worker[w].todo \ {<<"start", t>>} \in SUBSET (Jobs \X Tx)
    BY FewerRows
  <2>3. "pay" \in Steps /\ "NONE" \in PayoutStates
    BY DEF Steps, PayoutStates
  <2>4. QED  BY <1>5, <1>6, <2>1, <2>2, <2>3
<1>11. CASE PollPayout(w)
  <2>1. PICK t \in Tx : \/ Learn(w, worker[w].todo \ {<<"poll", t>>}, t, payout[t], "confirm")
                        \/ NextRow(w, worker[w].todo \ {<<"poll", t>>})
    BY <1>11 DEF PollPayout
  <2>2. worker[w].todo \ {<<"poll", t>>} \in SUBSET (Jobs \X Tx)
    BY FewerRows
  <2>3. "confirm" \in Steps /\ payout[t] \in PayoutStates
    BY DEF Steps, SettlementTypeOK
  <2>4. QED  BY <1>5, <1>6, <2>1, <2>2, <2>3
<1>12. CASE CreatePayout(w)
  <2>1. PICK status \in PayoutStates : Learn(w, worker[w].todo, worker[w].tx, status, "store")
    BY <1>12 DEF CreatePayout
  <2>2. "store" \in Steps
    BY DEF Steps
  <2>3. QED  BY <1>6, <1>7, <2>1, <2>2
<1>13. QED
  BY <1>4, <1>5, <1>7, <1>8, <1>9, <1>10, <1>11, <1>12
     DEF WorkerStep, FaultStep, StoreReference, MarkProcessing, ConfirmLands, ConfirmRejected,
         MarkOnchain, CloseIntent, FinishPayout, FinishFailed, PayoutCallFails, GiveUp, WriteFails,
         CommitUnacknowledged, Steps

LEMMA IntentType ==
  ASSUME SInv, [SettlementNext]_allVars
  PROVE  intent' \in [Tx -> IntentStates]
<1>1. intent \in [Tx -> IntentStates]
  BY DEF SInv, SettlementTypeOK
<1>2. ASSUME NEW t \in Tx, CreateOfframpQuote(t) \/ ConfirmOfframpFunding(t)
      PROVE  intent' \in [Tx -> IntentStates]
  BY <1>1, <1>2 DEF CreateOfframpQuote, ConfirmOfframpFunding, IntentStates
<1>3. ASSUME NEW w \in Workers, MarkProcessing(w) \/ CloseIntent(w)
      PROVE  intent' \in [Tx -> IntentStates]
  BY <1>1, <1>3 DEF MarkProcessing, CloseIntent, Outcome, IntentStates
<1>4. QED
  BY <1>1, <1>2, <1>3
     DEF SettlementNext, FundEscrow, OperatorStep, PayoutSettles, AbandonedLands, WorkerStep,
         FaultStep, StartTick, EndTick, ClaimPayout, CreatePayout, StoreReference, PollPayout,
         ConfirmLands, ConfirmRejected, MarkOnchain, FinishPayout, FinishFailed, PayoutCallFails,
         GiveUp, WriteFails, CommitUnacknowledged, Crash, allVars, settleVars

LEMMA FaultsType ==
  ASSUME SInv, [SettlementNext]_allVars
  PROVE  faults' \in 0..MaxFaults
<1>1. faults' = faults \/ Fault
  BY DEF SettlementNext, CreateOfframpQuote, FundEscrow, ConfirmOfframpFunding, OperatorStep,
         PayoutSettles, AbandonedLands, WorkerStep, FaultStep, StartTick, EndTick, ClaimPayout,
         CreatePayout, StoreReference, MarkProcessing, PollPayout, ConfirmLands, ConfirmRejected,
         MarkOnchain, CloseIntent, FinishPayout, FinishFailed, PayoutCallFails, GiveUp, WriteFails,
         CommitUnacknowledged, Crash, allVars, settleVars
<1>2. faults \in 0..MaxFaults
  BY DEF SInv, SettlementTypeOK
<1>3. QED  BY <1>1, <1>2 DEF Fault

LEMMA SettlementTypeStep ==
  ASSUME SInv, [SettlementNext]_allVars
  PROVE  SettlementTypeOK'
<1>1. TypeOK' /\ SettlementTypeOK
  BY Keeps DEF IInv, SInv
<1>2. escrow' \in [Tx -> EscrowStates]
  BY <1>1, EscrowStep DEF EscrowMoves, SettlementTypeOK, EscrowStates
<1>3. payout' \in [Tx -> PayoutStates]
  BY <1>1, PayoutStep DEF PayoutMoves, SettlementTypeOK
<1>4. late' \subseteq {"COMPLETED", "REFUNDED"} \X Tx
  BY <1>1, LateStep DEF LateMoves, SettlementTypeOK
<1>5. worker' \in [Workers -> WorkerType]
  <2>1. CASE \E w \in Workers : WorkerStep(w) \/ FaultStep(w)
    BY <1>1, <2>1, WorkerTypeStep
  <2>2. CASE UNCHANGED worker
    BY <1>1, <2>2 DEF SettlementTypeOK, WorkerType
  <2>3. QED
    BY <2>1, <2>2 DEF SettlementNext, CreateOfframpQuote, FundEscrow, ConfirmOfframpFunding,
       OperatorStep, PayoutSettles, AbandonedLands, allVars, settleVars
<1>6. QED
  BY <1>1, <1>2, <1>3, <1>4, <1>5, IntentType, FaultsType DEF SettlementTypeOK, WorkerType

(***************************************************************************)
(* The workers.                                                            *)
(***************************************************************************)
\* What a worker knows of the row it is at is still so after a step.
LEMMA RowStays ==
  ASSUME SInv, [SettlementNext]_allVars, NEW w \in Workers, worker[w].pc \in RowSteps
  PROVE  LET t == worker[w].tx
             seen == worker[w].seen
         IN /\ t \in Tx /\ onchain'[t] # "NOT_CREATED" /\ attempt'[PayoutKey(t)] # NoAttempt
            /\ worker[w].pc \notin {"pay", "fail"} =>
                 seen # "NONE" /\ payout'[t] # "NONE" /\ (Final(seen) => payout'[t] = seen)
            /\ worker[w].pc \notin {"pay", "store", "fail"} => provider'[t] # "NONE"
<1> DEFINE t == worker[w].tx
           seen == worker[w].seen
<1>1. RowOK(w) /\ t \in Tx /\ Funding(t) /\ attempt[PayoutKey(t)] # NoAttempt /\ PayoutKey(t) \in ExecutionKeys
  BY RowFacts
<1>2. onchain'[t] # "NOT_CREATED" /\ attempt'[PayoutKey(t)] # NoAttempt
  BY <1>1, Keeps DEF Funding
<1>3. worker[w].pc \notin {"pay", "fail"} =>
        seen # "NONE" /\ payout'[t] # "NONE" /\ (Final(seen) => payout'[t] = seen)
  BY <1>1, Keeps DEF RowOK, Final
<1>4. worker[w].pc \notin {"pay", "store", "fail"} => provider'[t] # "NONE"
  BY <1>1, Keeps DEF RowOK
<1>5. QED  BY <1>1, <1>2, <1>3, <1>4

\* Rows stay what they were selected for.
LEMMA StillSelected ==
  ASSUME SInv, [SettlementNext]_allVars, NEW w \in Workers,
         worker'[w].todo \subseteq worker[w].todo
  PROVE  SelectedOK(w)'
<1>1. worker[w].todo \subseteq Jobs \X Tx /\ SelectedOK(w)
  BY RowFacts DEF WorkerType
<1>2. \A job \in worker[w].todo : job[2] \in Tx
  BY <1>1
<1>3. QED  BY <1>1, <1>2, Keeps DEF SelectedOK

\* A worker that goes on with its row, or does nothing, is still right about it.
LEMMA SameRow ==
  ASSUME SInv, [SettlementNext]_allVars, NEW w \in Workers,
         worker'[w].todo = worker[w].todo,
         worker'[w].tx = worker[w].tx, worker'[w].seen = worker[w].seen,
         \/ worker'[w].pc = worker[w].pc
         \/ worker'[w].pc = "fail" /\ worker[w].pc \in RowSteps
         \/ worker'[w].pc = "finish" /\ worker[w].pc = "close"
         \/ worker'[w].pc = "close" /\ worker[w].pc = "mark"
  PROVE  SelectedOK(w)' /\ RowOK(w)'
<1> DEFINE t == worker[w].tx
<1>1. SelectedOK(w)'
  BY StillSelected
<1>2. CASE worker[w].pc \in RowSteps
  <2>1. t \in Tx /\ PayoutKey(t) \in ExecutionKeys /\ RowOK(w)
    BY <1>2, RowFacts
  <2>2. escrow[t] = Outcome(w) => escrow'[t] = Outcome(w)
    BY <2>1, Keeps DEF Outcome
  <2>3. RowOK(w)'
    BY <1>2, <2>1, <2>2, Keeps DEF RowOK, RowSteps, PayoutKey, Outcome, Succeeded, Final
  <2>4. QED  BY <1>1, <2>3
<1>3. CASE worker[w].pc \notin RowSteps
  BY <1>1, <1>3 DEF RowOK, RowSteps
<1>4. QED  BY <1>2, <1>3

\* A worker between rows.
LEMMA BetweenRows ==
  ASSUME NEW w \in Workers, worker'[w].pc \in {"idle", "work"}
  PROVE  RowOK(w)'
BY DEF RowOK, RowSteps

LEMMA NewWorker ==
  ASSUME SInv, NEW w \in Workers, NEW doing, worker' = [worker EXCEPT ![w] = doing]
  PROVE  worker'[w] = doing
BY DEF SInv, SettlementTypeOK

LEMMA RowLeft ==
  ASSUME SInv, [SettlementNext]_allVars, NEW w \in Workers, NEW rows \in SUBSET worker[w].todo,
         NextRow(w, rows)
  PROVE  SelectedOK(w)' /\ RowOK(w)'
<1>1. worker'[w] = [pc |-> "work", todo |-> rows, tx |-> NoTx, seen |-> "NONE"]
  BY NewWorker DEF NextRow
<1>2. QED  BY <1>1, StillSelected, BetweenRows

LEMMA RowKept ==
  ASSUME SInv, [SettlementNext]_allVars, NEW w \in Workers, NEW pc, Goto(w, pc),
         \/ pc = "fail" /\ worker[w].pc \in RowSteps
         \/ pc = "finish" /\ worker[w].pc = "close"
         \/ pc = "close" /\ worker[w].pc = "mark"
  PROVE  SelectedOK(w)' /\ RowOK(w)'
<1>1. worker'[w] = [pc |-> pc, todo |-> worker[w].todo, tx |-> worker[w].tx, seen |-> worker[w].seen]
  BY NewWorker DEF Goto
<1>2. QED  BY <1>1, SameRow

LEMMA WorkerMoves ==
  ASSUME SInv, [SettlementNext]_allVars, NEW w \in Workers, WorkerStep(w) \/ FaultStep(w)
  PROVE  SelectedOK(w)' /\ RowOK(w)'
<1> DEFINE t == worker[w].tx
<1>1. CASE StartTick(w)
  <2>1. worker'[w] = [pc |-> "work", todo |-> PayoutRows, tx |-> NoTx, seen |-> "NONE"] /\ UNCHANGED vars
    BY <1>1, NewWorker DEF StartTick, NextRow
  <2>2. \A job \in PayoutRows : Funding(job[2])' /\ (job[1] = "poll" => provider'[job[2]] # "NONE")
    BY <2>1 DEF PayoutRows, Funding, vars
  <2>3. QED  BY <2>1, <2>2, BetweenRows DEF SelectedOK
<1>2. CASE EndTick(w) \/ Crash(w)
  <2>1. worker'[w] = [pc |-> "idle", todo |-> {}, tx |-> NoTx, seen |-> "NONE"]
    BY <1>2, NewWorker DEF EndTick, Crash, Idle
  <2>2. QED  BY <2>1, BetweenRows DEF SelectedOK
<1>3. CASE ClaimPayout(w)
  <2>1. PICK u \in Tx :
          /\ <<"start", u>> \in worker[w].todo
          /\ \/ Begun(u, PayoutKey(u)) /\ Learn(w, worker[w].todo \ {<<"start", u>>}, u, "NONE", "pay")
             \/ NextRow(w, worker[w].todo \ {<<"start", u>>})
    BY <1>3 DEF ClaimPayout
  <2>2. CASE NextRow(w, worker[w].todo \ {<<"start", u>>})
    BY <2>2, RowLeft
  <2>3. CASE Begun(u, PayoutKey(u)) /\ Learn(w, worker[w].todo \ {<<"start", u>>}, u, "NONE", "pay")
    <3>1. worker'[w] = [pc |-> "pay", todo |-> worker[w].todo \ {<<"start", u>>}, tx |-> u, seen |-> "NONE"]
      BY <2>3, NewWorker DEF Learn
    <3>2. Funding(u)'
      BY <2>1, RowFacts, Keeps DEF SelectedOK
    <3>3. attempt'[PayoutKey(u)] # NoAttempt
      <4>1. PayoutKey(u) \in ExecutionKeys /\ PayoutKey(u) \in Keys
        BY DEF PayoutKey, ExecutionKeys, Keys
      <4>2. CASE BeginRampExecution(u, PayoutKey(u))
        BY <4>1, <4>2 DEF BeginRampExecution, SInv, IInv, TypeOK, NoAttempt
      <4>3. CASE attempt[PayoutKey(u)] # NoAttempt
        BY <4>1, <4>3, Keeps
      <4>4. QED  BY <2>3, <4>2, <4>3 DEF Begun
    <3>4. RowOK(w)'
      BY <3>1, <3>2, <3>3 DEF RowOK, RowSteps, PayoutKey
    <3>5. QED  BY <3>1, <3>4, StillSelected
  <2>4. QED  BY <2>1, <2>2, <2>3
<1>4. CASE CreatePayout(w)
  <2>1. PICK status \in PayoutStates \ {"NONE"} :
          /\ payout' = [payout EXCEPT ![t] = status]
          /\ Learn(w, worker[w].todo, t, status, "store")
    BY <1>4 DEF CreatePayout
  <2>2. worker'[w] = [pc |-> "store", todo |-> worker[w].todo, tx |-> t, seen |-> status]
    BY <2>1, NewWorker DEF Learn
  <2>3. t \in Tx /\ onchain'[t] # "NOT_CREATED" /\ attempt'[PayoutKey(t)] # NoAttempt
    BY <1>4, RowStays DEF CreatePayout, At, RowSteps
  <2>4. payout'[t] = status
    BY <2>1, <2>3 DEF SInv, SettlementTypeOK
  <2>5. RowOK(w)'
    BY <2>2, <2>3, <2>4 DEF RowOK, RowSteps, Funding, PayoutKey
  <2>6. QED  BY <2>2, <2>5, StillSelected
<1>5. CASE StoreReference(w)
  <2>1. worker'[w] = [pc |-> "processing", todo |-> worker[w].todo, tx |-> t, seen |-> worker[w].seen]
    BY <1>5, NewWorker DEF StoreReference, Goto
  <2>2. /\ t \in Tx /\ onchain'[t] # "NOT_CREATED" /\ attempt'[PayoutKey(t)] # NoAttempt /\ worker[w].seen # "NONE"
        /\ payout'[t] # "NONE" /\ (Final(worker[w].seen) => payout'[t] = worker[w].seen)
    BY <1>5, RowStays DEF StoreReference, At, RowSteps
  <2>3. provider'[t] = worker[w].seen
    BY <1>5, <2>2 DEF StoreReference, WritePayout, SInv, IInv, TypeOK
  <2>4. RowOK(w)'
    BY <2>1, <2>2, <2>3 DEF RowOK, RowSteps, Funding, PayoutKey, Final
  <2>5. QED  BY <2>1, <2>4, StillSelected
<1>6. CASE MarkProcessing(w)
  <2>1. CASE NextRow(w, worker[w].todo)
    BY <2>1, RowLeft
  <2>2. CASE Final(worker[w].seen) /\ Goto(w, "confirm")
    <3>1. worker'[w] = [pc |-> "confirm", todo |-> worker[w].todo, tx |-> t, seen |-> worker[w].seen]
      BY <2>2, NewWorker DEF Goto
    <3>2. /\ t \in Tx /\ onchain'[t] # "NOT_CREATED" /\ attempt'[PayoutKey(t)] # NoAttempt /\ worker[w].seen # "NONE"
          /\ payout'[t] # "NONE" /\ payout'[t] = worker[w].seen /\ provider'[t] # "NONE"
      BY <1>6, <2>2, RowStays DEF MarkProcessing, At, RowSteps
    <3>3. RowOK(w)'
      BY <2>2, <3>1, <3>2 DEF RowOK, RowSteps, Funding, PayoutKey, Final
    <3>4. QED  BY <3>1, <3>3, StillSelected
  <2>3. QED  BY <1>6, <2>1, <2>2 DEF MarkProcessing
<1>7. CASE PollPayout(w)
  <2>1. PICK u \in Tx :
          /\ <<"poll", u>> \in worker[w].todo
          /\ \/ Final(payout[u]) /\ Learn(w, worker[w].todo \ {<<"poll", u>>}, u, payout[u], "confirm")
             \/ NextRow(w, worker[w].todo \ {<<"poll", u>>})
    BY <1>7 DEF PollPayout
  <2>2. CASE NextRow(w, worker[w].todo \ {<<"poll", u>>})
    BY <2>2, RowLeft
  <2>3. CASE Final(payout[u]) /\ Learn(w, worker[w].todo \ {<<"poll", u>>}, u, payout[u], "confirm")
    <3>1. worker'[w] = [pc |-> "confirm", todo |-> worker[w].todo \ {<<"poll", u>>}, tx |-> u, seen |-> payout[u]]
      BY <2>3, NewWorker DEF Learn
    <3>2. Funding(u) /\ provider[u] # "NONE"
      BY <2>1, RowFacts DEF SelectedOK
    <3>3. PayoutKey(u) \in ExecutionKeys /\ attempt[PayoutKey(u)] # NoAttempt
      BY <3>2 DEF SInv, PayoutFits, PayoutKey, ExecutionKeys
    <3>4. Funding(u)' /\ attempt'[PayoutKey(u)] # NoAttempt /\ provider'[u] # "NONE" /\ payout'[u] = payout[u]
      BY <2>3, <3>2, <3>3, Keeps
    <3>5. RowOK(w)'
      BY <2>3, <3>1, <3>4 DEF RowOK, RowSteps, Funding, PayoutKey, Final
    <3>6. QED  BY <3>1, <3>5, StillSelected
  <2>4. QED  BY <2>1, <2>2, <2>3
<1>8. CASE ConfirmLands(w)
  <2>1. worker'[w] = [pc |-> "mark", todo |-> worker[w].todo, tx |-> t, seen |-> worker[w].seen]
    BY <1>8, NewWorker DEF ConfirmLands, Goto
  <2>2. /\ t \in Tx /\ onchain'[t] # "NOT_CREATED" /\ attempt'[PayoutKey(t)] # NoAttempt /\ worker[w].seen # "NONE"
        /\ payout'[t] # "NONE" /\ payout'[t] = worker[w].seen /\ provider'[t] # "NONE"
        /\ Final(worker[w].seen)
    <3>1. Final(worker[w].seen)
      BY <1>8, RowFacts DEF ConfirmLands, At, RowOK, RowSteps
    <3>2. QED  BY <1>8, <3>1, RowStays DEF ConfirmLands, At, RowSteps
  <2>3. escrow'[t] = Outcome(w)
    BY <1>8, <2>2 DEF ConfirmLands, SInv, SettlementTypeOK
  <2>4. Outcome(w)' = Outcome(w)
    BY <2>1 DEF Outcome, Succeeded
  <2>5. RowOK(w)'
    BY <2>1, <2>2, <2>3, <2>4 DEF RowOK, RowSteps, Funding, PayoutKey, Final
  <2>6. QED  BY <2>1, <2>5, StillSelected
<1>9. CASE MarkOnchain(w) \/ CloseIntent(w)
  BY <1>9, RowKept DEF MarkOnchain, CloseIntent, At
<1>10. CASE ConfirmRejected(w) \/ GiveUp(w) \/ CommitUnacknowledged(w)
  BY <1>10, RowKept DEF ConfirmRejected, GiveUp, CommitUnacknowledged, At, RowSteps
<1>11. CASE FinishPayout(w) \/ FinishFailed(w) \/ PayoutCallFails(w)
  BY <1>11, RowLeft DEF FinishPayout, FinishFailed, PayoutCallFails
<1>12. CASE WriteFails(w)
  <2>1. CASE worker[w].pc \in {"mark", "close", "finish"} /\ Goto(w, "fail")
    BY <2>1, RowKept DEF RowSteps
  <2>2. CASE NextRow(w, worker[w].todo)
    BY <2>2, RowLeft
  <2>3. QED  BY <1>12, <2>1, <2>2 DEF WriteFails
<1>13. QED
  BY <1>1, <1>2, <1>3, <1>4, <1>5, <1>6, <1>7, <1>8, <1>9, <1>10, <1>11, <1>12 DEF WorkerStep, FaultStep

(***************************************************************************)
(* The rows.                                                               *)
(***************************************************************************)
\* A step disturbs the row, the intent and the escrow of one transaction.
LEMMA OneRow ==
  ASSUME SInv, NEW t \in Tx, IntentFits(t)',
         \A u \in Tx \ {t} : /\ state'[u] = state[u] /\ onchain'[u] = onchain[u]
                             /\ escrow'[u] = escrow[u] /\ intent'[u] = intent[u]
  PROVE  \A u \in Tx : IntentFits(u)'
BY DEF SInv, IntentFits, Funding

LEMMA RowsFit ==
  ASSUME SInv, [SettlementNext]_allVars
  PROVE  \A t \in Tx : IntentFits(t)'
<1> USE DEF SInv, IInv, TypeOK, SettlementTypeOK, Funding
<1>1. CASE UNCHANGED <<state, onchain, escrow, intent>>
  BY <1>1 DEF IntentFits
<1>2. ASSUME NEW t \in Tx, CreateOfframpQuote(t) PROVE \A u \in Tx : IntentFits(u)'
  BY <1>2, OneRow DEF CreateOfframpQuote, CreateRampTransaction, Transition, Verdict, IntentFits
<1>3. ASSUME NEW t \in Tx, FundEscrow(t) PROVE \A u \in Tx : IntentFits(u)'
  BY <1>3, OneRow DEF FundEscrow, vars, IntentFits
<1>4. ASSUME NEW t \in Tx, ConfirmOfframpFunding(t) PROVE \A u \in Tx : IntentFits(u)'
  BY <1>4, OneRow DEF ConfirmOfframpFunding, WriteFunding, IntentFits
<1>5. ASSUME NEW t \in Tx, OperatorStep(t) PROVE \A u \in Tx : IntentFits(u)'
  <2>1. /\ UNCHANGED <<onchain, escrow, intent>>
        /\ \E next \in {"APPROVED", "REJECTED"} : state' = [state EXCEPT ![t] = next]
        /\ state[t] \in {"PENDING_APPROVAL", "FAILED"}
    BY <1>5 DEF OperatorStep, DecideRampTransaction, ApprovalTransition, DecidedState, ApprovalStates,
       RetryRampTransaction, RetryAllowed, Transition, settleVars, Actions
  <2>2. QED  BY <2>1, OneRow DEF IntentFits
<1>6. ASSUME NEW t \in Tx, NEW outcome \in {"COMPLETED", "REFUNDED"}, AbandonedLands(outcome, t)
      PROVE  \A u \in Tx : IntentFits(u)'
  <2>1. UNCHANGED <<state, onchain, intent>>
    BY <1>6 DEF AbandonedLands, vars
  <2>2. CASE escrow[t] = "AWAITING_PAYOUT" /\ escrow' = [escrow EXCEPT ![t] = outcome]
    BY <2>1, <2>2, OneRow DEF IntentFits
  <2>3. CASE UNCHANGED escrow
    BY <1>1, <2>1, <2>3
  <2>4. QED  BY <1>6, <2>2, <2>3 DEF AbandonedLands
<1>7. ASSUME NEW t \in Tx, NEW key \in ExecutionKeys, Begun(t, key) \/ Refused(t, key), UNCHANGED <<escrow, intent>>
      PROVE  \A u \in Tx : IntentFits(u)'
  <2>1. CASE BeginRampExecution(t, key)
    BY <1>7, <2>1, OneRow DEF BeginRampExecution, Transition, IntentFits
  <2>2. CASE UNCHANGED vars
    BY <1>1, <1>7, <2>2 DEF vars
  <2>3. QED  BY <1>7, <2>1, <2>2 DEF Begun, Refused
<1>8. ASSUME NEW w \in Workers, ClaimPayout(w) PROVE \A u \in Tx : IntentFits(u)'
  <2>1. PICK t \in Tx : Begun(t, PayoutKey(t)) \/ Refused(t, PayoutKey(t))
    BY <1>8 DEF ClaimPayout
  <2>2. PayoutKey(t) \in ExecutionKeys
    BY DEF PayoutKey, ExecutionKeys
  <2>3. QED  BY <1>7, <1>8, <2>1, <2>2 DEF ClaimPayout
<1>9. ASSUME NEW w \in Workers, MarkProcessing(w) \/ CloseIntent(w) PROVE \A u \in Tx : IntentFits(u)'
  <2> DEFINE t == worker[w].tx
  <2>1. t \in Tx /\ Funding(t) /\ UNCHANGED <<state, onchain, escrow>>
    BY <1>9, RowFacts DEF MarkProcessing, CloseIntent, At, RowSteps, vars
  <2>2. \E next \in {"PROCESSING", "COMPLETED", "REFUNDED"} :
          /\ intent' = [intent EXCEPT ![t] = next]
          /\ next # "PROCESSING" => escrow[t] = next
    BY <1>9, RowFacts DEF MarkProcessing, CloseIntent, At, RowOK, RowSteps, Outcome
  <2>3. QED  BY <2>1, <2>2, OneRow DEF IntentFits
<1>10. ASSUME NEW w \in Workers, ConfirmLands(w) PROVE \A u \in Tx : IntentFits(u)'
  <2>1. /\ worker[w].tx \in Tx /\ Outcome(w) \in {"COMPLETED", "REFUNDED"}
        /\ UNCHANGED <<state, onchain, intent>>
    BY <1>10, ConfirmsPaid DEF ConfirmLands, vars
  <2>2. QED  BY <1>10, <2>1, OneRow DEF ConfirmLands, IntentFits
<1>11. ASSUME NEW w \in Workers, MarkOnchain(w) PROVE \A u \in Tx : IntentFits(u)'
  <2> DEFINE t == worker[w].tx
  <2>1. t \in Tx /\ Funding(t) /\ escrow[t] = Outcome(w) /\ Outcome(w) \in {"COMPLETED", "REFUNDED"}
    BY <1>11, RowFacts DEF MarkOnchain, At, RowOK, RowSteps, Outcome
  <2>2. QED  BY <1>11, <2>1, OneRow DEF MarkOnchain, WriteOnchain, IntentFits
<1>12. ASSUME NEW w \in Workers, FinishPayout(w) \/ FinishFailed(w) \/ CommitUnacknowledged(w)
       PROVE  \A u \in Tx : IntentFits(u)'
  <2> DEFINE t == worker[w].tx
  <2>1. t \in Tx /\ Sure(t)
    BY <1>12, RowFacts DEF FinishPayout, FinishFailed, CommitUnacknowledged, At, RowSteps
  <2>2. /\ UNCHANGED <<onchain, escrow, intent>>
        /\ \/ UNCHANGED state
           \/ \E next \in {"COMPLETED", "FAILED"} : state' = [state EXCEPT ![t] = next]
    BY <1>12 DEF FinishPayout, FinishFailed, CommitUnacknowledged, Finished, FinishRampExecution,
       Transition, vars
  <2>3. QED  BY <2>1, <2>2, OneRow DEF Sure, IntentFits
<1>13. QED
  BY <1>1, <1>2, <1>3, <1>4, <1>5, <1>6, <1>8, <1>9, <1>10, <1>11, <1>12
     DEF SettlementNext, PayoutSettles, WorkerStep, FaultStep, StartTick, EndTick, CreatePayout,
         StoreReference, WritePayout, PollPayout, ConfirmRejected, PayoutCallFails, GiveUp,
         WriteFails, Crash, allVars, settleVars, vars

\* A row becomes COMPLETED only after its escrow was released.
LEMMA Completes ==
  ASSUME SInv, [SettlementNext]_allVars
  PROVE  \A t \in Tx : state'[t] = "COMPLETED" => \/ state[t] = "COMPLETED"
                                                  \/ escrow[t] = "COMPLETED" /\ provider[t] # "NONE"
<1> DEFINE Goal ==
      \A t \in Tx : state'[t] = "COMPLETED" => \/ state[t] = "COMPLETED"
                                               \/ escrow[t] = "COMPLETED" /\ provider[t] # "NONE"
<1> USE DEF SInv, IInv, TypeOK
<1>1. ASSUME UNCHANGED state PROVE Goal
  BY <1>1
<1>2. ASSUME NEW t \in Tx, NEW next \in RampStates \ {"COMPLETED"}, state' = [state EXCEPT ![t] = next]
      PROVE  Goal
  BY <1>2
<1>3. ASSUME NEW t \in Tx, CreateOfframpQuote(t) PROVE Goal
  BY <1>2, <1>3 DEF CreateOfframpQuote, CreateRampTransaction, Transition, Verdict, RampStates
<1>4. ASSUME NEW t \in Tx, ConfirmOfframpFunding(t) PROVE Goal
  BY <1>2, <1>4 DEF ConfirmOfframpFunding, WriteFunding, RampStates
<1>5. ASSUME NEW t \in Tx, OperatorStep(t) PROVE Goal
  BY <1>2, <1>5 DEF OperatorStep, DecideRampTransaction, DecidedState, ApprovalStates,
     RetryRampTransaction, Transition, RampStates, Actions
<1>6. ASSUME NEW w \in Workers, ClaimPayout(w) PROVE Goal
  <2>1. PICK t \in Tx : Begun(t, PayoutKey(t)) \/ Refused(t, PayoutKey(t))
    BY <1>6 DEF ClaimPayout
  <2>2. QED  BY <1>1, <1>2, <2>1 DEF Begun, Refused, BeginRampExecution, Transition, RampStates, vars
<1>7. ASSUME NEW w \in Workers, FinishPayout(w) \/ CommitUnacknowledged(w) PROVE Goal
  <2> DEFINE t == worker[w].tx
  <2>1. t \in Tx /\ (Succeeded(w) => escrow[t] = "COMPLETED" /\ provider[t] # "NONE")
    BY <1>7, RowFacts DEF FinishPayout, CommitUnacknowledged, At, RowOK, RowSteps, Outcome
  <2>2. \/ UNCHANGED state
        \/ Succeeded(w) /\ state' = [state EXCEPT ![t] = "COMPLETED"]
        \/ state' = [state EXCEPT ![t] = "FAILED"]
    BY <1>7 DEF FinishPayout, CommitUnacknowledged, Finished, FinishRampExecution, Transition, vars
  <2>3. QED  BY <2>1, <2>2
<1>8. ASSUME NEW w \in Workers, FinishFailed(w) PROVE Goal
  <2>1. worker[w].tx \in Tx
    BY <1>8, RowFacts DEF FinishFailed, At, RowSteps
  <2>2. QED  BY <1>1, <1>2, <1>8, <2>1 DEF FinishFailed, Finished, FinishRampExecution, Transition, RampStates, vars
<1>9. QED
  BY <1>1, <1>3, <1>4, <1>5, <1>6, <1>7, <1>8
     DEF SettlementNext, FundEscrow, PayoutSettles, AbandonedLands, WorkerStep, FaultStep, StartTick,
         EndTick, CreatePayout, StoreReference, WritePayout, MarkProcessing, PollPayout, ConfirmLands,
         ConfirmRejected, MarkOnchain, WriteOnchain, CloseIntent, PayoutCallFails, GiveUp, WriteFails,
         Crash, allVars, vars

LEMMA PayoutsFit ==
  ASSUME SInv, [SettlementNext]_allVars
  PROVE  \A t \in Tx : PayoutFits(t)'
<1>1. ASSUME NEW t \in Tx, payout'[t] # "NONE" PROVE Sure(t)' /\ Funding(t)'
  <2>1. payout[t] # "NONE" => Sure(t) /\ Funding(t)
    BY DEF SInv, PayoutFits
  <2>2. Sure(t) /\ Funding(t)
    BY <1>1, <2>1, PayoutStep DEF PayoutMoves, SInv, SettlementTypeOK
  <2>3. QED  BY <2>2, Keeps
<1>2. ASSUME NEW t \in Tx, provider'[t] # "NONE"
      PROVE  attempt'[PayoutKey(t)] # NoAttempt /\ payout'[t] # "NONE"
  <2>1. provider[t] # "NONE" => attempt[PayoutKey(t)] # NoAttempt /\ payout[t] # "NONE"
    BY DEF SInv, PayoutFits
  <2>2. attempt[PayoutKey(t)] # NoAttempt /\ payout[t] # "NONE"
    BY <1>2, <2>1, ProviderStep DEF ProviderMoves, SInv, IInv, TypeOK
  <2>3. PayoutKey(t) \in ExecutionKeys
    BY DEF PayoutKey, ExecutionKeys
  <2>4. QED  BY <2>2, <2>3, Keeps
<1>3. ASSUME NEW t \in Tx, NEW outcome \in {"COMPLETED", "REFUNDED"},
             escrow'[t] = outcome \/ <<outcome, t>> \in late'
      PROVE  Pays(t, outcome)'
  <2>1. escrow[t] = outcome \/ <<outcome, t>> \in late => Pays(t, outcome)
    BY DEF SInv, PayoutFits, Pays
  <2>2. Pays(t, outcome)
    <3>1. CASE escrow'[t] = outcome
      BY <2>1, <3>1, EscrowStep DEF EscrowMoves, SInv, SettlementTypeOK
    <3>2. CASE <<outcome, t>> \in late'
      BY <2>1, <3>2, LateStep DEF LateMoves
    <3>3. QED  BY <1>3, <3>1, <3>2
  <2>3. QED  BY <2>2, Keeps DEF Pays, Final
<1>4. ASSUME NEW t \in Tx, state'[t] = "COMPLETED"
      PROVE  escrow'[t] = "COMPLETED" /\ provider'[t] # "NONE"
  <2>1. escrow[t] = "COMPLETED" /\ provider[t] # "NONE"
    BY <1>4, Completes DEF SInv, PayoutFits
  <2>2. QED  BY <2>1, Keeps
<1>5. QED  BY <1>1, <1>2, <1>3, <1>4 DEF PayoutFits, PayoutKey, Pays

LEMMA StepSInv == SInv /\ [SettlementNext]_allVars => SInv'
<1> SUFFICES ASSUME SInv, [SettlementNext]_allVars PROVE SInv'
  OBVIOUS
<1>1. ASSUME NEW w \in Workers PROVE SelectedOK(w)' /\ RowOK(w)'
  <2>1. CASE WorkerStep(w) \/ FaultStep(w)
    BY <2>1, WorkerMoves
  <2>2. CASE worker'[w] = worker[w]
    BY <2>2, SameRow
  <2>3. ASSUME NEW v \in Workers, v # w, WorkerStep(v) \/ FaultStep(v) PROVE worker'[w] = worker[w]
    BY <2>3
    DEF WorkerStep, FaultStep, StartTick, EndTick, ClaimPayout, CreatePayout, StoreReference,
        MarkProcessing, PollPayout, ConfirmLands, ConfirmRejected, MarkOnchain, CloseIntent,
        FinishPayout, FinishFailed, PayoutCallFails, GiveUp, WriteFails, CommitUnacknowledged, Crash,
        Goto, Learn, NextRow, SInv, SettlementTypeOK
  <2>4. (\E v \in Workers : WorkerStep(v) \/ FaultStep(v)) \/ UNCHANGED worker
    BY DEF SettlementNext, CreateOfframpQuote, FundEscrow, ConfirmOfframpFunding, OperatorStep,
       PayoutSettles, AbandonedLands, allVars, settleVars
  <2>5. QED  BY <2>1, <2>2, <2>3, <2>4
<1>2. QED
  BY <1>1, Keeps, SettlementTypeStep, RowsFit, PayoutsFit DEF SInv

(***************************************************************************)
(* The theorems.                                                           *)
(***************************************************************************)
\* The invariant of off-ramp settlement holds in every reachable state.
THEOREM SettlementInductive == SettlementSpec => []SInv
<1>1. QED  BY InitSInv, StepSInv, PTL DEF SettlementSpec

\* Escrows, payouts, intents, workers and late calls stay within their domains.
THEOREM SettlementTypeCorrect == SettlementSpec => []SettlementTypeOK
<1>1. SInv => SettlementTypeOK
  BY DEF SInv
<1>2. QED  BY SettlementInductive, <1>1, PTL

\* The withdrawal handlers and the worker keep to the ledger: all that is
\* proved of the ledger holds of off-ramp settlement, however many workers
\* there are and whatever calls time out, fail or come late.
THEOREM SettlementImplementsLedger == SettlementSpec => ImplementsLedger
<1>1. SettlementInit => Init
  BY DEF SettlementInit
<1>2. QED  BY SettlementInductive, StepRefines, <1>1, PTL DEF SettlementSpec, ImplementsLedger, Spec

\* A payout exists, or is about to be requested, only of a withdrawal whose
\* escrow was funded and that was cleared.
THEOREM PayoutsAuthorised == SettlementSpec => []PayoutAuthorised
<1>1. SInv => PayoutAuthorised
  <2> SUFFICES ASSUME SInv, NEW t \in Tx,
                      payout[t] # "NONE" \/ \E w \in Workers : At(w, "pay") /\ worker[w].tx = t
               PROVE  escrow[t] # "NONE" /\ Cleared(t)
    BY DEF PayoutAuthorised
  <2>1. Sure(t) /\ Funding(t)
    BY RowFacts DEF SInv, PayoutFits, At, RowSteps
  <2>2. QED  BY <2>1 DEF SInv, IntentFits, Sure
<1>2. QED  BY SettlementInductive, <1>1, PTL

\* An escrow is released only for a payout that succeeded and refunded only
\* for one that failed, by the calls under way and the late ones too.
THEOREM EscrowsFollowPayouts == SettlementSpec => []EscrowFollowsPayout
<1>1. SInv => EscrowFollowsPayout
  <2> SUFFICES ASSUME SInv, NEW t \in Tx, NEW outcome \in {"COMPLETED", "REFUNDED"},
                      \/ escrow[t] = outcome \/ <<outcome, t>> \in late
                      \/ \E w \in Workers : At(w, "confirm") /\ worker[w].tx = t /\ Outcome(w) = outcome
               PROVE  Pays(t, outcome)
    BY DEF EscrowFollowsPayout, Pays
  <2>1. QED  BY ConfirmsPaid DEF SInv, PayoutFits, Pays
<1>2. QED  BY SettlementInductive, <1>1, PTL

\* What is shown as completed or refunded is what became of the escrow.
THEOREM SettlementsShown == SettlementSpec => []ShownSettled
<1>1. SInv => ShownSettled
  BY DEF SInv, IntentFits, PayoutFits, ShownSettled
<1>2. QED  BY SettlementInductive, <1>1, PTL
=============================================================================
