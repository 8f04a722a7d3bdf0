-------------------------- MODULE OnrampSettlement --------------------------
(***************************************************************************)
(* On-ramp settlement end to end: the consumer's deposit intent, the       *)
(* payment provider's verified receipt, the request in the Soroban         *)
(* orchestrator, and ramp/worker.ts, which turns an APPROVED row into a    *)
(* confirm_onramp invocation.  The ledger's own operations are those of    *)
(* RampLedger; this module says who calls them, when, and what happens     *)
(* between the calls.                                                      *)
(*                                                                         *)
(* `running` in worker.ts is a variable of one process: every API process  *)
(* has a worker of its own, and they share only the database and the       *)
(* chain.  A worker acts on the rows it selected, not on their current     *)
(* contents.                                                               *)
(***************************************************************************)
EXTENDS RampLedger

CONSTANTS
  Workers,   \* API processes
  MaxFaults  \* bound on crashes, lost connections and timed-out submissions

ASSUME SettlesOnRampOnly == OffRamp = {}
ASSUME MaxFaultsIsNat == MaxFaults \in Nat

VARIABLES
  chain,   \* the orchestrator's request of a transaction
  intent,  \* consumer_deposit_intents.state
  worker,  \* where each worker is, the rows it still has, the row it is at
  late,    \* invocations submitted and given up on, which may yet land
  faults   \* faults so far

settleVars == <<chain, intent, worker, late, faults>>
allVars == <<vars, settleVars>>

ChainStates == {"NONE", "AWAITING_FIAT", "COMPLETED"}

\* OPEN: creating, pending or failed, where a matching payment settles.
IntentStates == {"ABSENT", "QUOTED", "OPEN", "EXPIRED",
                 "REVIEW", "SETTLING", "RECEIVED"}

RecoverySteps == {"reconcile", "credit", "adoptCompleted", "finishReconcile",
                  "create", "adopt"}
SettlementSteps == {"confirm", "mark", "received", "finish", "fail"}
Steps == {"idle", "recover", "settle"} \cup RecoverySteps \cup SettlementSteps

SettlementTypeOK ==
  /\ TypeOK
  /\ chain \in [Tx -> ChainStates]
  /\ intent \in [Tx -> IntentStates]
  /\ worker \in [Workers -> [pc : Steps, todo : SUBSET Tx, tx : Tx \cup {NoTx}]]
  /\ late \subseteq {"create", "confirm"} \X Tx
  /\ faults \in 0..MaxFaults

Idle == [pc |-> "idle", todo |-> {}, tx |-> NoTx]

\* The intent states migration 013 found behind each backfilled row.
LegacyIntents(t) ==
  IF state[t] = "CANCELLED" THEN {"EXPIRED"}
  ELSE IF provider[t] = "REVIEW" THEN {"REVIEW"}
  ELSE IF provider[t] = "CONFIRMED" THEN {"RECEIVED"}
  ELSE {"QUOTED", "OPEN"}

\* A paid legacy row may have a request from before the last deployment.
SettlementInit ==
  /\ Init
  /\ intent \in [Tx -> IntentStates]
  /\ \A t \in Tx : intent[t] \in (IF t \in Legacy THEN LegacyIntents(t)
                                 ELSE {"ABSENT"})
  /\ chain \in [Tx -> ChainStates]
  /\ \A t \in Tx : chain[t] # "NONE" =>
       t \in Legacy /\ state[t] = "APPROVED" /\ provider[t] = "CONFIRMED"
  /\ worker = [w \in Workers |-> Idle]
  /\ late = {}
  /\ faults = 0

----------------------------------------------------------------------------
(***************************************************************************)
(* The consumer and the payment provider.                                  *)
(***************************************************************************)
\* createQuote: the ledger row and its intent, in one transaction.
CreateQuote(t) ==
  /\ \E outcome \in DOMAIN Verdict : CreateRampTransaction(t, outcome)
  /\ intent' = [intent EXCEPT ![t] = "QUOTED"]
  /\ UNCHANGED <<chain, worker, late, faults>>

\* startDeposit submits create_onramp_for before it writes anything, so a
\* failure after the submission rolls the row back but not the request.
SubmitRequest(t) ==
  /\ intent[t] = "QUOTED"
  /\ t \notin Legacy
  /\ chain[t] = "NONE"
  /\ chain' = [chain EXCEPT ![t] = "AWAITING_FIAT"]
  /\ UNCHANGED <<vars, intent, worker, late, faults>>

StartDeposit(t) ==
  /\ intent[t] = "QUOTED"
  /\ chain[t] = "AWAITING_FIAT"
  /\ t \notin Legacy
  /\ WriteOnchain(t, "AWAITING_FIAT")
  /\ intent' = [intent EXCEPT ![t] = "OPEN"]
  /\ UNCHANGED <<chain, worker, late, faults>>

\* The sweep expires old quotes, and reconcile a deposit that the provider
\* reports failed after its grace period.  The ledger row is not touched.
ExpireIntent(t) ==
  /\ intent[t] \in {"QUOTED", "OPEN"}
  /\ intent' = [intent EXCEPT ![t] = "EXPIRED"]
  /\ UNCHANGED <<vars, chain, worker, late, faults>>

\* reconcile with a verified payment: receipt, ledger and intent together.
\* `mismatch` is a wrong amount or fee, or a payment over the limit.
Reconcile(t, mismatch) ==
  LET review == mismatch \/ intent[t] \in {"QUOTED", "EXPIRED"}
  IN /\ intent[t] \in {"QUOTED", "OPEN", "EXPIRED"}
     /\ RecordProviderConfirmation(t, IF review THEN "REVIEW" ELSE "CONFIRMED")
     /\ intent' = [intent EXCEPT ![t] = IF review THEN "REVIEW" ELSE "SETTLING"]
     /\ UNCHANGED <<chain, worker, late, faults>>

\* Operators decide and retry, whatever the worker is doing.
OperatorStep(t) ==
  /\ \/ \E action \in Actions : DecideRampTransaction(t, action)
     \/ \E key \in RetryKeys : RetryRampTransaction(t, key)
  /\ UNCHANGED settleVars

----------------------------------------------------------------------------
(***************************************************************************)
(* The worker.                                                             *)
(***************************************************************************)
ConfirmKey(t) == <<"CONFIRM_ONRAMP", t>>
ReconcileKey(t) == <<"RECONCILE_ONRAMP", t>>

Paid(t) == state[t] = "APPROVED" /\ provider[t] = "CONFIRMED"

\* Mutant of SettlementRows: provider_status is not looked at.
SettlementRowsOfAnyPayment ==
  {t \in Tx : state[t] = "APPROVED" /\ onchain[t] = "AWAITING_FIAT"}

\* The two SELECTs of processRampExecutions, of which the instances reach no
\* LIMIT; `onchain` is "NULL" exactly on the rows whose orchestrator_request_id
\* is NULL.
InterruptedRows == {t \in Tx : Paid(t) /\ onchain[t] = "NULL"}
SettlementRows == {t \in Tx : Paid(t) /\ onchain[t] = "AWAITING_FIAT"}

At(w, pc) == worker[w].pc = pc

Goto(w, pc) ==
  worker' = [worker EXCEPT ![w] =
    [pc |-> pc, todo |-> worker[w].todo, tx |-> worker[w].tx]]

Take(w, t, pc) ==
  worker' = [worker EXCEPT ![w] =
    [pc |-> pc, todo |-> worker[w].todo \ {t}, tx |-> t]]

\* The row is done, or its error was caught and logged: on to the next one.
NextRow(w, pc) ==
  worker' = [worker EXCEPT ![w] =
    [pc |-> pc, todo |-> worker[w].todo, tx |-> NoTx]]

Loop(w) == IF worker[w].pc \in RecoverySteps THEN "recover" ELSE "settle"

StartTick(w) ==
  /\ At(w, "idle")
  /\ worker' = [worker EXCEPT ![w] =
       [pc |-> "recover", todo |-> InterruptedRows, tx |-> NoTx]]
  /\ UNCHANGED <<vars, chain, intent, late, faults>>

StartSettling(w) ==
  /\ At(w, "recover")
  /\ worker[w].todo = {}
  /\ worker' = [worker EXCEPT ![w] =
       [pc |-> "settle", todo |-> SettlementRows, tx |-> NoTx]]
  /\ UNCHANGED <<vars, chain, intent, late, faults>>

EndTick(w) ==
  /\ At(w, "settle")
  /\ worker[w].todo = {}
  /\ worker' = [worker EXCEPT ![w] = Idle]
  /\ UNCHANGED <<vars, chain, intent, late, faults>>

(***************************************************************************)
(* completeOnramp: begin, confirm_onramp on chain, three writes.           *)
(***************************************************************************)
\* Mutant of ClaimRow: the execution is not claimed before the submission.
SkipClaim(w) ==
  /\ At(w, "settle")
  /\ \E t \in worker[w].todo : Take(w, t, "confirm")
  /\ UNCHANGED <<vars, chain, intent, late, faults>>

ClaimRow(w) ==
  /\ At(w, "settle")
  /\ \E t \in worker[w].todo :
       \/ Begun(t, ConfirmKey(t)) /\ Take(w, t, "confirm")
       \/ /\ Refused(t, ConfirmKey(t))
          /\ worker' = [worker EXCEPT ![w] =
               [pc |-> "settle", todo |-> worker[w].todo \ {t}, tx |-> NoTx]]
  /\ UNCHANGED <<chain, intent, late, faults>>

\* The contract confirms a request once, while it awaits fiat.
ConfirmLands(w) ==
  /\ At(w, "confirm")
  /\ chain[worker[w].tx] = "AWAITING_FIAT"
  /\ chain' = [chain EXCEPT ![worker[w].tx] = "COMPLETED"]
  /\ Goto(w, "mark")
  /\ UNCHANGED <<vars, intent, late, faults>>

\* The simulation, the network or the contract refuses it.
ConfirmRejected(w) ==
  /\ At(w, "confirm")
  /\ Goto(w, "fail")
  /\ UNCHANGED <<vars, chain, intent, late, faults>>

MarkOnchain(w) ==
  /\ At(w, "mark")
  /\ WriteOnchain(worker[w].tx, "COMPLETED")
  /\ Goto(w, "received")
  /\ UNCHANGED <<chain, intent, late, faults>>

MarkReceived(w) ==
  /\ At(w, "received")
  /\ intent' = [intent EXCEPT ![worker[w].tx] = "RECEIVED"]
  /\ Goto(w, "finish")
  /\ UNCHANGED <<vars, chain, late, faults>>

FinishConfirmed(w) ==
  /\ At(w, "finish")
  /\ Finished(worker[w].tx, ConfirmKey(worker[w].tx), TRUE)
  /\ NextRow(w, "settle")
  /\ UNCHANGED <<chain, intent, late, faults>>

\* Mutant of FinishFailed: the catch block only logs.
FailSilently(w) ==
  /\ At(w, "fail")
  /\ NextRow(w, "settle")
  /\ UNCHANGED <<vars, chain, intent, late, faults>>

\* The catch block, for an error anywhere after the claim.
FinishFailed(w) ==
  /\ At(w, "fail")
  /\ Finished(worker[w].tx, ConfirmKey(worker[w].tx), FALSE)
  /\ NextRow(w, "settle")
  /\ UNCHANGED <<chain, intent, late, faults>>

(***************************************************************************)
(* recoverInterruptedOnramp: what it does depends on the request it finds. *)
(***************************************************************************)
\* Mutant of LookUpRequest: a request that was confirmed is taken for an open one.
LookUpAnyRequest(w) ==
  /\ At(w, "recover")
  /\ \E t \in worker[w].todo :
       Take(w, t, IF chain[t] = "NONE" THEN "create" ELSE "adopt")
  /\ UNCHANGED <<vars, chain, intent, late, faults>>

LookUpRequest(w) ==
  /\ At(w, "recover")
  /\ \E t \in worker[w].todo :
       Take(w, t, IF chain[t] = "COMPLETED" THEN "reconcile"
                  ELSE IF chain[t] = "NONE" THEN "create" ELSE "adopt")
  /\ UNCHANGED <<vars, chain, intent, late, faults>>

ClaimReconciliation(w) ==
  LET t == worker[w].tx
  IN /\ At(w, "reconcile")
     /\ \/ Begun(t, ReconcileKey(t)) /\ Goto(w, "credit")
        \/ Refused(t, ReconcileKey(t)) /\ NextRow(w, "recover")
     /\ UNCHANGED <<chain, intent, late, faults>>

CreditReconciled(w) ==
  /\ At(w, "credit")
  /\ intent' = [intent EXCEPT ![worker[w].tx] = "RECEIVED"]
  /\ Goto(w, "adoptCompleted")
  /\ UNCHANGED <<vars, chain, late, faults>>

AdoptCompleted(w) ==
  /\ At(w, "adoptCompleted")
  /\ WriteOnchain(worker[w].tx, "COMPLETED")
  /\ Goto(w, "finishReconcile")
  /\ UNCHANGED <<chain, intent, late, faults>>

FinishReconciled(w) ==
  /\ At(w, "finishReconcile")
  /\ Finished(worker[w].tx, ReconcileKey(worker[w].tx), TRUE)
  /\ NextRow(w, "recover")
  /\ UNCHANGED <<chain, intent, late, faults>>

RequestCreated(w) ==
  /\ At(w, "create")
  /\ chain[worker[w].tx] = "NONE"
  /\ chain' = [chain EXCEPT ![worker[w].tx] = "AWAITING_FIAT"]
  /\ Goto(w, "adopt")
  /\ UNCHANGED <<vars, intent, late, faults>>

AdoptAwaiting(w) ==
  /\ At(w, "adopt")
  /\ WriteOnchain(worker[w].tx, "AWAITING_FIAT")
  /\ NextRow(w, "recover")
  /\ UNCHANGED <<chain, intent, late, faults>>

\* The quote moved, or the contract refused the request; recovery has no
\* catch of its own, so the row is left as it is for the next tick.
CreateRejected(w) ==
  /\ At(w, "create")
  /\ NextRow(w, "recover")
  /\ UNCHANGED <<vars, chain, intent, late, faults>>

WorkerStep(w) ==
  \/ StartTick(w) \/ StartSettling(w) \/ EndTick(w)
  \/ ClaimRow(w) \/ ConfirmLands(w) \/ ConfirmRejected(w)
  \/ MarkOnchain(w) \/ MarkReceived(w) \/ FinishConfirmed(w) \/ FinishFailed(w)
  \/ LookUpRequest(w) \/ ClaimReconciliation(w) \/ CreditReconciled(w)
  \/ AdoptCompleted(w) \/ FinishReconciled(w)
  \/ RequestCreated(w) \/ AdoptAwaiting(w) \/ CreateRejected(w)

----------------------------------------------------------------------------
(***************************************************************************)
(* Faults.                                                                 *)
(***************************************************************************)
Fault == faults < MaxFaults /\ faults' = faults + 1

\* What is in flight when nobody waits for it any more.
Abandoned(w) ==
  IF worker[w].pc \in {"confirm", "create"}
  THEN {<<worker[w].pc, worker[w].tx>>} ELSE {}

\* Mutant of GiveUp: a confirmation that was only sent counts as done.
TrustSubmission(w) ==
  /\ Fault
  /\ worker[w].pc \in {"confirm", "create"}
  /\ late' = late \cup Abandoned(w)
  /\ IF At(w, "confirm") THEN Goto(w, "mark") ELSE NextRow(w, "recover")
  /\ UNCHANGED <<vars, chain, intent>>

\* submitRampInvocation throws after the transaction was sent: its polling
\* failed or ran out of time.
GiveUp(w) ==
  /\ Fault
  /\ worker[w].pc \in {"confirm", "create"}
  /\ late' = late \cup Abandoned(w)
  /\ IF At(w, "confirm") THEN Goto(w, "fail") ELSE NextRow(w, "recover")
  /\ UNCHANGED <<vars, chain, intent>>

AbandonedLands(call, t) ==
  /\ <<call, t>> \in late
  /\ late' = late \ {<<call, t>>}
  /\ chain' = [chain EXCEPT ![t] =
       IF call = "create" /\ chain[t] = "NONE" THEN "AWAITING_FIAT"
       ELSE IF call = "confirm" /\ chain[t] = "AWAITING_FIAT" THEN "COMPLETED"
       ELSE chain[t]]
  /\ UNCHANGED <<vars, intent, worker, faults>>

\* A write fails: before the claim's end it goes to the catch block, in the
\* catch block and in recovery the row is dropped.
WriteFails(w) ==
  /\ Fault
  /\ worker[w].pc \in {"mark", "received", "finish", "fail"} \cup RecoverySteps
  /\ IF worker[w].pc \in {"mark", "received", "finish"}
     THEN Goto(w, "fail") ELSE NextRow(w, Loop(w))
  /\ UNCHANGED <<vars, chain, intent, late>>

\* The connection breaks after COMMIT: the success is on record and the
\* catch block runs all the same.
CommitUnacknowledged(w) ==
  /\ Fault
  /\ At(w, "finish")
  /\ Finished(worker[w].tx, ConfirmKey(worker[w].tx), TRUE)
  /\ Goto(w, "fail")
  /\ UNCHANGED <<chain, intent, late>>

\* A deployment or a crash ends the process in the middle of its batch.
Crash(w) ==
  /\ Fault
  /\ ~At(w, "idle")
  /\ worker' = [worker EXCEPT ![w] = Idle]
  /\ late' = late \cup Abandoned(w)
  /\ UNCHANGED <<vars, chain, intent>>

FaultStep(w) ==
  GiveUp(w) \/ WriteFails(w) \/ CommitUnacknowledged(w) \/ Crash(w)

SettlementNext ==
  \/ \E t \in Tx :
       \/ CreateQuote(t) \/ SubmitRequest(t) \/ StartDeposit(t)
       \/ ExpireIntent(t) \/ OperatorStep(t)
       \/ \E mismatch \in BOOLEAN : Reconcile(t, mismatch)
       \/ \E call \in {"create", "confirm"} : AbandonedLands(call, t)
  \/ \E w \in Workers : WorkerStep(w) \/ FaultStep(w)

SettlementSpec == SettlementInit /\ [][SettlementNext]_allVars

\* setInterval keeps calling processRampExecutions, and every await in it
\* ends: HTTP calls time out and submitRampInvocation polls for 120 seconds.
FairSettlement == SettlementSpec /\ \A w \in Workers : WF_allVars(WorkerStep(w))

----------------------------------------------------------------------------
(***************************************************************************)
(* Properties.                                                             *)
(***************************************************************************)
\* Every operation of this module is one of the ledger's, called in a state
\* where the ledger's guards hold, or leaves the ledger alone: all that is
\* proved of RampLedger!Spec holds here too.
ImplementsLedger == Spec

\* USDC is released only against a payment the provider verified and reconcile
\* matched, of a transaction that policy or an operator cleared; and the same
\* holds of every confirmation that is still under way, however stale the row
\* it was selected from (worker.ts completeOnramp, consumer/service.ts
\* reconcile).
ReleaseAuthorised ==
  \A t \in Tx :
    (\/ chain[t] = "COMPLETED" \/ <<"confirm", t>> \in late
     \/ \E w \in Workers : At(w, "confirm") /\ worker[w].tx = t)
      => provider[t] = "CONFIRMED" /\ Cleared(t)

\* What the user and the operator are shown is what happened on chain: a
\* COMPLETED row, a deposit received and an onchain_state COMPLETED each mean
\* the orchestrator released the funds.  (Backfilled intents were `received`
\* before there was a release.)
ShownReleased ==
  \A t \in Tx :
    /\ state[t] = "COMPLETED" => intent[t] = "RECEIVED"
    /\ (\/ state[t] = "COMPLETED" \/ onchain[t] = "COMPLETED"
        \/ intent[t] = "RECEIVED" /\ t \notin Legacy)
         => chain[t] = "COMPLETED"

\* Without faults and with one worker, FAILED is the truth: nothing was
\* released, so a retry is the right remedy.
FailureIsReal == \A t \in Tx : state[t] = "FAILED" => chain[t] # "COMPLETED"

\* A paid, cleared deposit whose request exists is settled or reported failed.
PaidIsSettled ==
  \A t \in Tx :
    (Paid(t) /\ onchain[t] = "AWAITING_FIAT")
      ~> state[t] \in {"COMPLETED", "FAILED"}

(***************************************************************************)
(* What the documents say and the code does not do.                        *)
(***************************************************************************)
\* 'Retry failed ramp transaction execution' (012_ramp_control.sql:147): a
\* queued retry is executed.  The worker looks for the attempt of its own key,
\* finds the failed one, and the queued one is never claimed.
RetryIsExecuted ==
  \A t \in Tx, key \in RetryKeys :
    attempt[key] = [tx |-> t, state |-> "QUEUED"]
      ~> attempt[key].state # "QUEUED" \/ state[t] \in {"PROCESSING", "COMPLETED"}
=============================================================================
