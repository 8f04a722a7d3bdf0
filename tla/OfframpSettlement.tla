------------------------- MODULE OfframpSettlement --------------------------
(***************************************************************************)
(* Off-ramp settlement end to end: the withdrawal intent, the escrow in    *)
(* the Soroban orchestrator, the fiat payout at the provider, and the part *)
(* of ramp/worker.ts that starts a payout, polls it and closes the escrow  *)
(* with its outcome.                                                       *)
(*                                                                         *)
(* The provider and the contract are external: a payout is identified by   *)
(* its reference, so a second request with the same reference creates no   *)
(* second payout; its status becomes final once; and an escrow is closed   *)
(* once.                                                                   *)
(***************************************************************************)
EXTENDS RampLedger

CONSTANTS
  Workers,   \* API processes, each with its own `running` flag
  MaxFaults  \* bound on crashes, lost calls and timed-out submissions

ASSUME SettlesOffRampOnly == OnRamp = {}
ASSUME MaxFaultsIsNat == MaxFaults \in Nat

VARIABLES
  escrow,  \* the orchestrator's request of a transaction
  payout,  \* the payout at the provider; PENDING until its status is final
  intent,  \* consumer_offramp_intents.state
  worker,  \* where each worker is, the rows it still has, its row, its payout
  late,    \* confirm_offramp calls given up on, which may yet land
  faults   \* faults so far

settleVars == <<escrow, payout, intent, worker, late, faults>>
allVars == <<vars, settleVars>>

EscrowStates == {"NONE", "AWAITING_PAYOUT", "COMPLETED", "REFUNDED"}
PayoutStates == {"NONE", "PENDING", "SUCCESS", "FAILED"}
IntentStates == {"ABSENT", "QUOTED", "FUNDED", "PENDING_APPROVAL",
                 "PROCESSING", "COMPLETED", "REFUNDED"}

\* A row was selected APPROVED, to start its payout, or PROCESSING, to poll it.
Jobs == {"start", "poll"}
Steps == {"idle", "work", "pay", "store", "processing",
          "confirm", "mark", "close", "finish", "fail"}

SettlementTypeOK ==
  /\ TypeOK
  /\ escrow \in [Tx -> EscrowStates]
  /\ payout \in [Tx -> PayoutStates]
  /\ intent \in [Tx -> IntentStates]
  /\ worker \in [Workers -> [pc : Steps, todo : SUBSET (Jobs \X Tx),
                             tx : Tx \cup {NoTx}, seen : PayoutStates]]
  /\ late \subseteq {"COMPLETED", "REFUNDED"} \X Tx
  /\ faults \in 0..MaxFaults

Idle == [pc |-> "idle", todo |-> {}, tx |-> NoTx, seen |-> "NONE"]

SettlementInit ==
  /\ Init
  /\ escrow = [t \in Tx |-> "NONE"]
  /\ payout = [t \in Tx |-> "NONE"]
  /\ intent = [t \in Tx |-> "ABSENT"]
  /\ worker = [w \in Workers |-> Idle]
  /\ late = {}
  /\ faults = 0

----------------------------------------------------------------------------
(***************************************************************************)
(* The consumer, the operators and the provider.                           *)
(***************************************************************************)
CreateOfframpQuote(t) ==
  /\ \E outcome \in DOMAIN Verdict : CreateRampTransaction(t, outcome)
  /\ intent' = [intent EXCEPT ![t] = "QUOTED"]
  /\ UNCHANGED <<escrow, payout, worker, late, faults>>

\* The consumer's wallet opens and funds the escrow.
FundEscrow(t) ==
  /\ intent[t] = "QUOTED"
  /\ escrow[t] = "NONE"
  /\ escrow' = [escrow EXCEPT ![t] = "AWAITING_PAYOUT"]
  /\ UNCHANGED <<vars, payout, intent, worker, late, faults>>

\* Mutant of ConfirmOfframpFunding: the consumer's word is taken for it.
ConfirmUnseenFunding(t) ==
  /\ intent[t] = "QUOTED"
  /\ WriteFunding(t)
  /\ intent' = [intent EXCEPT ![t] = "FUNDED"]
  /\ UNCHANGED <<escrow, payout, worker, late, faults>>

ConfirmOfframpFunding(t) ==
  /\ intent[t] \notin {"FUNDED", "PENDING_APPROVAL", "PROCESSING", "COMPLETED"}
  /\ escrow[t] = "AWAITING_PAYOUT"
  /\ WriteFunding(t)
  /\ intent' = [intent EXCEPT ![t] = IF approval[t] = "PENDING"
                                     THEN "PENDING_APPROVAL" ELSE "FUNDED"]
  /\ UNCHANGED <<escrow, payout, worker, late, faults>>

OperatorStep(t) ==
  /\ \/ \E action \in Actions : DecideRampTransaction(t, action)
     \/ \E key \in RetryKeys : RetryRampTransaction(t, key)
  /\ UNCHANGED settleVars

PayoutSettles(t) ==
  /\ payout[t] = "PENDING"
  /\ \E status \in {"SUCCESS", "FAILED"} :
       payout' = [payout EXCEPT ![t] = status]
  /\ UNCHANGED <<vars, escrow, intent, worker, late, faults>>

----------------------------------------------------------------------------
(***************************************************************************)
(* The worker.                                                             *)
(***************************************************************************)
PayoutKey(t) == <<"PAYOUT", t>>

\* Mutant of PayoutRows: a row that is PROCESSING is not polled.
ApprovedRowsOnly ==
  {"start"} \X {t \in Tx : onchain[t] = "AWAITING_PAYOUT" /\ state[t] = "APPROVED"}

\* The off-ramp part of the SELECT of processRampExecutions, below its LIMIT.
PayoutRows ==
  LET awaiting == {t \in Tx : onchain[t] = "AWAITING_PAYOUT"}
  IN {"start"} \X {t \in awaiting : state[t] = "APPROVED"}
     \cup {"poll"} \X {t \in awaiting : state[t] = "PROCESSING"
                                        /\ provider[t] # "NONE"}

At(w, pc) == worker[w].pc = pc

Goto(w, pc) ==
  worker' = [worker EXCEPT ![w] =
    [pc |-> pc, todo |-> worker[w].todo, tx |-> worker[w].tx,
     seen |-> worker[w].seen]]

\* The worker learns the payout's status and goes on with it.
Learn(w, todo, t, status, pc) ==
  worker' = [worker EXCEPT ![w] =
    [pc |-> pc, todo |-> todo, tx |-> t, seen |-> status]]

\* The row is done, or its error was caught and logged: on to the next one.
NextRow(w, todo) ==
  worker' = [worker EXCEPT ![w] =
    [pc |-> "work", todo |-> todo, tx |-> NoTx, seen |-> "NONE"]]

Final(status) == status \in {"SUCCESS", "FAILED"}
Succeeded(w) == worker[w].seen = "SUCCESS"
Outcome(w) == IF Succeeded(w) THEN "COMPLETED" ELSE "REFUNDED"

StartTick(w) ==
  /\ At(w, "idle")
  /\ NextRow(w, PayoutRows)
  /\ UNCHANGED <<vars, escrow, payout, intent, late, faults>>

EndTick(w) ==
  /\ At(w, "work")
  /\ worker[w].todo = {}
  /\ worker' = [worker EXCEPT ![w] = Idle]
  /\ UNCHANGED <<vars, escrow, payout, intent, late, faults>>

\* Mutant of ClaimPayout: the payout is made before the execution is claimed.
PayUnclaimed(w) ==
  /\ At(w, "work")
  /\ \E t \in Tx :
       /\ <<"start", t>> \in worker[w].todo
       /\ Learn(w, worker[w].todo \ {<<"start", t>>}, t, "NONE", "pay")
  /\ UNCHANGED <<vars, escrow, payout, intent, late, faults>>

\* startOfframp claims the execution first, and joins one that exists.
ClaimPayout(w) ==
  /\ At(w, "work")
  /\ \E t \in Tx :
       /\ <<"start", t>> \in worker[w].todo
       /\ \/ /\ Begun(t, PayoutKey(t))
             /\ Learn(w, worker[w].todo \ {<<"start", t>>}, t, "NONE", "pay")
          \/ /\ Refused(t, PayoutKey(t))
             /\ NextRow(w, worker[w].todo \ {<<"start", t>>})
  /\ UNCHANGED <<escrow, payout, intent, late, faults>>

\* createPayout: a new reference creates a payout, a known one is answered
\* with the payout there is.
CreatePayout(w) ==
  LET t == worker[w].tx
  IN /\ At(w, "pay")
     /\ \E status \in PayoutStates \ {"NONE"} :
          /\ payout[t] \in {"NONE", status}
          /\ payout' = [payout EXCEPT ![t] = status]
          /\ Learn(w, worker[w].todo, t, status, "store")
     /\ UNCHANGED <<vars, escrow, intent, late, faults>>

StoreReference(w) ==
  /\ At(w, "store")
  /\ WritePayout(worker[w].tx, worker[w].seen)
  /\ Goto(w, "processing")
  /\ UNCHANGED <<escrow, payout, intent, late, faults>>

MarkProcessing(w) ==
  /\ At(w, "processing")
  /\ intent' = [intent EXCEPT ![worker[w].tx] = "PROCESSING"]
  /\ IF Final(worker[w].seen) THEN Goto(w, "confirm")
     ELSE NextRow(w, worker[w].todo)
  /\ UNCHANGED <<vars, escrow, payout, late, faults>>

\* Mutant of PollPayout: a payout that is not final counts as failed.
PollHastily(w) ==
  /\ At(w, "work")
  /\ \E t \in Tx :
       /\ <<"poll", t>> \in worker[w].todo
       /\ Learn(w, worker[w].todo \ {<<"poll", t>>}, t, payout[t], "confirm")
  /\ UNCHANGED <<vars, escrow, payout, intent, late, faults>>

PollPayout(w) ==
  /\ At(w, "work")
  /\ \E t \in Tx :
       /\ <<"poll", t>> \in worker[w].todo
       /\ IF Final(payout[t])
          THEN Learn(w, worker[w].todo \ {<<"poll", t>>}, t, payout[t], "confirm")
          ELSE NextRow(w, worker[w].todo \ {<<"poll", t>>})
  /\ UNCHANGED <<vars, escrow, payout, intent, late, faults>>

(***************************************************************************)
(* finishOfframp: confirm_offramp on chain, two writes, finish.            *)
(***************************************************************************)
ConfirmLands(w) ==
  /\ At(w, "confirm")
  /\ escrow[worker[w].tx] = "AWAITING_PAYOUT"
  /\ escrow' = [escrow EXCEPT ![worker[w].tx] = Outcome(w)]
  /\ Goto(w, "mark")
  /\ UNCHANGED <<vars, payout, intent, late, faults>>

ConfirmRejected(w) ==
  /\ At(w, "confirm")
  /\ Goto(w, "fail")
  /\ UNCHANGED <<vars, escrow, payout, intent, late, faults>>

MarkOnchain(w) ==
  /\ At(w, "mark")
  /\ WriteOnchain(worker[w].tx, Outcome(w))
  /\ Goto(w, "close")
  /\ UNCHANGED <<escrow, payout, intent, late, faults>>

CloseIntent(w) ==
  /\ At(w, "close")
  /\ intent' = [intent EXCEPT ![worker[w].tx] = Outcome(w)]
  /\ Goto(w, "finish")
  /\ UNCHANGED <<vars, escrow, payout, late, faults>>

FinishPayout(w) ==
  /\ At(w, "finish")
  /\ Finished(worker[w].tx, PayoutKey(worker[w].tx), Succeeded(w))
  /\ NextRow(w, worker[w].todo)
  /\ UNCHANGED <<escrow, payout, intent, late, faults>>

\* Mutant of FinishFailed: the settlement is reported done after all.
FinishRegardless(w) ==
  /\ At(w, "fail")
  /\ Finished(worker[w].tx, PayoutKey(worker[w].tx), TRUE)
  /\ NextRow(w, worker[w].todo)
  /\ UNCHANGED <<escrow, payout, intent, late, faults>>

\* The catch block: the execution failed, whatever became of the payout.
FinishFailed(w) ==
  /\ At(w, "fail")
  /\ Finished(worker[w].tx, PayoutKey(worker[w].tx), FALSE)
  /\ NextRow(w, worker[w].todo)
  /\ UNCHANGED <<escrow, payout, intent, late, faults>>

WorkerStep(w) ==
  \/ StartTick(w) \/ EndTick(w) \/ ClaimPayout(w) \/ CreatePayout(w)
  \/ StoreReference(w) \/ MarkProcessing(w) \/ PollPayout(w)
  \/ ConfirmLands(w) \/ ConfirmRejected(w) \/ MarkOnchain(w)
  \/ CloseIntent(w) \/ FinishPayout(w) \/ FinishFailed(w)

----------------------------------------------------------------------------
(***************************************************************************)
(* Faults.                                                                 *)
(***************************************************************************)
Fault == faults < MaxFaults /\ faults' = faults + 1

\* createPayout throws.  The request may have reached the provider; either
\* way startOfframp has no catch, and the row stays PROCESSING.
PayoutCallFails(w) ==
  /\ Fault
  /\ At(w, "pay")
  /\ \/ UNCHANGED payout
     \/ /\ payout[worker[w].tx] = "NONE"
        /\ payout' = [payout EXCEPT ![worker[w].tx] = "PENDING"]
  /\ NextRow(w, worker[w].todo)
  /\ UNCHANGED <<vars, escrow, intent, late>>

\* submitRampInvocation throws after the transaction was sent.
GiveUp(w) ==
  /\ Fault
  /\ At(w, "confirm")
  /\ late' = late \cup {<<Outcome(w), worker[w].tx>>}
  /\ Goto(w, "fail")
  /\ UNCHANGED <<vars, escrow, payout, intent>>

AbandonedLands(outcome, t) ==
  /\ <<outcome, t>> \in late
  /\ late' = late \ {<<outcome, t>>}
  /\ escrow' = [escrow EXCEPT ![t] =
       IF escrow[t] = "AWAITING_PAYOUT" THEN outcome ELSE escrow[t]]
  /\ UNCHANGED <<vars, payout, intent, worker, faults>>

\* A write fails: inside finishOfframp the catch block runs, elsewhere the
\* row is dropped until a later tick selects it again, if one does.
WriteFails(w) ==
  /\ Fault
  /\ \/ worker[w].pc \in {"mark", "close", "finish"} /\ Goto(w, "fail")
     \/ /\ worker[w].pc \in {"store", "processing", "fail"}
        /\ NextRow(w, worker[w].todo)
  /\ UNCHANGED <<vars, escrow, payout, intent, late>>

\* The connection breaks after COMMIT, and the catch block runs all the same.
CommitUnacknowledged(w) ==
  /\ Fault
  /\ At(w, "finish")
  /\ Finished(worker[w].tx, PayoutKey(worker[w].tx), Succeeded(w))
  /\ Goto(w, "fail")
  /\ UNCHANGED <<escrow, payout, intent, late>>

\* A deployment or a crash ends the process in the middle of its batch.
Crash(w) ==
  /\ Fault
  /\ ~At(w, "idle")
  /\ worker' = [worker EXCEPT ![w] = Idle]
  /\ late' = IF At(w, "confirm") THEN late \cup {<<Outcome(w), worker[w].tx>>}
             ELSE late
  /\ UNCHANGED <<vars, escrow, payout, intent>>

FaultStep(w) ==
  \/ PayoutCallFails(w) \/ GiveUp(w) \/ WriteFails(w)
  \/ CommitUnacknowledged(w) \/ Crash(w)

SettlementNext ==
  \/ \E t \in Tx :
       \/ CreateOfframpQuote(t) \/ FundEscrow(t) \/ ConfirmOfframpFunding(t)
       \/ OperatorStep(t) \/ PayoutSettles(t)
       \/ \E outcome \in {"COMPLETED", "REFUNDED"} : AbandonedLands(outcome, t)
  \/ \E w \in Workers : WorkerStep(w) \/ FaultStep(w)

SettlementSpec == SettlementInit /\ [][SettlementNext]_allVars

\* The timer keeps starting the worker and each of its calls ends; a payout
\* the provider accepted reaches a final status.
FairSettlement ==
  /\ SettlementSpec
  /\ \A w \in Workers : WF_allVars(WorkerStep(w))
  /\ \A t \in Tx : WF_allVars(PayoutSettles(t))

----------------------------------------------------------------------------
(***************************************************************************)
(* Properties.                                                             *)
(***************************************************************************)
\* Every operation of this module is one of the ledger's, called in a state
\* where the ledger's guards hold, or leaves the ledger alone.
ImplementsLedger == Spec

\* "It must first observe exact USDC escrow in the Soroban flow, then create
\* the fiat payout" (docs/internal/ramp-control.md:54): there is a payout only
\* of a withdrawal whose escrow was funded and that policy or an operator
\* cleared, and none is about to be requested for another.
PayoutAuthorised ==
  \A t \in Tx :
    (payout[t] # "NONE" \/ \E w \in Workers : At(w, "pay") /\ worker[w].tx = t)
      => escrow[t] # "NONE" /\ Cleared(t)

\* The escrow goes to the provider only if the user was paid, and back to the
\* user only if the payout failed; and so do the confirmations that are under
\* way or were given up on (worker.ts finishOfframp, pollOfframp).
EscrowFollowsPayout ==
  \A t \in Tx :
    LET closing(outcome) ==
          \/ escrow[t] = outcome
          \/ <<outcome, t>> \in late
          \/ \E w \in Workers : At(w, "confirm") /\ worker[w].tx = t
                                /\ Outcome(w) = outcome
    IN /\ closing("COMPLETED") => payout[t] = "SUCCESS"
       /\ closing("REFUNDED") => payout[t] = "FAILED"

\* A COMPLETED row means the escrow was released and the provider reference
\* is on record ("Payout completion must preserve the provider reference
\* before moving the canonical transaction to COMPLETED",
\* docs/internal/ramp-control.md:54); what the user is shown is what happened.
ShownSettled ==
  \A t \in Tx :
    /\ state[t] = "COMPLETED" => escrow[t] = "COMPLETED" /\ provider[t] # "NONE"
    /\ intent[t] \in {"COMPLETED", "REFUNDED"} => escrow[t] = intent[t]
    /\ onchain[t] \in {"COMPLETED", "REFUNDED"} => escrow[t] = onchain[t]

\* A funded, cleared withdrawal is settled or reported failed, whichever of
\* the workers take it up, unless a fault comes in between (a deployment
\* between begin and createPayout leaves the row PROCESSING for good) or an
\* operator has asked for a retry (RetryIsExecuted of OnrampSettlement).  One
\* whose rejection confirmOfframpFunding overwrote is not cleared: it is
\* selected and refused on every tick, and its escrow stays where it is.
FundedIsSettled ==
  \A t \in Tx :
    (/\ state[t] = "APPROVED" /\ Cleared(t) /\ onchain[t] = "AWAITING_PAYOUT"
     /\ AttemptsOf(t, "QUEUED") = {})
      ~> state[t] \in {"COMPLETED", "FAILED"} \/ faults > 0
=============================================================================
