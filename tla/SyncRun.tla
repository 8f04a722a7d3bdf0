------------------------------ MODULE SyncRun ------------------------------
(***************************************************************************)
(* Synchronization runs (services/syncService.ts).  The timer, the start   *)
(* of the server, the administrator's POST and the script call syncAll in  *)
(* several processes.  A flag of the process and a session-level advisory  *)
(* lock keep runs apart, and the row in sync_runs tells what became of a   *)
(* run.  What the indexers and the pairing do is left to their modules.    *)
(***************************************************************************)
EXTENDS Integers, FiniteSets

CONSTANTS
  Processes,
  Calls,       \* calls of syncAll, each a pair of its process and a number
  MaxFaults    \* bound on crashes, failed writes and lost connections

ConstantsOK == Calls \subseteq Processes \X Nat /\ MaxFaults \in Nat

ProcessOf(c) == c[1]
Nobody == <<>>

Chains == {"BSC", "SOLANA"}
Final == {"COMPLETED", "PARTIAL", "FAILED"}

VARIABLES
  running,   \* synchronizationRunning of a process
  shown,     \* synchronizationStatus.state of a process
  lock,      \* the call whose connection holds the advisory lock
  pc,        \* where a call is
  good, bad, \* successfulChains and failedChains of a call
  status,    \* sync_runs.status of a call
  achieved,  \* what a call really achieved
  lost,      \* calls whose connection broke, or whose last write failed
  faults     \* faults so far

vars == <<running, shown, lock, pc, good, bad, status, achieved, lost, faults>>

Steps == {"new", "called", "insert", "bsc", "solana", "pair", "finish", "record", "unlock", "over"}
Active == {c \in Calls : pc[c] \notin {"new", "called", "over"}}

TypeOK ==
  /\ running \in [Processes -> BOOLEAN]
  /\ shown \in [Processes -> {"IDLE", "RUNNING"} \cup Final]
  /\ lock \in Calls \cup {Nobody}
  /\ pc \in [Calls -> Steps]
  /\ good \in [Calls -> SUBSET Chains] /\ bad \in [Calls -> SUBSET Chains]
  /\ status \in [Calls -> {"ABSENT", "RUNNING"} \cup Final]
  /\ achieved \in [Calls -> SUBSET (Chains \cup {"PAIRING"})]
  /\ lost \subseteq Calls
  /\ faults \in 0..MaxFaults

Init ==
  /\ running = [p \in Processes |-> FALSE]
  /\ shown = [p \in Processes |-> "IDLE"]
  /\ lock = Nobody
  /\ pc = [c \in Calls |-> "new"]
  /\ good = [c \in Calls |-> {}] /\ bad = [c \in Calls |-> {}]
  /\ status = [c \in Calls |-> "ABSENT"]
  /\ achieved = [c \in Calls |-> {}]
  /\ lost = {}
  /\ faults = 0

ToStep(c, step) == pc' = [pc EXCEPT ![c] = step]
Fault == faults < MaxFaults /\ faults' = faults + 1

----------------------------------------------------------------------------
\* POST /sync answers 409, and syncAll returns, while the flag is set.
CallSync(c) ==
  /\ pc[c] = "new"
  /\ ToStep(c, IF running[ProcessOf(c)] THEN "over" ELSE "called")
  /\ UNCHANGED <<running, shown, lock, good, bad, status, achieved, lost, faults>>

\* Mutant of TryLock: only the flag keeps runs apart.
TryNoLock(c) ==
  /\ pc[c] = "called"
  /\ ToStep(c, "insert") /\ lock' = c
  /\ UNCHANGED <<running, shown, good, bad, status, achieved, lost, faults>>

\* pg_try_advisory_lock; a caller that is refused throws.
TryLock(c) ==
  /\ pc[c] = "called"
  /\ IF lock = Nobody
     THEN ToStep(c, "insert") /\ lock' = c
     ELSE ToStep(c, "over") /\ UNCHANGED lock
  /\ UNCHANGED <<running, shown, good, bad, status, achieved, lost, faults>>

InsertRun(c) ==
  /\ pc[c] = "insert"
  /\ status' = [status EXCEPT ![c] = "RUNNING"]
  /\ running' = [running EXCEPT ![ProcessOf(c)] = TRUE]
  /\ shown' = [shown EXCEPT ![ProcessOf(c)] = "RUNNING"]
  /\ ToStep(c, "bsc")
  /\ UNCHANGED <<lock, good, bad, achieved, lost, faults>>

\* One chain is over, well or not.
ChainEnds(c, chain, ok) ==
  /\ good' = [good EXCEPT ![c] = IF ok THEN @ \cup {chain} ELSE @]
  /\ bad' = [bad EXCEPT ![c] = IF ok THEN @ ELSE @ \cup {chain}]
  /\ achieved' = [achieved EXCEPT ![c] = IF ok THEN @ \cup {chain} ELSE @]

\* syncBsc throws, or reports failed pairs, or succeeds.
SyncBsc(c) ==
  /\ pc[c] = "bsc"
  /\ \E ok \in BOOLEAN : ChainEnds(c, "BSC", ok)
  /\ ToStep(c, "solana")
  /\ UNCHANGED <<running, shown, lock, status, lost, faults>>

\* The wallets one by one; one that fails fails the chain.
SyncSolana(c) ==
  /\ pc[c] = "solana"
  /\ \E ok \in BOOLEAN : ChainEnds(c, "SOLANA", ok)
  /\ ToStep(c, "pair")
  /\ UNCHANGED <<running, shown, lock, status, lost, faults>>

\* Mutant of PairLegs: a failed pairing is only logged.
PairQuietly(c) ==
  /\ pc[c] = "pair"
  /\ ToStep(c, "finish")
  /\ \E ok \in BOOLEAN :
       achieved' = [achieved EXCEPT ![c] = IF ok THEN @ \cup {"PAIRING"} ELSE @]
  /\ UNCHANGED <<running, shown, lock, good, bad, status, lost, faults>>

\* pairComplementaryTransferLegs; its failure fails both chains.
PairLegs(c) ==
  /\ pc[c] = "pair"
  /\ ToStep(c, "finish")
  /\ \/ achieved' = [achieved EXCEPT ![c] = @ \cup {"PAIRING"}] /\ UNCHANGED <<good, bad>>
     \/ /\ good' = [good EXCEPT ![c] = {}]
        /\ bad' = [bad EXCEPT ![c] = Chains]
        /\ UNCHANGED achieved
  /\ UNCHANGED <<running, shown, lock, status, lost, faults>>

\* The INSERT, or the SELECT of the Solana wallets, fails: a chain that is in
\* neither list has failed.
BreakOff(c) ==
  /\ pc[c] \in {"insert", "solana"}
  /\ bad' = [bad EXCEPT ![c] = Chains \ good[c]]
  /\ ToStep(c, "finish")
  /\ UNCHANGED <<running, shown, lock, good, status, achieved, lost, faults>>

Outcome(c) ==
  IF bad[c] = {} THEN "COMPLETED" ELSE IF good[c] = {} THEN "FAILED" ELSE "PARTIAL"

\* The flag is lowered before the row is written and the lock released.
Finish(c) ==
  /\ pc[c] = "finish"
  /\ running' = [running EXCEPT ![ProcessOf(c)] = FALSE]
  /\ shown' = [shown EXCEPT ![ProcessOf(c)] = Outcome(c)]
  /\ ToStep(c, "record")
  /\ UNCHANGED <<lock, good, bad, status, achieved, lost, faults>>

\* UPDATE sync_runs, without effect when the INSERT failed.
RecordOutcome(c) ==
  /\ pc[c] = "record"
  /\ status' = [status EXCEPT ![c] = IF @ = "ABSENT" THEN @ ELSE Outcome(c)]
  /\ ToStep(c, "unlock")
  /\ UNCHANGED <<running, shown, lock, good, bad, achieved, lost, faults>>

\* pg_advisory_unlock releases what this connection holds.
Unlock(c) ==
  /\ pc[c] = "unlock"
  /\ lock' = IF lock = c THEN Nobody ELSE lock
  /\ ToStep(c, "over")
  /\ good' = [good EXCEPT ![c] = {}] /\ bad' = [bad EXCEPT ![c] = {}]
  /\ UNCHANGED <<running, shown, status, achieved, lost, faults>>

----------------------------------------------------------------------------
\* The UPDATE fails, as it does once shutdown has ended the pool.
RecordFails(c) ==
  /\ Fault
  /\ pc[c] = "record"
  /\ lost' = lost \cup {c}
  /\ ToStep(c, "unlock")
  /\ UNCHANGED <<running, shown, lock, good, bad, status, achieved>>

\* The connection that holds the lock breaks; the run does not notice.
LoseLock(c) ==
  /\ Fault
  /\ lock = c
  /\ lock' = Nobody
  /\ lost' = lost \cup {c}
  /\ UNCHANGED <<running, shown, pc, good, bad, status, achieved>>

\* A process ends: its calls with it, and its connections.
Crash(p) ==
  LET calls == {c \in Calls : ProcessOf(c) = p /\ pc[c] # "new"}
  IN /\ Fault
     /\ running' = [running EXCEPT ![p] = FALSE]
     /\ shown' = [shown EXCEPT ![p] = "IDLE"]
     /\ lock' = IF lock \in calls THEN Nobody ELSE lock
     /\ pc' = [c \in Calls |-> IF c \in calls THEN "over" ELSE pc[c]]
     /\ good' = [c \in Calls |-> IF c \in calls THEN {} ELSE good[c]]
     /\ bad' = [c \in Calls |-> IF c \in calls THEN {} ELSE bad[c]]
     /\ lost' = lost \cup calls
     /\ UNCHANGED <<status, achieved>>

Next ==
  \/ \E c \in Calls :
       \/ CallSync(c) \/ TryLock(c) \/ InsertRun(c) \/ SyncBsc(c) \/ SyncSolana(c)
       \/ PairLegs(c) \/ BreakOff(c) \/ Finish(c) \/ RecordOutcome(c) \/ Unlock(c)
       \/ RecordFails(c) \/ LoseLock(c)
  \/ \E p \in Processes : Crash(p)

Spec == Init /\ [][Next]_vars

----------------------------------------------------------------------------
\* "Synchronization now acquires a session-level PostgreSQL advisory lock"
\* (docs/internal/technical-audit.md:20): as long as no connection breaks, one
\* run at a time is active in all processes, and the flag of a process is up
\* only for its own run.
RunsExclusive ==
  /\ \A c, d \in Active : c = d \/ c \in lost \/ d \in lost
  /\ \A p \in Processes :
       running[p] => \E c \in Active : ProcessOf(c) = p

\* What a run recorded is what it achieved: COMPLETED means both chains and the
\* pairing, PARTIAL exactly one chain, and FAILED that no chain succeeded or that
\* the pairing failed.  A run whose row still says RUNNING is
\* active, or its process or its last write failed: no one ends such a row.
RunTellsOutcome ==
  \A c \in Calls :
    CASE status[c] = "COMPLETED" -> achieved[c] = Chains \cup {"PAIRING"}
      [] status[c] = "PARTIAL" ->
           Cardinality(achieved[c] \cap Chains) = 1
      [] status[c] = "FAILED" ->
           achieved[c] \cap Chains = {} \/ "PAIRING" \notin achieved[c]
      [] status[c] = "RUNNING" -> c \in Active \cup lost
      [] OTHER -> TRUE
=============================================================================
