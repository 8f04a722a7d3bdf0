# Oynk platform: TLA+ specifications

Specifications, model-checking configurations and proofs for the API of the
Oynk platform (`src/apps/api`): the canonical ledger of fiat/USDC ramps, the
policy and the operators that clear a transaction, the worker that settles it
on Stellar and at the payment provider, the funding of deposits, the indexing
of transfers on BSC, and the smaller services beside them (Solana indexing,
synchronization runs, pairing, prices, newsletter, one-time codes, phone links,
referrals, signing keys, rebalancing orders).

1. [The system](#1-the-system)
2. [Modules](#2-modules)
3. [How the modules correspond to the code](#3-how-the-modules-correspond-to-the-code)
4. [Model checking](#4-model-checking)
5. [Fairness](#5-fairness)
6. [Proofs](#6-proofs)
7. [Where the code and its documents disagree](#7-where-the-code-and-its-documents-disagree)
8. [What is not modelled](#8-what-is-not-modelled)
9. [Plan](#9-plan)

Run a check with `tlc -config MCRampLedger.cfg MCRampLedger.tla` and the
proofs of a module with `tlapm RampLedgerProofs.tla`. `PROJECT.json` lists the
runs, the theorems, a mutant for every property and, for every definition, the
lines of the code it stands for.

## 1. The system

Every API process runs an Express server and four timers (`index.ts:80-97`):
synchronization of the chains (not with `CONSUMER_ONLY`), newsletter delivery,
the deposit sweep, and the settlement worker. The processes share PostgreSQL
and nothing else; flags such as `running` in `ramp/worker.ts` are per process.

| Component | State | Operations | Talks to |
|---|---|---|---|
| **Ramp ledger** `ramp/service.ts`, `state.ts`, migrations 012, 013 | `ramp_transactions`, `ramp_approval_actions`, `ramp_execution_attempts`, `ramp_transaction_events` | create, record provider confirmation, decide, retry, begin, finish | called by deposits, withdrawals, operators (console), worker |
| **Ramp policy** `ramp/policy.ts`, `service.ts` | `ramp_policy_configs`, `ramp_policy_versions` | evaluate, update | read FOR SHARE by ledger creation |
| **On-ramp worker** `ramp/worker.ts`, `soroban.ts` | rows selected, `running` | select, recover an interrupted row, claim, confirm on chain, record | ledger, Soroban orchestrator, deposit intents |
| **Off-ramp worker** `ramp/worker.ts` | as above | claim, create payout, poll, confirm, close | ledger, orchestrator, provider, withdrawal intents |
| **Withdrawals** `consumer/offramp.ts` | `consumer_offramp_intents` | quote, confirm funding | ledger, chain |
| **Deposit funding** `consumer/service.ts` | `consumer_deposit_intents`, `consumer_fiat_receipts`, account row as lock | save profile, quote, start, recover, reconcile, sweep | provider (POST, GET, verify, webhook), ledger, chain |
| **Rebalance orders** `ramp/protocol.ts`, `routes.ts` | `vault_rebalance_orders` | create by idempotency key | Soroban |
| **Phone verification, referrals** `consumer/phoneAuth.ts`, `referrals.ts` | challenges, links, codes, attributions; `consumer_accounts`, with saveProfile | start, verify, link; show a code, bind | SMS |
| **Signing keys** `consumer/socketfiKeys.ts` | cached key, request in flight | verify, refresh | SocketFi |
| **Console authentication** `auth/` | users, one-time codes, sessions | register, issue, verify, login | e-mail |
| **Newsletter** `newsletter/service.ts` | subscribers with lease and attempts | subscribe, deliver | e-mail |
| **Synchronization, indexers, pairing** `services/`, `indexers/` | sync runs, cursors, transfers, failures, pairs | run, index a range, rewind, pair | BSC and Solana RPC |
| **Dashboard, activity, web apps** | none of their own | read-only | |

`PROJECT.json` lists all of them, what is modelled of each, and the hazards of
each with the line where it bites.

### What is hard, and what has to be right

*Ramp ledger.* Payments, operators, the worker and the withdrawal handler write
the same row. A payment may be recorded before or after the decision; a retry
may be queued while another execution is over; rows from before the ledger
were backfilled with columns NULL. Correct means: only what policy or an
operator cleared is executed (`ExecutionCleared`), one execution at a time
(`OneLiveAttempt`), completed at most once and marked so (`CompletedOnce`), a
decision never changes (`DecisionFinal`), and an on-ramp's event log ends in
the row's state (`OnrampLogComplete`).

*Ramp policy.* Evaluation and insertion are separate statements, and operators
replace the policy meanwhile. Correct means: a row follows the policy in force
when it is created (`DecidedByPolicyInForce`), stays explicable after edits
(`DecisionExplained`), and a large one waits for an operator
(`LargeNeedsOperator`).

*Settlement.* Between the chain, the provider and three tables nothing is
atomic; two processes select the same rows; a process may stop anywhere, a
write may fail, a COMMIT may go unacknowledged, and a submission that timed
out may still land. Correct means: money moves only when authorised
(`ReleaseAuthorised`, `PayoutAuthorised`), the escrow follows the payout
(`EscrowFollowsPayout`), what is shown is what happened (`ShownReleased`,
`ShownSettled`), and without faults things come to an end (`PaidIsSettled`,
`FundedIsSettled`).

*Deposit funding.* The POST to the provider, the webhook, the sweep and a
refresh race; each answer may be lost, late or repeated. Correct means: the
rolling limit holds in whatever order payments are recorded
(`RollingLimitKept`), two deposits never spend one allowance
(`ReservationsFit`), a receipt decides its deposit for good
(`ReceiptDecidesIntent`), and a payment is recorded without a webhook
(`PaymentIsRecorded`).

*BSC indexer.* The chain is reorganized between any two calls, the provider
refuses ranges, and the targeted script scans beside a synchronization run,
whose lock it does not take. Correct means: no transfer is lost behind the
cursor (`CursorCovers`), none is kept that the chain dropped
(`StoredIsCanonical`), and scans reach the tip (`EveryTransferStored`).

*Solana indexer.* A scan collects signatures newest first and handles them
oldest first; scans of one mint and of all share the rows and the failures, but
not the cursor. Correct means: what a cursor has passed is stored or filed as a
failure (`NoSilentLoss`), and a row says what the transaction did
(`MovementExact`).

*Synchronization and pairing.* Four callers in several processes start runs; a
connection that breaks takes the lock with it. Pairing reads rows that scans
insert and rewrite and the script deletes meanwhile, and two processes may pair
at a time once a lock was lost; an outflow that somebody else has locked is
skipped (`pairingService.ts:53`). Correct means: runs exclude one another and
their rows tell what they achieved (`RunsSound`), and legs are paired mutually,
each inflow with the closest outflow that nobody else held (`PairsSound`).

*Newsletter.* A lease may run out while its message is under way, and an answer
of the mail server may be lost. Correct means: every message and every attempt
beyond the promised ones has a reason (`WelcomeAccounted`).

*Console codes, phones, invitations.* All are check-then-write, some in a
transaction that locks, some as single statements that rely on unique indexes.
An account row has two writers: linking a verified phone overwrites its wallet,
and saving a profile inserts the row of any identity that is signed in, with or
without a phone (`consumer/service.ts:47`). Correct means: one live code of a
purpose and one effect of a code (`CodesSound`), links that rest on a verified
phone and accounts that follow them or are as a saved profile left them
(`PhonesSound`), codes and bindings that never change once they were confirmed,
and an own invite link refused as far as wallets tell it (`InvitationsStick`).

*Signing keys.* Verifications share a cache at every await. Correct means: one
fetch at a time, no step back to an older key, none that had expired when the
verification began, and no rejection of a good token but for the reasons the
code accepts (`KeyServed`).

*Rebalancing orders.* A submission may be included after its request gave up.
Correct means: a key opens one order at most, and its row is right unless its
request was in doubt (`OneOrderPerKey`).

*Prices.* The fee falls back at a threshold, so the amount is found by two
bisections. Correct means: it is the least that leaves the principal
(`SmallestGross`).

## 2. Modules

```
RampPromise                what the ledger promises, without tables
   ^  refinement
RampLedger                 rows, decisions, attempts, events
   |  extends                    \  extends
   +-- RampPolicy                 +-- OnrampSettlement    worker, chain, intents
   |                              +-- OfframpSettlement   worker, escrow, payout
   |       (all three implement RampLedger)

DepositFunding             the fiat leg of deposits, one account
BscIndexer                 the transfers of one wallet and token

Services                   eleven components without shared state
   +-- SolanaIndexer, TokenMovement, SyncRun, Pairing
   +-- TransferQuote, Newsletter, Otp, PhoneLink, Referrals
   +-- SigningKeyCache, RebalanceOrder
```

| Module | About | Theorems |
|---|---|---|
| `RampPromise` | Abstract: cleared or refused once, only cleared is claimed, one claim at a time, done is never claimed again. | |
| `RampLedger` | Concrete ledger: nine columns and tables as functions of the transaction or idempotency key. | `RampLedgerProofs` |
| `RampPolicy` | The ledger created under versioned policies, with a clock. | `RampPolicyProofs` |
| `OnrampSettlement` | Deposits of one direction with workers, orchestrator requests, late submissions and faults. | `OnrampSettlementProofs` |
| `OfframpSettlement` | Withdrawals likewise, with escrow and payout. | `OfframpSettlementProofs` |
| `DepositFunding` | Deposits of one account with the provider. | `DepositFundingProofs` |
| `BscIndexer` | Scans of a chain that grows and is reorganized; instantiated by its cfg alone. | `BscIndexerProofs` |
| `Services` | Instantiates the eleven modules below; a behaviour is one of a component chosen initially. States the properties of each. | `ServicesProofs` |
| `SolanaIndexer` | Scans of one wallet, page by page, with failures and the targeted script. | |
| `TokenMovement` | What a row says of one mint in one transaction: decimals, amount, value, counterparty. | |
| `SyncRun` | Runs in several processes with their flag, lock and row. | |
| `Pairing` | Pairing transactions of several processes, beside scans that rewrite rows and a script that deletes them. | |
| `TransferQuote` | The price of a deposit. | |
| `Newsletter` | Subscriptions, leases, SMTP attempts and what is recorded of them. | |
| `Otp` | Codes and sessions of one console user. | |
| `PhoneLink` | Challenges, links, and account rows with both their writers. | |
| `Referrals` | Codes and bindings, while accounts change their wallets. | |
| `SigningKeyCache` | Verifications around one cached key that is rotated and expires. | |
| `RebalanceOrder` | Orders by idempotency key, submission and time-out. | |
| `FiniteSums` | Lemmas about sums over finite sets and least elements, used for the totals of deposits and for balances. | itself |
| `MC*` | Instances for TLC. | |

`OnrampSettlement` and `DepositFunding` describe the same intents at two levels.
The first keeps what the ledger and the worker can tell apart (`OPEN` is
creating, pending or failed) and any payment may be a mismatch; the second
keeps allowance, time and the provider's answers, and of the worker only that it
reports a confirmed deposit received (`SettleDeposit`).

`Services` chooses one component initially and then behaves like it, while the
variables of the others stay 0; its constants are those of the eleven modules,
and its one assumption that each module's `ConstantsOK` holds. `MCServices` gives
them values. The components share no variable, so one run and one module of
proofs are about eleven separate systems. `TokenMovement` and `TransferQuote`
are pure algorithms: the input is chosen initially, and the
result is compared with a reference definition.

## 3. How the modules correspond to the code

`PROJECT.json` maps every definition to its lines. The main correspondences:

| Specification | Code |
|---|---|
| `state`, `approval`, `risk`, `provider`, `onchain`, `completedAt` | columns of `ramp_transactions`; `"ABSENT"` is no row, `provider = "NONE"` is `provider_reference IS NULL` |
| `decision` | the row of `ramp_approval_actions`, UNIQUE per transaction |
| `attempt[key]` | `ramp_execution_attempts` by idempotency key; `<<"CONFIRM_ONRAMP", t>>` is the worker's `onramp-confirm:<id>`, `<<"SETTLE", k>>` an operator's key |
| `logged` | `to_state` of the last event row |
| `CreateRampTransaction` … `FinishRampExecution` | the functions of `ramp/service.ts` of those names, one action each, because each holds the row FOR UPDATE to its COMMIT |
| `Begun`, `Refused`, `Finished` | what a caller of begin and finish gets: a new claim, somebody's existing attempt, an exception, an attempt already over |
| `WriteOnchain`, `WriteFunding`, `WritePayout` | unconditional UPDATEs of other components |
| `Selected`, `Expected`, `AdoptRequest`, `MarkSettled`, `StorePayout`, `StartDepositRow`, `ConfirmOfframpFundingRow` | the ledger's *assumptions* on its callers. The settlement modules model the callers without these guards; `ImplementsLedger` shows the guards hold |
| `EvaluatePolicy` / `CommitCreation` | the two halves of `createRampTransaction`: evaluation under FOR SHARE, and COMMIT |
| `worker[w]` | one process: where `processRampExecutions` is, the rows its SELECT returned and it has not yet reached, the row it is at |
| `late` | invocations sent, given up on after 120 s of polling, still able to land |
| `chain`, `escrow`, `payout`, `charge` | orchestrator request, escrow, payout and charge; external, modelled from their use |
| `post`, `lookups`, `failures` | answers of the provider between arriving and being written |
| `scan[s]` | the locals of `syncBscWalletToken` in one process: safe tip, block, chunk, successes, and the logs read and not yet upserted; `syncBsc` keeps them per pair between its rounds |
| `cursor`, `stored` | the pair's `sync_state` row; the `block_number` of a log's `transfers` row, whose identity (`bscIndexer.ts:312`) has the direction but not the block |
| `Reorganize`, `reach` | the chain; `reach` chooses whether it keeps the promise of `BSC_CONFIRMATION_DEPTH` or needs the rewind too |
| `RateLimited` | a final "limit exceeded", which both classifiers of errors match (`bscIndexer.ts:84-126`) |

| `cursor[f]`, `left`, `failure` (Solana) | `sync_state` of a scan's filter, the collected signatures not yet handled, the row of `indexer_failures` of a signature |
| `Accounted` | a row, an open failure, or a failure resolved through another mint of the transaction |
| `lock`, `running`, `status`, `achieved` | the advisory lock, the process's flag, `sync_runs.status`, and what really succeeded |
| `pair`, `match`, `gone` | `pair_id`, the pairs of transactions not yet committed, and legs that the script deleted |
| `todo`, `Oldest`, `Closest` | the inflows the matching loop has yet to come to, the one the first query sorts first, and the available outflow the second query sorts first; both orders end in the id, so neither leaves a tie |
| `lock`, `Seize`, `LetGo`, `LockInflow`, `Available` (pairing) | the row locks: of an upsert or a deletion under way, and of a pairing transaction; `FOR UPDATE` waits for the inflows in their order and checks each again, `SKIP LOCKED` passes over outflows that are held, which `passed` remembers |
| `account`, `profiled`, `FollowsLink` | the wallet of a subject's `consumer_accounts` row, which `linkVerifiedPhone` writes and `saveProfile` inserts; rows no link has written since |
| `linked`, `carried`, `Locked` (invitations) | the links, every wallet an account has carried, and the owner's account row, which `bindReferral` locks together with the code (`FOR UPDATE` of a join) |
| `answer`, `lapsed` (keys) | what the provider answered a fetch that has not arrived yet, and the cached key a verification found expired |
| `lease`, `due`, `dayOld`, `mails`, `unrecorded` | columns of `newsletter_subscribers` and, outside the database, the messages that went out and those nobody could record |
| `before[c]` (codes, phones) | the challenges the request that issued `c` found when it invalidated the older ones; it tells overlapping requests from consecutive ones |
| `flights`, `fetched`, `newest` | fetches in flight and started, and the newest version a verification has seen |
| `flying`, `doubtful` | submitted transactions neither included nor refused, and requests that timed out, failed to write or stopped |
| `Gross` against `SmallestGross` | `transferQuote` with its two bisections, and the least amount by definition |

A call the code refuses, or answers from what is recorded, changes nothing and
is a stuttering step. Data is reduced to what a decision looks at: amounts are
small naturals, references and keys are model values, times are ticks.

Two constraints of the database are guards, because the code depends on them:
`approval_state` admits no `"CREATED"` (so approving an unpaid transaction
rolls back: `DecidedState(t, action) \in ApprovalStates`), and
`UNIQUE(transaction_id)` on decisions.

## 4. Model checking

| Run | Instance | Properties | States |
|---|---|---|---|
| `ramp_ledger` | one on-ramp, one backfilled on-ramp, one off-ramp, one operator key | `TypeOK`, `ExecutionCleared`, `OneLiveAttempt`, `CompletedOnce`, `OnrampLogComplete`, `DecisionFinal`, `KeepsPromise` | 290 472 |
| `ramp_policy` | two on-ramps of one subject, amounts 1 and 2, three policy versions, clock 0..1, one key | `DecisionExplained`, `LargeNeedsOperator`, `DecidedByPolicyInForce` | 270 546 |
| `onramp_race` | a deposit and a backfilled one, two workers, one key, one fault | `ReleaseAuthorised`, `ShownReleased`, `ImplementsLedger` | 881 652 |
| `onramp_live` | a deposit and a backfilled one, one worker, no faults, fairness | `FailureIsReal`, `PaidIsSettled` | 7 235 |
| `offramp_settlement` | one withdrawal, two workers, one key, two faults, fairness | `PayoutAuthorised`, `EscrowFollowsPayout`, `ShownSettled`, `FundedIsSettled`, `ImplementsLedger` | 41 997 |
| `deposit_funding` | two deposits of one account, principals 1 and 2, limit 2, fairness | `TypeOK`, `RollingLimitKept`, `ReservationsFit`, `ReceiptDecidesIntent`, `PaymentIsRecorded` | 772 244 |
| `bsc_indexing` | one transfer of the wallet to itself (two rows), a timed and a manual scan, four blocks, depth 1, rewind 1, chunks 2 to 3 with a provider that takes 2, two mishaps, fairness | `CursorCovers`, `StoredIsCanonical`, `EveryTransferStored` | 685 733 |
| `services` | the eleven service modules, with the instances named in `MCServices` | `TypeOK`, `NoSilentLoss`, `RunsSound`, `PairsSound`, `MovementExact`, `SmallestGross`, `WelcomeAccounted`, `CodesSound`, `PhonesSound`, `InvitationsStick`, `KeyServed`, `OneOrderPerKey` | 1 978 960 |

The type invariants of `RampPolicy` and of the settlement modules are proved
(section 6) rather than listed with their runs.

Four further runs reproduce disagreements between code and documents
([section 7](#7-where-the-code-and-its-documents-disagree)) and end in a
counterexample: `rejection_terminal`, `cumulative_enforced`,
`retry_executed`, `unknown_outcome`.

Each property of a passing run has a mutant in `PROJECT.json`: a plausible bug
in one definition (a dropped guard, a missing event, a payment before the
claim) under which the same run finds the property violated.

**Bounds and why they are enough.**

* *Transactions.* No ledger operation reads the rows of another transaction, so
  one of each kind shows every behaviour of a row; they meet only through
  idempotency keys, for which the run has three transactions and a shared
  operator key. `RampPolicy` needs two, since the cumulative rule adds one
  transaction's volume to another's. The theorems remove this bound.
* *Workers.* Two are the least at which a batch is stale; a third can only
  repeat what the second does to the first. On-ramp and off-ramp rows are never
  handled by the same branch of the worker, so they are checked apart.
* *Faults.* `MaxFaults` bounds crashes, failed writes, unacknowledged COMMITs
  and abandoned submissions together. One fault with two workers and two
  deposits already gives an abandoned confirmation that lands after the other
  worker's; two are affordable, and checked, with one withdrawal.
* *Keys.* One operator key: a second retry with the same key is the interesting
  case, and there is no limit on failures by the worker's own keys.
* *Policy.* Three versions allow tightening and disabling in either order
  between two creations. Amount 1 is at the seeded threshold and 2 above it;
  the cumulative threshold lets either amount pass alone.
* *Time.* In `DepositFunding` one tick is the five minutes of a quote's life,
  of the grace period and of the quote rate limit, the three of which coincide in
  the code. `Window = 2` and `MaxTime = 3` let a payment leave the rolling
  window, and `Expiry = 1` with a grace tick let a deposit expire.
* *Amounts.* With `Limit = 2`, amounts 1 and 2 give deposits that fit together,
  one that fills the limit, and a pair that exceeds it.
* *Blocks.* Four blocks with depth 1 leave three to index: two ranges, the
  second short, with the chunk refused, halved and grown again in between, and
  a rewind that re-reads a block already stored. A log sits in any of them,
  moves, or is dropped. Logs do not interact, and two rows of one log show a
  batch half written.
* *Mishaps.* `MaxMishaps` bounds reorganizations, failures, rate limits and
  resets together: two let a reorganization meet a scan that broke off, or a
  reset meet a scan in progress.

* *Solana.* Two signatures, of which either may move one mint, the other or
  both, a synchronization scan and a script for one mint, pages of one
  signature: a scan may break off between any two steps of two signatures while
  another one runs. The pages hold the history; that the loop ends silently
  after `MAX_PAGES` is noted below.
* *Runs.* Two processes and three calls: two calls of one process meet at the
  flag, calls of two at the lock, and one fault (a crash, a failed write, a lost
  connection) leaves a call that can still meet the loss.
* *Pairing.* Two legs of each direction, in three combinations of asset, value,
  age and status: both inflows prefer the same outflow, an outflow of the asset
  is before one of the value, a leg of each direction failed. Two processes pair,
  and one row at a time is held by a scan or by the script, which may delete a leg
  of each direction; so an outflow is skipped because of either, and an inflow is
  waited for, changed and dropped.
* *Prices.* Amounts on both sides of the flat fee, of the cap and of every
  rounding between, including the stretch that two gross amounts leave.
* *Newsletter, codes, phones, invitations, keys, orders.* Two requests of every
  kind are the least that interleave, and a third is there where an earlier one
  must have completed (issues of a code, orders). Attempts are bounded at one or
  two instead of five, which shortens the way to the limit and keeps it. Phones
  have a subject with two wallets and a wallet of two subjects; invitations have
  two subjects with a wallet each and one wallet that both have, so that an
  account changes its wallet before and after its code was bound. The requests of
  these two modules are a symmetry set (`Symmetry`), which is sound as the run has
  invariants only; the pairs of one kind are exchanged in both at once, because a
  state has the requests of one component.
* *Signing keys.* Two tokens, one of which names its key, two versions and three
  fetches: a fetch may be answered before the rotation and arrive after it, fail,
  or be repeated, with a key cached or expired at any step in between.

`CHECK_DEADLOCK FALSE` everywhere: the instances may stop, with every
transaction final and the bounds on time, faults and versions reached.

## 5. Fairness

* `WF(WorkerStep(w))` in both settlement modules. `setInterval` calls
  `processRampExecutions` again and again (`index.ts:80-97`). That every await in
  it ends is an assumption: the calls to the provider carry a timeout and
  `submitRampInvocation` stops polling after 120 s, but the `rpc.Server` it asks
  (`soroban.ts:23`) is given no timeout. A request of it that never ended would
  keep `running` set, and no later tick of that process would do anything.
  There is no fairness on *which* result a call has: a confirmation may be
  refused each time, and `PaidIsSettled` then ends in `FAILED`.
* The SELECTs of the worker take 10 and 20 rows, oldest first
  (`worker.ts:62`, `64`); the instances have fewer, and the models leave the LIMIT
  out. `PaidIsSettled` and `FundedIsSettled` therefore say nothing of a row behind
  20 older ones that stay selected, such as recoveries that keep failing or
  withdrawals that were rejected and then funded.
* `WF(PayoutSettles(t))`: a payout the provider accepted reaches a final
  status. Without it the code's polling cannot end, and does not claim to.
* `WF(SweepReconciles(r))` in `DepositFunding`: the sweep takes, every 30
  seconds, the 30 creating or pending deposits checked longest ago, so each of
  them is verified again and again. There is none for deposits that expired,
  because the sweep does not select them.
* `WF(ScanStep(s))` in `BscIndexer` for the timed scan: a run starts every
  `SYNC_INTERVAL_MINUTES`, also after one that failed. Nobody has to start the
  script, and it may stop half way.
* No fairness on consumers, operators, faults or the webhook, and none in the
  service modules: their properties are about safety, and that a newsletter row
  which is due is taken, or that a run ends, is not checked.

`FundedIsSettled` speaks of behaviours without faults: after a crash between
`beginRampExecution` and `createPayout` the row stays `PROCESSING` and no
SELECT of the worker returns it.

## 6. Proofs

Eight modules hold theorems, for any sets of transactions, requests, workers,
scanners, keys and amounts and any bounds. The assumptions are those the modules
state: the two directions are disjoint, a backfilled row is an on-ramp, `NoTx` is
no transaction; for the policy, one direction and no backfilled rows, positive
amounts, well-formed rules; for the settlements, one direction; for the indexer,
positive chunk sizes and a provider that accepts the smallest; for sums and
counts, finite sets of deposits, workers, token accounts and owners; for prices,
a percentage of at most the whole. The modules `Services`
instantiates state theirs as `ConstantsOK`, which `Services` assumes and TLC
evaluates for the instance.

**The ledger.** `TypeOK` is inductive. The other invariants are not: nothing in
`ExecutionCleared` or `OneLiveAttempt` keeps an operator, or a first payment,
from moving a row that already has an attempt. `IInv` adds where such a row
can be:

* `Owned`: every attempt belongs to a cleared row that is *funded* (an on-ramp
  has its payment on record, an off-ramp left `NOT_CREATED`) and whose state
  is one of APPROVED, PROCESSING, COMPLETED, FAILED. So a payment, which needs
  `provider = "NONE"`, and a decision, which needs PENDING_APPROVAL, are
  both disabled.
* `Claimed`: a row in PROCESSING, COMPLETED or FAILED is cleared and funded.
* `Decided`: the decision on record and `approval_state` agree.
* `Live`, `Done`: which attempts a PROCESSING or a COMPLETED row has.
* `OnrampLogComplete`.

There is one lemma for each operation (`CreateIInv`, `ConfirmIInv`,
`DecideIInv`, `RetryIInv`, `BeginIInv`, `FinishIInv`, `FundingIInv`,
`UpdateIInv`), and `QuietStep` and `ColumnWrite` for what several of them
leave alone. The theorems:

| Theorem | Statement |
|---|---|
| `TypeCorrect` | `Spec => []TypeOK` |
| `Inductive` | `Spec => []IInv` |
| `SpecExecutionCleared`, `SpecOneLiveAttempt`, `SpecCompletedOnce`, `SpecOnrampLogComplete` | `Spec => []` of the property named |
| `SpecDecisionFinal` | `Spec => DecisionFinal`, an action property, from `IInv` |
| `LedgerKeepsPromise` | `Spec => KeepsPromise`: initial states map to initial states and every step to a step of `RampPromise` or a stutter |

**The policy.** `PolicyStepIsLedgerStep` shows each step under a policy to be a
ledger step or a stutter, hence `PolicyImplementsLedger` (`PolicySpec => Spec`)
and with it everything above. `SpecDecidedByPolicyInForce` rests on the lock: a
transaction between its evaluation and its COMMIT holds the policy FOR SHARE, so
the version it carries is current (`OpenCurrent`) and stays so. `PolicyInv` records that the history holds the
rule in force, that every evaluated transaction, committed or still open, is
explained by the version it names, and that a row whose approval is
`NOT_REQUIRED` was `AUTO_APPROVED`. From it and the ledger's `IInv`
follow `SpecDecisionExplained` and `SpecLargeNeedsOperator`.

**The settlements.** The difficulty is the stale batch: a worker acts on a row
it selected long ago. `SInv` of `OnrampSettlementProofs` and of
`OfframpSettlementProofs` joins the ledger's invariant, the type invariant, what
a worker knows of each row it has selected or is at (`SelectedOK`, `RowOK`), and
how row, intent, request or escrow, payout and calls that may still land fit
(`IntentFits`, `ReleaseOK`, `PayoutFits`, `ShownOK`). What a worker knows is
chosen so that it *stays* true whatever the others do: a confirmed payment, a
clearance, a request and an attempt that exist, a final payout. So every
ledger operation finds the guard the ledger assumes of its callers, which gives
`SettlementImplementsLedger`, and with it the ledger's theorems for the composed
system. `ReleasesAuthorised`, `ReleasesShown`, `PayoutsAuthorised`,
`EscrowsFollowPayouts` and `SettlementsShown` follow from the same invariant,
late submissions included.

`FailuresAreReal` has two hypotheses, no faults and one worker, because with
either dropped it is false: a confirmation that was given up on may land later.
`LoneInv` says that nothing is `late`, that the rows of a batch still to come are
APPROVED and not released (`LoneTodo`), that neither is a row the worker is about
to create, adopt, confirm or fail (`LoneRow`), and that `onchain_state` lags
behind a release only until the worker's next write (`Adopted`); `Calm` is what
the steps of the other components leave of this.

**Deposit funding.** `ReceiptDecides`: an intent is settling or received exactly
when its receipt is confirmed, received exactly when the worker has released it,
and under review exactly when its receipt is. The invariant is inductive as it
stands, given the types. The limits are not. A
payment counts from the time it was *made*, which may lie before the quote of
another deposit, and it is *recorded* at any time later, so a window that fits
today may gain a payment. `Held(t)` counts a deposit in every window its payment
may still fall into, from the moment it is reserved: what the window received,
what is open if the window has not passed, and what is paid in it and not
recorded. Its sum within the limit (`WindowsFit`) is inductive: only the start of
a deposit adds to windows, and it is guarded by the sum of them all; every other
step takes deposits out (`ShrinkingFits`). `PaymentsFollow` says that only what
the user was shown is paid, and only what is paid received. `RollingLimit` and
`Reservations` follow from `LimitInv`, for any number of deposits, amounts,
limits and windows. Totals are folds of the community modules; `FiniteSums` proves
what the arguments need of them (a sum over a subset is no larger, one element
more adds its value, disjoint sums add; for integers, a sum of zero with a
negative term has a positive one), by taking a least counterexample under a
well-founded order instead of an induction schema.

**The BSC indexer.** A scan may read a block before a reorganization and write
it after, so neither `CursorCovers` nor `StoredIsCanonical` is inductive. What
saves them is that deep blocks are final: `Margin`, how far reorganizations reach
below the confirmation depth, is 0 or what the rewind makes up for, and
`ChainFinal` shows that no step of the chain touches a block at least `Margin`
below the safe tip. The invariant `IndInv` keeps cursor and ranges at or below
the safe tip and says of every scan (`ScanSound`) that it has stored the final
blocks before its range and that what it has read of the range is stored or in
its batch. `NothingLostBehindCursor` and `StoredRowsCanonical` follow, for any
number of overlapping scans, chunk sizes and depths.

**The services.** `ServicesProofs` has one inductive invariant for each component
with steps; `InitialComponent` and `ComponentStep` take a step of `Services` to
one of the component. `ServicesTypeCorrect` joins them.

| Component | Theorem | Inductive invariant |
|---|---|---|
| Rebalancing orders | `KeyOpensOneOrder` | The request whose INSERT succeeded *holds* its key until nothing of it can be on chain any more (`OneHolder`, `RowInserted`), so two orders on chain have two keys; `OrderOK` and `RowTells` say what the row of a holder may say at each of its steps. |
| Phones | `LinkedPhonesSound` | A challenge of which a start took notice is over for good, so two live ones were inserted behind each other's backs; the proof of a phone is never taken back, so a link request may rely on it at any of its three statements (`ChallengeOK`, `LinkOK`, `RowsOK`). An account stops following a link only by a later link of its subject, whose request either is about to write it or broke off. |
| Invitations | `InvitationsNeverChange` | `UPSERT` returns the code that stands, and nothing replaces it: what was shown or confirmed is still in the table (`ShownStays`, `ConfirmedStays`), and what a request carries to its INSERT is the code of an account that carries another wallet, since that row stays locked (`BindOK`). A wallet that is linked to one subject is never linked to another, so no link can bring the owner to the wallet of its invitee. |
| Runs | `RunsExcludeAndTell` | An active run has the lock or lost its connection (`LockedOrLost`); a raised flag belongs to a run of its process; at each step the lists of the run name each chain it has passed once, and what is in `good` was achieved (`CallOK`), so the recorded outcome is the real one (`Truthful`). |
| Signing keys | `KeysServed` | The cached version is the newest seen (`NewestIsCached`), and an answer under way is no older, since only one fetch is in flight; whatever a token was compared with was either fetched by a call in flight when the token came, or is its own version (`Since`), and is later than the key that had expired then; `TokenOK` carries this over every await. |
| Solana | `NothingLostSilently` | `CursorsPassed` is the property; it is not inductive, since a scan saves its cursor long after it handled the signatures. `ScansHandled` says the same of everything a scan has dealt with so far and of the history it collected (`Handled`, `ScanOK`). It survives the other scans because a row, an open failure and a resolved one stay accounted for: a failure is resolved only after a mint of its transaction was stored. |
| Codes | `CodesTakeEffectOnce` | A row lock has one holder and is on a code that is still open (`LocksExclusive`, `HoldsOpen`), so a code is consumed once (`Console!ConsumedOnce`); a code that a request found when it invalidated is settled, or locked by it, when it inserts its own (`IssueOK`). |
| Newsletter | `MessagesAccounted` | `Balance`: the messages sent, and the one still owed, are at most the subscriptions, what was not recorded, and the workers that are *late*, which sent a message under a lease that has passed on and will fail to record it. `QueueOK` and `WorkerOK` tie attempts to leases. |
| Pairing | `PairsMutualAndStable` | Stored pairs and pairs not yet committed are mutual (`PairOK`, `MatchOK`), and an inflow that was handled has a match which no outflow fits better that is still free and was not locked at its turn (`InflowOK`); of the legs there were when the transaction began, those still free only become fewer while it matches, and what one transaction has locked no other one, no scan and no script changes. |

Two components compute and take no step; what they compute is proved for every
input. Both rest on recursive functions, of which a proof needs first that they
exist: a table is given explicitly and shown to obey the equation
(`SearchExists`, and the tables of powers for `Ten`), and what the function returns follows
by a least counterexample.

* `PricesAreLeast`: within a band the net amount never falls, since the fee takes
  at most the whole of each further kobo (`NetRises`, `BandsRise`), so the
  bisection finds the first amount that suffices (`LeastIsFirst`). Every amount
  between the principal and the principal plus the cap is in a band
  (`InSomeBand`), the last of them suffices (`CapSuffices`), and any amount that
  suffices has a candidate at or below it (`CandidateBelow`).
* `MovementsAreExact`: an integer has exactly one trimmed form, which multiplies
  back to it (`TrimmedExact`), and trimming a product is the same before and
  after zeros are written out (`TrimmedShift`). If the changes add up to zero
  and the wallet's is one of them, some other owner's has the opposite sign
  (`CounterpartyMoved`), and a single one has the opposite amount.

**Only model-checked.**

* Liveness, since the prover does not handle fairness (`ENABLED`):
  `PaidIsSettled`, `FundedIsSettled`, `PaymentIsRecorded`, `EveryTransferStored`.
* The four runs that expect a violation; they hold counterexamples.

## 7. Where the code and its documents disagree

With a run that shows it:

* **Rejection is not terminal** (`rejection_terminal`). `state.test.ts:4` says
  rejection is terminal. A payment that goes to review sets PENDING_APPROVAL
  over REJECTED (`service.ts:65`), and `confirmOfframpFunding` sets APPROVED
  (`offramp.ts:40`). `approval_state` stays REJECTED, so `ExecutionCleared`
  still holds and nothing is executed.
* **The cumulative rule does not see open quotes** (`cumulative_enforced`).
  `ramp-control.md:24` says it can enforce an amount per user within 24 hours;
  two quotes open at a time are each judged alone.
* **A queued retry is never executed** (`retry_executed`). The worker begins
  with its own fixed key (`worker.ts:18`) and is answered with that key's failed
  attempt. It goes on to the orchestrator, but what it then reports to
  `finishRampExecution` is of an attempt that is over and changes nothing
  (`service.ts:111`): the queued attempt is never claimed and the row stays
  APPROVED. Migration 012 names the permission "Retry failed ramp
  transaction execution".
* **An open charge loses its reservation** (`unknown_outcome`).
  `consumer-funding.md:29` says that unknown outcomes remain held. A refresh
  that asks for the charge before the POST has landed is told there is none and
  fails the deposit (`consumer/service.ts:195`).

Read off the code while modelling; the actions contain them, and no run is
devoted to them:

* `funding.integration.test.ts:55` expects a deposit to be `received` right after
  its payment was reconciled; `consumer/service.ts:185` makes it `settling`, and
  only the worker writes `received`, once the USDC is released
  (`worker.ts:19`, `32`). `ReceiptDecidesIntent` states what the code does, against
  this test.
* Approving a transaction nobody has paid writes `CREATED` into
  `approval_state` and violates its CHECK (`service.ts:80-82`), so an operator
  cannot approve before payment.
* A payment that goes to review replaces risk BLOCKED by REVIEW_REQUIRED
  (`service.ts:66`), after which a policy-blocked transaction can be approved.
* `confirmOfframpFunding` writes no event (`offramp.ts:40`), against
  `ramp-control.md:13`; hence `OnrampLogComplete` is about on-ramps.
* Not every PENDING_APPROVAL row has `approval_state` PENDING: a payment under
  review of a row that needed no approval, or of a decided one, is not in the
  queue of `GET /approvals` (`ramp-control.md:32`).
* `beginRampExecution` answers a second worker with the first one's attempt and
  the second goes on (`worker.ts:18`), against `ramp-control.md:11`; the
  orchestrator, which confirms once, is what prevents two releases.
* A payment under review that is then approved is APPROVED with
  `provider_status` REVIEW, which no SELECT of the worker takes
  (`worker.ts:64`).
* A crash after `beginRampExecution` leaves the row PROCESSING for good.
* `finishOfframp` reports FAILED for a payout that succeeded when only the
  escrow's confirmation failed (`worker.ts:56`).
* With overlapping scans and a reorganization below the confirmation depth, a
  batch read before it can overwrite the row of a newer scan with the block of
  the old chain (`bscIndexer.ts:367`), until the next rewind reads it again.
  `CursorCovers` therefore asks that a transfer is stored, and
  `StoredIsCanonical` that its block is right while reorganizations stay above
  the depth.
* A transfer that a deeper reorganization dropped for good stays CONFIRMED: the
  rewind upserts what it finds and deletes nothing.

* *Solana.* `syncContract --reset` deletes the key `newest-indexed-signature`,
  which no scan reads, so it has no effect; with `--delete-transfers` the rows
  are deleted and stay missing behind the cursors (`deleted` in the model). A
  scan of one mint resolves the failure of a transaction that moved two, and the
  other is then neither stored nor listed. The paging loop ends without a word
  after 10 000 pages.
* *Runs.* A crash, or a failed last UPDATE, leaves a row RUNNING for good.
  `POST /sync` answers 202 with a run although the lock may refuse it. Losing the
  lock's connection lets runs overlap, which `technical-audit.md:88` knows.
* *Pairing.* The root `README.md:34` asks for the same asset, at most one percent
  of difference and six hours; the code pairs any confirmed outflow and merely
  prefers those. A deleted leg leaves the other's `pair_id` pointing nowhere,
  against `indexing.mdx:31` ("bidirectional pair"). An outflow whose row a scan, the
  script or another pairing transaction holds at that moment is passed over
  (`SKIP LOCKED`, `pairingService.ts:53`), so an inflow may get a worse one, or none
  until the next run, though the closest was free before and after.
* `bsc.mdx:29` mentions `--dry-run`, which the script does not have, and
  `solana.mdx:22` a configured signature limit, which the indexer does not have.
* *Newsletter.* A lost answer of the mail server, also to QUIT, or a failed
  UPDATE after it sends the message again; expired leases make more than the five
  attempts of `newsletter.md:17`.
* *Codes and phones.* Overlapping requests leave two live codes, or two live
  challenges. A consumed challenge proves its phone to any identity until it
  expires. A link request that breaks off, or whose wallet another account
  carries, leaves a linked phone without its account row, since the link is
  inserted before (`phoneAuth.ts:107-111`); and a later link of the same subject
  overwrites the wallet. `saveProfile` inserts an account row that no linked phone
  stands behind (`consumer/service.ts:47`), and does not update the wallet of one
  that exists.
* *Invitations.* `referrals.ts:129` says "You cannot use your own invite link" and
  compares wallets: a consumer who shows a code, links a second wallet and comes
  back with the first, whose phone is still linked, is bound to their own code.
* *Rebalancing.* An order that timed out stays FAILED, or SUBMITTING after a
  crash, while it is open on chain; a failed audit entry turns an OPEN row
  FAILED with its `request_id`; two keys open two orders, each for the whole
  difference.
* *Signing keys.* A rotation within five seconds of the last attempt, or a fetch
  joined that began before it, rejects a valid token (`socketfiKeys.ts:6-9`).
* *Deposits.* One under review keeps its reservation until an operator acts, and
  no operation of the code ends it (`consumer/service.ts:59`).

## 8. What is not modelled

* Contract addresses and networks: a settlement always reaches the orchestrator
  its request was made on.
* Amount arithmetic, fees and exchange rates inside a transaction; a payment
  either matches or does not. The price of a deposit is `TransferQuote`'s.
* Authentication, roles and CSRF of the routes that lead to the operations.
* `additional_rules` of a policy, which the code stores and does not evaluate.
* `syncContract --from-block`, and `--delete-transfers` on BSC. The first moves
  the cursor where the operator says, over a gap if they say so. The second
  deletes rows without the lock: a synchronization run that is under way then
  saves its cursor over the deleted rows, and they are missing until another
  reset. On Solana and in `Pairing` the deletion is an action.
* Listings, metrics, formatting, logging.
* Deposits of several accounts together: no limit or lock is shared.
* Console organizations, CSRF tokens, passwords and session expiry; rate limits
  of the newsletter; what a consumer profile contains; unmatched payment references. They are
  single statements or single transactions beside the modelled ones.
* In `Pairing` a leg that a scan stores again keeps its data, as the same
  transaction yields the same amounts; a reorganization on BSC that moves its block
  time would change the order of ages and is not in that module.
* The unique index on the e-mail address of profiles (migration 007), which only
  refuses more profiles.
* What a rebalancing order asks for, computed from chain data, is an input, and
  so are Soroban reads.
* What becomes of a referral: no code of the repository qualifies or rewards it.
* The web applications, dashboard aggregation, consumer activity, formatting,
  the audit scripts and the migration runner: they keep no state of the system, or
  are sequential set-up. Timers and shutdown appear as fairness and as crashes.

## 9. Plan

Done: every component with state of its own is modelled, at least in the part
that races or fails, and every invariant and action property a run checks has a
theorem. What remains:

1. `DepositFunding` and `OnrampSettlement` share the deposit intents and are
   checked apart; a refinement of one by the other would join them.
2. Abstract specifications of the indexers and of the newsletter queue, as
   `RampPromise` is one of the ledger.
3. The LIMIT of the worker's SELECTs with the ages of rows, to say which rows may
   be starved by older ones that stay selected.
