----------------------------- MODULE BscIndexer -----------------------------
(***************************************************************************)
(* Indexing the transfers of one tracked wallet and one token on BSC       *)
(* (indexers/bscIndexer.ts): a scan starts some blocks before the stored   *)
(* cursor, asks the RPC provider for the wallet's Transfer logs range by   *)
(* range, upserts them one by one and moves the cursor after each range.   *)
(* The pairs of a run share nothing but the order they are visited in.     *)
(*                                                                         *)
(* Blocks may be reorganized between any two calls, and scans may overlap: *)
(* synchronization runs exclude each other with an advisory lock, but the  *)
(* targeted script (scripts/syncContract.ts) does not take it.             *)
(***************************************************************************)
EXTENDS Integers

CONSTANTS
  Inflows, Outflows,   \* Transfer logs to and from the wallet; a transfer
                       \* of the wallet to itself is in both
  Scanners,            \* processes that scan the pair
  Timed,               \* those of them the timer starts again and again
  StartBlock,          \* max(BSC_START_BLOCK, token.startBlock)
  Depth,               \* BSC_CONFIRMATION_DEPTH
  Rewind,              \* BSC_REORG_REWIND_BLOCKS
  InitialChunk, MinChunk, MaxChunk,  \* BSC_*_CHUNK_SIZE
  GrowthStep,          \* BSC_CHUNK_GROWTH_STEP
  GrowthAfter,         \* BSC_CHUNK_GROWTH_SUCCESS_RANGES
  RpcLimit,            \* blocks the provider accepts in one range
  MaxTip,              \* bound on the chain
  MaxMishaps           \* bound on reorganizations, failures and resets

ASSUME BlocksAreNat ==
  /\ StartBlock \in Nat \ {0} /\ Depth \in Nat /\ Rewind \in Nat
  /\ MaxTip \in Nat /\ MaxMishaps \in Nat
ASSUME TimedScan == Timed \subseteq Scanners
ASSUME ChunksArePositive ==
  /\ {InitialChunk, MinChunk, MaxChunk, GrowthStep, GrowthAfter} \subseteq Nat \ {0}
  /\ MinChunk <= InitialChunk /\ MinChunk <= MaxChunk
ASSUME SmallestRangeAccepted == RpcLimit \in Nat /\ MinChunk <= RpcLimit

VARIABLES
  tip,      \* height of the chain
  height,   \* the canonical block of a log, 0 while it is in none
  reach,    \* how deep a reorganization may go
  cursor,   \* sync_state of the pair, NoCursor before the first range
  stored,   \* block_number of the transfers row of a log, 0 while absent
  scan,     \* what each scanner is doing
  mishaps   \* mishaps so far

vars == <<tip, height, reach, cursor, stored, scan, mishaps>>

Logs == Inflows \cup Outflows
Rows == ({"INFLOW"} \X Inflows) \cup ({"OUTFLOW"} \X Outflows)
Blocks == 1..MaxTip
NoCursor == -1

AtMost(a, b) == IF a <= b THEN a ELSE b
AtLeast(a, b) == IF a >= b THEN a ELSE b

Scan(pc, latest, next, chunk, good, batch) ==
  [pc |-> pc, latest |-> latest, next |-> next, chunk |-> chunk, good |-> good, batch |-> batch]

Idle == Scan("idle", 0, 0, MinChunk, 0, {})

\* What a scan may be doing.
Scans ==
  [pc : {"idle", "start", "inflows", "outflows", "store"}, latest : 0..MaxTip,
   next : 0..(MaxTip + 1), chunk : MinChunk..MaxChunk, good : 0..GrowthAfter,
   batch : SUBSET (Rows \X Blocks)]

TypeOK ==
  /\ tip \in 0..MaxTip
  /\ height \in [Logs -> 0..MaxTip]
  /\ reach \in {Depth, Depth + Rewind}
  /\ cursor \in {NoCursor} \cup 0..MaxTip
  /\ stored \in [Rows -> 0..MaxTip]
  /\ scan \in [Scanners -> Scans]
  /\ mishaps \in 0..MaxMishaps

Init ==
  /\ tip = 0
  /\ height = [l \in Logs |-> 0]
  /\ reach \in {Depth, Depth + Rewind}
  /\ cursor = NoCursor
  /\ stored = [r \in Rows |-> 0]
  /\ scan = [s \in Scanners |-> Idle]
  /\ mishaps = 0

----------------------------------------------------------------------------
(***************************************************************************)
(* The chain.                                                              *)
(***************************************************************************)
Mishap == mishaps < MaxMishaps /\ mishaps' = mishaps + 1

NewBlock ==
  /\ tip < MaxTip
  /\ tip' = tip + 1
  /\ \E mined \in SUBSET {l \in Logs : height[l] = 0} :
       height' = [l \in Logs |-> IF l \in mined THEN tip + 1 ELSE height[l]]
  /\ UNCHANGED <<reach, cursor, stored, scan, mishaps>>

\* The blocks above `fork` are replaced: their logs move or are dropped.
Reorganize(fork) ==
  /\ Mishap
  /\ fork >= tip - reach
  /\ \E moved \in [{l \in Logs : height[l] > fork} -> {0} \cup (fork + 1)..tip] :
       height' = [l \in Logs |-> IF l \in DOMAIN moved THEN moved[l] ELSE height[l]]
  /\ UNCHANGED <<tip, reach, cursor, stored, scan>>

----------------------------------------------------------------------------
(***************************************************************************)
(* One scan: syncBsc or syncSingleBscContract take the tip, and            *)
(* syncBscWalletToken does the rest.                                       *)
(***************************************************************************)
At(s, pc) == scan[s].pc = pc

Become(s, doing) == scan' = [scan EXCEPT ![s] = doing]

Move(s, pc, batch) ==
  Become(s, Scan(pc, scan[s].latest, scan[s].next, scan[s].chunk, scan[s].good, batch))

Stop(s) == Become(s, Idle)

\* Mutant of SafeTip: unconfirmed blocks are indexed.
LatestTip == tip

SafeTip == IF tip > Depth THEN tip - Depth ELSE 0

TakeTip(s) ==
  /\ At(s, "idle")
  /\ Become(s, Scan("start", SafeTip, 0, MinChunk, 0, {}))
  /\ UNCHANGED <<tip, height, reach, cursor, stored, mishaps>>

\* Mutant of StartingBlock: the rewind is one block short.
StartingBlockShort(latest) ==
  IF cursor = NoCursor THEN AtMost(StartBlock, latest)
  ELSE AtMost(AtLeast(StartBlock, cursor + 2 - Rewind), latest + 1)

\* getStartingBlock
StartingBlock(latest) ==
  IF cursor = NoCursor THEN AtMost(StartBlock, latest)
  ELSE AtMost(AtLeast(StartBlock, cursor + 1 - Rewind), latest + 1)

ReadCursor(s) ==
  LET next == StartingBlock(scan[s].latest)
  IN /\ At(s, "start")
     /\ IF next > scan[s].latest THEN Stop(s)
        ELSE Become(s, Scan("inflows", scan[s].latest, next,
                            AtMost(InitialChunk, MaxChunk), 0, {}))
     /\ UNCHANGED <<tip, height, reach, cursor, stored, mishaps>>

ToBlock(s) ==
  LET last == scan[s].next + scan[s].chunk - 1
  IN IF last <= scan[s].latest THEN last ELSE scan[s].latest

\* readLogs: what eth_getLogs returns at this moment.
Found(s, direction) ==
  {found \in Rows \X Blocks :
     /\ found[1][1] = direction
     /\ found[2] = height[found[1][2]] /\ found[2] \in scan[s].next..ToBlock(s)}

Accepted(s) == ToBlock(s) - scan[s].next + 1 <= RpcLimit

ReadInflows(s) ==
  /\ At(s, "inflows")
  /\ Accepted(s)
  /\ Move(s, "outflows", Found(s, "INFLOW"))
  /\ UNCHANGED <<tip, height, reach, cursor, stored, mishaps>>

ReadOutflows(s) ==
  /\ At(s, "outflows")
  /\ Accepted(s)
  /\ Move(s, "store", scan[s].batch \cup Found(s, "OUTFLOW"))
  /\ UNCHANGED <<tip, height, reach, cursor, stored, mishaps>>

\* The catch block, for an error that speaks of the range: a smaller chunk is
\* tried from the same block, unless it is the smallest.
Reduce(s) ==
  IF scan[s].chunk > MinChunk
  THEN Become(s, Scan("inflows", scan[s].latest, scan[s].next,
                      AtLeast(MinChunk, scan[s].chunk \div 2), 0, {}))
  ELSE Stop(s)

\* Mutant of RangeRejected: the same range is tried again.
RetrySameRange(s) ==
  /\ At(s, "inflows") \/ At(s, "outflows")
  /\ ~Accepted(s)
  /\ Move(s, "inflows", {})
  /\ UNCHANGED <<tip, height, reach, cursor, stored, mishaps>>

RangeRejected(s) ==
  /\ At(s, "inflows") \/ At(s, "outflows")
  /\ ~Accepted(s)
  /\ Reduce(s)
  /\ UNCHANGED <<tip, height, reach, cursor, stored, mishaps>>

\* persistTransfer: INSERT ... ON CONFLICT DO UPDATE, its own statement.  The
\* order of the rows of one batch is left open.
PersistTransfer(s) ==
  /\ At(s, "store")
  /\ \E found \in scan[s].batch :
       /\ stored' = [stored EXCEPT ![found[1]] = found[2]]
       /\ Move(s, "store", scan[s].batch \ {found})
  /\ UNCHANGED <<tip, height, reach, cursor, mishaps>>

\* Chunk and successes after one more range.
Grown(chunk, good) ==
  IF good + 1 >= GrowthAfter /\ chunk < MaxChunk
  THEN <<AtMost(MaxChunk, chunk + GrowthStep), 0>>
  ELSE <<chunk, AtMost(GrowthAfter, good + 1)>>

NextRange(s) ==
  LET grown == Grown(scan[s].chunk, scan[s].good)
  IN IF ToBlock(s) = scan[s].latest THEN Stop(s)
     ELSE Become(s, Scan("inflows", scan[s].latest, ToBlock(s) + 1, grown[1], grown[2], {}))

\* Mutant of SaveCursor: the cursor moves before the last row is written.
SaveCursorEarly(s) ==
  /\ At(s, "store")
  /\ cursor' = ToBlock(s)
  /\ IF scan[s].batch = {} THEN NextRange(s) ELSE UNCHANGED scan
  /\ UNCHANGED <<tip, height, reach, stored, mishaps>>

SaveCursor(s) ==
  /\ At(s, "store")
  /\ scan[s].batch = {}
  /\ cursor' = ToBlock(s)
  /\ NextRange(s)
  /\ UNCHANGED <<tip, height, reach, stored, mishaps>>

----------------------------------------------------------------------------
(***************************************************************************)
(* Mishaps.                                                                *)
(***************************************************************************)
\* A call fails for good, or the process ends, wherever the scan is.
ScanFails(s) ==
  /\ Mishap
  /\ ~At(s, "idle")
  /\ Stop(s)
  /\ UNCHANGED <<tip, height, reach, cursor, stored>>

\* A rate limit outlasts the retries, and its message also reads like one
\* about the range ("limit exceeded").
RateLimited(s) ==
  /\ Mishap
  /\ scan[s].pc \in {"inflows", "outflows", "store"}
  /\ Reduce(s)
  /\ UNCHANGED <<tip, height, reach, cursor, stored>>

\* syncContract --reset, before its scan.
ResetCursor ==
  /\ Mishap
  /\ cursor # NoCursor
  /\ cursor' = NoCursor
  /\ UNCHANGED <<tip, height, reach, stored, scan>>

ScanStep(s) ==
  \/ TakeTip(s) \/ ReadCursor(s) \/ ReadInflows(s) \/ ReadOutflows(s)
  \/ RangeRejected(s) \/ PersistTransfer(s) \/ SaveCursor(s)

Next ==
  \/ NewBlock
  \/ \E fork \in 0..MaxTip : Reorganize(fork)
  \/ \E s \in Scanners : ScanStep(s) \/ ScanFails(s) \/ RateLimited(s)
  \/ ResetCursor

Spec == Init /\ [][Next]_vars

\* The timer starts a run every SYNC_INTERVAL_MINUTES, and calls end.  Nobody
\* has to start the script, or to let it finish.
FairSpec == Spec /\ \A s \in Timed : WF_vars(ScanStep(s))

----------------------------------------------------------------------------
(***************************************************************************)
(* Properties.                                                             *)
(***************************************************************************)
\* "Deterministic transfer identities and upserts make replay safe"
\* (apps/docs/infrastructure/bsc.mdx:19): no transfer is lost behind the
\* cursor.  Every canonical transfer up to the cursor, less the blocks the next
\* scan starts with if reorganizations reach below the confirmation depth, is
\* stored, whatever scans overlapped or broke off.
CursorCovers ==
  LET safe == IF reach <= Depth THEN cursor ELSE cursor - Rewind
  IN \A r \in Rows :
       height[r[2]] \in StartBlock..safe => stored[r] # 0

\* What is stored as CONFIRMED is on the chain, as long as reorganizations do
\* not reach below the confirmation depth.
StoredIsCanonical ==
  reach <= Depth =>
    \A r \in Rows : stored[r] # 0 => stored[r] = height[r[2]]

Settled(l) == height[l] \in StartBlock..(tip - Depth)

\* Adaptive ranges end: a provider that accepts the smallest range serves
\* every confirmed transfer in the end, after any failures and resets.
EveryTransferStored ==
  \A r \in Rows :
    Settled(r[2]) ~> ~Settled(r[2]) \/ stored[r] # 0
=============================================================================
