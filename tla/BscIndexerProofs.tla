-------------------------- MODULE BscIndexerProofs --------------------------
(***************************************************************************)
(* Theorems about the BSC indexer, for any logs, scanners, depths, chunk   *)
(* sizes and chain.  What makes them true is that blocks far enough below  *)
(* the tip are final: a scan that reads them early and writes them late    *)
(* still writes what is on the chain.                                      *)
(***************************************************************************)
EXTENDS BscIndexer, TLAPS

USE BlocksAreNat, TimedScan, ChunksArePositive, SmallestRangeAccepted

(***************************************************************************)
(* Type correctness.                                                       *)
(***************************************************************************)
\* The tables are empty and nobody scans.
LEMMA InitType == Init => TypeOK
  BY DEF Init, TypeOK, Idle, Scan, Scans, NoCursor

\* A scan that is idle, or has just taken the tip, is well-formed.
LEMMA IdleType ==
  TypeOK => /\ Idle \in Scans
            /\ SafeTip \in 0..MaxTip
  BY DEF TypeOK, Idle, Scan, Scans, SafeTip, AtLeast

\* The chunk a rejected range is reduced to stays within its bounds.
LEMMA ReduceType ==
  ASSUME TypeOK, NEW s \in Scanners, Reduce(s)
  PROVE  scan' \in [Scanners -> Scans]
<1>1. scan[s].chunk \in MinChunk..MaxChunk
  BY DEF TypeOK, Scans
<1>2. AtLeast(MinChunk, scan[s].chunk \div 2) \in MinChunk..MaxChunk
  BY <1>1 DEF AtLeast
<1>3. QED  BY <1>2, IdleType DEF Reduce, Become, Stop, Scan, Scans, TypeOK

\* So does the range a scan goes on with.
LEMMA NextRangeType ==
  ASSUME TypeOK, NEW s \in Scanners, NextRange(s)
  PROVE  /\ ToBlock(s) \in 0..MaxTip
         /\ scan' \in [Scanners -> Scans]
<1>1. /\ scan[s].chunk \in MinChunk..MaxChunk /\ scan[s].good \in 0..GrowthAfter
      /\ scan[s].next \in 0..(MaxTip + 1) /\ scan[s].latest \in 0..MaxTip
  BY DEF TypeOK, Scans
<1>2. ToBlock(s) \in 0..MaxTip
  BY <1>1 DEF ToBlock, AtMost
<1>3. /\ Grown(scan[s].chunk, scan[s].good)[1] \in MinChunk..MaxChunk
      /\ Grown(scan[s].chunk, scan[s].good)[2] \in 0..GrowthAfter
  BY <1>1 DEF Grown, AtMost
<1>4. QED  BY <1>2, <1>3, IdleType DEF NextRange, Become, Stop, Scan, Scans, TypeOK

\* Every step keeps heights, cursors and chunks within their bounds.
LEMMA StepType == TypeOK /\ [Next]_vars => TypeOK'
<1> SUFFICES ASSUME TypeOK, [Next]_vars PROVE TypeOK'
  OBVIOUS
<1>1. CASE NewBlock
  BY <1>1 DEF NewBlock, TypeOK
<1>2. CASE \E fork \in 0..MaxTip : Reorganize(fork)
  BY <1>2 DEF Reorganize, Mishap, TypeOK
<1>3. ASSUME NEW s \in Scanners, TakeTip(s) PROVE TypeOK'
  BY <1>3, IdleType DEF TakeTip, Become, Scan, Scans, TypeOK
<1>4. ASSUME NEW s \in Scanners, ReadCursor(s) PROVE TypeOK'
  <2>1. scan[s].latest \in 0..MaxTip
    BY DEF TypeOK, Scans
  <2>2. StartingBlock(scan[s].latest) \in 0..(MaxTip + 1)
    BY <2>1 DEF StartingBlock, AtMost, AtLeast, TypeOK, NoCursor
  <2>3. AtMost(InitialChunk, MaxChunk) \in MinChunk..MaxChunk
    BY DEF AtMost
  <2>4. QED  BY <1>4, <2>2, <2>3, IdleType DEF ReadCursor, Become, Stop, Scan, Scans, TypeOK
<1>5. ASSUME NEW s \in Scanners, ReadInflows(s) \/ ReadOutflows(s) PROVE TypeOK'
  <2>1. Found(s, "INFLOW") \subseteq Rows \X Blocks /\ Found(s, "OUTFLOW") \subseteq Rows \X Blocks
    BY DEF Found
  <2>2. QED  BY <1>5, <2>1 DEF ReadInflows, ReadOutflows, Move, Become, Scan, Scans, TypeOK
<1>6. ASSUME NEW s \in Scanners, RangeRejected(s) PROVE TypeOK'
  BY <1>6, ReduceType DEF RangeRejected, TypeOK
<1>7. ASSUME NEW s \in Scanners, PersistTransfer(s) PROVE TypeOK'
  <2>1. scan[s].batch \subseteq Rows \X Blocks
    BY DEF TypeOK, Scans
  <2>2. PICK found \in scan[s].batch :
          /\ stored' = [stored EXCEPT ![found[1]] = found[2]]
          /\ Move(s, "store", scan[s].batch \ {found})
    BY <1>7 DEF PersistTransfer
  <2>3. found[1] \in Rows /\ found[2] \in 0..MaxTip
    BY <2>1 DEF Blocks
  <2>4. scan[s].batch \ {found} \in SUBSET (Rows \X Blocks)
    BY <2>1
  <2>5. QED  BY <1>7, <2>2, <2>3, <2>4 DEF PersistTransfer, Move, Become, Scan, Scans, TypeOK
<1>8. ASSUME NEW s \in Scanners, SaveCursor(s) PROVE TypeOK'
  BY <1>8, NextRangeType DEF SaveCursor, TypeOK, NoCursor
<1>9. ASSUME NEW s \in Scanners, ScanFails(s) PROVE TypeOK'
  BY <1>9, IdleType DEF ScanFails, Mishap, Become, Stop, TypeOK
<1>10. ASSUME NEW s \in Scanners, RateLimited(s) PROVE TypeOK'
  BY <1>10, ReduceType DEF RateLimited, Mishap, TypeOK
<1>11. CASE ResetCursor
  BY <1>11 DEF ResetCursor, Mishap, TypeOK
<1>12. CASE UNCHANGED vars
  BY <1>12 DEF vars, TypeOK
<1>13. QED
  BY <1>1, <1>2, <1>3, <1>4, <1>5, <1>6, <1>7, <1>8, <1>9, <1>10, <1>11, <1>12
     DEF Next, ScanStep

\* Heights, cursors, chunks and rows stay within their bounds.
THEOREM TypeCorrect == Spec => []TypeOK
<1>1. QED  BY InitType, StepType, PTL DEF Spec

(***************************************************************************)
(* The inductive invariant.  Beyond the depth a reorganization reaches, a  *)
(* block is final; Margin is how much deeper than the confirmation depth   *)
(* that is.  A scan has stored the final blocks before its range, and of   *)
(* the range what it has read is stored or still in its batch.             *)
(***************************************************************************)
Margin == reach - Depth

Working(s) == scan[s].pc \in {"inflows", "outflows", "store"}

HasRead(s, r) == scan[s].pc = "store" \/ (scan[s].pc = "outflows" /\ r[1] = "INFLOW")

\* The log of r lies in a block of the scan that is final.
FinalFor(s, r) == height[r[2]] >= StartBlock /\ height[r[2]] <= scan[s].latest - Margin

\* A scan stays below the safe tip, and its range below its end.
Within(s) ==
  /\ scan[s].latest <= SafeTip
  /\ Working(s) => scan[s].next <= scan[s].latest

BeforeStored(s) ==
  \A r \in Rows :
    Working(s) /\ FinalFor(s, r) /\ height[r[2]] < scan[s].next => stored[r] # 0

ReadKept(s) ==
  \A r \in Rows :
    HasRead(s, r) /\ FinalFor(s, r) /\ height[r[2]] >= scan[s].next /\ height[r[2]] <= ToBlock(s)
    => stored[r] # 0 \/ <<r, height[r[2]]>> \in scan[s].batch

ScanSound(s) == Within(s) /\ BeforeStored(s) /\ ReadKept(s)

IndInv ==
  /\ TypeOK
  /\ cursor <= SafeTip
  /\ \A s \in Scanners : ScanSound(s)
  /\ CursorCovers

LEMMA InitInd == Init => IndInv
<1> SUFFICES ASSUME Init PROVE IndInv
  OBVIOUS
<1>1. TypeOK
  BY InitType
<1>2. cursor <= SafeTip
  BY DEF Init, NoCursor, SafeTip
<1>3. ASSUME NEW s \in Scanners PROVE ScanSound(s)
  BY <1>3 DEF Init, ScanSound, Within, BeforeStored, ReadKept, SafeTip, Idle, Scan, Working, HasRead
<1>4. CursorCovers
  BY DEF Init, CursorCovers, NoCursor, Rows, Logs
<1>5. QED  BY <1>1, <1>2, <1>3, <1>4 DEF IndInv

LEMMA RowLog == \A r \in Rows : r[2] \in Logs /\ r[1] \in {"INFLOW", "OUTFLOW"}
  BY DEF Rows, Logs

\* What TypeOK says of the numbers a scan works with.
LEMMA Numbers ==
  ASSUME TypeOK
  PROVE  /\ SafeTip \in 0..MaxTip /\ cursor \in Int /\ reach \in Nat
         /\ Margin \in Nat /\ (reach <= Depth => Margin = 0) /\ (reach > Depth => Margin = Rewind)
         /\ \A r \in Rows : height[r[2]] \in 0..MaxTip
         /\ \A s \in Scanners :
              /\ scan[s].latest \in 0..MaxTip /\ scan[s].next \in Nat
              /\ scan[s].chunk \in Nat \ {0} /\ ToBlock(s) \in Int
              /\ ToBlock(s) <= scan[s].latest
<1>1. \A s \in Scanners : scan[s] \in Scans
  BY DEF TypeOK
<1>2. \A s \in Scanners :
              /\ scan[s].latest \in 0..MaxTip /\ scan[s].next \in Nat
              /\ scan[s].chunk \in Nat \ {0} /\ ToBlock(s) \in Int
              /\ ToBlock(s) <= scan[s].latest
  BY <1>1 DEF Scans, ToBlock
<1>3. QED  BY <1>2, RowLog, IdleType DEF TypeOK, Margin, NoCursor

\* A step of the chain leaves final blocks as they are.
LEMMA ChainFinal ==
  ASSUME TypeOK, NewBlock \/ \E fork \in 0..MaxTip : Reorganize(fork)
  PROVE  /\ SafeTip <= SafeTip'
         /\ \A l \in Logs : \A b \in 1..(SafeTip - Margin) : height[l] = b <=> height'[l] = b
         /\ UNCHANGED <<reach, cursor, stored, scan>>
<1>1. CASE NewBlock
  <2>1. SafeTip <= SafeTip' /\ SafeTip <= tip
    BY <1>1 DEF NewBlock, SafeTip, TypeOK
  <2>2. ASSUME NEW l \in Logs, NEW b \in 1..(SafeTip - Margin)
        PROVE  height[l] = b <=> height'[l] = b
    <3>1. b <= tip
      BY <2>1, <2>2 DEF TypeOK, Margin, SafeTip
    <3>2. PICK mined \in SUBSET {k \in Logs : height[k] = 0} :
            height' = [k \in Logs |-> IF k \in mined THEN tip + 1 ELSE height[k]]
      BY <1>1 DEF NewBlock
    <3>3. QED  BY <3>1, <3>2 DEF TypeOK
  <2>3. QED  BY <1>1, <2>1, <2>2 DEF NewBlock
<1>2. ASSUME NEW fork \in 0..MaxTip, Reorganize(fork)
      PROVE  /\ SafeTip <= SafeTip'
             /\ \A l \in Logs : \A b \in 1..(SafeTip - Margin) : height[l] = b <=> height'[l] = b
             /\ UNCHANGED <<reach, cursor, stored, scan>>
  <2>1. ASSUME NEW l \in Logs, NEW b \in 1..(SafeTip - Margin)
        PROVE  height[l] = b <=> height'[l] = b
    <3>1. b <= fork
      BY <1>2, <2>1 DEF Reorganize, TypeOK, Margin, SafeTip
    <3>2. PICK moved \in [{k \in Logs : height[k] > fork} -> {0} \cup (fork + 1)..tip] :
            height' = [k \in Logs |-> IF k \in DOMAIN moved THEN moved[k] ELSE height[k]]
      BY <1>2 DEF Reorganize
    <3>3. l \in DOMAIN moved <=> height[l] > fork
      BY <3>2
    <3>4. l \in DOMAIN moved => moved[l] \in {0} \cup (fork + 1)..tip
      BY <3>2
    <3>5. QED  BY <3>1, <3>2, <3>3, <3>4 DEF TypeOK
  <2>2. QED  BY <1>2, <2>1 DEF Reorganize, SafeTip, TypeOK
<1>3. QED  BY <1>1, <1>2

LEMMA ChainStep ==
  ASSUME IndInv, NewBlock \/ \E fork \in 0..MaxTip : Reorganize(fork)
  PROVE  IndInv'
<1>0. TypeOK /\ TypeOK'
  BY StepType DEF IndInv, Next
<1>1. /\ SafeTip <= SafeTip'
      /\ \A l \in Logs : \A b \in 1..(SafeTip - Margin) : height[l] = b <=> height'[l] = b
      /\ UNCHANGED <<reach, cursor, stored, scan>>
  BY <1>0, ChainFinal
<1>2. /\ SafeTip \in 0..MaxTip /\ SafeTip' \in Int /\ cursor \in Int
      /\ Margin \in Nat /\ Margin' = Margin
      /\ \A r \in Rows : height[r[2]] \in Nat /\ height'[r[2]] \in Nat /\ r[2] \in Logs
      /\ \A s \in Scanners : scan[s].latest \in Nat
  <2>1. SafeTip' \in Int
    BY <1>0 DEF TypeOK, SafeTip
  <2>2. Margin' = Margin
    BY <1>1 DEF Margin
  <2>3. \A r \in Rows : height'[r[2]] \in Nat
    BY <1>0, RowLog DEF TypeOK
  <2>4. QED  BY <1>0, <2>1, <2>2, <2>3, Numbers, RowLog
<1>3. ASSUME NEW s \in Scanners, NEW r \in Rows, FinalFor(s, r)'
      PROVE  FinalFor(s, r) /\ height'[r[2]] = height[r[2]]
  <2>1. scan[s].latest <= SafeTip
    BY DEF IndInv, ScanSound, Within
  <2>2. /\ height'[r[2]] >= StartBlock
        /\ height'[r[2]] <= scan[s].latest - Margin
    BY <1>1, <1>2, <1>3 DEF FinalFor
  <2>3. height'[r[2]] \in 1..(SafeTip - Margin)
    BY <1>2, <2>1, <2>2
  <2>4. height'[r[2]] = height[r[2]]
    BY <1>1, <1>2, <2>3
  <2>5. QED  BY <2>2, <2>4 DEF FinalFor
<1>4. ASSUME NEW s \in Scanners PROVE ScanSound(s)'
  <2>1. ScanSound(s)
    BY DEF IndInv
  <2>2. Within(s)'
    BY <1>1, <1>2, <2>1 DEF ScanSound, Within, Working
  <2>3. BeforeStored(s)'
    BY <1>1, <1>3, <2>1 DEF ScanSound, BeforeStored, Working
  <2>4. ReadKept(s)'
    BY <1>1, <1>3, <2>1 DEF ScanSound, ReadKept, HasRead, ToBlock
  <2>5. QED  BY <2>2, <2>3, <2>4 DEF ScanSound
<1>5. CursorCovers'
  <2>1. ASSUME NEW r \in Rows, height'[r[2]] >= StartBlock, height'[r[2]] <= cursor - Margin
        PROVE  height'[r[2]] = height[r[2]]
    BY <1>1, <1>2, <2>1 DEF IndInv
  <2>2. ASSUME NEW r \in Rows, height'[r[2]] \in StartBlock..(IF reach <= Depth THEN cursor ELSE cursor - Rewind)
        PROVE  stored[r] # 0
    <3>1. height'[r[2]] >= StartBlock /\ height'[r[2]] <= cursor - Margin
      BY <1>0, <1>2, <2>2, Numbers
    <3>2. QED  BY <2>1, <2>2, <3>1 DEF IndInv, CursorCovers
  <2>3. QED  BY <1>1, <2>2 DEF CursorCovers
<1>6. QED  BY <1>0, <1>1, <1>2, <1>4, <1>5 DEF IndInv

(***************************************************************************)
(* The steps of a scan change the state of one scanner.                    *)
(***************************************************************************)
\* Scanners do not disturb each other: rows only get stored.
LEMMA OneScan ==
  ASSUME IndInv, TypeOK', UNCHANGED <<tip, height, reach>>,
         NEW s \in Scanners, \A t \in Scanners \ {s} : scan'[t] = scan[t],
         \A r \in Rows : stored[r] # 0 => stored'[r] # 0,
         cursor' <= SafeTip, CursorCovers', ScanSound(s)'
  PROVE  IndInv'
<1>1. SafeTip' = SafeTip /\ Margin' = Margin
  BY DEF SafeTip, Margin
<1>2. ASSUME NEW t \in Scanners \ {s} PROVE ScanSound(t)'
  <2>1. ScanSound(t) /\ scan'[t] = scan[t]
    BY DEF IndInv
  <2>2. Within(t)'
    BY <1>1, <2>1 DEF ScanSound, Within, Working
  <2>3. BeforeStored(t)'
    BY <1>1, <2>1 DEF ScanSound, BeforeStored, Working, FinalFor
  <2>4. ReadKept(t)'
    BY <1>1, <2>1 DEF ScanSound, ReadKept, HasRead, ToBlock, FinalFor
  <2>5. QED  BY <2>2, <2>3, <2>4 DEF ScanSound
<1>3. QED  BY <1>1, <1>2 DEF IndInv

\* While cursor and rows stay, what the cursor covers stays covered.
LEMMA CoveredStays ==
  ASSUME CursorCovers, UNCHANGED <<height, reach, cursor>>,
         \A r \in Rows : stored[r] # 0 => stored'[r] # 0
  PROVE  CursorCovers'
BY DEF CursorCovers

\* What a scanner that becomes `doing` leaves behind.
LEMMA Becoming ==
  ASSUME TypeOK, NEW s \in Scanners, NEW doing, Become(s, doing)
  PROVE  scan'[s] = doing /\ \A t \in Scanners \ {s} : scan'[t] = scan[t]
BY DEF Become, TypeOK

\* An idle scanner, or one that has just started, has promised nothing.
LEMMA IdleSound ==
  ASSUME TypeOK, UNCHANGED <<tip, height, reach>>, NEW s \in Scanners,
         scan'[s] = Idle \/ scan'[s] = Scan("start", SafeTip, 0, MinChunk, 0, {})
  PROVE  ScanSound(s)'
<1>1. SafeTip' = SafeTip /\ SafeTip \in Nat /\ ~Working(s)' /\ ~\E r \in Rows : HasRead(s, r)'
  BY Numbers DEF SafeTip, Working, HasRead, Idle, Scan
<1>2. scan'[s].latest \in {0, SafeTip}
  BY DEF Idle, Scan
<1>3. QED  BY <1>1, <1>2 DEF ScanSound, Within, BeforeStored, ReadKept

LEMMA StopStep ==
  ASSUME IndInv, TypeOK', UNCHANGED <<tip, height, reach, cursor, stored>>, NEW s \in Scanners,
         Stop(s) \/ Become(s, Scan("start", SafeTip, 0, MinChunk, 0, {}))
  PROVE  IndInv'
<1>1. /\ scan'[s] = Idle \/ scan'[s] = Scan("start", SafeTip, 0, MinChunk, 0, {})
      /\ \A t \in Scanners \ {s} : scan'[t] = scan[t]
  BY Becoming DEF IndInv, Stop
<1>2. ScanSound(s)'
  BY <1>1, IdleSound DEF IndInv
<1>3. CursorCovers'
  BY CoveredStays DEF IndInv
<1>4. QED  BY <1>1, <1>2, <1>3, OneScan DEF IndInv

\* A scan that starts again with the chunk it has not read keeps what it stored.
LEMMA ReduceStep ==
  ASSUME IndInv, TypeOK', UNCHANGED <<tip, height, reach, cursor, stored>>, NEW s \in Scanners,
         Working(s), Reduce(s)
  PROVE  IndInv'
<1>1. CASE Stop(s)
  BY <1>1, StopStep
<1>2. CASE Become(s, Scan("inflows", scan[s].latest, scan[s].next,
                          AtLeast(MinChunk, scan[s].chunk \div 2), 0, {}))
  <2>1. /\ scan'[s] = Scan("inflows", scan[s].latest, scan[s].next,
                           AtLeast(MinChunk, scan[s].chunk \div 2), 0, {})
        /\ \A t \in Scanners \ {s} : scan'[t] = scan[t]
    BY <1>2, Becoming DEF IndInv
  <2>2. /\ scan'[s].pc = "inflows" /\ scan'[s].latest = scan[s].latest
        /\ scan'[s].next = scan[s].next
    BY <2>1 DEF Scan
  <2>3. SafeTip' = SafeTip /\ Margin' = Margin
    BY DEF SafeTip, Margin
  <2>4. ScanSound(s)
    BY DEF IndInv
  <2>5. Within(s)'
    BY <2>2, <2>3, <2>4 DEF ScanSound, Within
  <2>6. BeforeStored(s)'
    BY <2>2, <2>3, <2>4 DEF ScanSound, BeforeStored, FinalFor
  <2>7. ReadKept(s)'
    BY <2>2 DEF ReadKept, HasRead
  <2>8. CursorCovers'
    BY CoveredStays DEF IndInv
  <2>9. QED  BY <2>1, <2>5, <2>6, <2>7, <2>8, OneScan DEF IndInv, ScanSound
<1>3. QED  BY <1>1, <1>2 DEF Reduce

\* The first block of a scan: what lies below is covered by the cursor.
LEMMA ReadCursorStep ==
  ASSUME IndInv, TypeOK', NEW s \in Scanners, ReadCursor(s)
  PROVE  IndInv'
<1> DEFINE next == StartingBlock(scan[s].latest)
<1>1. UNCHANGED <<tip, height, reach, cursor, stored>>
  BY DEF ReadCursor
<1>2. CASE Stop(s)
  BY <1>1, <1>2, StopStep
<1>3. CASE /\ next <= scan[s].latest
           /\ Become(s, Scan("inflows", scan[s].latest, next, AtMost(InitialChunk, MaxChunk), 0, {}))
  <2>1. /\ scan'[s] = Scan("inflows", scan[s].latest, next, AtMost(InitialChunk, MaxChunk), 0, {})
        /\ \A t \in Scanners \ {s} : scan'[t] = scan[t]
    BY <1>3, Becoming DEF IndInv
  <2>2. scan'[s].pc = "inflows" /\ scan'[s].latest = scan[s].latest /\ scan'[s].next = next
    BY <2>1 DEF Scan
  <2>3. SafeTip' = SafeTip /\ Margin' = Margin
    BY <1>1 DEF SafeTip, Margin
  <2>4. ScanSound(s)
    BY DEF IndInv
  <2>5. Within(s)'
    BY <1>3, <2>2, <2>3, <2>4 DEF ScanSound, Within
  <2>6. ASSUME NEW r \in Rows, height[r[2]] >= StartBlock, height[r[2]] < next
        PROVE  stored[r] # 0
    <3>1. cursor # NoCursor /\ height[r[2]] < cursor + 1 - Rewind
      BY <2>6, Numbers DEF StartingBlock, AtMost, AtLeast, IndInv
    <3>2. height[r[2]] \in StartBlock..(IF reach <= Depth THEN cursor ELSE cursor - Rewind)
      BY <2>6, <3>1, Numbers DEF IndInv
    <3>3. QED  BY <3>2 DEF IndInv, CursorCovers
  <2>7. BeforeStored(s)'
    BY <1>1, <2>2, <2>6 DEF BeforeStored, FinalFor
  <2>8. ReadKept(s)'
    BY <2>2 DEF ReadKept, HasRead
  <2>9. CursorCovers'
    BY <1>1, CoveredStays DEF IndInv
  <2>10. QED  BY <1>1, <2>1, <2>5, <2>7, <2>8, <2>9, OneScan DEF IndInv, ScanSound
<1>4. next \in Int /\ scan[s].latest \in Int
  BY Numbers DEF IndInv, StartingBlock, AtMost, AtLeast
<1>5. QED  BY <1>2, <1>3, <1>4 DEF ReadCursor

\* A batch holds what the provider found, with nothing stored yet.
LEMMA ReadStep ==
  ASSUME IndInv, TypeOK', NEW s \in Scanners, ReadInflows(s) \/ ReadOutflows(s)
  PROVE  IndInv'
<1>1. UNCHANGED <<tip, height, reach, cursor, stored>> /\ Working(s) /\ ScanSound(s)
  BY DEF ReadInflows, ReadOutflows, At, Working, IndInv
<1>2. SafeTip' = SafeTip /\ Margin' = Margin
  BY <1>1 DEF SafeTip, Margin
<1>3. PICK pc, batch :
        /\ pc \in {"outflows", "store"} /\ Move(s, pc, batch)
        /\ pc = "outflows" => Found(s, "INFLOW") \subseteq batch
        /\ pc = "store" => At(s, "outflows") /\ scan[s].batch \cup Found(s, "OUTFLOW") \subseteq batch
  BY DEF ReadInflows, ReadOutflows
<1>4. /\ scan'[s] = Scan(pc, scan[s].latest, scan[s].next, scan[s].chunk, scan[s].good, batch)
      /\ \A t \in Scanners \ {s} : scan'[t] = scan[t]
  BY <1>3, Becoming DEF IndInv, Move
<1>5. /\ scan'[s].pc = pc /\ scan'[s].latest = scan[s].latest /\ scan'[s].next = scan[s].next
      /\ scan'[s].chunk = scan[s].chunk /\ scan'[s].batch = batch
  BY <1>4 DEF Scan
<1>6. Within(s)'
  BY <1>1, <1>2, <1>5 DEF ScanSound, Within
<1>7. BeforeStored(s)'
  BY <1>1, <1>2, <1>5 DEF ScanSound, BeforeStored, FinalFor
<1>8. ToBlock(s)' = ToBlock(s)
  BY <1>5 DEF ToBlock
<1>9. ASSUME NEW r \in Rows, HasRead(s, r)', FinalFor(s, r)',
             height[r[2]] >= scan[s].next, height[r[2]] <= ToBlock(s)
      PROVE  stored[r] # 0 \/ <<r, height[r[2]]>> \in batch
  <2>1. height[r[2]] \in Blocks /\ height[r[2]] \in scan[s].next..ToBlock(s) /\ height[r[2]] >= StartBlock
    BY <1>1, <1>9, Numbers DEF FinalFor, Blocks, IndInv
  <2>2. <<r, height[r[2]]>> \in Found(s, r[1])
    BY <2>1 DEF Found
  <2>3. CASE r[1] = "INFLOW" /\ pc = "outflows"
    BY <1>3, <2>2, <2>3
  <2>4. CASE r[1] = "INFLOW" /\ pc = "store"
    <3>1. At(s, "outflows") /\ scan[s].batch \subseteq batch
      BY <1>3, <2>4
    <3>2. HasRead(s, r) /\ FinalFor(s, r)
      BY <1>1, <1>2, <1>5, <1>9, <2>4, <3>1 DEF HasRead, At, FinalFor
    <3>3. QED  BY <1>1, <1>9, <3>1, <3>2 DEF ScanSound, ReadKept
  <2>5. CASE r[1] = "OUTFLOW"
    <3>1. pc = "store"
      BY <1>5, <1>9, <2>5 DEF HasRead
    <3>2. QED  BY <1>3, <2>2, <2>5, <3>1
  <2>6. QED  BY <1>3, <2>3, <2>4, <2>5, RowLog
<1>10. ReadKept(s)'
  BY <1>1, <1>5, <1>8, <1>9 DEF ReadKept
<1>11. CursorCovers'
  BY <1>1, CoveredStays DEF IndInv
<1>12. QED  BY <1>1, <1>4, <1>6, <1>7, <1>10, <1>11, OneScan DEF IndInv, ScanSound

\* A row leaves the batch by being stored.
LEMMA PersistStep ==
  ASSUME IndInv, TypeOK', NEW s \in Scanners, PersistTransfer(s)
  PROVE  IndInv'
<1>1. UNCHANGED <<tip, height, reach, cursor>> /\ At(s, "store") /\ ScanSound(s)
  BY DEF PersistTransfer, IndInv
<1>2. SafeTip' = SafeTip /\ Margin' = Margin
  BY <1>1 DEF SafeTip, Margin
<1>3. PICK found \in scan[s].batch :
        /\ stored' = [stored EXCEPT ![found[1]] = found[2]]
        /\ Move(s, "store", scan[s].batch \ {found})
  BY DEF PersistTransfer
<1>4. found \in Rows \X Blocks
  BY <1>3 DEF IndInv, TypeOK, Scans
<1>5. /\ stored'[found[1]] # 0
      /\ \A r \in Rows : stored[r] # 0 => stored'[r] # 0
  BY <1>3, <1>4 DEF IndInv, TypeOK, Blocks
<1>6. /\ scan'[s] = Scan("store", scan[s].latest, scan[s].next, scan[s].chunk, scan[s].good,
                         scan[s].batch \ {found})
      /\ \A t \in Scanners \ {s} : scan'[t] = scan[t]
  BY <1>3, Becoming DEF IndInv, Move
<1>7. /\ scan'[s].pc = "store" /\ scan'[s].latest = scan[s].latest /\ scan'[s].next = scan[s].next
      /\ scan'[s].chunk = scan[s].chunk /\ scan'[s].batch = scan[s].batch \ {found}
  BY <1>6 DEF Scan
<1>8. Within(s)'
  BY <1>1, <1>2, <1>7 DEF ScanSound, Within, Working, At
<1>9. BeforeStored(s)'
  BY <1>1, <1>2, <1>5, <1>7 DEF ScanSound, BeforeStored, FinalFor, Working, At
<1>10. ToBlock(s)' = ToBlock(s)
  BY <1>7 DEF ToBlock
<1>11. ASSUME NEW r \in Rows, FinalFor(s, r)',
              height[r[2]] >= scan[s].next, height[r[2]] <= ToBlock(s)
       PROVE  stored'[r] # 0 \/ <<r, height[r[2]]>> \in scan[s].batch \ {found}
  <2>1. HasRead(s, r) /\ FinalFor(s, r)
    BY <1>1, <1>2, <1>7, <1>11 DEF HasRead, At, FinalFor
  <2>2. stored[r] # 0 \/ <<r, height[r[2]]>> \in scan[s].batch
    BY <1>1, <1>11, <2>1 DEF ScanSound, ReadKept
  <2>3. <<r, height[r[2]]>> = found => stored'[r] # 0
    BY <1>5
  <2>4. QED  BY <1>5, <2>2, <2>3
<1>12. ReadKept(s)'
  BY <1>1, <1>7, <1>10, <1>11 DEF ReadKept
<1>13. CursorCovers'
  BY <1>1, <1>5, CoveredStays DEF IndInv
<1>14. QED  BY <1>1, <1>2, <1>5, <1>6, <1>8, <1>9, <1>12, <1>13, OneScan DEF IndInv, ScanSound

\* The cursor moves when the batch is empty: all final blocks up to it are stored.
LEMMA SaveStep ==
  ASSUME IndInv, TypeOK', NEW s \in Scanners, SaveCursor(s)
  PROVE  IndInv'
<1>1. /\ UNCHANGED <<tip, height, reach, stored>> /\ cursor' = ToBlock(s)
      /\ At(s, "store") /\ scan[s].batch = {} /\ ScanSound(s) /\ NextRange(s)
  BY DEF SaveCursor, IndInv
<1>2. SafeTip' = SafeTip /\ Margin' = Margin
  BY <1>1 DEF SafeTip, Margin
<1>3. /\ scan[s].latest <= SafeTip /\ scan[s].latest \in Nat /\ SafeTip \in Nat
      /\ ToBlock(s) \in Int /\ ToBlock(s) <= scan[s].latest /\ scan[s].next \in Nat
  BY <1>1, Numbers DEF IndInv, ScanSound, Within
<1>4. ASSUME NEW r \in Rows, FinalFor(s, r), height[r[2]] <= ToBlock(s)
      PROVE  stored[r] # 0
  <2>1. Working(s) /\ HasRead(s, r) /\ height[r[2]] \in Nat
    BY <1>1, Numbers DEF At, Working, HasRead, IndInv
  <2>2. CASE height[r[2]] < scan[s].next
    BY <1>1, <1>4, <2>1, <2>2 DEF ScanSound, BeforeStored
  <2>3. CASE height[r[2]] >= scan[s].next
    BY <1>1, <1>4, <2>1, <2>3 DEF ScanSound, ReadKept
  <2>4. QED  BY <1>3, <2>1, <2>2, <2>3
<1>5. CursorCovers'
  <2>1. ASSUME NEW r \in Rows,
               height[r[2]] \in StartBlock..(IF reach <= Depth THEN ToBlock(s) ELSE ToBlock(s) - Rewind)
        PROVE  stored[r] # 0
    <3>1. FinalFor(s, r) /\ height[r[2]] <= ToBlock(s)
      BY <1>3, <2>1, Numbers DEF FinalFor, IndInv
    <3>2. QED  BY <1>4, <3>1
  <2>2. QED  BY <1>1, <2>1 DEF CursorCovers
<1>6. scan' = [scan EXCEPT ![s] = scan'[s]] /\ ScanSound(s)'
  <2>1. CASE Stop(s)
    <3>1. scan'[s] = Idle /\ scan' = [scan EXCEPT ![s] = Idle]
      BY <2>1, Becoming DEF Stop, Become, IndInv
    <3>2. QED  BY <1>1, <3>1, IdleSound DEF IndInv
  <2>2. CASE /\ ToBlock(s) # scan[s].latest
             /\ \E chunk, good : Become(s, Scan("inflows", scan[s].latest, ToBlock(s) + 1, chunk, good, {}))
    <3>1. PICK chunk, good : Become(s, Scan("inflows", scan[s].latest, ToBlock(s) + 1, chunk, good, {}))
      BY <2>2
    <3>2. /\ scan'[s] = Scan("inflows", scan[s].latest, ToBlock(s) + 1, chunk, good, {})
          /\ scan' = [scan EXCEPT ![s] = scan'[s]]
      BY <3>1, Becoming DEF Become, IndInv
    <3>3. scan'[s].pc = "inflows" /\ scan'[s].latest = scan[s].latest /\ scan'[s].next = ToBlock(s) + 1
      BY <3>2 DEF Scan
    <3>4. Within(s)'
      BY <1>2, <1>3, <2>2, <3>3 DEF Within
    <3>5. BeforeStored(s)'
      <4>1. ASSUME NEW r \in Rows, FinalFor(s, r)', height[r[2]] < ToBlock(s) + 1 PROVE stored[r] # 0
        <5>1. height[r[2]] \in Nat
          BY Numbers DEF IndInv
        <5>2. FinalFor(s, r)
          BY <1>1, <1>2, <3>3, <4>1 DEF FinalFor
        <5>3. QED  BY <1>3, <1>4, <4>1, <5>1, <5>2
      <4>2. QED  BY <1>1, <3>3, <4>1 DEF BeforeStored
    <3>6. ReadKept(s)'
      BY <3>3 DEF ReadKept, HasRead
    <3>7. QED  BY <3>2, <3>4, <3>5, <3>6 DEF ScanSound
  <2>3. QED  BY <1>1, <2>1, <2>2 DEF NextRange
<1>7. \A t \in Scanners \ {s} : scan'[t] = scan[t]
  BY <1>6 DEF IndInv, TypeOK
<1>8. QED  BY <1>1, <1>2, <1>3, <1>5, <1>6, <1>7, OneScan DEF IndInv

LEMMA StepInd == IndInv /\ [Next]_vars => IndInv'
<1> SUFFICES ASSUME IndInv, [Next]_vars PROVE IndInv'
  OBVIOUS
<1>0. TypeOK'
  BY StepType DEF IndInv
<1>1. CASE NewBlock \/ \E fork \in 0..MaxTip : Reorganize(fork)
  BY <1>1, ChainStep
<1>2. ASSUME NEW s \in Scanners, TakeTip(s) PROVE IndInv'
  BY <1>0, <1>2, StopStep DEF TakeTip
<1>3. ASSUME NEW s \in Scanners, ReadCursor(s) PROVE IndInv'
  BY <1>0, <1>3, ReadCursorStep
<1>4. ASSUME NEW s \in Scanners, ReadInflows(s) \/ ReadOutflows(s) PROVE IndInv'
  BY <1>0, <1>4, ReadStep
<1>5. ASSUME NEW s \in Scanners, RangeRejected(s) \/ RateLimited(s) PROVE IndInv'
  BY <1>0, <1>5, ReduceStep DEF RangeRejected, RateLimited, At, Working
<1>6. ASSUME NEW s \in Scanners, PersistTransfer(s) PROVE IndInv'
  BY <1>0, <1>6, PersistStep
<1>7. ASSUME NEW s \in Scanners, SaveCursor(s) PROVE IndInv'
  BY <1>0, <1>7, SaveStep
<1>8. ASSUME NEW s \in Scanners, ScanFails(s) PROVE IndInv'
  BY <1>0, <1>8, StopStep DEF ScanFails
<1>9. CASE ResetCursor
  <2>1. UNCHANGED <<tip, height, reach, stored, scan>> /\ cursor' = NoCursor
    BY <1>9 DEF ResetCursor
  <2>2. SafeTip' = SafeTip /\ Margin' = Margin /\ SafeTip \in Nat
    BY <2>1, Numbers DEF SafeTip, Margin, IndInv
  <2>3. \A s \in Scanners : ScanSound(s)'
    BY <2>1, <2>2 DEF IndInv, ScanSound, Within, BeforeStored, ReadKept, Working, HasRead, FinalFor, ToBlock
  <2>4. CursorCovers'
    <3>1. \A r \in Rows : height[r[2]] \notin StartBlock..(IF reach <= Depth THEN NoCursor ELSE NoCursor - Rewind)
      BY DEF NoCursor
    <3>2. QED  BY <2>1, <3>1 DEF CursorCovers
  <2>5. QED  BY <1>0, <2>1, <2>2, <2>3, <2>4 DEF IndInv, NoCursor
<1>10. CASE UNCHANGED vars
  <2>1. UNCHANGED <<tip, height, reach, cursor, stored, scan>>
    BY <1>10 DEF vars
  <2>2. SafeTip' = SafeTip /\ Margin' = Margin
    BY <2>1 DEF SafeTip, Margin
  <2>3. QED
    BY <1>0, <2>1, <2>2 DEF IndInv, CursorCovers, ScanSound, Within, BeforeStored, ReadKept,
                            Working, HasRead, FinalFor, ToBlock
<1>11. QED
  BY <1>1, <1>2, <1>3, <1>4, <1>5, <1>6, <1>7, <1>8, <1>9, <1>10 DEF Next, ScanStep

\* No transfer is lost behind the cursor, whatever scans overlap, fail or are
\* rejected and whatever the chain does above the rewind.
THEOREM NothingLostBehindCursor == Spec => []CursorCovers
<1>1. IndInv => CursorCovers
  BY DEF IndInv
<1>2. QED  BY InitInd, StepInd, <1>1, PTL DEF Spec

(***************************************************************************)
(* What is stored is on the chain, if reorganizations stop at the          *)
(* confirmation depth: blocks up to the safe tip are final then, and rows  *)
(* come from a batch, which was read below the safe tip.                   *)
(***************************************************************************)
RowsCanonical ==
  \A r \in Rows : stored[r] # 0 => stored[r] = height[r[2]] /\ stored[r] <= SafeTip

BatchCanonical(s) ==
  \A found \in scan[s].batch : found[2] = height[found[1][2]] /\ found[2] <= SafeTip

CanonInv ==
  /\ IndInv
  /\ reach <= Depth => RowsCanonical /\ \A s \in Scanners : BatchCanonical(s)

LEMMA InitCanon == Init => CanonInv
<1> SUFFICES ASSUME Init PROVE CanonInv
  OBVIOUS
<1>1. RowsCanonical /\ \A s \in Scanners : BatchCanonical(s)
  BY DEF Init, RowsCanonical, BatchCanonical, Idle, Scan
<1>2. QED  BY <1>1, InitInd DEF CanonInv

\* The batches of a step that leaves the chain alone, but for one scanner's.
LEMMA OneBatch ==
  ASSUME UNCHANGED <<tip, height, reach>>, NEW s \in Scanners,
         \A t \in Scanners : BatchCanonical(t),
         \A t \in Scanners \ {s} : scan'[t] = scan[t],
         \A found \in scan'[s].batch : found[2] = height[found[1][2]] /\ found[2] <= SafeTip
  PROVE  \A t \in Scanners : BatchCanonical(t)'
<1>1. SafeTip' = SafeTip
  BY DEF SafeTip
<1>2. QED  BY <1>1 DEF BatchCanonical

LEMMA RowsStay ==
  ASSUME UNCHANGED <<tip, height, reach, stored>>, RowsCanonical
  PROVE  RowsCanonical'
<1>1. SafeTip' = SafeTip
  BY DEF SafeTip
<1>2. QED  BY <1>1 DEF RowsCanonical

\* A scanner that empties its batch.
LEMMA EmptyBatch ==
  ASSUME CanonInv, UNCHANGED <<tip, height, reach, stored>>, NEW s \in Scanners,
         NEW pc, NEW latest, NEW next, NEW chunk, NEW good,
         Become(s, Scan(pc, latest, next, chunk, good, {}))
  PROVE  reach' <= Depth => RowsCanonical' /\ \A t \in Scanners : BatchCanonical(t)'
<1> SUFFICES ASSUME reach <= Depth PROVE RowsCanonical' /\ \A t \in Scanners : BatchCanonical(t)'
  OBVIOUS
<1>1. /\ scan'[s] = Scan(pc, latest, next, chunk, good, {})
      /\ \A t \in Scanners \ {s} : scan'[t] = scan[t]
  BY Becoming DEF CanonInv, IndInv
<1>2. scan'[s].batch = {}
  BY <1>1 DEF Scan
<1>3. QED  BY <1>1, <1>2, OneBatch, RowsStay DEF CanonInv

LEMMA ChainCanon ==
  ASSUME CanonInv, NewBlock \/ \E fork \in 0..MaxTip : Reorganize(fork)
  PROVE  reach' <= Depth => RowsCanonical' /\ \A t \in Scanners : BatchCanonical(t)'
<1>0. TypeOK /\ TypeOK'
  BY StepType DEF CanonInv, IndInv, Next
<1>1. /\ SafeTip <= SafeTip'
      /\ \A l \in Logs : \A b \in 1..(SafeTip - Margin) : height[l] = b <=> height'[l] = b
      /\ UNCHANGED <<reach, cursor, stored, scan>>
  BY <1>0, ChainFinal
<1> SUFFICES ASSUME reach <= Depth PROVE RowsCanonical' /\ \A t \in Scanners : BatchCanonical(t)'
  BY <1>1
<1>2. SafeTip \in Nat /\ SafeTip' \in Int /\ Margin = 0
  <2>1. SafeTip' \in Int
    BY <1>0 DEF TypeOK, SafeTip
  <2>2. QED  BY <1>0, <2>1, Numbers
<1>3. \A l \in Logs : \A b \in Nat \ {0} : height[l] = b /\ b <= SafeTip => height'[l] = b
  BY <1>1, <1>2
<1>4. RowsCanonical'
  <2>1. \A r \in Rows : stored[r] \in Nat /\ r[2] \in Logs
    BY <1>0, RowLog DEF TypeOK
  <2>2. QED  BY <1>1, <1>2, <1>3, <2>1 DEF CanonInv, RowsCanonical
<1>5. ASSUME NEW t \in Scanners PROVE BatchCanonical(t)'
  <2>1. \A found \in scan[t].batch : found[2] \in Nat \ {0} /\ found[1][2] \in Logs
    BY <1>0, RowLog DEF TypeOK, Scans, Blocks
  <2>2. \A found \in scan[t].batch : found[2] = height'[found[1][2]] /\ found[2] <= SafeTip'
    BY <1>1, <1>2, <1>3, <2>1 DEF CanonInv, BatchCanonical
  <2>3. QED  BY <1>1, <2>2 DEF BatchCanonical
<1>6. QED  BY <1>4, <1>5

LEMMA StepCanon == CanonInv /\ [Next]_vars => CanonInv'
<1> SUFFICES ASSUME CanonInv, [Next]_vars PROVE CanonInv'
  OBVIOUS
<1>0. IndInv'
  BY StepInd DEF CanonInv
<1> DEFINE Kept == reach <= Depth => RowsCanonical /\ \A t \in Scanners : BatchCanonical(t)
<1>1. CASE NewBlock \/ \E fork \in 0..MaxTip : Reorganize(fork)
  BY <1>0, <1>1, ChainCanon DEF CanonInv
<1>2. ASSUME NEW s \in Scanners, TakeTip(s) \/ ReadCursor(s) \/ ScanFails(s) PROVE Kept'
  BY <1>2, EmptyBatch DEF TakeTip, ReadCursor, ScanFails, Stop, Idle
<1>3. ASSUME NEW s \in Scanners, RangeRejected(s) \/ RateLimited(s) \/ SaveCursor(s) PROVE Kept'
  <2>1. UNCHANGED <<tip, height, reach, stored>> /\ (Reduce(s) \/ NextRange(s))
    BY <1>3 DEF RangeRejected, RateLimited, SaveCursor
  <2>2. QED  BY <2>1, EmptyBatch DEF Reduce, NextRange, Stop, Idle
<1>4. ASSUME NEW s \in Scanners, ReadInflows(s) \/ ReadOutflows(s), reach <= Depth
      PROVE  RowsCanonical' /\ \A t \in Scanners : BatchCanonical(t)'
  <2>1. PICK pc, batch :
          /\ Move(s, pc, batch)
          /\ batch \subseteq scan[s].batch \cup Found(s, "INFLOW") \cup Found(s, "OUTFLOW")
    BY <1>4 DEF ReadInflows, ReadOutflows
  <2>2. /\ scan'[s] = Scan(pc, scan[s].latest, scan[s].next, scan[s].chunk, scan[s].good, batch)
        /\ \A t \in Scanners \ {s} : scan'[t] = scan[t]
    BY <2>1, Becoming DEF Move, CanonInv, IndInv
  <2>3. scan'[s].batch = batch
    BY <2>2 DEF Scan
  <2>4. ToBlock(s) <= scan[s].latest /\ ToBlock(s) \in Int /\ SafeTip \in Int /\ scan[s].latest \in Int
        /\ scan[s].latest <= SafeTip /\ scan[s].next \in Int
    BY Numbers DEF CanonInv, IndInv, ScanSound, Within
  <2>5. \A found \in Found(s, "INFLOW") \cup Found(s, "OUTFLOW") :
          found[2] = height[found[1][2]] /\ found[2] <= SafeTip
    BY <2>4 DEF Found, Blocks
  <2>6. \A found \in batch : found[2] = height[found[1][2]] /\ found[2] <= SafeTip
    BY <1>4, <2>1, <2>5 DEF CanonInv, BatchCanonical
  <2>7. UNCHANGED <<tip, height, reach, stored>>
    BY <1>4 DEF ReadInflows, ReadOutflows
  <2>8. QED  BY <1>4, <2>2, <2>3, <2>6, <2>7, OneBatch, RowsStay DEF CanonInv
<1>5. ASSUME NEW s \in Scanners, PersistTransfer(s), reach <= Depth
      PROVE  RowsCanonical' /\ \A t \in Scanners : BatchCanonical(t)'
  <2>1. PICK found \in scan[s].batch :
          /\ stored' = [stored EXCEPT ![found[1]] = found[2]]
          /\ Move(s, "store", scan[s].batch \ {found})
    BY <1>5 DEF PersistTransfer
  <2>2. /\ scan'[s] = Scan("store", scan[s].latest, scan[s].next, scan[s].chunk, scan[s].good,
                           scan[s].batch \ {found})
        /\ \A t \in Scanners \ {s} : scan'[t] = scan[t]
    BY <2>1, Becoming DEF Move, CanonInv, IndInv
  <2>3. scan'[s].batch = scan[s].batch \ {found}
    BY <2>2 DEF Scan
  <2>4. UNCHANGED <<tip, height, reach>>
    BY <1>5 DEF PersistTransfer
  <2>5. found[2] = height[found[1][2]] /\ found[2] <= SafeTip
    BY <1>5 DEF CanonInv, BatchCanonical
  <2>6. found[1] \in Rows
    BY DEF CanonInv, IndInv, TypeOK, Scans
  <2>7. RowsCanonical'
    <3>1. SafeTip' = SafeTip
      BY <2>4 DEF SafeTip
    <3>2. QED  BY <1>5, <2>1, <2>4, <2>5, <2>6, <3>1 DEF CanonInv, IndInv, TypeOK, RowsCanonical
  <2>8. \A f \in scan'[s].batch : f[2] = height[f[1][2]] /\ f[2] <= SafeTip
    BY <1>5, <2>3 DEF CanonInv, BatchCanonical
  <2>9. QED  BY <1>5, <2>2, <2>4, <2>7, <2>8, OneBatch DEF CanonInv
<1>6. ASSUME ResetCursor \/ UNCHANGED vars PROVE Kept'
  <2>1. UNCHANGED <<tip, height, reach, stored, scan>>
    BY <1>6 DEF ResetCursor, vars
  <2>2. SafeTip' = SafeTip
    BY <2>1 DEF SafeTip
  <2>3. QED  BY <2>1, <2>2 DEF CanonInv, RowsCanonical, BatchCanonical
<1>7. UNCHANGED reach \/ NewBlock \/ \E fork \in 0..MaxTip : Reorganize(fork)
  BY DEF Next, ScanStep, TakeTip, ReadCursor, ReadInflows, ReadOutflows, RangeRejected,
         PersistTransfer, SaveCursor, ScanFails, RateLimited, ResetCursor, vars
<1>8. QED
  BY <1>0, <1>1, <1>2, <1>3, <1>4, <1>5, <1>6, <1>7 DEF Next, ScanStep, CanonInv

\* Every row says in which block its transfer is, and it is there, as long as
\* reorganizations do not reach below the confirmation depth.
THEOREM StoredRowsCanonical == Spec => []StoredIsCanonical
<1>1. CanonInv => StoredIsCanonical
  BY DEF CanonInv, RowsCanonical, StoredIsCanonical
<1>2. QED  BY InitCanon, StepCanon, <1>1, PTL DEF Spec
=============================================================================
