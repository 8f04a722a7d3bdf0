------------------------------ MODULE Pairing ------------------------------
(***************************************************************************)
(* pairComplementaryTransferLegs (services/pairingService.ts): in one      *)
(* transaction every unpaired inflow, oldest first, gets the closest free  *)
(* outflow that nobody else has locked.  Scans store and rewrite legs      *)
(* meanwhile; the script, which does not take the lock of synchronization, *)
(* deletes the rows of a wallet's token; and a process whose lock was lost *)
(* with its connection pairs beside another.                               *)
(*                                                                         *)
(* Legs are numbered in the order of their ids.                            *)
(***************************************************************************)
EXTENDS Integers, FiniteSets

CONSTANTS
  Inflows, Outflows,
  Targets,       \* legs of the wallet and token the script is run for
  Data,          \* records of asset, value, time and status
  Books,         \* data the legs may have
  Pairers,       \* processes that pair
  MaxSeized      \* bound on rows that writers hold at a time

Legs == Inflows \cup Outflows
None == 0
Nobody == "nobody"   \* holds no lock
Writer == "writer"   \* a scan or the script

ConstantsOK ==
  /\ Legs \subseteq Nat \ {0}
  /\ Inflows \cap Outflows = {}
  /\ Targets \subseteq Legs
  /\ \A d \in Data : {d.value, d.time} \subseteq Nat
  /\ Books \subseteq [Legs -> Data]
  /\ MaxSeized \in Nat
  /\ {Nobody, Writer} \cap Pairers = {}

VARIABLES
  leg,      \* data of a leg
  present,  \* legs with a row in transfers
  pair,     \* pair_id
  gone,     \* legs the script has deleted at some time
  lock,     \* who holds the lock of a row
  open,     \* pairers whose transaction is open
  todo,     \* inflows a pairer has read and not yet handled
  seen,     \* legs there have been since its transaction began
  match,    \* pairs not yet committed, by whoever holds the lock
  passed    \* outflows that were locked when an inflow was matched

vars == <<leg, present, pair, gone, lock, open, todo, seen, match, passed>>

TypeOK ==
  /\ leg \in [Legs -> Data]
  /\ present \subseteq Legs /\ gone \subseteq Legs
  /\ pair \in [Legs -> Legs \cup {None}] /\ match \in [Legs -> Legs \cup {None}]
  /\ lock \in [Legs -> Pairers \cup {Writer, Nobody}]
  /\ open \subseteq Pairers
  /\ todo \in [Pairers -> SUBSET Inflows] /\ seen \in [Pairers -> SUBSET Legs]
  /\ passed \in [Inflows -> SUBSET Outflows]

Init ==
  /\ leg \in Books
  /\ present = {} /\ gone = {} /\ open = {}
  /\ pair = [l \in Legs |-> None] /\ match = [l \in Legs |-> None]
  /\ lock = [l \in Legs |-> Nobody]
  /\ todo = [p \in Pairers |-> {}] /\ seen = [p \in Pairers |-> {}]
  /\ passed = [i \in Inflows |-> {}]

transactions == <<open, todo, match, passed>>

----------------------------------------------------------------------------
(***************************************************************************)
(* The rows.                                                               *)
(***************************************************************************)
StoreLeg(l) ==
  /\ l \notin present
  /\ present' = present \cup {l}
  /\ UNCHANGED <<leg, pair, gone, lock, seen, transactions>>

\* A scan that stores a leg again, or the script that deletes it, locks its row.
Seize(l) ==
  /\ l \in present /\ lock[l] = Nobody
  /\ Cardinality({k \in Legs : lock[k] = Writer}) < MaxSeized
  /\ lock' = [lock EXCEPT ![l] = Writer]
  /\ UNCHANGED <<leg, present, pair, gone, seen, transactions>>

\* The row is as it was: the same transaction yields the same data and the
\* upsert keeps the pair, or the writer has failed.
LetGo(l) ==
  /\ lock[l] = Writer
  /\ lock' = [lock EXCEPT ![l] = Nobody]
  /\ UNCHANGED <<leg, present, pair, gone, seen, transactions>>

\* --delete-transfers.  Who refers to a deleted row still does.
DeleteLeg(l) ==
  /\ lock[l] = Writer
  /\ lock' = [lock EXCEPT ![l] = Nobody]
  /\ present' = present \ {l}
  /\ pair' = [pair EXCEPT ![l] = None]
  /\ gone' = gone \cup {l}
  /\ seen' = [p \in Pairers |-> seen[p] \ {l}]
  /\ UNCHANGED <<leg, transactions>>

\* pair_id IS NULL AND status = 'CONFIRMED', as committed
Free(l) == l \in present /\ pair[l] = None /\ leg[l].status = "CONFIRMED"

----------------------------------------------------------------------------
(***************************************************************************)
(* The transaction of pairer p.                                            *)
(***************************************************************************)
Distance(a, b) == IF a < b THEN b - a ELSE a - b

\* a sorts before b, component by component.
Before(a, b) ==
  \E k \in DOMAIN a : a[k] < b[k] /\ \A j \in 1..(k - 1) : a[j] = b[j]

\* Mutant of Unpaired: the direction is left out.
UnpairedLegs == {l \in Legs : Free(l)}

\* The inflows a pairing run reads.
Unpaired == {i \in Inflows : Free(i)}

BeginPairing(p) ==
  /\ p \notin open
  /\ open' = open \cup {p}
  /\ todo' = [todo EXCEPT ![p] = Unpaired]
  /\ seen' = [seen EXCEPT ![p] = present]
  /\ UNCHANGED <<leg, present, pair, gone, lock, match, passed>>

\* ORDER BY of the inflows.
ByAge(i) == <<leg[i].time, i>>
Oldest(i, inflows) == i \in inflows /\ \A j \in inflows \ {i} : Before(ByAge(i), ByAge(j))

\* FOR UPDATE waits until nobody holds the row, and drops it if it was deleted
\* or paired meanwhile.
LockInflow(p, i) ==
  /\ Oldest(i, {j \in todo[p] : lock[j] # p})
  /\ lock[i] = Nobody
  /\ IF i \in seen[p] /\ Free(i)
     THEN lock' = [lock EXCEPT ![i] = p] /\ UNCHANGED todo
     ELSE todo' = [todo EXCEPT ![p] = @ \ {i}] /\ UNCHANGED lock
  /\ UNCHANGED <<leg, present, pair, gone, open, seen, match, passed>>

\* Mutant of Closeness: the sign of the difference is kept, so that the least
\* outflow comes first.
ClosenessSigned(i, o) ==
  <<IF leg[o].asset = leg[i].asset THEN 0 ELSE 1,
    leg[o].value - leg[i].value,
    Distance(leg[o].time, leg[i].time), leg[o].time, o>>

\* ORDER BY of the outflows for inflow i.
Closeness(i, o) ==
  <<IF leg[o].asset = leg[i].asset THEN 0 ELSE 1,
    Distance(leg[o].value, leg[i].value),
    Distance(leg[o].time, leg[i].time), leg[o].time, o>>

\* SKIP LOCKED
Available(o) == Free(o) /\ lock[o] = Nobody

Closest(i, o) ==
  /\ Available(o)
  /\ \A x \in Outflows \ {o} : Available(x) => Before(Closeness(i, o), Closeness(i, x))

\* Once all inflows are locked: the oldest of the rest gets an outflow, or is
\* left over if none is available.
MatchNext(p, i) ==
  /\ \A j \in todo[p] : lock[j] = p
  /\ Oldest(i, todo[p])
  /\ \/ \E o \in Outflows :
          /\ Closest(i, o)
          /\ match' = [match EXCEPT ![i] = o, ![o] = i]
          /\ lock' = [lock EXCEPT ![o] = p]
     \/ (\A o \in Outflows : ~Available(o)) /\ UNCHANGED <<match, lock>>
  /\ todo' = [todo EXCEPT ![p] = @ \ {i}]
  /\ passed' = [passed EXCEPT ![i] = {o \in Outflows : lock[o] \notin {Nobody, p}}]
  /\ UNCHANGED <<leg, present, pair, gone, open, seen>>

\* Whatever p has locked is free again.
EndPairing(p) ==
  LET mine == {l \in Legs : lock[l] = p}
  IN /\ p \in open
     /\ open' = open \ {p}
     /\ lock' = [l \in Legs |-> IF l \in mine THEN Nobody ELSE lock[l]]
     /\ match' = [l \in Legs |-> IF l \in mine THEN None ELSE match[l]]
     /\ passed' = [i \in Inflows |-> IF i \in mine THEN {} ELSE passed[i]]
     /\ todo' = [todo EXCEPT ![p] = {}] /\ seen' = [seen EXCEPT ![p] = {}]
     /\ UNCHANGED <<leg, present, gone>>

Commit(p) ==
  /\ todo[p] = {}
  /\ EndPairing(p)
  /\ pair' = [l \in Legs |-> IF lock[l] = p /\ match[l] # None THEN match[l] ELSE pair[l]]

\* An error, a deadlock with the script, or a crash.
RollBack(p) == EndPairing(p) /\ UNCHANGED pair

Next ==
  \/ \E l \in Legs : StoreLeg(l) \/ Seize(l) \/ LetGo(l)
  \/ \E l \in Targets : DeleteLeg(l)
  \/ \E p \in Pairers :
       \/ BeginPairing(p) \/ Commit(p) \/ RollBack(p)
       \/ \E i \in Inflows : LockInflow(p, i) \/ MatchNext(p, i)

Spec == Init /\ [][Next]_vars

----------------------------------------------------------------------------
Opposite(a, b) == a \in Inflows <=> b \in Outflows

\* "writes a bidirectional pair inside one database transaction" and "failed
\* transactions ... cannot be paired" (indexing.mdx:31, solana.mdx:18): pairs
\* are mutual, of opposite directions and confirmed.  Only a leg the script has
\* deleted leaves its partner behind with a pair_id that is not returned.
PairsMutual ==
  \A l \in Legs : pair[l] # None =>
    /\ Opposite(l, pair[l])
    /\ leg[l].status = "CONFIRMED" /\ leg[pair[l]].status = "CONFIRMED"
    /\ pair[pair[l]] = l \/ pair[l] \in gone

\* An outflow fits an inflow better than another if only the one has its asset,
\* or if the one's value differs less.
FitsBetter(i, x, o) ==
  LET other(l) == leg[l].asset # leg[i].asset
      gap(l) == Distance(leg[l].value, leg[i].value)
  IN \/ ~other(x) /\ other(o)
     \/ (other(x) <=> other(o)) /\ gap(x) < gap(o)

\* "Match each confirmed inflow with the closest available confirmed outflow"
\* (services/pairingService.ts:15): of the outflows there were from the beginning
\* of the transaction and still are free, none fits an inflow better than the
\* one it was given, and no inflow is left over beside one, unless another had
\* that outflow locked at the inflow's turn.
MatchStable ==
  \A p \in open :
    \A i \in Inflows \ todo[p], x \in seen[p] \cap Outflows :
      lock[i] = p /\ Free(x) /\ lock[x] # p /\ x \notin passed[i]
        => match[i] # None /\ ~FitsBetter(i, x, match[i])

\* Pairing as its documents describe it.
PairsSound == PairsMutual /\ MatchStable
=============================================================================
