--------------------------- MODULE SolanaIndexer ---------------------------
(***************************************************************************)
(* Indexing the transfers of one Solana wallet (indexers/solanaIndexer.ts):*)
(* a scan reads the cursor of its filter, collects every newer signature   *)
(* page by page, newest first, handles them oldest first, and then moves   *)
(* the cursor to the newest.  A synchronization run scans all supported    *)
(* mints under its lock; the targeted script (scripts/syncContract.ts)     *)
(* scans one mint, with a cursor of its own and without the lock.          *)
(*                                                                         *)
(* A signature is its position in the wallet's history, 1 the oldest.      *)
(***************************************************************************)
EXTENDS Integers

CONSTANTS
  Mints,      \* SOLANA_TOKENS
  All,        \* the cursor without a mint: "all-supported-mints"
  Sync,       \* the scan of a synchronization run
  Scripts,    \* scans of the script
  Targets,    \* the mints the script is run for
  Limit,      \* SOLANA_SIGNATURE_LIMIT
  MaxPages,   \* SOLANA_MAX_SIGNATURE_PAGES
  MaxSigs     \* bound on the wallet's history

\* The history fits the pages a scan may fetch.
ConstantsOK ==
  /\ All \notin Mints /\ Targets \subseteq Mints
  /\ Sync \notin Scripts
  /\ {Limit, MaxPages} \subseteq Nat \ {0} /\ MaxSigs \in 0..(MaxPages * Limit)

Scanners == Scripts \cup {Sync}
Signatures == 1..MaxSigs
Filters == Targets \cup {All}
Wanted(filter) == IF filter = All THEN Mints ELSE {filter}

VARIABLES
  latest,    \* the newest signature of the wallet, 0 before the first
  moved,     \* supported mints whose balance of the wallet a signature changed
  cursor,    \* sync_state by filter, 0 while absent
  rows,      \* transfers
  failure,   \* indexer_failures by signature
  deleted,   \* mints whose rows the script has deleted
  pc, filter,   \* where a scan is, and what it looks for
  from, top,    \* its stored cursor and the newest signature it fetched
  at,           \* the oldest fetched so far; later the one in hand
  left          \* mints of the one in hand that are not stored yet

locals == <<pc, filter, from, top, at, left>>
vars == <<latest, moved, cursor, rows, failure, deleted, locals>>

Steps == {"idle", "page", "load", "store", "resolve", "save"}

TypeOK ==
  /\ latest \in 0..MaxSigs
  /\ moved \in [Signatures -> SUBSET Mints]
  /\ cursor \in [Filters -> 0..MaxSigs]
  /\ rows \subseteq Signatures \X Mints
  /\ failure \in [Signatures -> {"none", "open", "resolved"}]
  /\ deleted \subseteq Targets
  /\ pc \in [Scanners -> Steps]
  /\ filter \in [Scanners -> Filters]
  /\ from \in [Scanners -> 0..MaxSigs] /\ top \in [Scanners -> 0..MaxSigs]
  /\ at \in [Scanners -> 0..(MaxSigs + 1)]
  /\ left \in [Scanners -> SUBSET Mints]

Init ==
  /\ latest = 0
  /\ moved = [s \in Signatures |-> {}]
  /\ cursor = [f \in Filters |-> 0]
  /\ rows = {}
  /\ failure = [s \in Signatures |-> "none"]
  /\ deleted = {}
  /\ pc = [p \in Scanners |-> "idle"]
  /\ filter = [p \in Scanners |-> All]
  /\ from = [p \in Scanners |-> 0] /\ top = [p \in Scanners |-> 0]
  /\ at = [p \in Scanners |-> 0]
  /\ left = [p \in Scanners |-> {}]

NewSignature ==
  /\ latest < MaxSigs
  /\ latest' = latest + 1
  /\ \E mints \in SUBSET Mints : moved' = [moved EXCEPT ![latest + 1] = mints]
  /\ UNCHANGED <<cursor, rows, failure, deleted, locals>>

----------------------------------------------------------------------------
(***************************************************************************)
(* syncSolanaWallet.                                                       *)
(***************************************************************************)
ToStep(p, step) == pc' = [pc EXCEPT ![p] = step]

\* A scan that is over keeps nothing.
Stop(p) ==
  /\ ToStep(p, "idle")
  /\ filter' = [filter EXCEPT ![p] = All]
  /\ from' = [from EXCEPT ![p] = 0] /\ top' = [top EXCEPT ![p] = 0]
  /\ at' = [at EXCEPT ![p] = 0]
  /\ left' = [left EXCEPT ![p] = {}]

\* The stored cursor is read.
Start(p, f) ==
  /\ pc[p] = "idle"
  /\ f = All <=> p = Sync
  /\ ToStep(p, "page")
  /\ filter' = [filter EXCEPT ![p] = f]
  /\ from' = [from EXCEPT ![p] = cursor[f]]
  /\ UNCHANGED <<latest, moved, cursor, rows, failure, deleted, top, at, left>>

\* Of the next page: its newest signature (the provider answers what is older
\* than `before` and newer than `until`), its size, and the newest of all.
PageTop(p) == IF top[p] = 0 THEN latest ELSE at[p] - 1
PageSize(p) == IF PageTop(p) - from[p] < Limit THEN PageTop(p) - from[p] ELSE Limit
NewestFetched(p) == IF top[p] = 0 THEN latest ELSE top[p]

\* Mutant of LastPage: the first page is taken for everything.
OnePage(p) == TRUE

\* An empty or a short page is the last, and so is the last that is allowed.
LastPage(p) ==
  \/ PageSize(p) < Limit
  \/ NewestFetched(p) - PageTop(p) + Limit = MaxPages * Limit

FetchPage(p) ==
  /\ pc[p] = "page"
  /\ ~LastPage(p)
  /\ top' = [top EXCEPT ![p] = NewestFetched(p)]
  /\ at' = [at EXCEPT ![p] = PageTop(p) - PageSize(p) + 1]
  /\ UNCHANGED <<latest, moved, cursor, rows, failure, deleted, pc, filter, from, left>>

\* The signatures are reversed: the oldest is handled first.
FetchLastPage(p) ==
  /\ pc[p] = "page"
  /\ LastPage(p)
  /\ NewestFetched(p) > from[p]
  /\ ToStep(p, "load")
  /\ top' = [top EXCEPT ![p] = NewestFetched(p)]
  /\ at' = [at EXCEPT ![p] = PageTop(p) - PageSize(p) + 1]
  /\ UNCHANGED <<latest, moved, cursor, rows, failure, deleted, filter, from, left>>

NothingNew(p) ==
  /\ pc[p] = "page"
  /\ NewestFetched(p) = from[p]
  /\ Stop(p)
  /\ UNCHANGED <<latest, moved, cursor, rows, failure, deleted>>

NextSignature(p) ==
  /\ at' = [at EXCEPT ![p] = IF at[p] < top[p] THEN @ + 1 ELSE @]
  /\ ToStep(p, IF at[p] < top[p] THEN "load" ELSE "save")

\* getParsedTransaction answers null: the signature is filed as a failure.
FileFailure(p) ==
  /\ pc[p] = "load"
  /\ failure' = [failure EXCEPT ![at[p]] = "open"]
  /\ NextSignature(p)
  /\ UNCHANGED <<latest, moved, cursor, rows, deleted, filter, from, top, left>>

\* The transaction is there; only supported mints the wallet's balance of
\* which changed, and which the filter admits, are stored.
LoadTransaction(p) ==
  LET found == moved[at[p]] \cap Wanted(filter[p])
  IN /\ pc[p] = "load"
     /\ left' = [left EXCEPT ![p] = found]
     /\ IF found = {} THEN NextSignature(p) ELSE ToStep(p, "store") /\ UNCHANGED at
     /\ UNCHANGED <<latest, moved, cursor, rows, failure, deleted, filter, from, top>>

\* storeTransfer: an upsert, so storing again changes nothing.
StoreTransfer(p) ==
  /\ pc[p] = "store"
  /\ \E m \in left[p] :
       /\ rows' = rows \cup {<<at[p], m>>}
       /\ left' = [left EXCEPT ![p] = @ \ {m}]
  /\ ToStep(p, "resolve")
  /\ UNCHANGED <<latest, moved, cursor, failure, deleted, filter, from, top, at>>

\* The failure of the signature, if there is one, is resolved after each mint.
ResolveFailure(p) ==
  /\ pc[p] = "resolve"
  /\ failure' = [failure EXCEPT ![at[p]] = IF @ = "open" THEN "resolved" ELSE @]
  /\ IF left[p] = {} THEN NextSignature(p) ELSE ToStep(p, "store") /\ UNCHANGED at
  /\ UNCHANGED <<latest, moved, cursor, rows, deleted, filter, from, top, left>>

\* saveStoredSignature
SaveCursor(p) ==
  /\ pc[p] = "save"
  /\ cursor' = [cursor EXCEPT ![filter[p]] = top[p]]
  /\ Stop(p)
  /\ UNCHANGED <<latest, moved, rows, failure, deleted>>

\* A call fails after its retries, a transaction has no block time or no
\* metadata, or the process ends: the cursor stays where it is.
ScanFails(p) ==
  /\ pc[p] # "idle"
  /\ Stop(p)
  /\ UNCHANGED <<latest, moved, cursor, rows, failure, deleted>>

----------------------------------------------------------------------------
\* prepareSolanaSync --delete-transfers, before the scan of the script.  Its
\* --reset deletes a key that no scan reads ("newest-indexed-signature") and
\* changes nothing.
DeleteTransfers(m) ==
  /\ \E p \in Scripts : pc[p] = "idle"
  /\ rows' = {r \in rows : r[2] # m}
  /\ deleted' = deleted \cup {m}
  /\ UNCHANGED <<latest, moved, cursor, failure, locals>>

ScanStep(p) ==
  \/ \E f \in Filters : Start(p, f)
  \/ FetchPage(p) \/ FetchLastPage(p) \/ NothingNew(p)
  \/ FileFailure(p) \/ LoadTransaction(p) \/ StoreTransfer(p)
  \/ ResolveFailure(p) \/ SaveCursor(p) \/ ScanFails(p)

Next ==
  \/ NewSignature
  \/ \E p \in Scanners : ScanStep(p)
  \/ \E m \in Targets : DeleteTransfers(m)

Spec == Init /\ [][Next]_vars

----------------------------------------------------------------------------
\* What accounts for a mint of a signature: its row, an open failure, or a
\* failure that was resolved for another mint of the same transaction.
Accounted(s, m) ==
  \/ <<s, m>> \in rows \/ m \in deleted
  \/ failure[s] = "open"
  \/ failure[s] = "resolved" /\ moved[s] # {m}

\* "indexer_failures prevents silent loss" (docs/internal/technical-audit.md:28):
\* behind the cursor of a filter every transfer it admits is stored or filed as
\* an open failure, whatever scans overlapped or broke off.  The exception is
\* a transaction of two mints: a scan of one of them resolves the failure, and
\* the other is then neither stored nor listed.
NoSilentLoss ==
  \A f \in Filters, s \in Signatures :
    s <= cursor[f] => \A m \in moved[s] \cap Wanted(f) : Accounted(s, m)
=============================================================================
