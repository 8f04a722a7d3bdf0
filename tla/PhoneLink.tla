----------------------------- MODULE PhoneLink -----------------------------
(***************************************************************************)
(* Phone numbers of consumers (consumer/phoneAuth.ts).  A challenge is     *)
(* started and verified without an account; a signed-in identity then      *)
(* links the phone and gets its account row, unless it saved its profile   *)
(* before and has one.  Starting and linking are statements without a      *)
(* transaction; only verification locks.                                   *)
(*                                                                         *)
(* An identity is a pair of subject and wallet: a subject may sign in with *)
(* several wallets, and a wallet may be claimed by several subjects.  A    *)
(* challenge is named by the request that started it.                      *)
(***************************************************************************)
EXTENDS Integers

CONSTANTS
  Phones, Identities,
  Starts, Links,         \* requests
  MaxAttempts,           \* consumer_phone_challenges.max_attempts, 5
  None                   \* an absent value

SubjectOf(a) == a[1]
WalletOf(a) == a[2]
Subjects == {SubjectOf(a) : a \in Identities}
Wallets == {WalletOf(a) : a \in Identities}

ConstantsOK ==
  /\ Identities \subseteq Subjects \X Wallets
  /\ MaxAttempts \in Nat \ {0}
  /\ Starts \cap Links = {}
  /\ None \notin Phones /\ None \notin Identities
  /\ None \notin Subjects /\ None \notin Wallets

VARIABLES
  phone, state,  \* of a challenge, from the start of its request; its row
  attempts,
  cooled,        \* resend_available_at has passed
  expired,       \* expires_at has passed
  before,        \* challenges of the phone when a start invalidated them
  link,          \* consumer_phone_links by phone
  account,       \* consumer_accounts: the wallet of a subject
  profiled,      \* subjects whose account row is as saveProfile inserted it
  pc,            \* where a request is
  who, what,     \* its identity and its phone
  broken         \* subjects with a link request that ended before its last write

challenges == <<phone, state, attempts, cooled, expired, before>>
tables == <<link, account, profiled, broken>>
vars == <<challenges, tables, pc, who, what>>

Requests == Starts \cup Links

TypeOK ==
  /\ phone \in [Starts -> Phones \cup {None}]
  /\ state \in [Starts -> {"none", "live", "consumed", "invalidated"}]
  /\ attempts \in [Starts -> 0..MaxAttempts]
  /\ cooled \in [Starts -> BOOLEAN] /\ expired \in [Starts -> BOOLEAN]
  /\ before \in [Starts -> SUBSET Starts]
  /\ link \in [Phones -> Identities \cup {None}]
  /\ account \in [Subjects -> Wallets \cup {None}]
  /\ profiled \subseteq Subjects
  /\ pc \in [Requests -> {"new", "update", "insert", "upsert", "over"}]
  /\ who \in [Links -> Identities \cup {None}]
  /\ what \in [Links -> Phones \cup {None}]
  /\ broken \subseteq Subjects

Init ==
  /\ phone = [c \in Starts |-> None] /\ state = [c \in Starts |-> "none"]
  /\ attempts = [c \in Starts |-> 0]
  /\ cooled = [c \in Starts |-> FALSE] /\ expired = [c \in Starts |-> FALSE]
  /\ before = [c \in Starts |-> {}]
  /\ link = [p \in Phones |-> None]
  /\ account = [s \in Subjects |-> None] /\ profiled = {}
  /\ pc = [r \in Requests |-> "new"]
  /\ who = [r \in Links |-> None] /\ what = [r \in Links |-> None]
  /\ broken = {}

ToStep(r, step) == pc' = [pc EXCEPT ![r] = step]

----------------------------------------------------------------------------
(***************************************************************************)
(* startPhoneChallenge and verifyPhoneChallenge.                           *)
(***************************************************************************)
Of(p, states) == {c \in Starts : phone[c] = p /\ state[c] \in states}

\* The latest challenge that is not invalidated must be a minute old.
Start(c, p) ==
  /\ pc[c] = "new"
  /\ \A d \in Of(p, {"live", "consumed"}) : cooled[d]
  /\ phone' = [phone EXCEPT ![c] = p]
  /\ ToStep(c, "update")
  /\ UNCHANGED <<state, attempts, cooled, expired, before, tables, who, what>>

\* Mutant of InvalidateOthers: the UPDATE is left out.
InvalidateNone(c) ==
  /\ pc[c] = "update"
  /\ before' = [before EXCEPT ![c] = Of(phone[c], {"live", "consumed", "invalidated"})]
  /\ ToStep(c, "insert")
  /\ UNCHANGED <<phone, state, attempts, cooled, expired, tables, who, what>>

InvalidateOthers(c) ==
  /\ pc[c] = "update"
  /\ state' = [d \in Starts |-> IF d \in Of(phone[c], {"live"}) THEN "invalidated" ELSE state[d]]
  /\ before' = [before EXCEPT ![c] = Of(phone[c], {"live", "consumed", "invalidated"})]
  /\ ToStep(c, "insert")
  /\ UNCHANGED <<phone, attempts, cooled, expired, tables, who, what>>

\* The message goes out afterwards; when that fails the challenge stays.
InsertChallenge(c) ==
  /\ pc[c] = "insert"
  /\ state' = [state EXCEPT ![c] = "live"]
  /\ ToStep(c, "over")
  /\ UNCHANGED <<phone, attempts, cooled, expired, before, tables, who, what>>

\* A minute passes: what is older has cooled down as well.
Cool(p) ==
  /\ Of(p, {"live", "consumed"}) # {}
  /\ cooled' = [c \in Starts |-> cooled[c] \/ (phone[c] = p /\ state[c] # "none")]
  /\ UNCHANGED <<phone, state, attempts, expired, before, tables, pc, who, what>>

Expire(c) ==
  /\ cooled[c]
  /\ expired' = [expired EXCEPT ![c] = TRUE]
  /\ UNCHANGED <<phone, state, attempts, cooled, before, tables, pc, who, what>>

\* One transaction that locks the challenge.
Verify(c) ==
  /\ state[c] = "live" /\ ~expired[c] /\ attempts[c] < MaxAttempts
  /\ \/ state' = [state EXCEPT ![c] = "consumed"] /\ UNCHANGED attempts
     \/ attempts' = [attempts EXCEPT ![c] = @ + 1] /\ UNCHANGED state
  /\ UNCHANGED <<phone, cooled, expired, before, tables, pc, who, what>>

----------------------------------------------------------------------------
(***************************************************************************)
(* linkVerifiedPhone.                                                      *)
(***************************************************************************)
\* A consumed challenge proves the phone until it expires, to any identity.
BeginLink(l, a, c) ==
  /\ pc[l] = "new"
  /\ state[c] = "consumed" /\ ~expired[c]
  /\ who' = [who EXCEPT ![l] = a]
  /\ what' = [what EXCEPT ![l] = phone[c]]
  /\ ToStep(l, "update")
  /\ UNCHANGED <<challenges, tables>>

\* SELECT of the link: another identity's phone is refused, and so is one that
\* was linked under another auth_method.
CheckLink(l) ==
  /\ pc[l] = "update"
  /\ \/ link[what[l]] = None /\ ToStep(l, "insert")
     \/ link[what[l]] = who[l] /\ ToStep(l, "upsert")
     \/ link[what[l]] # None /\ ToStep(l, "over")
  /\ UNCHANGED <<challenges, tables, who, what>>

\* Mutant of LinkIsFree: the primary key is the only constraint.
PhoneIsFree(p, a) == link[p] = None

\* PRIMARY KEY(phone, client_id) and UNIQUE(client_id, network, wallet).
LinkIsFree(p, a) ==
  link[p] = None /\ \A q \in Phones : link[q] # None => WalletOf(link[q]) # WalletOf(a)

InsertLink(l) ==
  /\ pc[l] = "insert"
  /\ IF LinkIsFree(what[l], who[l])
     THEN link' = [link EXCEPT ![what[l]] = who[l]] /\ ToStep(l, "upsert")
     ELSE UNCHANGED link /\ ToStep(l, "over")
  /\ UNCHANGED <<challenges, account, profiled, broken, who, what>>

\* UNIQUE(client_id, network, wallet) of consumer_accounts.
WalletIsFree(a) == \A s \in Subjects \ {SubjectOf(a)} : account[s] # WalletOf(a)

\* INSERT ... ON CONFLICT(client_id, subject, network) DO UPDATE SET wallet: the
\* wallet of the subject's account is overwritten, and one that another account
\* carries raises 23505, by when the phone is linked.
UpsertAccount(l) ==
  LET s == SubjectOf(who[l])
  IN /\ pc[l] = "upsert"
     /\ IF WalletIsFree(who[l])
        THEN /\ account' = [account EXCEPT ![s] = WalletOf(who[l])]
             /\ profiled' = profiled \ {s}
             /\ UNCHANGED broken
        ELSE broken' = broken \cup {s} /\ UNCHANGED <<account, profiled>>
     /\ ToStep(l, "over")
     /\ UNCHANGED <<challenges, link, who, what>>

\* A statement fails, or the process stops, between two statements.
BreakOff(r) ==
  /\ pc[r] \in {"update", "insert", "upsert"}
  /\ ToStep(r, "over")
  /\ broken' = IF r \in Links THEN broken \cup {SubjectOf(who[r])} ELSE broken
  /\ UNCHANGED <<challenges, link, account, profiled, who, what>>

\* saveProfile, a transaction that asks for no linked phone.  A subject that has
\* a row keeps its wallet (ON CONFLICT DO NOTHING).
SaveProfile(a) ==
  /\ account[SubjectOf(a)] = None /\ WalletIsFree(a)
  /\ account' = [account EXCEPT ![SubjectOf(a)] = WalletOf(a)]
  /\ profiled' = profiled \cup {SubjectOf(a)}
  /\ UNCHANGED <<challenges, link, broken, pc, who, what>>

Next ==
  \/ \E c \in Starts :
       \/ \E p \in Phones : Start(c, p)
       \/ InvalidateOthers(c) \/ InsertChallenge(c) \/ Verify(c) \/ Expire(c)
  \/ \E p \in Phones : Cool(p)
  \/ \E l \in Links :
       \/ \E a \in Identities, c \in Starts : BeginLink(l, a, c)
       \/ CheckLink(l) \/ InsertLink(l) \/ UpsertAccount(l)
  \/ \E a \in Identities : SaveProfile(a)
  \/ \E r \in Requests : BreakOff(r)

Spec == Init /\ [][Next]_vars

----------------------------------------------------------------------------
\* A start invalidates the challenges its phone had: two are live together only
\* if each was inserted after the other's start had invalidated.
OneLiveChallenge ==
  \A c, d \in Starts :
    (c # d /\ state[c] = "live" /\ state[d] = "live" /\ phone[c] = phone[d])
      => c \notin before[d] /\ d \notin before[c]

\* The account of a subject carries the wallet of one of its linked phones.
FollowsLink(s) == \E p \in Phones : link[p] = <<s, account[s]>>

\* A linked phone was verified, and a wallet has one phone and one account.  An
\* account carries the wallet of a phone its subject linked, unless it is the one
\* a profile was saved with before; and once a phone is linked, its subject has
\* such an account, unless a request is about to write it or ended before it did.
LinksSound ==
  /\ \A p \in Phones : link[p] # None => Of(p, {"consumed"}) # {}
  /\ \A p, q \in Phones : p # q /\ link[p] # None /\ link[q] # None
                            => WalletOf(link[p]) # WalletOf(link[q])
  /\ \A s, t \in Subjects : s # t /\ account[s] # None => account[s] # account[t]
  /\ \A s \in Subjects : account[s] # None => FollowsLink(s) \/ s \in profiled
  /\ \A p \in Phones : link[p] # None =>
       LET s == SubjectOf(link[p])
       IN \/ FollowsLink(s) \/ s \in broken
          \/ \E l \in Links : pc[l] = "upsert" /\ who[l] = link[p]

PhonesSound == OneLiveChallenge /\ LinksSound
=============================================================================
