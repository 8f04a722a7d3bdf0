----------------------------- MODULE Referrals -----------------------------
(***************************************************************************)
(* Invitations (consumer/referrals.ts): an account has one code, which is  *)
(* created when it is first asked for, and a wallet whose phone is linked  *)
(* is bound to the owner of one code.                                      *)
(*                                                                         *)
(* An identity is a pair of subject and wallet.  A subject has one account *)
(* and may sign in with several wallets; which of them its account carries *)
(* is decided by PhoneLink's requests, of which this module has the        *)
(* writes: a link appears and stays, and the account follows it later.     *)
(***************************************************************************)
EXTENDS Integers

CONSTANTS
  Identities,
  Codes,           \* values the generator may return
  Asks, Binds,     \* requests for the own code, and to be bound to one
  MaxTries,        \* 5
  None

SubjectOf(a) == a[1]
WalletOf(a) == a[2]
Subjects == {SubjectOf(a) : a \in Identities}
Wallets == {WalletOf(a) : a \in Identities}

ConstantsOK ==
  /\ Identities \subseteq Subjects \X Wallets
  /\ MaxTries \in Nat \ {0}
  /\ Asks \cap Binds = {}
  /\ None \notin Identities /\ None \notin Codes
  /\ None \notin Subjects /\ None \notin Wallets

VARIABLES
  linked,    \* identities with a row in consumer_phone_links
  account,   \* consumer_accounts: the wallet of a subject
  carried,   \* identities whose wallet their account has carried
  owner,     \* consumer_referral_codes: the account that owns a code
  inviter,   \* consumer_referral_attributions: the code of a wallet
  pc, who,   \* where a request is, and whose it is
  code,      \* the code it has generated, or presents
  tries,     \* codes an Ask has generated
  shown,     \* codes subjects were told are theirs
  confirmed  \* identities and codes that were answered "bound"

accounts == <<linked, account, carried>>
vars == <<accounts, owner, inviter, pc, who, code, tries, shown, confirmed>>

Requests == Asks \cup Binds

TypeOK ==
  /\ linked \subseteq Identities /\ carried \subseteq Identities
  /\ account \in [Subjects -> Wallets \cup {None}]
  /\ owner \in [Codes -> Subjects \cup {None}]
  /\ inviter \in [Wallets -> Codes \cup {None}]
  /\ pc \in [Requests -> {"new", "generate", "upsert", "look", "insert", "over"}]
  /\ who \in [Requests -> Identities \cup {None}]
  /\ code \in [Requests -> Codes \cup {None}]
  /\ tries \in [Asks -> 0..MaxTries]
  /\ shown \subseteq Subjects \X Codes /\ confirmed \subseteq Identities \X Codes

Init ==
  /\ linked = {} /\ carried = {}
  /\ account = [s \in Subjects |-> None]
  /\ owner = [c \in Codes |-> None]
  /\ inviter = [w \in Wallets |-> None]
  /\ pc = [r \in Requests |-> "new"]
  /\ who = [r \in Requests |-> None] /\ code = [r \in Requests |-> None]
  /\ tries = [r \in Asks |-> 0]
  /\ shown = {} /\ confirmed = {}

ToStep(r, step) == pc' = [pc EXCEPT ![r] = step]
CodesOf(s) == {c \in Codes : owner[c] = s}

----------------------------------------------------------------------------
(***************************************************************************)
(* The accounts.                                                           *)
(***************************************************************************)
\* linkVerifiedPhone inserts the link, UNIQUE(client_id, network, wallet).
LinkPhone(a) ==
  /\ \A b \in linked : WalletOf(b) # WalletOf(a)
  /\ linked' = linked \cup {a}
  /\ UNCHANGED <<account, carried, owner, inviter, pc, who, code, tries, shown, confirmed>>

\* The code row and the account row it was joined with are locked FOR UPDATE from
\* the SELECT of a binding to its COMMIT.
Locked(s) == \E b \in Binds : pc[b] = "insert" /\ owner[code[b]] = s

WriteAccount(a) ==
  /\ \A s \in Subjects \ {SubjectOf(a)} : account[s] # WalletOf(a)
  /\ account' = [account EXCEPT ![SubjectOf(a)] = WalletOf(a)]
  /\ carried' = carried \cup {a}
  /\ UNCHANGED <<linked, owner, inviter, pc, who, code, tries, shown, confirmed>>

\* linkVerifiedPhone, also of a phone linked before, overwrites the wallet.
FollowLink(a) == a \in linked /\ ~Locked(SubjectOf(a)) /\ WriteAccount(a)

\* saveProfile inserts a row where there is none.
SaveProfile(a) == account[SubjectOf(a)] = None /\ WriteAccount(a)

----------------------------------------------------------------------------
(***************************************************************************)
(* referralSummary and createCode.                                         *)
(***************************************************************************)
\* The answer is the code the account has.
Answer(r, s) ==
  /\ shown' = shown \cup {<<s, c>> : c \in CodesOf(s)}
  /\ ToStep(r, "over")

\* accountFor refuses a wallet that is not the account's.
Ask(r, a) ==
  /\ pc[r] = "new"
  /\ account[SubjectOf(a)] = WalletOf(a)
  /\ who' = [who EXCEPT ![r] = a]
  /\ IF CodesOf(SubjectOf(a)) # {}
     THEN Answer(r, SubjectOf(a))
     ELSE ToStep(r, "generate") /\ UNCHANGED shown
  /\ UNCHANGED <<accounts, owner, inviter, code, tries, confirmed>>

\* After five codes that others have the request fails.
Generate(r) ==
  /\ pc[r] = "generate"
  /\ IF tries[r] = MaxTries
     THEN ToStep(r, "over") /\ UNCHANGED <<code, tries>>
     ELSE \E c \in Codes :
            /\ code' = [code EXCEPT ![r] = c]
            /\ tries' = [tries EXCEPT ![r] = @ + 1]
            /\ ToStep(r, "upsert")
  /\ UNCHANGED <<accounts, owner, inviter, who, shown, confirmed>>

\* INSERT ... ON CONFLICT(campaign_key, owner_account_id): an account that has a
\* code keeps it, and a code that another one has raises 23505.
UpsertCode(r) ==
  /\ pc[r] = "upsert"
  /\ LET s == SubjectOf(who[r])
     IN owner' = IF CodesOf(s) = {} /\ owner[code[r]] = None
                 THEN [owner EXCEPT ![code[r]] = s] ELSE owner
  /\ ToStep(r, "look")
  /\ UNCHANGED <<accounts, inviter, who, code, tries, shown, confirmed>>

\* SELECT of the code, also after an error; without one the loop goes on.
LookUpCode(r) ==
  /\ pc[r] = "look"
  /\ IF CodesOf(SubjectOf(who[r])) # {}
     THEN Answer(r, SubjectOf(who[r]))
     ELSE ToStep(r, "generate") /\ UNCHANGED shown
  /\ UNCHANGED <<accounts, owner, inviter, who, code, tries, confirmed>>

\* Up to the SELECT of an attribution.  An own invite link is told by the wallet
\* that the owner's account carries at present.  An attribution to another code
\* refuses the request, one to this code confirms it.
BeginBind(b, a, c) ==
  /\ pc[b] = "new"
  /\ a \in linked
  /\ owner[c] # None /\ ~Locked(owner[c])
  /\ account[owner[c]] # WalletOf(a)
  /\ inviter[WalletOf(a)] \in {None, c}
  /\ who' = [who EXCEPT ![b] = a]
  /\ code' = [code EXCEPT ![b] = c]
  /\ IF inviter[WalletOf(a)] = None
     THEN ToStep(b, "insert") /\ UNCHANGED confirmed
     ELSE ToStep(b, "over") /\ confirmed' = confirmed \cup {<<a, c>>}
  /\ UNCHANGED <<accounts, owner, inviter, tries, shown>>

\* Mutant of Bind: without UNIQUE(..., invitee_wallet).
BindAnyway(b) ==
  /\ pc[b] = "insert"
  /\ inviter' = [inviter EXCEPT ![WalletOf(who[b])] = code[b]]
  /\ confirmed' = confirmed \cup {<<who[b], code[b]>>}
  /\ ToStep(b, "over")
  /\ UNCHANGED <<accounts, owner, who, code, tries, shown>>

\* INSERT and COMMIT: of two bindings of one wallet the second fails on the
\* unique index, whichever code it presents.
Bind(b) ==
  /\ pc[b] = "insert"
  /\ IF inviter[WalletOf(who[b])] = None
     THEN /\ inviter' = [inviter EXCEPT ![WalletOf(who[b])] = code[b]]
          /\ confirmed' = confirmed \cup {<<who[b], code[b]>>}
     ELSE UNCHANGED <<inviter, confirmed>>
  /\ ToStep(b, "over")
  /\ UNCHANGED <<accounts, owner, who, code, tries, shown>>

Next ==
  \/ \E a \in Identities : LinkPhone(a) \/ FollowLink(a) \/ SaveProfile(a)
  \/ \E r \in Asks :
       (\E a \in Identities : Ask(r, a)) \/ Generate(r) \/ UpsertCode(r) \/ LookUpCode(r)
  \/ \E b \in Binds :
       (\E a \in Identities, c \in Codes : BeginBind(b, a, c)) \/ Bind(b)

Spec == Init /\ [][Next]_vars

----------------------------------------------------------------------------
\* Whatever requests overlapped: a subject was only ever shown one code and
\* still has it, and an identity was only ever confirmed to one code, and its
\* wallet is still bound to it.
AnswersStick ==
  /\ \A s, t \in shown : s[1] = t[1] => s[2] = t[2]
  /\ \A s \in shown : owner[s[2]] = s[1]
  /\ \A b \in confirmed : inviter[WalletOf(b[1])] = b[2] /\ owner[b[2]] # None

\* "You cannot use your own invite link" (consumer/referrals.ts:129), as far as
\* the code keeps it: a subject is bound to its own code only if its account has
\* carried another of its wallets, and no account comes to carry a wallet that
\* another subject had bound to its code.
OwnLinkRefused ==
  \A b \in confirmed :
    LET s == SubjectOf(b[1])
    IN /\ owner[b[2]] = s => \E a \in carried : SubjectOf(a) = s /\ a # b[1]
       /\ account[owner[b[2]]] = WalletOf(b[1]) => owner[b[2]] = s

InvitationsStick == AnswersStick /\ OwnLinkRefused
=============================================================================
