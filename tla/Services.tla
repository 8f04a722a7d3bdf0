------------------------------ MODULE Services ------------------------------
(***************************************************************************)
(* The components that share no state with the ramp or with one another:   *)
(* each of them for any values of its constants.  A component is chosen    *)
(* initially, the behaviour is one of its specification, and the variables *)
(* of the others stay 0.                                                   *)
(***************************************************************************)
EXTENDS Integers

CONSTANTS
  Mints, All, Sync, Scripts, ScriptMints, Limit, MaxPages, MaxSigs,   \* SolanaIndexer
  Processes, Calls, MaxRunFaults,                                     \* SyncRun
  Inflows, Outflows, ScriptLegs, Data, Books, Pairers, MaxSeized,     \* Pairing
  Wallet, Owners, TokenAccounts, Amounts, Decimals, Prices,           \* TokenMovement
  Principals, BasisPoints, FlatFee, Threshold, Cap,                   \* TransferQuote
  Emails, Workers, GiveUpAfter, MaxSubscriptions, MaxExpired, MaxMailFaults,  \* Newsletter
  Issues, Checks, MaxCodeAttempts,                                    \* Otp
  Phones, Identities, Starts, Links, MaxPhoneAttempts,                \* PhoneLink
  Members, Codes, Asks, Binds, MaxTries,                              \* Referrals
  Tokens, WithKid, MaxVersions, MaxFetches,                           \* SigningKeyCache
  OrderRequests, OrderKeys, MaxOrderFaults,                           \* RebalanceOrder
  Absent   \* no value

VARIABLES
  component,
  latest, moved, cursor, rows, failure, deleted, solPc, filter, from, top, at, left,
  running, runShown, lock, runPc, good, bad, runStatus, achieved, lost, runFaults,
  leg, present, pair, gone, rowLock, open, todo, pairSeen, match, passed,
  tokenOwner, pre, post, decimals, price,
  principal,
  mailStatus, unsubscribed, mailAttempts, due, dayOld, lease, mailStep, job, mailTries, smtp,
  mails, joined, unrecorded, mailExpired, mailFaults,
  user, codeState, purpose, codeAttempts, codeCooled, sessions, codePc, codeSeen, holds,
  presents, codeBefore, effects,
  phone, phoneState, phoneAttempts, phoneCooled, phoneExpired, phoneBefore, link, account,
  profiled, phonePc, phoneWho, what, broken,
  linked, inviteAccount, carried, owner, inviter, invitePc, inviteWho, code, inviteTries,
  inviteShown, confirmed,
  current, cached, fresh, flights, answer, fetched, cooling, newest, keyStep, signed, held, awaits,
  keyFlying, valid, keyCooled, lapsed,
  row, chain, orderFlying, orderPc, orderKey, audited, doubtful, orderFaults

Sol == INSTANCE SolanaIndexer WITH Targets <- ScriptMints, pc <- solPc

Run == INSTANCE SyncRun WITH
  MaxFaults <- MaxRunFaults, shown <- runShown, pc <- runPc, status <- runStatus,
  faults <- runFaults

Pairs == INSTANCE Pairing WITH Targets <- ScriptLegs, lock <- rowLock, seen <- pairSeen

Movement == INSTANCE TokenMovement WITH Accounts <- TokenAccounts, owner <- tokenOwner

Quote == INSTANCE TransferQuote

News == INSTANCE Newsletter WITH
  MaxFaults <- MaxMailFaults, status <- mailStatus, attempts <- mailAttempts,
  step <- mailStep, tries <- mailTries, expired <- mailExpired, faults <- mailFaults

Console == INSTANCE Otp WITH
  MaxAttempts <- MaxCodeAttempts, state <- codeState, attempts <- codeAttempts,
  cooled <- codeCooled, pc <- codePc, seen <- codeSeen, before <- codeBefore

Phone == INSTANCE PhoneLink WITH
  MaxAttempts <- MaxPhoneAttempts, state <- phoneState, attempts <- phoneAttempts,
  cooled <- phoneCooled, expired <- phoneExpired, before <- phoneBefore, pc <- phonePc,
  who <- phoneWho, None <- Absent

Invite == INSTANCE Referrals WITH
  Identities <- Members, account <- inviteAccount, pc <- invitePc, who <- inviteWho,
  tries <- inviteTries, shown <- inviteShown, None <- Absent

Signing == INSTANCE SigningKeyCache WITH
  key <- cached, step <- keyStep, flying <- keyFlying, cooled <- keyCooled

Orders == INSTANCE RebalanceOrder WITH
  Requests <- OrderRequests, Keys <- OrderKeys, None <- Absent,
  MaxFaults <- MaxOrderFaults, flying <- orderFlying, pc <- orderPc, key <- orderKey,
  faults <- orderFaults

ASSUME ServicesConstants ==
  /\ Sol!ConstantsOK
  /\ Run!ConstantsOK
  /\ Pairs!ConstantsOK
  /\ Movement!ConstantsOK
  /\ Quote!ConstantsOK
  /\ News!ConstantsOK
  /\ Console!ConstantsOK
  /\ Phone!ConstantsOK
  /\ Invite!ConstantsOK
  /\ Signing!ConstantsOK
  /\ Orders!ConstantsOK

Components ==
  {"SolanaIndexer", "SyncRun", "Pairing", "TokenMovement", "TransferQuote", "Newsletter",
   "Otp", "PhoneLink", "Referrals", "SigningKeyCache", "RebalanceOrder"}

solVars ==
  <<latest, moved, cursor, rows, failure, deleted, solPc, filter, from, top, at, left>>
runVars ==
  <<running, runShown, lock, runPc, good, bad, runStatus, achieved, lost, runFaults>>
pairVars == <<leg, present, pair, gone, rowLock, open, todo, pairSeen, match, passed>>
tokenVars == <<tokenOwner, pre, post, decimals, price>>
mailVars ==
  <<mailStatus, unsubscribed, mailAttempts, due, dayOld, lease, mailStep, job, mailTries, smtp,
    mails, joined, unrecorded, mailExpired, mailFaults>>
codeVars ==
  <<user, codeState, purpose, codeAttempts, codeCooled, sessions, codePc, codeSeen, holds,
    presents, codeBefore, effects>>
phoneVars ==
  <<phone, phoneState, phoneAttempts, phoneCooled, phoneExpired, phoneBefore, link, account,
    profiled, phonePc, phoneWho, what, broken>>
inviteVars ==
  <<linked, inviteAccount, carried, owner, inviter, invitePc, inviteWho, code, inviteTries,
    inviteShown, confirmed>>
keyVars ==
  <<current, cached, fresh, flights, answer, fetched, cooling, newest, keyStep, signed, held,
    awaits, keyFlying, valid, keyCooled, lapsed>>
orderVars == <<row, chain, orderFlying, orderPc, orderKey, audited, doubtful, orderFaults>>

vars ==
  <<component, solVars, runVars, pairVars, tokenVars, principal, mailVars, codeVars, phoneVars,
    inviteVars, keyVars, orderVars>>

Init ==
  /\ component \in Components
  /\ IF component = "SolanaIndexer" THEN Sol!Init ELSE
       /\ latest = 0 /\ moved = 0 /\ cursor = 0 /\ rows = 0 /\ failure = 0 /\ deleted = 0
       /\ solPc = 0 /\ filter = 0 /\ from = 0 /\ top = 0 /\ at = 0 /\ left = 0
  /\ IF component = "SyncRun" THEN Run!Init ELSE
       /\ running = 0 /\ runShown = 0 /\ lock = 0 /\ runPc = 0 /\ good = 0 /\ bad = 0
       /\ runStatus = 0 /\ achieved = 0 /\ lost = 0 /\ runFaults = 0
  /\ IF component = "Pairing" THEN Pairs!Init ELSE
       /\ leg = 0 /\ present = 0 /\ pair = 0 /\ gone = 0 /\ rowLock = 0 /\ open = 0
       /\ todo = 0 /\ pairSeen = 0 /\ match = 0 /\ passed = 0
  /\ IF component = "TokenMovement" THEN Movement!Init ELSE
       tokenOwner = 0 /\ pre = 0 /\ post = 0 /\ decimals = 0 /\ price = 0
  /\ IF component = "TransferQuote" THEN Quote!Init ELSE principal = 0
  /\ IF component = "Newsletter" THEN News!Init ELSE
       /\ mailStatus = 0 /\ unsubscribed = 0 /\ mailAttempts = 0 /\ due = 0 /\ dayOld = 0
       /\ lease = 0 /\ mailStep = 0 /\ job = 0 /\ mailTries = 0 /\ smtp = 0 /\ mails = 0
       /\ joined = 0 /\ unrecorded = 0 /\ mailExpired = 0 /\ mailFaults = 0
  /\ IF component = "Otp" THEN Console!Init ELSE
       /\ user = 0 /\ codeState = 0 /\ purpose = 0 /\ codeAttempts = 0 /\ codeCooled = 0
       /\ sessions = 0 /\ codePc = 0 /\ codeSeen = 0 /\ holds = 0 /\ presents = 0
       /\ codeBefore = 0 /\ effects = 0
  /\ IF component = "PhoneLink" THEN Phone!Init ELSE
       /\ phone = 0 /\ phoneState = 0 /\ phoneAttempts = 0 /\ phoneCooled = 0
       /\ phoneExpired = 0 /\ phoneBefore = 0 /\ link = 0 /\ account = 0 /\ profiled = 0
       /\ phonePc = 0 /\ phoneWho = 0 /\ what = 0 /\ broken = 0
  /\ IF component = "Referrals" THEN Invite!Init ELSE
       /\ linked = 0 /\ inviteAccount = 0 /\ carried = 0 /\ owner = 0 /\ inviter = 0
       /\ invitePc = 0 /\ inviteWho = 0 /\ code = 0 /\ inviteTries = 0
       /\ inviteShown = 0 /\ confirmed = 0
  /\ IF component = "SigningKeyCache" THEN Signing!Init ELSE
       /\ current = 0 /\ cached = 0 /\ fresh = 0 /\ flights = 0 /\ answer = 0 /\ fetched = 0
       /\ cooling = 0 /\ newest = 0 /\ keyStep = 0 /\ signed = 0 /\ held = 0 /\ awaits = 0
       /\ keyFlying = 0 /\ valid = 0 /\ keyCooled = 0 /\ lapsed = 0
  /\ IF component = "RebalanceOrder" THEN Orders!Init ELSE
       /\ row = 0 /\ chain = 0 /\ orderFlying = 0 /\ orderPc = 0 /\ orderKey = 0
       /\ audited = 0 /\ doubtful = 0 /\ orderFaults = 0

\* What a step of one component leaves alone.
OthersIdle ==
  /\ IF component = "SolanaIndexer" THEN TRUE ELSE UNCHANGED solVars
  /\ IF component = "SyncRun" THEN TRUE ELSE UNCHANGED runVars
  /\ IF component = "Pairing" THEN TRUE ELSE UNCHANGED pairVars
  /\ IF component = "Newsletter" THEN TRUE ELSE UNCHANGED mailVars
  /\ IF component = "Otp" THEN TRUE ELSE UNCHANGED codeVars
  /\ IF component = "PhoneLink" THEN TRUE ELSE UNCHANGED phoneVars
  /\ IF component = "Referrals" THEN TRUE ELSE UNCHANGED inviteVars
  /\ IF component = "SigningKeyCache" THEN TRUE ELSE UNCHANGED keyVars
  /\ IF component = "RebalanceOrder" THEN TRUE ELSE UNCHANGED orderVars
  /\ UNCHANGED <<component, tokenVars, principal>>

Next ==
  /\ \/ component = "SolanaIndexer" /\ Sol!Next
     \/ component = "SyncRun" /\ Run!Next
     \/ component = "Pairing" /\ Pairs!Next
     \/ component = "Newsletter" /\ News!Next
     \/ component = "Otp" /\ Console!Next
     \/ component = "PhoneLink" /\ Phone!Next
     \/ component = "Referrals" /\ Invite!Next
     \/ component = "SigningKeyCache" /\ Signing!Next
     \/ component = "RebalanceOrder" /\ Orders!Next
  /\ OthersIdle

Spec == Init /\ [][Next]_vars

----------------------------------------------------------------------------
\* The variables of the chosen component have their types.
TypeOK ==
  /\ component = "SolanaIndexer" => Sol!TypeOK
  /\ component = "SyncRun" => Run!TypeOK
  /\ component = "Pairing" => Pairs!TypeOK
  /\ component = "TokenMovement" => Movement!TypeOK
  /\ component = "TransferQuote" => Quote!TypeOK
  /\ component = "Newsletter" => News!TypeOK
  /\ component = "Otp" => Console!TypeOK
  /\ component = "PhoneLink" => Phone!TypeOK
  /\ component = "Referrals" => Invite!TypeOK
  /\ component = "SigningKeyCache" => Signing!TypeOK
  /\ component = "RebalanceOrder" => Orders!TypeOK

\* What a cursor of the Solana indexer has passed is stored or filed.
NoSilentLoss == component = "SolanaIndexer" => Sol!NoSilentLoss

\* Synchronization runs exclude one another and record what they achieved.
RunsSound == component = "SyncRun" => Run!RunsExclusive /\ Run!RunTellsOutcome

\* Transfer legs are paired mutually, and each inflow with the closest outflow
\* that nobody else held.
PairsSound == component = "Pairing" => Pairs!PairsSound

\* Amounts, values and counterparties of a Solana transfer are exact.
MovementExact == component = "TokenMovement" => Movement!MovementExact

\* A deposit is priced at the least amount that leaves its principal.
SmallestGross == component = "TransferQuote" => Quote!SmallestGross

\* Every welcome message and every queue attempt is accounted for.
WelcomeAccounted == component = "Newsletter" => News!WelcomeAccounted

\* One code of a purpose is live, and a code takes effect once.
CodesSound == component = "Otp" => Console!CodesSound

\* One challenge of a phone is live, linked phones were verified, and accounts
\* follow the links.
PhonesSound == component = "PhoneLink" => Phone!PhonesSound

\* A code that was shown and a binding that was confirmed never change, and an
\* own invite link is refused unless the account has changed its wallet.
InvitationsStick == component = "Referrals" => Invite!InvitationsStick

\* One fetch at a time, no older or expired key, and no needless rejection.
KeyServed == component = "SigningKeyCache" => Signing!KeyServed

\* An idempotency key opens one rebalancing order at most.
OneOrderPerKey == component = "RebalanceOrder" => Orders!OneOrderPerKey
=============================================================================
