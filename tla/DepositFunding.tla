--------------------------- MODULE DepositFunding ---------------------------
(***************************************************************************)
(* The fiat leg of a deposit, for one consumer account                     *)
(* (consumer/service.ts): quotes, the reservation of allowance, the one    *)
(* POST that creates a temporary bank account at the payment provider, and *)
(* the ways its result comes back: the answer to the POST, the sweep and   *)
(* the user's refresh (recoverDeposit), and the webhook (reconcile).       *)
(*                                                                         *)
(* Quotes, starts and receipts run in transactions that lock the account   *)
(* row, so each is one action.  The calls to the provider are outside any  *)
(* transaction: what they answer is remembered in `post`, `lookups` and    *)
(* `failures` until somebody writes it, and the writes are conditional.    *)
(*                                                                         *)
(* One tick of `now` is the five minutes of a quote's life, of the grace   *)
(* period and of the quote rate limit.                                     *)
(***************************************************************************)
EXTENDS Naturals, FiniteSetsExt

CONSTANTS
  Refs,        \* deposit references
  Amounts,     \* principals a consumer asks for
  Limit,       \* rolling limit of the account's tier
  Window,      \* ticks in the 24 hours of the limit
  Expiry,      \* ticks a temporary bank account is open
  QuoteBurst,  \* quotes an account may ask for within a tick
  MaxTime      \* bound on the clock

ASSUME RefsFinite == IsFiniteSet(Refs)
ASSUME AmountsPositive == Amounts \subseteq Nat \ {0}
ASSUME LimitsPositive ==
  Limit \in Nat /\ Window \in Nat \ {0} /\ Expiry \in Nat \ {0}
  /\ QuoteBurst \in Nat \ {0} /\ MaxTime \in Nat

VARIABLES
  now,       \* the clock
  intent,    \* consumer_deposit_intents
  post,      \* the POST /charge of a deposit, as its caller sees it
  charge,    \* the provider's charge: whether it exists, when it was paid
  shown,     \* deposits whose bank details the user was given
  lookups,   \* answers of GET /charge, with the deposit they are about
  failures,  \* deposits a verification found failed, not yet written
  receipt,   \* consumer_fiat_receipts.state
  released   \* deposits whose USDC the worker has had released

vars == <<now, intent, post, charge, shown, lookups, failures, receipt, released>>

IntentStates == {"ABSENT", "QUOTED", "CREATING", "PENDING", "FAILED",
                 "EXPIRED", "SETTLING", "RECEIVED", "REVIEW"}
PostStates == {"NONE", "SENT", "LOST", "ACCEPTED", "REJECTED"}
ChargeStates == {"NONE", "OPEN", "PAID"}
ReceiptStates == {"NONE", "FIAT_RECEIVED", "REVIEW"}
Time == 0..MaxTime

Intent(state, amount, quoted, expires) ==
  [state |-> state, amount |-> amount, quoted |-> quoted, expires |-> expires]

Intents ==
  [state : IntentStates, amount : Amounts \cup {0}, quoted : Time,
   expires : 0..(MaxTime + Expiry)]

TypeOK ==
  /\ now \in Time
  /\ intent \in [Refs -> Intents]
  /\ post \in [Refs -> PostStates]
  /\ charge \in [Refs -> [state : ChargeStates, paidAt : Time]]
  /\ shown \subseteq Refs
  /\ lookups \subseteq {"DETAILS", "REJECTED"} \X Refs
  /\ failures \subseteq Refs
  /\ receipt \in [Refs -> ReceiptStates]
  /\ released \subseteq Refs

Init ==
  /\ now = 0
  /\ intent = [r \in Refs |-> Intent("ABSENT", 0, 0, 0)]
  /\ post = [r \in Refs |-> "NONE"]
  /\ charge = [r \in Refs |-> [state |-> "NONE", paidAt |-> 0]]
  /\ shown = {}
  /\ lookups = {}
  /\ failures = {}
  /\ receipt = [r \in Refs |-> "NONE"]
  /\ released = {}

Tick ==
  /\ now < MaxTime
  /\ now' = now + 1
  /\ UNCHANGED <<intent, post, charge, shown, lookups, failures, receipt, released>>

----------------------------------------------------------------------------
(***************************************************************************)
(* Allowance.                                                              *)
(***************************************************************************)
Principal == [r \in Refs |-> intent[r].amount]
Total(refs) == SumFunctionOnSet(Principal, refs)

In(states) == {r \in Refs : intent[r].state \in states}
Is(r, states) == intent[r].state \in states

\* Confirmed principal with paid_at in (t - Window, t].
ReceivedIn(t) ==
  {r \in Refs : receipt[r] = "FIAT_RECEIVED"
                /\ charge[r].paidAt <= t /\ charge[r].paidAt + Window > t}

Reserving == {"CREATING", "PENDING", "REVIEW"}

Available ==
  LET used == Total(ReceivedIn(now)) + Total(In(Reserving))
  IN IF used >= Limit THEN 0 ELSE Limit - used

SetState(r, next) ==
  intent' = [intent EXCEPT ![r] =
               Intent(next, intent[r].amount, intent[r].quoted, intent[r].expires)]

----------------------------------------------------------------------------
(***************************************************************************)
(* The consumer.                                                           *)
(***************************************************************************)
CreateQuote(r, amount) ==
  /\ Is(r, {"ABSENT"})
  /\ Cardinality({q \in Refs : ~Is(q, {"ABSENT"}) /\ intent[q].quoted = now})
       < QuoteBurst
  /\ amount <= Available
  /\ intent' = [intent EXCEPT ![r] = Intent("QUOTED", amount, now, now + 1)]
  /\ UNCHANGED <<now, post, charge, shown, lookups, failures, receipt, released>>

\* Mutant of StartDeposit: the allowance is not looked at again.
StartDepositBlindly(r) ==
  /\ Is(r, {"QUOTED"})
  /\ intent[r].expires > now
  /\ intent' = [intent EXCEPT ![r] =
               Intent("CREATING", intent[r].amount, intent[r].quoted, now + Expiry)]
  /\ post' = [post EXCEPT ![r] = "SENT"]
  /\ UNCHANGED <<now, charge, shown, lookups, failures, receipt, released>>

\* Mutant of StartDeposit: the five minutes of grace are added to the expiry.
StartDepositLonger(r) ==
  /\ Is(r, {"QUOTED"})
  /\ intent[r].expires > now
  /\ intent[r].amount <= Available
  /\ intent' = [intent EXCEPT ![r] =
               Intent("CREATING", intent[r].amount, intent[r].quoted, now + Expiry + 1)]
  /\ post' = [post EXCEPT ![r] = "SENT"]
  /\ UNCHANGED <<now, charge, shown, lookups, failures, receipt, released>>

\* The transaction of startDeposit, and the POST it is followed by.
StartDeposit(r) ==
  /\ Is(r, {"QUOTED"})
  /\ intent[r].expires > now
  /\ intent[r].amount <= Available
  /\ intent' = [intent EXCEPT ![r] =
               Intent("CREATING", intent[r].amount, intent[r].quoted, now + Expiry)]
  /\ post' = [post EXCEPT ![r] = "SENT"]
  /\ UNCHANGED <<now, charge, shown, lookups, failures, receipt, released>>

\* Only a user who has seen the account number can pay; nothing stops a late
\* payment.
Pay(r) ==
  /\ charge[r].state = "OPEN"
  /\ r \in shown
  /\ charge' = [charge EXCEPT ![r] = [state |-> "PAID", paidAt |-> now]]
  /\ UNCHANGED <<now, intent, post, shown, lookups, failures, receipt, released>>

----------------------------------------------------------------------------
(***************************************************************************)
(* The POST and what its caller does with the answer.                      *)
(***************************************************************************)
\* The charge is created; a caller that has given up does not hear of it.
PostLands(r) ==
  /\ post[r] \in {"SENT", "LOST"}
  /\ charge[r].state = "NONE"
  /\ charge' = [charge EXCEPT ![r] = [state |-> "OPEN", paidAt |-> 0]]
  /\ post' = [post EXCEPT ![r] = IF post[r] = "SENT" THEN "ACCEPTED" ELSE "NONE"]
  /\ UNCHANGED <<now, intent, shown, lookups, failures, receipt, released>>

PostRefused(r) ==
  /\ post[r] \in {"SENT", "LOST"}
  /\ charge[r].state = "NONE"
  /\ post' = [post EXCEPT ![r] = IF post[r] = "SENT" THEN "REJECTED" ELSE "NONE"]
  /\ UNCHANGED <<now, intent, charge, shown, lookups, failures, receipt, released>>

\* Timeout, network error or restart: the answer never comes.
PostLost(r) ==
  /\ post[r] \in {"SENT", "ACCEPTED", "REJECTED"}
  /\ post' = [post EXCEPT ![r] = IF post[r] = "SENT" THEN "LOST" ELSE "NONE"]
  /\ UNCHANGED <<now, intent, charge, shown, lookups, failures, receipt, released>>

\* UPDATE ... SET state = 'pending' WHERE state = 'creating'
ShowDetails(r) ==
  IF Is(r, {"CREATING"})
  THEN SetState(r, "PENDING") /\ shown' = shown \cup {r}
  ELSE UNCHANGED <<intent, shown>>

\* UPDATE ... SET state = 'failed' WHERE state = 'creating'
FailCreation(r) ==
  IF Is(r, {"CREATING"}) THEN SetState(r, "FAILED") ELSE UNCHANGED intent

PostAnswered(r) ==
  /\ \/ post[r] = "ACCEPTED" /\ ShowDetails(r)
     \/ post[r] = "REJECTED" /\ FailCreation(r) /\ UNCHANGED shown
  /\ post' = [post EXCEPT ![r] = "NONE"]
  /\ UNCHANGED <<now, charge, lookups, failures, receipt, released>>

----------------------------------------------------------------------------
(***************************************************************************)
(* reconcile, from the webhook, the sweep or a refresh.                    *)
(***************************************************************************)
\* `mismatch`: the amount or the fee is not the expected one.
InReview(r, mismatch) ==
  \/ mismatch
  \/ Total(ReceivedIn(charge[r].paidAt)) + intent[r].amount > Limit
  \/ Is(r, {"QUOTED", "EXPIRED"})

\* Mutant of Reconcile: a payment of an expired deposit settles.
ReconcileExpired(r, mismatch) ==
  /\ charge[r].state = "PAID"
  /\ receipt[r] = "NONE"
  /\ receipt' = [receipt EXCEPT ![r] =
       IF mismatch THEN "REVIEW" ELSE "FIAT_RECEIVED"]
  /\ SetState(r, IF mismatch THEN "REVIEW" ELSE "SETTLING")
  /\ UNCHANGED <<now, post, charge, shown, lookups, failures, released>>

\* Mutant of Reconcile: a payment that came too late is not recorded.
ReconcileInTime(r, mismatch) ==
  /\ charge[r].state = "PAID"
  /\ charge[r].paidAt < intent[r].expires
  /\ receipt[r] = "NONE"
  /\ receipt' = [receipt EXCEPT ![r] =
       IF InReview(r, mismatch) THEN "REVIEW" ELSE "FIAT_RECEIVED"]
  /\ SetState(r, IF InReview(r, mismatch) THEN "REVIEW" ELSE "SETTLING")
  /\ UNCHANGED <<now, post, charge, shown, lookups, failures, released>>

\* A verified payment; a second call finds the receipt and returns.
Reconcile(r, mismatch) ==
  /\ charge[r].state = "PAID"
  /\ receipt[r] = "NONE"
  /\ receipt' = [receipt EXCEPT ![r] =
       IF InReview(r, mismatch) THEN "REVIEW" ELSE "FIAT_RECEIVED"]
  /\ SetState(r, IF InReview(r, mismatch) THEN "REVIEW" ELSE "SETTLING")
  /\ UNCHANGED <<now, post, charge, shown, lookups, failures, released>>

\* completeOnramp and recoverInterruptedOnramp, once the stablecoin of the
\* confirmed receipt is released (OnrampSettlement).
SettleDeposit(r) ==
  /\ receipt[r] = "FIAT_RECEIVED"
  /\ released' = released \cup {r}
  /\ SetState(r, "RECEIVED")
  /\ UNCHANGED <<now, post, charge, shown, lookups, failures, receipt>>

\* The provider reports an unpaid charge failed or abandoned once its bank
\* account is closed.
VerifyFailed(r) ==
  /\ charge[r].state = "OPEN"
  /\ now >= intent[r].expires
  /\ failures' = failures \cup {r}
  /\ UNCHANGED <<now, intent, post, charge, shown, lookups, receipt, released>>

\* Mutant of ReleaseFailed: the state is not looked at again.
ReleaseUnconditionally(r) ==
  /\ r \in failures
  /\ failures' = failures \ {r}
  /\ SetState(r, "EXPIRED")
  /\ UNCHANGED <<now, post, charge, shown, lookups, receipt, released>>

ReleaseFailed(r) ==
  /\ r \in failures
  /\ failures' = failures \ {r}
  /\ IF Is(r, {"CREATING", "PENDING"}) /\ intent[r].expires + 1 < now
     THEN SetState(r, "EXPIRED") ELSE UNCHANGED intent
  /\ UNCHANGED <<now, post, charge, shown, lookups, receipt, released>>

----------------------------------------------------------------------------
(***************************************************************************)
(* recoverDeposit, after reconcile has not settled the matter.             *)
(***************************************************************************)
\* GET /charge/:reference.  A reference the provider does not know, like any
\* other refusal, is answered with a status that counts as a rejection; a
\* charge that no longer waits for its transfer tells nothing.
LookUpCharge(r) ==
  /\ Is(r, {"CREATING"})
  /\ charge[r].state # "PAID"
  /\ lookups' = lookups \cup
       {<<IF charge[r].state = "OPEN" THEN "DETAILS" ELSE "REJECTED", r>>}
  /\ UNCHANGED <<now, intent, post, charge, shown, failures, receipt, released>>

LookupAnswered(answer, r) ==
  /\ <<answer, r>> \in lookups
  /\ lookups' = lookups \ {<<answer, r>>}
  /\ \/ answer = "DETAILS" /\ ShowDetails(r)
     \/ answer = "REJECTED" /\ FailCreation(r) /\ UNCHANGED shown
  /\ UNCHANGED <<now, post, charge, failures, receipt, released>>

\* The sweep expires quotes that were never started.
ExpireQuote(r) ==
  /\ Is(r, {"QUOTED"})
  /\ intent[r].expires < now
  /\ SetState(r, "EXPIRED")
  /\ UNCHANGED <<now, post, charge, shown, lookups, failures, receipt, released>>

Next ==
  \/ Tick
  \/ \E r \in Refs :
       \/ \E amount \in Amounts : CreateQuote(r, amount)
       \/ StartDeposit(r) \/ Pay(r)
       \/ PostLands(r) \/ PostRefused(r) \/ PostLost(r) \/ PostAnswered(r)
       \/ \E mismatch \in BOOLEAN : Reconcile(r, mismatch)
       \/ SettleDeposit(r)
       \/ VerifyFailed(r) \/ ReleaseFailed(r)
       \/ LookUpCharge(r)
       \/ \E answer \in {"DETAILS", "REJECTED"} : LookupAnswered(answer, r)
       \/ ExpireQuote(r)

Spec == Init /\ [][Next]_vars

\* The sweep verifies every creating or pending deposit again and again: it
\* takes the 30 that were checked longest ago every 30 seconds.
SweepReconciles(r) ==
  Is(r, {"CREATING", "PENDING"}) /\ \E mismatch \in BOOLEAN : Reconcile(r, mismatch)

FairSpec == Spec /\ \A r \in Refs : WF_vars(SweepReconciles(r))

----------------------------------------------------------------------------
(***************************************************************************)
(* Properties.                                                             *)
(***************************************************************************)
\* "Tier limits are [...] per rolling 24 hours" (docs/internal/
\* consumer-funding.md:27): whatever order payments are made and reconciled
\* in, the confirmed principal of no 24 hours exceeds the limit.
RollingLimitKept == \A t \in Time : Total(ReceivedIn(t)) <= Limit

\* "Pending and review payments reserve principal separately to prevent
\* overlapping requests" (docs/internal/consumer-funding.md:27): what was
\* received and what is still on its way fit in the limit together, so that
\* no payment the user was asked for is over it.
ReservationsFit ==
  Total(ReceivedIn(now)) + Total(In({"CREATING", "PENDING"})) <= Limit

\* A deposit is settling or received exactly when its receipt is confirmed,
\* received exactly when the worker has released it, and under review when its
\* receipt is: no late answer of the provider, no sweep and no refresh
\* takes a paid deposit back to another state.  Reconcile alone makes it
\* settling (consumer/service.ts:185; only ramp/worker.ts:19 and 32 write
\* 'received'), although consumer/funding.integration.test.ts:55 expects
\* 'received' right after it.
ReceiptDecidesIntent ==
  \A r \in Refs :
    /\ receipt[r] = "FIAT_RECEIVED" <=> Is(r, {"SETTLING", "RECEIVED"})
    /\ r \in released <=> Is(r, {"RECEIVED"})
    /\ receipt[r] = "REVIEW" <=> Is(r, {"REVIEW"})

\* A payment is recorded by the sweep even if no webhook arrives, unless the
\* deposit expired first: the sweep does not look at expired deposits.
PaymentIsRecorded ==
  \A r \in Refs :
    charge[r].state = "PAID" ~> receipt[r] # "NONE" \/ Is(r, {"EXPIRED"})

(***************************************************************************)
(* Why they hold: what counts towards the limit of the 24 hours before t,  *)
(* received or still to be received, never exceeds it.  A reserved deposit *)
(* counts in every window that its payment could still fall into, and once *)
(* it is paid also in the windows that hold the time of its payment.       *)
(***************************************************************************)
Held(t) ==
  ReceivedIn(t) \cup
  {r \in In({"CREATING", "PENDING"}) :
     t >= now \/ (charge[r].state = "PAID"
                  /\ charge[r].paidAt <= t /\ charge[r].paidAt + Window > t)}

WindowsFit == \A t \in Time : Total(Held(t)) <= Limit

\* Only a deposit the user was shown is paid, and only a paid one received.
PaymentsFollow ==
  \A r \in Refs :
    /\ r \in shown => Is(r, {"PENDING", "EXPIRED", "SETTLING", "RECEIVED", "REVIEW"})
    /\ charge[r].state = "PAID" => r \in shown /\ charge[r].paidAt <= now
    /\ receipt[r] # "NONE" => charge[r].state = "PAID"

LimitInv == TypeOK /\ ReceiptDecidesIntent /\ PaymentsFollow /\ WindowsFit

(***************************************************************************)
(* What the documents say and the code does not do.                        *)
(***************************************************************************)
\* "Reservations release only after provider-confirmed terminal failure/
\* abandonment and expiry plus five minutes. Unknown outcomes remain held."
\* (docs/internal/consumer-funding.md:29): an open charge whose account has
\* not expired holds its reservation.  recoverDeposit asks for the charge
\* before the POST has landed, is told there is none, and fails the deposit.
UnknownOutcomeHeld ==
  \A r \in Refs :
    charge[r].state = "OPEN" /\ now < intent[r].expires => Is(r, Reserving)
=============================================================================
