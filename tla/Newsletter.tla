----------------------------- MODULE Newsletter -----------------------------
(***************************************************************************)
(* The queue of welcome messages (newsletter/service.ts): a row per email  *)
(* address, leased for fifteen minutes by one of several API processes,    *)
(* each of which delivers one message at a time (newsletterBusy in         *)
(* index.ts) through sendEmail (email/emailService.ts), which tries SMTP   *)
(* three times.                                                            *)
(*                                                                         *)
(* A lease is named by its process, which has no other: what a process     *)
(* that has crashed would have written it never writes.                    *)
(***************************************************************************)
EXTENDS Integers, FiniteSets

CONSTANTS
  Emails, Workers,
  GiveUpAfter,       \* queue attempts, 5
  MaxSubscriptions,  \* bound on the subscriptions of one address
  MaxExpired,        \* bound on the expired leases of one address
  MaxFaults          \* bound on crashes, failed statements and lost answers

Nobody == "nobody"

ConstantsOK ==
  /\ GiveUpAfter \in Nat \ {0} /\ {MaxSubscriptions, MaxExpired, MaxFaults} \subseteq Nat
  /\ Nobody \notin Workers /\ IsFiniteSet(Workers) /\ Emails # {}

VARIABLES
  status,       \* delivery_status
  unsubscribed, \* unsubscribed_at is set
  attempts,     \* delivery_attempts
  due,          \* next_attempt_at, or lease_until of a leased row, has passed
  dayOld,       \* subscribed_at is more than a day ago
  lease,        \* lease_id
  step, job,    \* where a process is in deliver, and its row
  tries,        \* delivery_attempts of that row when it was leased
  smtp,         \* SMTP attempts so far
  mails,        \* welcome messages an address got
  joined,       \* subscriptions that made an address active
  unrecorded,   \* messages whose sender does not know, or could not record
  expired,      \* leases that were taken over since the last subscription
  faults        \* faults so far

queue == <<status, unsubscribed, attempts, due, dayOld, lease>>
locals == <<step, job, tries, smtp>>
vars == <<queue, locals, mails, joined, unrecorded, expired, faults>>

TypeOK ==
  /\ status \in [Emails -> {"absent", "pending", "sending", "sent", "failed"}]
  /\ unsubscribed \in [Emails -> BOOLEAN] /\ due \in [Emails -> BOOLEAN]
  /\ dayOld \in [Emails -> BOOLEAN]
  /\ attempts \in [Emails -> 0..(GiveUpAfter + MaxExpired)]
  /\ lease \in [Emails -> Workers \cup {Nobody}]
  /\ step \in [Workers -> {"idle", "send", "mark", "defer"}]
  /\ job \in [Workers -> Emails]
  /\ tries \in [Workers -> 0..(GiveUpAfter + MaxExpired)]
  /\ smtp \in [Workers -> 0..2]
  /\ mails \in [Emails -> Nat] /\ unrecorded \in [Emails -> Nat]
  /\ joined \in [Emails -> 0..MaxSubscriptions]
  /\ expired \in [Emails -> 0..MaxExpired]
  /\ faults \in 0..MaxFaults

Init ==
  /\ status = [e \in Emails |-> "absent"]
  /\ unsubscribed = [e \in Emails |-> FALSE]
  /\ attempts = [e \in Emails |-> 0]
  /\ due = [e \in Emails |-> FALSE] /\ dayOld = [e \in Emails |-> FALSE]
  /\ lease = [e \in Emails |-> Nobody]
  /\ step = [w \in Workers |-> "idle"]
  /\ job = [w \in Workers |-> CHOOSE e \in Emails : TRUE]
  /\ tries = [w \in Workers |-> 0] /\ smtp = [w \in Workers |-> 0]
  /\ mails = [e \in Emails |-> 0] /\ joined = [e \in Emails |-> 0]
  /\ unrecorded = [e \in Emails |-> 0] /\ expired = [e \in Emails |-> 0]
  /\ faults = 0

ToStep(w, s) == step' = [step EXCEPT ![w] = s]
Fault == faults < MaxFaults /\ faults' = faults + 1

----------------------------------------------------------------------------
(***************************************************************************)
(* Requests and the clock.                                                 *)
(***************************************************************************)
\* An address that is on the list, whatever became of its message so far.
Active(e) == status[e] \notin {"absent", "failed"} /\ ~unsubscribed[e]

\* Mutant of MayJoin: whoever subscribes again is queued again.
MayAlwaysJoin(e) == TRUE

\* ON CONFLICT(email) DO UPDATE ... WHERE
MayJoin(e) ==
  \/ status[e] = "absent"
  \/ (unsubscribed[e] \/ status[e] = "failed") /\ dayOld[e]

Subscribe(e) ==
  /\ joined[e] < MaxSubscriptions
  /\ MayJoin(e)
  /\ status' = [status EXCEPT ![e] = "pending"]
  /\ unsubscribed' = [unsubscribed EXCEPT ![e] = FALSE]
  /\ attempts' = [attempts EXCEPT ![e] = 0]
  /\ due' = [due EXCEPT ![e] = TRUE]
  /\ dayOld' = [dayOld EXCEPT ![e] = FALSE]
  /\ lease' = [lease EXCEPT ![e] = Nobody]
  /\ joined' = [joined EXCEPT ![e] = IF Active(e) THEN @ ELSE @ + 1]
  /\ expired' = [expired EXCEPT ![e] = 0]
  /\ UNCHANGED <<locals, mails, unrecorded, faults>>

Unsubscribe(e) ==
  /\ status[e] # "absent"
  /\ unsubscribed' = [unsubscribed EXCEPT ![e] = TRUE]
  /\ UNCHANGED <<status, attempts, due, dayOld, lease, locals, mails, joined, unrecorded, expired, faults>>

\* Fifteen minutes pass: for the next attempt, or over a lease.
FallDue(e) ==
  /\ status[e] \in {"pending", "sending"}
  /\ due' = [due EXCEPT ![e] = TRUE]
  /\ UNCHANGED <<status, unsubscribed, attempts, dayOld, lease, locals, mails, joined, unrecorded, expired, faults>>

DayPasses(e) ==
  /\ status[e] # "absent"
  /\ dayOld' = [dayOld EXCEPT ![e] = TRUE]
  /\ UNCHANGED <<status, unsubscribed, attempts, due, lease, locals, mails, joined, unrecorded, expired, faults>>

----------------------------------------------------------------------------
(***************************************************************************)
(* deliver.                                                                *)
(***************************************************************************)
\* The UPDATE that leases a row: one that is due, or one whose lease is over,
\* whatever its number of attempts.
Lease(w, e) ==
  /\ step[w] = "idle"
  /\ ~unsubscribed[e]
  /\ status[e] \in {"pending", "sending"} /\ due[e]
  /\ status[e] = "sending" => expired[e] < MaxExpired
  /\ expired' = [expired EXCEPT ![e] = IF status[e] = "sending" THEN @ + 1 ELSE @]
  /\ status' = [status EXCEPT ![e] = "sending"]
  /\ attempts' = [attempts EXCEPT ![e] = @ + 1]
  /\ lease' = [lease EXCEPT ![e] = w]
  /\ due' = [due EXCEPT ![e] = FALSE]
  /\ ToStep(w, "send")
  /\ job' = [job EXCEPT ![w] = e]
  /\ tries' = [tries EXCEPT ![w] = attempts[e] + 1]
  /\ UNCHANGED <<unsubscribed, dayOld, smtp, mails, joined, unrecorded, faults>>

SmtpFails(w) ==
  IF smtp[w] < 2
  THEN smtp' = [smtp EXCEPT ![w] = @ + 1] /\ UNCHANGED step
  ELSE smtp' = [smtp EXCEPT ![w] = 0] /\ ToStep(w, "defer")

MessageSent(w) ==
  /\ step[w] = "send"
  /\ mails' = [mails EXCEPT ![job[w]] = @ + 1]
  /\ smtp' = [smtp EXCEPT ![w] = 0]
  /\ ToStep(w, "mark")
  /\ UNCHANGED <<queue, job, tries, joined, unrecorded, expired, faults>>

\* The server does not accept the message.
MessageRefused(w) ==
  /\ step[w] = "send"
  /\ SmtpFails(w)
  /\ UNCHANGED <<queue, job, tries, mails, joined, unrecorded, expired, faults>>

\* It accepts the message and the answer, or that to QUIT, is lost.
AnswerLost(w) ==
  /\ Fault
  /\ step[w] = "send"
  /\ SmtpFails(w)
  /\ mails' = [mails EXCEPT ![job[w]] = @ + 1]
  /\ unrecorded' = [unrecorded EXCEPT ![job[w]] = @ + 1]
  /\ UNCHANGED <<queue, job, tries, joined, expired>>

\* Mutant of Leased: WHERE lease_id=$2 is left out.
LeasedByAnyone(w) == TRUE

\* What a process writes reaches a row only while that has its lease.
Leased(w) == lease[job[w]] = w

SetRow(w, s) ==
  /\ status' = [status EXCEPT ![job[w]] = IF Leased(w) THEN s ELSE @]
  /\ lease' = [lease EXCEPT ![job[w]] = IF Leased(w) THEN Nobody ELSE @]

MarkSent(w) ==
  /\ step[w] = "mark"
  /\ SetRow(w, "sent")
  /\ unrecorded' = [unrecorded EXCEPT ![job[w]] = IF Leased(w) THEN @ ELSE @ + 1]
  /\ ToStep(w, "idle")
  /\ UNCHANGED <<unsubscribed, attempts, due, dayOld, job, tries, smtp, mails, joined, expired, faults>>

\* The UPDATE fails: the same catch defers the message that has been sent.
MarkFails(w) ==
  /\ Fault
  /\ step[w] = "mark"
  /\ unrecorded' = [unrecorded EXCEPT ![job[w]] = @ + 1]
  /\ ToStep(w, "defer")
  /\ UNCHANGED <<queue, job, tries, smtp, mails, joined, expired>>

GivesUp(w) == tries[w] >= GiveUpAfter

Defer(w) ==
  /\ step[w] = "defer"
  /\ SetRow(w, IF GivesUp(w) THEN "failed" ELSE "pending")
  /\ due' = [due EXCEPT ![job[w]] = IF Leased(w) THEN FALSE ELSE @]
  /\ ToStep(w, "idle")
  /\ UNCHANGED <<unsubscribed, attempts, dayOld, job, tries, smtp, mails, joined, unrecorded, expired, faults>>

\* The process ends, or the UPDATE in the catch fails: the row stays leased.
Abandon(w) ==
  /\ Fault
  /\ step[w] # "idle"
  /\ unrecorded' = [unrecorded EXCEPT ![job[w]] = IF step[w] = "mark" THEN @ + 1 ELSE @]
  /\ smtp' = [smtp EXCEPT ![w] = 0]
  /\ ToStep(w, "idle")
  /\ UNCHANGED <<queue, job, tries, mails, joined, expired>>

Next ==
  \/ \E e \in Emails : Subscribe(e) \/ Unsubscribe(e) \/ FallDue(e) \/ DayPasses(e)
  \/ \E w \in Workers :
       \/ \E e \in Emails : Lease(w, e)
       \/ MessageSent(w) \/ MessageRefused(w) \/ AnswerLost(w)
       \/ MarkSent(w) \/ MarkFails(w) \/ Defer(w) \/ Abandon(w)

Spec == Init /\ [][Next]_vars

----------------------------------------------------------------------------
\* Messages whose sender has lost its lease and is about to find out.
Late(e) == Cardinality({w \in Workers : step[w] = "mark" /\ job[w] = e /\ ~Leased(w)})

\* "Duplicate active subscriptions return the same response without sending
\* another welcome message" (docs/internal/newsletter.md:3), at least once
\* (:17): an address gets one message for each accepted subscription, and one
\* more for each that could not be recorded, because an answer was lost, an
\* UPDATE failed, a process died or its lease ran out.
WelcomeOnce ==
  \A e \in Emails :
    /\ mails[e] <= joined[e] + unrecorded[e] + Late(e)
    /\ status[e] = "sent" => mails[e] > 0

\* "five queue attempts" (docs/internal/newsletter.md:17): more are made only
\* when a lease runs out, once for each that does.
QueueGivesUp == \A e \in Emails : attempts[e] <= GiveUpAfter + expired[e]

WelcomeAccounted == WelcomeOnce /\ QueueGivesUp
=============================================================================
