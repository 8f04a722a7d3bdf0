-------------------------------- MODULE Otp --------------------------------
(***************************************************************************)
(* One-time codes of the console (auth/authService.ts) for one user: they  *)
(* are issued in a transaction that invalidates the older codes of the     *)
(* same purpose, and consumed in one that locks the code's row.  A         *)
(* challenge is named by the request that issued it.  What a transaction   *)
(* has not committed is seen by nobody, but the rows it has changed are    *)
(* locked, and an UPDATE that waits for one looks at that row again, not   *)
(* at rows inserted meanwhile.                                             *)
(***************************************************************************)
EXTENDS Integers

CONSTANTS
  Issues,       \* requests that issue a code
  Checks,       \* requests that present one
  MaxAttempts   \* AUTH_OTP_MAX_ATTEMPTS

ConstantsOK == MaxAttempts \in Nat \ {0} /\ Issues \cap Checks = {}

Purposes == {"SIGN_IN", "EMAIL_VERIFICATION", "PASSWORD_RESET"}
None == "none"

VARIABLES
  user,       \* users.status, "absent" before the registration
  state,      \* of a challenge, "none" before it is committed
  purpose,    \* of a challenge, from the start of its request
  attempts,   \* of a challenge
  cooled,     \* resend_available_at has passed
  sessions,   \* challenges whose session is not revoked
  pc,         \* where a request is
  seen,       \* live codes the UPDATE of an issuing request will look at
  holds,      \* rows a request has locked
  presents,   \* the challenge a request presents
  before,     \* codes of its purpose there were when a request began
  effects     \* times a challenge took effect

vars == <<user, state, purpose, attempts, cooled, sessions, pc, seen, holds, presents, before, effects>>

Requests == Issues \cup Checks

TypeOK ==
  /\ user \in {"absent", "PENDING_VERIFICATION", "ACTIVE"}
  /\ state \in [Issues -> {"none", "live", "consumed", "invalidated", "expired"}]
  /\ purpose \in [Issues -> Purposes \cup {None}]
  /\ attempts \in [Issues -> 0..MaxAttempts]
  /\ cooled \in [Issues -> BOOLEAN]
  /\ sessions \subseteq Issues
  /\ pc \in [Requests -> {"new", "begin", "update", "insert", "consume", "over"}]
  /\ seen \in [Issues -> SUBSET Issues] /\ before \in [Issues -> SUBSET Issues]
  /\ holds \in [Requests -> SUBSET Issues]
  /\ presents \in [Checks -> Issues \cup {None}]
  /\ effects \in [Issues -> Nat]

Init ==
  /\ user = "absent"
  /\ state = [c \in Issues |-> "none"] /\ purpose = [c \in Issues |-> None]
  /\ attempts = [c \in Issues |-> 0] /\ cooled = [c \in Issues |-> FALSE]
  /\ sessions = {}
  /\ pc = [r \in Requests |-> "new"]
  /\ seen = [i \in Issues |-> {}] /\ before = [i \in Issues |-> {}]
  /\ holds = [r \in Requests |-> {}]
  /\ presents = [k \in Checks |-> None]
  /\ effects = [c \in Issues |-> 0]

ToStep(r, step) == pc' = [pc EXCEPT ![r] = step]

\* No other transaction has locked the row.
Unlocked(c, r) == \A q \in Requests \ {r} : c \notin holds[q]

----------------------------------------------------------------------------
(***************************************************************************)
(* issueOtp and its callers.                                               *)
(***************************************************************************)
\* register creates the user and issues the first code; beginLogin wants an
\* active user, beginPasswordReset any; resendOtp a code that is neither
\* consumed nor invalidated (it may have expired), after the cooldown.
MayIssue(p) ==
  \/ p = "EMAIL_VERIFICATION" /\ user = "absent"
  \/ p = "SIGN_IN" /\ user = "ACTIVE"
  \/ p = "PASSWORD_RESET" /\ user # "absent"
  \/ \E c \in Issues : purpose[c] = p /\ state[c] \in {"live", "expired"} /\ cooled[c]

\* The check, or the INSERT of the user, precedes the transaction.
RequestCode(i) ==
  /\ pc[i] = "new"
  /\ \E p \in Purposes :
       MayIssue(p) /\ purpose' = [purpose EXCEPT ![i] = p]
  /\ user' = IF user = "absent" THEN "PENDING_VERIFICATION" ELSE user
  /\ ToStep(i, "begin")
  /\ UNCHANGED <<state, attempts, cooled, sessions, seen, holds, presents, before, effects>>

OfPurpose(i, states) == {c \in Issues : purpose[c] = purpose[i] /\ state[c] \in states}

\* BEGIN and the snapshot of the UPDATE.
BeginIssue(i) ==
  /\ pc[i] = "begin"
  /\ seen' = [seen EXCEPT ![i] = OfPurpose(i, {"live", "expired"})]
  /\ before' = [before EXCEPT ![i] = OfPurpose(i, {"live", "expired", "consumed", "invalidated"})]
  /\ ToStep(i, "update")
  /\ UNCHANGED <<user, state, purpose, attempts, cooled, sessions, holds, presents, effects>>

\* Mutant of InvalidateOlder: the new code is inserted beside the old ones.
InvalidateNone(i) ==
  /\ pc[i] = "update"
  /\ ToStep(i, "insert")
  /\ UNCHANGED <<user, state, purpose, attempts, cooled, sessions, seen, holds, presents, before, effects>>

\* UPDATE otp_challenges SET invalidated_at, once it has the row locks.
InvalidateOlder(i) ==
  /\ pc[i] = "update"
  /\ \A c \in seen[i] : Unlocked(c, i)
  /\ holds' = [holds EXCEPT ![i] = {c \in seen[i] : state[c] \in {"live", "expired"}}]
  /\ ToStep(i, "insert")
  /\ UNCHANGED <<user, state, purpose, attempts, cooled, sessions, seen, presents, before, effects>>

\* INSERT, the audit entry and COMMIT; the email goes out afterwards.
CommitIssue(i) ==
  /\ pc[i] = "insert"
  /\ state' = [c \in Issues |->
       IF c = i THEN "live" ELSE IF c \in holds[i] THEN "invalidated" ELSE state[c]]
  /\ holds' = [holds EXCEPT ![i] = {}]
  /\ ToStep(i, "over")
  /\ UNCHANGED <<user, purpose, attempts, cooled, sessions, seen, presents, before, effects>>

Cool(c) ==
  /\ state[c] = "live"
  /\ cooled' = [cooled EXCEPT ![c] = TRUE]
  /\ UNCHANGED <<user, state, purpose, attempts, sessions, pc, seen, holds, presents, before, effects>>

\* expires_at passes; nothing is written.
Expire(c) ==
  /\ state[c] = "live" /\ cooled[c]
  /\ state' = [state EXCEPT ![c] = "expired"]
  /\ UNCHANGED <<user, purpose, attempts, cooled, sessions, pc, seen, holds, presents, before, effects>>

----------------------------------------------------------------------------
(***************************************************************************)
(* consumeChallenge and its callers.                                       *)
(***************************************************************************)
\* Mutant of ReadChallenge: SELECT without FOR UPDATE.
ReadUnlocked(k, c) ==
  /\ pc[k] = "new"
  /\ state[c] = "live" /\ attempts[c] < MaxAttempts
  /\ presents' = [presents EXCEPT ![k] = c]
  /\ ToStep(k, "consume")
  /\ UNCHANGED <<user, state, purpose, attempts, cooled, sessions, seen, holds, before, effects>>

\* SELECT ... FOR UPDATE of a code that can be consumed; otherwise the request
\* is answered at once.
ReadChallenge(k, c) ==
  /\ pc[k] = "new"
  /\ Unlocked(c, k)
  /\ state[c] = "live" /\ attempts[c] < MaxAttempts
  /\ presents' = [presents EXCEPT ![k] = c]
  /\ holds' = [holds EXCEPT ![k] = {c}]
  /\ ToStep(k, "consume")
  /\ UNCHANGED <<user, state, purpose, attempts, cooled, sessions, seen, before, effects>>

EndCheck(k) ==
  /\ ToStep(k, "over")
  /\ holds' = [holds EXCEPT ![k] = {}]
  /\ UNCHANGED <<purpose, cooled, seen, presents, before>>

WrongCode(k) ==
  /\ pc[k] = "consume"
  /\ attempts' = [attempts EXCEPT ![presents[k]] = @ + 1]
  /\ EndCheck(k)
  /\ UNCHANGED <<user, state, sessions, effects>>

\* verifyEmailOtp activates the user, resetPassword revokes every session and
\* createSessionFromOtp opens one.
RightCode(k) ==
  LET c == presents[k]
  IN /\ pc[k] = "consume"
     /\ state' = [state EXCEPT ![c] = "consumed"]
     /\ effects' = [effects EXCEPT ![c] = @ + 1]
     /\ user' = IF purpose[c] = "EMAIL_VERIFICATION" THEN "ACTIVE" ELSE user
     /\ \/ purpose[c] = "EMAIL_VERIFICATION" /\ UNCHANGED sessions
        \/ purpose[c] = "PASSWORD_RESET" /\ sessions' = {}
        \/ purpose[c] = "SIGN_IN" /\ sessions' = sessions \cup {c}
     /\ EndCheck(k)
     /\ UNCHANGED attempts

\* revokeSession
LogOut(c) ==
  /\ c \in sessions
  /\ sessions' = sessions \ {c}
  /\ UNCHANGED <<user, state, purpose, attempts, cooled, pc, seen, holds, presents, before, effects>>

\* A statement fails, the database ends a deadlock, or the process stops.
RollBack(r) ==
  /\ pc[r] \in {"begin", "update", "insert", "consume"}
  /\ ToStep(r, "over")
  /\ holds' = [holds EXCEPT ![r] = {}]
  /\ UNCHANGED <<user, state, purpose, attempts, cooled, sessions, seen, presents, before, effects>>

Next ==
  \/ \E i \in Issues :
       \/ RequestCode(i) \/ BeginIssue(i) \/ InvalidateOlder(i) \/ CommitIssue(i)
       \/ Cool(i) \/ Expire(i) \/ LogOut(i)
  \/ \E k \in Checks :
       (\E c \in Issues : ReadChallenge(k, c)) \/ WrongCode(k) \/ RightCode(k)
  \/ \E r \in Requests : RollBack(r)

Spec == Init /\ [][Next]_vars

----------------------------------------------------------------------------
\* "Resend invalidates older active challenges for the same subject and
\* purpose" (docs/internal/platform-implementation-plan.md:166): two codes of
\* one purpose are live together only if each was issued by a request that
\* began before the other was committed.
OneLiveCode ==
  \A c, d \in Issues :
    (c # d /\ state[c] = "live" /\ state[d] = "live" /\ purpose[c] = purpose[d])
      => c \notin before[d] /\ d \notin before[c]

\* "Verification increments attempts and consumes success atomically to
\* prevent races" (:168): a code takes effect once at most, and only while it
\* has attempts left; an invalidated one never did.
ConsumedOnce ==
  \A c \in Issues :
    /\ effects[c] = IF state[c] = "consumed" THEN 1 ELSE 0
    /\ attempts[c] <= MaxAttempts
    /\ c \in sessions => state[c] = "consumed" /\ purpose[c] = "SIGN_IN"

CodesSound == OneLiveCode /\ ConsumedOnce
=============================================================================
