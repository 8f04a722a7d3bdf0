-------------------------- MODULE SigningKeyCache --------------------------
(***************************************************************************)
(* The cache of SocketFi's signing key in one API process                  *)
(* (consumer/socketfiKeys.ts).  Verifications interleave at every await:   *)
(* they share the fetch in flight, refresh a key that does not fit, and    *)
(* try once more.  The provider rotates its key meanwhile.                 *)
(*                                                                         *)
(* A key is the number of the fetch that brought it and its version; a     *)
(* token is signed with a version, or with none of the provider's: 0.      *)
(***************************************************************************)
EXTENDS Integers, FiniteSets, FiniteSetsExt

CONSTANTS
  Tokens,
  WithKid,       \* tokens whose header names their version
  MaxVersions,   \* bound on rotations
  MaxFetches     \* bound on fetches

ConstantsOK == {MaxVersions, MaxFetches} \subseteq Nat \ {0} /\ WithKid \subseteq Tokens

Key(fetch, version) == [fetch |-> fetch, version |-> version]
NoKey == Key(0, 0)

VARIABLES
  current,    \* version the provider signs with
  key,        \* the cached key
  fresh,      \* it has not expired
  flights,    \* fetches in flight
  answer,     \* version the provider answered a fetch with
  fetched,    \* fetches so far
  cooling,    \* the last attempt is less than five seconds ago
  newest,     \* newest version cached so far
  step,       \* where a verification is
  signed,     \* version of its token
  held,       \* key it checks, or observed
  awaits,     \* fetch it waits for
  flying,     \* fetches in flight when it began
  valid,      \* its version has been current since it began
  cooled,     \* the cooldown refused it a refresh
  lapsed      \* fetch of the cached key that had expired when it began

vars ==
  <<current, key, fresh, flights, answer, fetched, cooling, newest, step, signed, held, awaits,
    flying, valid, cooled, lapsed>>

Waiting == {"first", "named", "last"}

TypeOK ==
  LET Keys == [fetch : 0..MaxFetches, version : 0..MaxVersions]
  IN /\ current \in 1..MaxVersions /\ newest \in 0..MaxVersions
     /\ key \in Keys /\ held \in [Tokens -> Keys]
     /\ {fresh, cooling} \subseteq BOOLEAN
     /\ fetched \in 0..MaxFetches /\ flights \subseteq 1..fetched
     /\ step \in [Tokens -> {"new", "name", "try", "retry", "accepted", "rejected", "failed"} \cup Waiting]
     /\ signed \in [Tokens -> 0..MaxVersions]
     /\ awaits \in [Tokens -> 0..MaxFetches] /\ flying \in [Tokens -> SUBSET (1..MaxFetches)]
     /\ valid \in [Tokens -> BOOLEAN] /\ cooled \in [Tokens -> BOOLEAN]
     /\ answer \in [1..MaxFetches -> 0..MaxVersions]
     /\ lapsed \in [Tokens -> 0..MaxFetches]

Init ==
  /\ current = 1 /\ newest = 0
  /\ key = NoKey /\ fresh = FALSE
  /\ flights = {} /\ fetched = 0 /\ cooling = FALSE
  /\ answer = [f \in 1..MaxFetches |-> 0]
  /\ step = [t \in Tokens |-> "new"] /\ signed = [t \in Tokens |-> 0]
  /\ held = [t \in Tokens |-> NoKey] /\ awaits = [t \in Tokens |-> 0]
  /\ flying = [t \in Tokens |-> {}]
  /\ valid = [t \in Tokens |-> FALSE] /\ cooled = [t \in Tokens |-> FALSE]
  /\ lapsed = [t \in Tokens |-> 0]

cache == <<key, fresh, flights, answer, fetched, cooling, newest>>
history == <<flying, lapsed>>

----------------------------------------------------------------------------
(***************************************************************************)
(* The provider and the clock.                                             *)
(***************************************************************************)
Rotate ==
  /\ current < MaxVersions
  /\ current' = current + 1
  /\ valid' = [t \in Tokens |-> FALSE]
  /\ UNCHANGED <<cache, step, signed, held, awaits, history, cooled>>

CoolDown ==
  /\ cooling' = FALSE
  /\ UNCHANGED <<current, key, fresh, flights, answer, fetched, newest, step, signed, held,
                 awaits, history, valid, cooled>>

\* The twenty-four hours of the cached key are over, whatever is under way.
ExpireKey ==
  /\ fresh
  /\ fresh' = FALSE
  /\ UNCHANGED <<current, key, flights, answer, fetched, cooling, newest, step, signed, held,
                 awaits, history, valid, cooled>>

\* The provider answers fetch f with its key of this moment.
AnswerFetch(f) ==
  /\ f \in flights /\ answer[f] = 0
  /\ answer' = [answer EXCEPT ![f] = current]
  /\ UNCHANGED <<current, key, fresh, flights, fetched, cooling, newest, step, signed, held,
                 awaits, history, valid, cooled>>

----------------------------------------------------------------------------
(***************************************************************************)
(* refresh and fetchKey.                                                   *)
(***************************************************************************)
\* The first key is compared by name, the second by signature, the last as well.
After(wait) == IF wait = "first" THEN "name" ELSE IF wait = "named" THEN "try" ELSE "retry"

\* A verification goes on with key k.
Proceed(t, wait, k) ==
  /\ held' = [held EXCEPT ![t] = k]
  /\ awaits' = [awaits EXCEPT ![t] = 0]
  /\ step' = [step EXCEPT ![t] = After(wait)]

WaitFor(t, wait, fetch) ==
  /\ awaits' = [awaits EXCEPT ![t] = fetch]
  /\ step' = [step EXCEPT ![t] = wait]
  /\ UNCHANGED held

\* Mutant of Newer: the key that was observed will do.
AnyKey(observed) == observed # NoKey /\ key # NoKey

\* Somebody else has refreshed the key that was observed.
Newer(observed) == observed # NoKey /\ key # NoKey /\ key # observed

\* Mutant of Joins: a fetch in flight is not shared.
NeverJoins == FALSE

Joins == flights # {}

Refresh(t, wait, observed) ==
  \/ /\ Joins
     /\ WaitFor(t, wait, Max(flights))
     /\ UNCHANGED <<cooling, flights, fetched, cooled>>
  \/ /\ ~Joins /\ Newer(observed)
     /\ Proceed(t, wait, key)
     /\ UNCHANGED <<cooling, flights, fetched, cooled>>
  \/ /\ ~Joins /\ ~Newer(observed) /\ cooling
     /\ IF fresh THEN Proceed(t, wait, key)
                 ELSE step' = [step EXCEPT ![t] = "failed"] /\ UNCHANGED <<held, awaits>>
     /\ cooled' = [cooled EXCEPT ![t] = TRUE]
     /\ UNCHANGED <<cooling, flights, fetched>>
  \/ /\ ~Joins /\ ~Newer(observed) /\ ~cooling
     /\ fetched < MaxFetches
     /\ fetched' = fetched + 1 /\ flights' = flights \cup {fetched + 1}
     /\ cooling' = TRUE
     /\ WaitFor(t, wait, fetched + 1)
     /\ UNCHANGED cooled

\* The answer arrives, when the provider may have rotated its key since:
\* everybody who waits for fetch f goes on.
FetchAnswered(f) ==
  LET k == Key(f, answer[f])
  IN /\ f \in flights /\ answer[f] # 0
     /\ flights' = flights \ {f}
     /\ key' = k /\ fresh' = TRUE
     /\ newest' = IF answer[f] > newest THEN answer[f] ELSE newest
     /\ held' = [t \in Tokens |-> IF awaits[t] = f THEN k ELSE held[t]]
     /\ step' = [t \in Tokens |->
          IF awaits[t] = f THEN After(step[t]) ELSE step[t]]
     /\ awaits' = [t \in Tokens |-> IF awaits[t] = f THEN 0 ELSE awaits[t]]
     /\ UNCHANGED <<current, answer, fetched, cooling, signed, history, valid, cooled>>

\* It fails or times out, answered or not.
FetchFails(f) ==
  /\ f \in flights
  /\ flights' = flights \ {f}
  /\ step' = [t \in Tokens |-> IF awaits[t] = f THEN "failed" ELSE step[t]]
  /\ awaits' = [t \in Tokens |-> IF awaits[t] = f THEN 0 ELSE awaits[t]]
  /\ UNCHANGED <<current, key, fresh, answer, fetched, cooling, newest, signed, held, history,
                 valid, cooled>>

----------------------------------------------------------------------------
(***************************************************************************)
(* verify.                                                                 *)
(***************************************************************************)
\* A key of another name is refreshed.
CompareName(t, version, k) ==
  IF t \in WithKid /\ version # k.version
  THEN Refresh(t, "named", k)
  ELSE Proceed(t, "named", k) /\ UNCHANGED <<cooling, flights, fetched, cooled>>

\* The cached key while it is fresh, or else a new one.
Begin(t, version) ==
  /\ step[t] = "new"
  /\ signed' = [signed EXCEPT ![t] = version]
  /\ flying' = [flying EXCEPT ![t] = flights]
  /\ valid' = [valid EXCEPT ![t] = version = current]
  /\ lapsed' = [lapsed EXCEPT ![t] = IF fresh THEN 0 ELSE key.fetch]
  /\ IF fresh THEN CompareName(t, version, key) ELSE Refresh(t, "first", NoKey)
  /\ UNCHANGED <<current, key, fresh, answer, newest>>

TakeNewKey(t) ==
  /\ step[t] = "name"
  /\ CompareName(t, signed[t], held[t])
  /\ UNCHANGED <<current, key, fresh, answer, newest, signed, history, valid>>

\* jwtVerify accepts, or the signature does not match and the key is refreshed.
CheckSignature(t) ==
  /\ step[t] = "try"
  /\ IF held[t].version = signed[t]
     THEN /\ step' = [step EXCEPT ![t] = "accepted"]
          /\ UNCHANGED <<held, awaits, cooling, flights, fetched, cooled>>
     ELSE Refresh(t, "last", held[t])
  /\ UNCHANGED <<current, key, fresh, answer, newest, signed, history, valid>>

CheckAgain(t) ==
  /\ step[t] = "retry"
  /\ step' = [step EXCEPT ![t] = IF held[t].version = signed[t] THEN "accepted" ELSE "rejected"]
  /\ UNCHANGED <<current, cache, signed, held, awaits, history, valid, cooled>>

Next ==
  \/ Rotate \/ CoolDown \/ ExpireKey
  \/ \E f \in 1..MaxFetches : AnswerFetch(f) \/ FetchAnswered(f) \/ FetchFails(f)
  \/ \E t \in Tokens :
       \/ \E version \in 0..current : Begin(t, version)
       \/ TakeNewKey(t) \/ CheckSignature(t) \/ CheckAgain(t)

Spec == Init /\ [][Next]_vars

----------------------------------------------------------------------------
\* "24h cache, shared in-flight fetch, and one verification retry after key
\* rotation" (consumer/socketfiKeys.ts:6-9) and "Never use an expired key after
\* a failure" (21): one fetch at a time, also when it takes longer than the five
\* seconds between attempts; the cached version never goes back; a token that
\* was signed with the provider's version all along is rejected only after the
\* cooldown refused a refresh or with a key whose fetch was in flight when the
\* verification began; and whatever fails, a verification checks no key that had
\* expired when it began.
KeyServed ==
  /\ Cardinality(flights) <= 1
  /\ key.version = newest
  /\ \A t \in Tokens :
       /\ step[t] = "rejected" /\ valid[t] => cooled[t] \/ held[t].fetch \in flying[t]
       /\ held[t] # NoKey => held[t].fetch > lapsed[t]
=============================================================================
