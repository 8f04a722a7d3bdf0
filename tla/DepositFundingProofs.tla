------------------------ MODULE DepositFundingProofs ------------------------
(***************************************************************************)
(* Theorems about the fiat leg of a deposit, for any references, amounts,  *)
(* limits and windows.                                                     *)
(***************************************************************************)
EXTENDS DepositFunding, FiniteSums, TLAPS

USE AmountsPositive, LimitsPositive

(***************************************************************************)
(* Type correctness.                                                       *)
(***************************************************************************)
\* Nothing is asked for yet.
LEMMA InitType == Init => TypeOK
  BY DEF Init, TypeOK, Intent, Intents, IntentStates, PostStates, ChargeStates,
         ReceiptStates, Time

\* A change of state keeps the amount and the times of a deposit.
LEMMA SetStateType ==
  ASSUME TypeOK, NEW r \in Refs, NEW next \in IntentStates, SetState(r, next)
  PROVE  intent' \in [Refs -> Intents]
BY DEF TypeOK, SetState, Intent, Intents

\* Every step keeps the tables within their domains.
LEMMA StepType == TypeOK /\ [Next]_vars => TypeOK'
<1> SUFFICES ASSUME TypeOK, [Next]_vars PROVE TypeOK'
  OBVIOUS
<1> USE DEF IntentStates, PostStates, ChargeStates, ReceiptStates, Time
<1>1. CASE Tick
  BY <1>1 DEF Tick, TypeOK
<1>2. ASSUME NEW r \in Refs, NEW amount \in Amounts, CreateQuote(r, amount) PROVE TypeOK'
  <2>1. Intent("QUOTED", amount, now, now + 1) \in Intents
    BY DEF TypeOK, Intent, Intents
  <2>2. QED  BY <1>2, <2>1 DEF CreateQuote, TypeOK
<1>3. ASSUME NEW r \in Refs, StartDeposit(r) PROVE TypeOK'
  <2>1. Intent("CREATING", intent[r].amount, intent[r].quoted, now + Expiry) \in Intents
    BY DEF TypeOK, Intent, Intents
  <2>2. QED  BY <1>3, <2>1 DEF StartDeposit, TypeOK
<1>4. ASSUME NEW r \in Refs, Pay(r) \/ PostLands(r) \/ PostRefused(r) \/ PostLost(r) PROVE TypeOK'
  <2>1. /\ UNCHANGED <<now, intent, shown, lookups, failures, receipt, released>>
        /\ charge' = charge \/ \E next \in [state : ChargeStates, paidAt : Time] :
                                 charge' = [charge EXCEPT ![r] = next]
        /\ post' = post \/ \E next \in PostStates : post' = [post EXCEPT ![r] = next]
    BY <1>4 DEF Pay, PostLands, PostRefused, PostLost, TypeOK
  <2>2. QED  BY <2>1 DEF TypeOK
<1>5. ASSUME NEW r \in Refs, PostAnswered(r) PROVE TypeOK'
  BY <1>5, SetStateType DEF PostAnswered, ShowDetails, FailCreation, TypeOK
<1>6. ASSUME NEW r \in Refs, NEW mismatch \in BOOLEAN, Reconcile(r, mismatch) PROVE TypeOK'
  BY <1>6, SetStateType DEF Reconcile, TypeOK
<1>7. ASSUME NEW r \in Refs, VerifyFailed(r) PROVE TypeOK'
  BY <1>7 DEF VerifyFailed, TypeOK
<1>8. ASSUME NEW r \in Refs, ReleaseFailed(r) \/ ExpireQuote(r) PROVE TypeOK'
  BY <1>8, SetStateType DEF ReleaseFailed, ExpireQuote, TypeOK
<1>9. ASSUME NEW r \in Refs, LookUpCharge(r) PROVE TypeOK'
  BY <1>9 DEF LookUpCharge, TypeOK
<1>10. ASSUME NEW r \in Refs, NEW answer \in {"DETAILS", "REJECTED"}, LookupAnswered(answer, r)
       PROVE TypeOK'
  BY <1>10, SetStateType DEF LookupAnswered, ShowDetails, FailCreation, TypeOK
<1>11. ASSUME NEW r \in Refs, SettleDeposit(r) PROVE TypeOK'
  BY <1>11, SetStateType DEF SettleDeposit, TypeOK
<1>12. CASE UNCHANGED vars
  BY <1>12 DEF vars, TypeOK
<1>13. QED
  BY <1>1, <1>2, <1>3, <1>4, <1>5, <1>6, <1>7, <1>8, <1>9, <1>10, <1>11, <1>12 DEF Next

\* The tables stay within their domains.
THEOREM TypeCorrect == Spec => []TypeOK
<1>1. QED  BY InitType, StepType, PTL DEF Spec

(***************************************************************************)
(* The receipt decides.  With the types the property is inductive as it    *)
(* stands: reconcile writes receipt and deposit together, and every other  *)
(* write is conditional on a state that has no receipt.                    *)
(***************************************************************************)
IndInv == TypeOK /\ ReceiptDecidesIntent

LEMMA InitInd == Init => IndInv
  BY InitType DEF Init, IndInv, ReceiptDecidesIntent, Is, Intent

\* A write that moves one deposit from a state without a receipt to another.
LEMMA WithoutReceipt ==
  ASSUME IndInv, NEW r \in Refs, UNCHANGED <<receipt, released>>,
         ~Is(r, {"SETTLING", "RECEIVED", "REVIEW"}),
         NEW doing, intent' = [intent EXCEPT ![r] = doing],
         doing.state \notin {"SETTLING", "RECEIVED", "REVIEW"}
  PROVE  ReceiptDecidesIntent'
BY DEF IndInv, TypeOK, ReceiptDecidesIntent, Is

LEMMA StepInd == IndInv /\ [Next]_vars => IndInv'
<1> SUFFICES ASSUME IndInv, [Next]_vars PROVE ReceiptDecidesIntent'
  BY StepType DEF IndInv
<1>1. ASSUME UNCHANGED <<intent, receipt, released>> PROVE ReceiptDecidesIntent'
  BY <1>1 DEF IndInv, ReceiptDecidesIntent, Is
<1>2. ASSUME NEW r \in Refs, NEW amount \in Amounts, CreateQuote(r, amount)
      PROVE  ReceiptDecidesIntent'
  BY <1>2, WithoutReceipt DEF CreateQuote, Intent, Is
<1>3. ASSUME NEW r \in Refs, StartDeposit(r) PROVE ReceiptDecidesIntent'
  BY <1>3, WithoutReceipt DEF StartDeposit, Intent, Is
<1>4. ASSUME NEW r \in Refs, NEW answer \in {"DETAILS", "REJECTED"},
             PostAnswered(r) \/ LookupAnswered(answer, r)
      PROVE  ReceiptDecidesIntent'
  BY <1>1, <1>4, WithoutReceipt
     DEF PostAnswered, LookupAnswered, ShowDetails, FailCreation, SetState, Intent, Is
<1>5. ASSUME NEW r \in Refs, NEW mismatch \in BOOLEAN, Reconcile(r, mismatch)
      PROVE  ReceiptDecidesIntent'
  BY <1>5 DEF Reconcile, SetState, Intent, IndInv, TypeOK, ReceiptDecidesIntent, Is
<1>6. ASSUME NEW r \in Refs, ReleaseFailed(r) \/ ExpireQuote(r) PROVE ReceiptDecidesIntent'
  BY <1>1, <1>6, WithoutReceipt DEF ReleaseFailed, ExpireQuote, SetState, Intent, Is
<1>7. ASSUME NEW r \in Refs, SettleDeposit(r) PROVE ReceiptDecidesIntent'
  BY <1>7 DEF SettleDeposit, SetState, Intent, IndInv, TypeOK, ReceiptDecidesIntent, Is
<1>8. QED
  BY <1>1, <1>2, <1>3, <1>4, <1>5, <1>6, <1>7
     DEF Next, Tick, Pay, PostLands, PostRefused, PostLost, VerifyFailed, LookUpCharge, vars

\* No late answer, sweep or refresh takes a deposit that was received, or is
\* under review, back to another state.
THEOREM ReceiptDecides == Spec => []ReceiptDecidesIntent
<1>1. IndInv => ReceiptDecidesIntent
  BY DEF IndInv
<1>2. QED  BY InitInd, StepInd, <1>1, PTL DEF Spec

(***************************************************************************)
(* Totals.                                                                 *)
(***************************************************************************)
\* Principals are numbers.
LEMMA Principals ==
  ASSUME TypeOK
  PROVE  \A r \in Refs : Principal[r] \in Nat /\ Principal[r] = intent[r].amount
<1> TAKE r \in Refs
<1>1. intent[r].amount \in Amounts \cup {0}
  BY DEF TypeOK, Intents
<1>2. Principal[r] = intent[r].amount
  BY DEF Principal
<1>3. \A amount \in Amounts \cup {0} : amount \in Nat
  BY AmountsPositive
<1>4. QED  BY <1>1, <1>2, <1>3, Zenon

\* A total over less is at most as large, and none is negative.
LEMMA TotalSubset ==
  ASSUME TypeOK, NEW A \in SUBSET Refs, NEW B \in SUBSET A
  PROVE  Total(A) \in Nat /\ Total(B) \in Nat /\ Total(B) <= Total(A)
<1>1. IsFiniteSet(A) /\ IsFiniteSet(B)
  BY RefsFinite, FS_Subset
<1>2. \A r \in A : Principal[r] \in Nat
  BY Principals
<1>3. QED  BY <1>1, <1>2, SumRemove, SumSubset DEF Total

\* Totals over sets that share nothing add up.
LEMMA TotalUnion ==
  ASSUME TypeOK, NEW A \in SUBSET Refs, NEW B \in SUBSET Refs, A \cap B = {}
  PROVE  Total(A \cup B) = Total(A) + Total(B)
<1>1. \A r \in Refs : Principal[r] \in Nat
  BY Principals
<1>2. QED  BY <1>1, RefsFinite, SumUnion DEF Total

\* One more deposit adds its principal.
LEMMA TotalAdd ==
  ASSUME TypeOK, NEW A \in SUBSET Refs, NEW r \in Refs
  PROVE  Total(A \cup {r}) <= intent[r].amount + Total(A)
<1>1. IsFiniteSet(A \cup {r}) /\ A \cup {r} \in SUBSET Refs
  BY RefsFinite, FS_Subset
<1>2. \A q \in Refs : Principal[q] \in Nat /\ Principal[q] = intent[q].amount
  BY Principals
<1>3. Total(A \cup {r}) = intent[r].amount + Total((A \cup {r}) \ {r})
  BY <1>1, <1>2, SumRemove DEF Total
<1>4. (A \cup {r}) \ {r} \in SUBSET A
  OBVIOUS
<1>5. Total(A) \in Nat /\ Total((A \cup {r}) \ {r}) \in Nat /\ Total((A \cup {r}) \ {r}) <= Total(A)
  BY <1>4, TotalSubset
<1>6. QED  BY <1>2, <1>3, <1>5

\* A step that leaves the principals of A alone leaves their total alone.
LEMMA TotalKept ==
  ASSUME TypeOK, TypeOK', NEW A \in SUBSET Refs, \A r \in A : intent'[r].amount = intent[r].amount
  PROVE  SumFunctionOnSet(Principal', A) = Total(A)
<1>1. \A r \in A : Principal'[r] = Principal[r]
  BY DEF Principal
<1>2. QED  BY <1>1, RefsFinite, FS_Subset, SumAgree DEF Total

(***************************************************************************)
(* The rolling limit.  That the received principal fits is not inductive:  *)
(* a payment counts from the time it was made, which may lie before the    *)
(* quote of another deposit.  Held counts it from its reservation on, in   *)
(* every window its payment may fall into, so that a step other than the   *)
(* start of a deposit only takes deposits out of the windows.              *)
(***************************************************************************)
\* The step adds no deposit to a window and changes no principal in one.
Shrinks ==
  \A t \in Time : \A r \in Held(t)' : r \in Held(t) /\ intent'[r].amount = intent[r].amount

\* What counts in a window is a set of deposits.
LEMMA HeldRefs == \A t \in Time : Held(t) \in SUBSET Refs
  BY DEF Held, ReceivedIn, In

\* The same after a step.
LEMMA HeldRefsNext == \A t \in Time : Held(t)' \in SUBSET Refs
  BY DEF Held, ReceivedIn, In

\* Windows that only lose deposits still fit.
LEMMA ShrinkingFits ==
  ASSUME TypeOK, TypeOK', WindowsFit, Shrinks
  PROVE  WindowsFit'
<1> SUFFICES ASSUME NEW t \in Time PROVE Total(Held(t))' <= Limit
  BY DEF WindowsFit
<1>1. Held(t)' \in SUBSET Held(t) /\ Held(t) \in SUBSET Refs
  BY HeldRefs DEF Shrinks
<1>2. PICK A \in SUBSET Refs : A = Held(t)'
  BY <1>1
<1>3. SumFunctionOnSet(Principal', A) = Total(A)
  BY <1>2, TotalKept DEF Shrinks
<1>4. Total(A) \in Nat /\ Total(Held(t)) \in Nat /\ Total(A) <= Total(Held(t))
  BY <1>1, <1>2, TotalSubset
<1>5. Total(Held(t)) <= Limit
  BY DEF WindowsFit
<1>6. Total(Held(t))' = Total(A)
  BY <1>2, <1>3 DEF Total
<1>7. QED  BY <1>4, <1>5, <1>6

\* What any window from now on holds is received now or reserved.
LEMMA HeldFromNow ==
  ASSUME LimitInv, NEW t \in Time, t >= now
  PROVE  Held(t) \subseteq ReceivedIn(now) \cup In(Reserving)
<1>1. now \in Nat /\ t \in Nat
  BY DEF LimitInv, TypeOK, Time
<1>2. ASSUME NEW r \in ReceivedIn(t) PROVE r \in ReceivedIn(now)
  <2>1. r \in Refs /\ receipt[r] = "FIAT_RECEIVED" /\ charge[r].paidAt + Window > t
    BY <1>2 DEF ReceivedIn
  <2>2. charge[r].paidAt <= now
    BY <2>1 DEF LimitInv, PaymentsFollow
  <2>3. charge[r].paidAt \in Nat
    BY <2>1 DEF LimitInv, TypeOK, Time
  <2>4. QED  BY <1>1, <2>1, <2>2, <2>3 DEF ReceivedIn
<1>3. In({"CREATING", "PENDING"}) \subseteq In(Reserving)
  BY DEF In, Reserving
<1>4. QED  BY <1>2, <1>3 DEF Held

\* Received and reserved deposits differ: the receipt decides.
LEMMA ReceivedOrReserved ==
  ASSUME LimitInv
  PROVE  ReceivedIn(now) \cap In(Reserving) = {}
  BY DEF LimitInv, ReceiptDecidesIntent, ReceivedIn, In, Is, Reserving

\* A deposit that starts fits into what is available.
LEMMA StartFits ==
  ASSUME LimitInv, TypeOK', NEW r \in Refs, StartDeposit(r)
  PROVE  WindowsFit'
<1> USE DEF LimitInv
<1> SUFFICES ASSUME NEW t \in Time PROVE Total(Held(t))' <= Limit
  BY DEF WindowsFit
<1>1. /\ UNCHANGED <<now, charge, shown, receipt>> /\ Is(r, {"QUOTED"})
      /\ \A q \in Refs : intent'[q].amount = intent[q].amount
      /\ \A other \in Refs \ {r} : intent'[other] = intent[other]
  BY DEF StartDeposit, Intent, TypeOK
<1>2. charge[r].state # "PAID"
  BY <1>1 DEF PaymentsFollow, Is
<1>3. PICK A \in SUBSET Refs : A = Held(t)'
  BY HeldRefsNext
<1>4. Total(Held(t))' = Total(A)
  <2>1. SumFunctionOnSet(Principal', A) = Total(A)
    BY <1>1, <1>3, TotalKept
  <2>2. QED  BY <1>3, <2>1 DEF Total
<1>5. Held(t) \in SUBSET Refs /\ Total(Held(t)) \in Nat /\ Total(Held(t)) <= Limit
  BY HeldRefs, TotalSubset DEF WindowsFit
<1>6. A \subseteq Held(t) \cup {r}
  BY <1>1, <1>3 DEF Held, ReceivedIn, In
<1>7. CASE t < now
  <2>1. now \in Nat /\ t \in Nat
    BY DEF TypeOK, Time
  <2>2. r \notin A
    <3>1. r \notin ReceivedIn(t)'
      BY <1>1, <1>2 DEF ReceivedIn, PaymentsFollow
    <3>2. ~(t >= now)
      BY <1>7, <2>1
    <3>3. QED  BY <1>1, <1>2, <1>3, <3>1, <3>2 DEF Held
  <2>3. A \in SUBSET Held(t)
    BY <1>6, <2>2
  <2>4. Total(A) \in Nat /\ Total(A) <= Total(Held(t))
    BY <1>5, <2>3, TotalSubset
  <2>5. QED  BY <1>4, <1>5, <2>4
<1>8. CASE t >= now
  <2> DEFINE R == ReceivedIn(now)
             W == In(Reserving)
  <2>1. R \in SUBSET Refs /\ W \in SUBSET Refs /\ R \cap W = {}
    BY ReceivedOrReserved DEF ReceivedIn, In
  <2>2. Total(R \cup W) = Total(R) + Total(W)
    BY <2>1, TotalUnion
  <2>3. Held(t) \in SUBSET (R \cup W)
    BY <1>8, HeldFromNow
  <2>4. Total(R) \in Nat /\ Total(W) \in Nat /\ Total(Held(t)) <= Total(R \cup W)
    BY <2>1, <2>3, TotalSubset
  <2>5. Held(t) \cup {r} \in SUBSET Refs
    BY <1>5
  <2>6. Total(A) \in Nat /\ Total(Held(t) \cup {r}) \in Nat /\ Total(A) <= Total(Held(t) \cup {r})
    BY <1>6, <2>5, TotalSubset
  <2>7. Total(Held(t) \cup {r}) <= intent[r].amount + Total(Held(t))
    BY <1>5, TotalAdd
  <2>8. intent[r].amount \in Nat
    BY Principals
  <2>9. intent[r].amount <= IF Total(R) + Total(W) >= Limit THEN 0 ELSE Limit - (Total(R) + Total(W))
    BY DEF StartDeposit, Available
  <2>10. PICK amount \in Nat : amount = intent[r].amount
    BY <2>8
  <2>11. PICK total \in Nat, used \in Nat, more \in Nat, held \in Nat :
            /\ total = Total(A) /\ used = Total(R) + Total(W)
            /\ more = Total(Held(t) \cup {r}) /\ held = Total(Held(t))
    BY <1>5, <2>4, <2>6
  <2>12. /\ total <= more /\ more <= amount + held /\ held <= used /\ held <= Limit
         /\ amount <= IF used >= Limit THEN 0 ELSE Limit - used
    BY <1>5, <2>2, <2>4, <2>6, <2>7, <2>9, <2>10, <2>11
  <2>13. Limit \in Nat
    BY LimitsPositive
  <2>14. total <= Limit
    BY <2>12, <2>13
  <2>15. QED  BY <1>4, <2>11, <2>14
<1>9. QED
  <2>1. t < now \/ t >= now
    BY DEF TypeOK, Time
  <2>2. QED  BY <1>7, <1>8, <2>1

\* Nothing is paid for initially, and no window holds a deposit.
LEMMA InitLimit == Init => LimitInv
<1> SUFFICES ASSUME Init PROVE LimitInv
  OBVIOUS
<1>1. TypeOK /\ ReceiptDecidesIntent
  BY InitInd DEF IndInv
<1>2. PaymentsFollow
  BY DEF Init, PaymentsFollow
<1>3. ASSUME NEW t \in Time PROVE Total(Held(t)) <= Limit
  <2>1. Held(t) = {}
    BY DEF Init, Held, ReceivedIn, In, Intent
  <2>2. Total({}) = 0
    BY FS_EmptySet, SumStep DEF Total
  <2>3. QED  BY <2>1, <2>2, LimitsPositive
<1>4. QED  BY <1>1, <1>2, <1>3 DEF LimitInv, WindowsFit

\* A deposit without a receipt and not yet shown may change its state; a shown
\* one may only expire or be reconciled.
LEMMA StepPayments == LimitInv /\ [Next]_vars => PaymentsFollow'
<1> SUFFICES ASSUME LimitInv, [Next]_vars PROVE PaymentsFollow'
  OBVIOUS
<1> USE DEF LimitInv, TypeOK, Time, Is, Intent, SetState
<1>1. CASE Tick
  <2>1. now <= now' /\ UNCHANGED <<intent, charge, shown, receipt>>
    BY <1>1 DEF Tick
  <2>2. \A r \in Refs : charge[r].paidAt \in Nat /\ now \in Nat /\ now' \in Nat
    BY <1>1 DEF Tick
  <2>3. QED  BY <2>1, <2>2 DEF PaymentsFollow
<1>2. ASSUME NEW r \in Refs, NEW amount \in Amounts, CreateQuote(r, amount) PROVE PaymentsFollow'
  BY <1>2 DEF CreateQuote, PaymentsFollow
<1>3. ASSUME NEW r \in Refs, StartDeposit(r) PROVE PaymentsFollow'
  BY <1>3 DEF StartDeposit, PaymentsFollow
<1>4. ASSUME NEW r \in Refs, Pay(r) PROVE PaymentsFollow'
  <2>1. /\ UNCHANGED <<now, intent, shown, receipt>> /\ r \in shown
        /\ \A other \in Refs \ {r} : charge'[other] = charge[other]
        /\ charge'[r] = [state |-> "PAID", paidAt |-> now]
    BY <1>4 DEF Pay
  <2>2. now <= now
    BY <1>4 DEF Pay
  <2>3. QED  BY <2>1, <2>2 DEF PaymentsFollow
<1>5. ASSUME NEW r \in Refs, PostLands(r) PROVE PaymentsFollow'
  BY <1>5 DEF PostLands, PaymentsFollow
<1>6. ASSUME NEW r \in Refs, PostRefused(r) \/ PostLost(r) \/ VerifyFailed(r) \/ LookUpCharge(r)
      PROVE  PaymentsFollow'
  BY <1>6 DEF PostRefused, PostLost, VerifyFailed, LookUpCharge, PaymentsFollow
<1>7. ASSUME NEW r \in Refs, NEW answer \in {"DETAILS", "REJECTED"},
             PostAnswered(r) \/ LookupAnswered(answer, r)
      PROVE  PaymentsFollow'
  <2>1. /\ UNCHANGED <<now, charge, receipt>>
        /\ \/ UNCHANGED <<intent, shown>>
           \/ Is(r, {"CREATING"}) /\ SetState(r, "PENDING") /\ shown' = shown \cup {r}
           \/ Is(r, {"CREATING"}) /\ SetState(r, "FAILED") /\ UNCHANGED shown
    BY <1>7 DEF PostAnswered, LookupAnswered, ShowDetails, FailCreation
  <2>2. CASE UNCHANGED <<intent, shown>>
    BY <2>1, <2>2 DEF PaymentsFollow
  <2>3. CASE Is(r, {"CREATING"}) /\ SetState(r, "PENDING") /\ shown' = shown \cup {r}
    BY <2>1, <2>3 DEF PaymentsFollow
  <2>4. CASE Is(r, {"CREATING"}) /\ SetState(r, "FAILED") /\ UNCHANGED shown
    BY <2>1, <2>4 DEF PaymentsFollow
  <2>5. QED  BY <2>1, <2>2, <2>3, <2>4
<1>8. ASSUME NEW r \in Refs, NEW mismatch \in BOOLEAN, Reconcile(r, mismatch)
      PROVE  PaymentsFollow'
  BY <1>8 DEF Reconcile, PaymentsFollow
<1>9. ASSUME NEW r \in Refs, ReleaseFailed(r) \/ ExpireQuote(r) PROVE PaymentsFollow'
  BY <1>9 DEF ReleaseFailed, ExpireQuote, PaymentsFollow
<1>10. ASSUME NEW r \in Refs, SettleDeposit(r) PROVE PaymentsFollow'
  BY <1>10 DEF SettleDeposit, PaymentsFollow
<1>11. CASE UNCHANGED vars
  BY <1>11 DEF vars, PaymentsFollow
<1>12. QED
  BY <1>1, <1>2, <1>3, <1>4, <1>5, <1>6, <1>7, <1>8, <1>9, <1>10, <1>11 DEF Next

\* Time only closes windows for reserved deposits.
LEMMA TickShrinks == LimitInv /\ Tick => Shrinks
<1> SUFFICES ASSUME LimitInv, Tick PROVE Shrinks
  OBVIOUS
<1>1. UNCHANGED <<intent, charge, shown, receipt>> /\ now' = now + 1 /\ now \in Nat
  BY DEF Tick, LimitInv, TypeOK, Time
<1>2. \A t \in Time : t >= now' => t >= now
  BY <1>1 DEF Time
<1>3. QED  BY <1>1, <1>2 DEF Shrinks, Held, ReceivedIn, In

\* A write that moves one deposit and leaves clock, payments and receipts alone
\* shrinks the windows if it reserves only what was reserved.
LEMMA WriteShrinks ==
  ASSUME LimitInv, NEW r \in Refs, UNCHANGED <<now, charge, receipt>>,
         \A other \in Refs \ {r} : intent'[other] = intent[other],
         intent'[r].state \in {"CREATING", "PENDING"} =>
           Is(r, {"CREATING", "PENDING"}) /\ intent'[r].amount = intent[r].amount,
         receipt[r] = "NONE"
  PROVE  Shrinks
BY DEF Shrinks, Held, ReceivedIn, In, Is

\* A payment counts where its reservation did.
LEMMA PayShrinks ==
  ASSUME LimitInv, NEW r \in Refs, Pay(r)
  PROVE  Shrinks
<1>1. /\ UNCHANGED <<now, intent, shown, receipt>>
      /\ \A other \in Refs \ {r} : charge'[other] = charge[other]
      /\ charge'[r] = [state |-> "PAID", paidAt |-> now]
      /\ charge[r].state = "OPEN"
  BY DEF Pay, LimitInv, TypeOK
<1>2. receipt[r] = "NONE"
  BY <1>1 DEF LimitInv, PaymentsFollow
<1>3. \A t \in Time : now <= t => t >= now
  BY DEF LimitInv, TypeOK, Time
<1>4. QED  BY <1>1, <1>2, <1>3 DEF Shrinks, Held, ReceivedIn, In

\* A receipt counts where its reservation did: only a pending deposit is
\* received, others are reviewed.
LEMMA ReconcileShrinks ==
  ASSUME LimitInv, NEW r \in Refs, NEW mismatch \in BOOLEAN, Reconcile(r, mismatch)
  PROVE  Shrinks
<1>1. /\ UNCHANGED <<now, charge, shown>>
      /\ \A other \in Refs \ {r} :
           intent'[other] = intent[other] /\ receipt'[other] = receipt[other]
      /\ intent'[r].state \in {"SETTLING", "RECEIVED", "REVIEW"} /\ intent'[r].amount = intent[r].amount
      /\ charge[r].state = "PAID" /\ receipt[r] = "NONE"
      /\ receipt'[r] = "FIAT_RECEIVED" => ~Is(r, {"QUOTED", "EXPIRED"})
  BY DEF Reconcile, InReview, SetState, Intent, LimitInv, TypeOK
<1>2. r \in shown /\ ~Is(r, {"SETTLING", "RECEIVED", "REVIEW"})
  BY <1>1 DEF LimitInv, PaymentsFollow, ReceiptDecidesIntent, Is
<1>3. receipt'[r] = "FIAT_RECEIVED" => Is(r, {"CREATING", "PENDING"})
  BY <1>1, <1>2 DEF LimitInv, PaymentsFollow, Is
<1>4. QED  BY <1>1, <1>3 DEF Shrinks, Held, ReceivedIn, In, Is

\* Only the start of a deposit adds to a window.
LEMMA StepShrinks == LimitInv /\ [Next]_vars => Shrinks \/ \E r \in Refs : StartDeposit(r)
<1> SUFFICES ASSUME LimitInv, [Next]_vars, \A r \in Refs : ~StartDeposit(r) PROVE Shrinks
  OBVIOUS
<1>1. ASSUME UNCHANGED <<now, intent, charge, receipt>>
      PROVE  Shrinks
  BY <1>1 DEF Shrinks, Held, ReceivedIn, In
<1>2. ASSUME NEW r \in Refs, NEW amount \in Amounts, CreateQuote(r, amount) PROVE Shrinks
  <2>1. receipt[r] = "NONE"
    BY <1>2 DEF CreateQuote, LimitInv, TypeOK, ReceiptStates, ReceiptDecidesIntent, Is
  <2>2. QED  BY <1>2, <2>1, WriteShrinks DEF CreateQuote, Intent, LimitInv, TypeOK
<1>3. ASSUME NEW r \in Refs, PostLands(r) PROVE Shrinks
  <2>1. receipt[r] = "NONE"
    BY <1>3 DEF PostLands, LimitInv, PaymentsFollow
  <2>2. /\ UNCHANGED <<now, intent, receipt>> /\ charge'[r].state = "OPEN"
        /\ \A other \in Refs \ {r} : charge'[other] = charge[other]
    BY <1>3 DEF PostLands, LimitInv, TypeOK
  <2>3. QED  BY <2>1, <2>2 DEF Shrinks, Held, ReceivedIn, In
<1>4. ASSUME NEW r \in Refs, NEW answer \in {"DETAILS", "REJECTED"},
             PostAnswered(r) \/ LookupAnswered(answer, r)
      PROVE  Shrinks
  <2>1. CASE Is(r, {"CREATING"})
    <3>1. receipt[r] = "NONE"
      BY <2>1 DEF LimitInv, TypeOK, ReceiptStates, ReceiptDecidesIntent, Is
    <3>2. /\ UNCHANGED <<now, charge, receipt>>
          /\ \A other \in Refs \ {r} : intent'[other] = intent[other]
          /\ intent'[r].amount = intent[r].amount
      BY <1>4, <2>1 DEF PostAnswered, LookupAnswered, ShowDetails, FailCreation, SetState,
                        Intent, LimitInv, TypeOK
    <3>3. QED  BY <2>1, <3>1, <3>2, WriteShrinks DEF Is
  <2>2. CASE ~Is(r, {"CREATING"})
    BY <1>1, <1>4, <2>2 DEF PostAnswered, LookupAnswered, ShowDetails, FailCreation
  <2>3. QED  BY <2>1, <2>2
<1>5. ASSUME NEW r \in Refs, ReleaseFailed(r) \/ ExpireQuote(r) PROVE Shrinks
  <2>1. CASE UNCHANGED intent
    BY <1>1, <1>5, <2>1 DEF ReleaseFailed, ExpireQuote
  <2>2. CASE ~UNCHANGED intent
    <3>1. Is(r, {"CREATING", "PENDING", "QUOTED"}) /\ SetState(r, "EXPIRED") /\ UNCHANGED <<now, charge, receipt>>
      BY <1>5, <2>2 DEF ReleaseFailed, ExpireQuote, Is
    <3>2. receipt[r] = "NONE"
      BY <3>1 DEF LimitInv, TypeOK, ReceiptStates, ReceiptDecidesIntent, Is
    <3>3. QED  BY <3>1, <3>2, WriteShrinks DEF SetState, Intent, LimitInv, TypeOK
  <2>3. QED  BY <2>1, <2>2
<1>6. ASSUME NEW r \in Refs, PostRefused(r) \/ PostLost(r) \/ VerifyFailed(r) \/ LookUpCharge(r)
      PROVE  Shrinks
  BY <1>1, <1>6 DEF PostRefused, PostLost, VerifyFailed, LookUpCharge
<1>7. ASSUME NEW r \in Refs, SettleDeposit(r) PROVE Shrinks
  <2>1. /\ UNCHANGED <<now, charge, receipt>>
        /\ \A other \in Refs \ {r} : intent'[other] = intent[other]
        /\ intent'[r].state = "RECEIVED" /\ intent'[r].amount = intent[r].amount
    BY <1>7 DEF SettleDeposit, SetState, Intent, LimitInv, TypeOK
  <2>2. QED  BY <2>1 DEF Shrinks, Held, ReceivedIn, In
<1>8. CASE UNCHANGED vars
  BY <1>1, <1>8 DEF vars
<1>9. QED
  BY <1>2, <1>3, <1>4, <1>5, <1>6, <1>7, <1>8, TickShrinks, PayShrinks, ReconcileShrinks DEF Next

\* Every step keeps the windows within the limit.
LEMMA StepLimit == LimitInv /\ [Next]_vars => LimitInv'
<1> SUFFICES ASSUME LimitInv, [Next]_vars PROVE LimitInv'
  OBVIOUS
<1>1. TypeOK' /\ ReceiptDecidesIntent'
  BY StepInd DEF IndInv, LimitInv
<1>2. PaymentsFollow'
  BY StepPayments
<1>3. CASE Shrinks
  BY <1>1, <1>2, <1>3, ShrinkingFits DEF LimitInv
<1>4. ASSUME NEW r \in Refs, StartDeposit(r) PROVE LimitInv'
  BY <1>1, <1>2, <1>4, StartFits DEF LimitInv
<1>5. QED  BY <1>3, <1>4, StepShrinks

\* What was received counts in its window.
LEMMA LimitKept == LimitInv => RollingLimitKept
<1> SUFFICES ASSUME LimitInv, NEW t \in Time PROVE Total(ReceivedIn(t)) <= Limit
  BY DEF RollingLimitKept
<1>1. Held(t) \in SUBSET Refs /\ ReceivedIn(t) \in SUBSET Held(t)
  BY HeldRefs DEF Held
<1>2. Total(Held(t)) \in Nat /\ Total(ReceivedIn(t)) \in Nat /\ Total(ReceivedIn(t)) <= Total(Held(t))
  BY <1>1, TotalSubset DEF LimitInv
<1>3. Total(Held(t)) <= Limit
  BY DEF LimitInv, WindowsFit
<1>4. QED  BY <1>2, <1>3, LimitsPositive

\* In the window of this moment both what was received and what is reserved
\* count, and nothing counts twice.
LEMMA ReservedFits == LimitInv => ReservationsFit
<1> SUFFICES ASSUME LimitInv PROVE ReservationsFit
  OBVIOUS
<1> DEFINE R == ReceivedIn(now)
           W == In({"CREATING", "PENDING"})
<1>1. now \in Time /\ now >= now
  BY DEF LimitInv, TypeOK, Time
<1>2. R \in SUBSET Refs /\ W \in SUBSET Refs /\ R \cap W = {}
  BY ReceivedOrReserved DEF ReceivedIn, In, Reserving
<1>3. Held(now) = R \cup W
  BY <1>1 DEF Held, In
<1>4. Total(R \cup W) = Total(R) + Total(W)
  BY <1>2, TotalUnion DEF LimitInv
<1>5. Total(Held(now)) <= Limit
  BY <1>1 DEF LimitInv, WindowsFit
<1>6. QED  BY <1>3, <1>4, <1>5 DEF ReservationsFit

\* Whatever order payments are made and reconciled in, the confirmed principal
\* of no 24 hours exceeds the limit.
THEOREM RollingLimit == Spec => []RollingLimitKept
<1>1. QED  BY InitLimit, StepLimit, LimitKept, PTL DEF Spec

\* What was received and what is still on its way fit in the limit together.
THEOREM Reservations == Spec => []ReservationsFit
<1>1. QED  BY InitLimit, StepLimit, ReservedFits, PTL DEF Spec
=============================================================================
