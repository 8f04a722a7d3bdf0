--------------------------- MODULE ServicesProofs ---------------------------
(***************************************************************************)
(* Theorems about the components of Services, for any values of their      *)
(* constants.  Each has an inductive invariant of its own; the theorems    *)
(* say that the properties Services states of it follow.                   *)
(***************************************************************************)
EXTENDS Services, FiniteSums, TLAPS


\* A behaviour is one of the chosen component.
LEMMA InitialComponent ==
  ASSUME Init
  PROVE  /\ component = "SolanaIndexer" => Sol!Init
         /\ component = "SyncRun" => Run!Init
         /\ component = "Pairing" => Pairs!Init
         /\ component = "TokenMovement" => Movement!Init
         /\ component = "TransferQuote" => Quote!Init
         /\ component = "Newsletter" => News!Init
         /\ component = "Otp" => Console!Init
         /\ component = "PhoneLink" => Phone!Init
         /\ component = "Referrals" => Invite!Init
         /\ component = "SigningKeyCache" => Signing!Init
         /\ component = "RebalanceOrder" => Orders!Init
BY DEF Init

\* A step is one of the chosen component, or leaves its variables alone.
LEMMA ComponentStep ==
  ASSUME [Next]_vars
  PROVE  /\ component' = component
         /\ component = "SolanaIndexer" => Sol!Next \/ UNCHANGED solVars
         /\ component = "SyncRun" => Run!Next \/ UNCHANGED runVars
         /\ component = "Pairing" => Pairs!Next \/ UNCHANGED pairVars
         /\ UNCHANGED <<tokenVars, principal>>
         /\ component = "Newsletter" => News!Next \/ UNCHANGED mailVars
         /\ component = "Otp" => Console!Next \/ UNCHANGED codeVars
         /\ component = "PhoneLink" => Phone!Next \/ UNCHANGED phoneVars
         /\ component = "Referrals" => Invite!Next \/ UNCHANGED inviteVars
         /\ component = "SigningKeyCache" => Signing!Next \/ UNCHANGED keyVars
         /\ component = "RebalanceOrder" => Orders!Next \/ UNCHANGED orderVars
BY DEF Next, OthersIdle, vars

\* The cardinality that an instance speaks of is that of FiniteSets.
LEMMA SameCardinality ==
  \A S : /\ Orders!Cardinality(S) = Cardinality(S)
         /\ Run!Cardinality(S) = Cardinality(S)
         /\ Signing!Cardinality(S) = Cardinality(S)
         /\ News!Cardinality(S) = Cardinality(S)
BY DEF News!Cardinality, Orders!Cardinality, Run!Cardinality, Signing!Cardinality, Cardinality

----------------------------------------------------------------------------
(***************************************************************************)
(* Rebalancing orders.                                                     *)
(***************************************************************************)
\* Between inserting its row and its last statement.
HoldSteps == {"prepare", "wait", "open", "audit", "fail"}

Submitted(r) == r \in chain \/ r \in orderFlying

\* The request that inserted the row of its key, as far as it matters still.
Holds(r) == orderPc[r] \in HoldSteps \/ Submitted(r)

(***************************************************************************)
(* The inductive invariant.                                                *)
(***************************************************************************)
RowInserted == \A r \in OrderRequests : Holds(r) => row[orderKey[r]].state # "absent"

OneHolder == \A r, s \in OrderRequests : Holds(r) /\ Holds(s) /\ orderKey[r] = orderKey[s] => r = s

OrderOK(r) ==
  /\ orderPc[r] # "new" => orderKey[r] \in OrderKeys
  /\ r \in doubtful => orderPc[r] # "new"
  /\ Submitted(r) => orderPc[r] \notin {"new", "insert", "prepare"}
  /\ orderPc[r] \in {"open", "audit"} => r \in chain
  /\ orderPc[r] = "audit" => row[orderKey[r]].state = "OPEN"
  /\ orderPc[r] = "fail" /\ Submitted(r) => r \in doubtful
  /\ Submitted(r) /\ row[orderKey[r]].state # "OPEN" =>
       orderPc[r] \in {"wait", "open"} \/ r \in doubtful

RowTells(k) ==
  /\ row[k].state = "OPEN" => row[k].request \in chain
  /\ row[k].state = "SUBMITTING" =>
       \E r \in OrderRequests :
         orderKey[r] = k /\ (orderPc[r] \in HoldSteps \ {"audit"} \/ r \in doubtful)

OrderInv ==
  /\ Orders!TypeOK /\ RowInserted /\ OneHolder
  /\ \A r \in OrderRequests : OrderOK(r)
  /\ \A k \in OrderKeys : RowTells(k)

\* Nothing has been asked for yet.
LEMMA InitOrderInv ==
  ASSUME Orders!ConstantsOK, Orders!Init
  PROVE  OrderInv
BY DEF Orders!ConstantsOK, Orders!Init, OrderInv, Orders!TypeOK, Orders!Row, RowInserted,
   OneHolder, OrderOK, RowTells, Holds,
   Submitted, HoldSteps

\* Rows, steps and keys stay within their domains.
LEMMA StepOrderType ==
  ASSUME Orders!ConstantsOK, OrderInv, Orders!Next \/ UNCHANGED orderVars
  PROVE  Orders!TypeOK'
<1> USE DEF OrderInv, Orders!TypeOK, Orders!ToStep, Orders!Doubt
<1>1. ASSUME NEW r \in OrderRequests, NEW k \in OrderKeys, Orders!Post(r, k) PROVE Orders!TypeOK'
  BY <1>1 DEF Orders!Post
<1>2. ASSUME NEW r \in OrderRequests, Orders!InsertRow(r) \/ Orders!OpenRow(r) \/ Orders!FailRow(r)
      PROVE  Orders!TypeOK'
  <2>1. orderKey[r] \in OrderKeys
    BY <1>2 DEF Orders!InsertRow, Orders!OpenRow, Orders!FailRow, OrderOK
  <2>2. CASE Orders!InsertRow(r)
    BY <2>1, <2>2 DEF Orders!InsertRow, Orders!Row
  <2>3. CASE Orders!OpenRow(r)
    BY <2>1, <2>3 DEF Orders!OpenRow, Orders!Row
  <2>4. CASE Orders!FailRow(r)
    <3>1. row[orderKey[r]].request \in OrderRequests \cup {Absent}
      BY <2>1 DEF Orders!Row
    <3>2. Orders!Row("FAILED", row[orderKey[r]].request)
            \in {Orders!Row(s, q) : s \in {"absent", "SUBMITTING", "FAILED"}, q \in OrderRequests \cup {Absent}}
      BY <3>1
    <3>3. QED  BY <2>1, <2>4, <3>2 DEF Orders!FailRow
  <2>5. QED  BY <1>2, <2>2, <2>3, <2>4
<1>3. ASSUME NEW r \in OrderRequests, Orders!GiveUp(r) \/ Orders!WriteFails(r) \/ Orders!Stop(r)
      PROVE  Orders!TypeOK'
  <2>1. orderFaults' \in 0..MaxOrderFaults
    BY <1>3 DEF Orders!GiveUp, Orders!WriteFails, Orders!Stop, Orders!ConstantsOK
  <2>2. QED  BY <1>3, <2>1 DEF Orders!GiveUp, Orders!WriteFails, Orders!Stop
<1>4. ASSUME NEW r \in OrderRequests,
             \/ Orders!Submit(r) \/ Orders!Include(r) \/ Orders!Refuse(r)
             \/ Orders!LearnOutcome(r) \/ Orders!Audit(r)
      PROVE  Orders!TypeOK'
  BY <1>4 DEF Orders!Submit, Orders!Include, Orders!Refuse, Orders!LearnOutcome, Orders!Audit
<1>5. CASE UNCHANGED orderVars
  BY <1>5 DEF orderVars
<1>6. QED  BY <1>1, <1>2, <1>3, <1>4, <1>5 DEF Orders!Next

\* POST: the key is looked up.
LEMMA PostKeeps ==
  ASSUME OrderInv, Orders!TypeOK', NEW r \in OrderRequests, NEW k \in OrderKeys, Orders!Post(r, k)
  PROVE  OrderInv'
<1>1. \A s \in OrderRequests : /\ Holds(s)' <=> Holds(s)
                               /\ Holds(s) => orderKey'[s] = orderKey[s]
  BY DEF OrderInv, Orders!TypeOK, Orders!Post, Orders!ToStep, Submitted, HoldSteps, OrderOK, Holds
<1>2. UNCHANGED row
  BY DEF Orders!Post
<1>3. RowInserted'
  <2> SUFFICES ASSUME NEW s \in OrderRequests, Holds(s)'
               PROVE  row'[orderKey'[s]].state # "absent"
    BY DEF RowInserted
  <2>1. Holds(s) /\ orderKey'[s] = orderKey[s]
    BY <1>1
  <2>2. row[orderKey[s]].state # "absent"
    BY <2>1 DEF OrderInv, RowInserted
  <2>3. QED  BY <1>2, <2>1, <2>2
<1>4. OneHolder'
  <2> SUFFICES ASSUME NEW r1 \in OrderRequests, NEW r2 \in OrderRequests,
                      Holds(r1)', Holds(r2)', orderKey'[r1] = orderKey'[r2]
               PROVE  r1 = r2
    BY DEF OneHolder
  <2>1. Holds(r1) /\ Holds(r2) /\ orderKey[r1] = orderKey[r2]
    BY <1>1
  <2>2. QED  BY <2>1 DEF OrderInv, OneHolder
<1>5. \A s \in OrderRequests : OrderOK(s)'
  BY DEF OrderInv, Orders!TypeOK, Orders!Post, Orders!ToStep, Submitted, HoldSteps, OrderOK
<1>6. \A l \in OrderKeys : RowTells(l)'
  BY DEF OrderInv, Orders!TypeOK, Orders!Post, Orders!ToStep, HoldSteps, OrderOK, RowTells
<1>7. QED  BY <1>3, <1>4, <1>5, <1>6 DEF OrderInv

\* The INSERT: nobody holds a key that has no row.
LEMMA InsertRowKeeps ==
  ASSUME OrderInv, Orders!TypeOK', NEW r \in OrderRequests, Orders!InsertRow(r)
  PROVE  OrderInv'
<1> USE DEF OrderInv, Orders!TypeOK, Orders!InsertRow, Orders!ToStep, Submitted, HoldSteps,
   Orders!Row
<1>1. orderKey[r] \in OrderKeys /\ ~Holds(r)
  BY DEF OrderOK, Holds
<1>2. CASE row[orderKey[r]].state = "absent"
  <2>1. ASSUME NEW s \in OrderRequests \ {r}
        PROVE  /\ Holds(s)' <=> Holds(s)
               /\ Holds(s) => orderKey[s] # orderKey[r] /\ row'[orderKey[s]] = row[orderKey[s]]
    <3>1. Holds(s)' <=> Holds(s)
      BY <1>2 DEF Holds
    <3>2. Holds(s) => orderKey[s] \in OrderKeys
      BY DEF Holds, OrderOK
    <3>3. Holds(s) => orderKey[s] # orderKey[r]
      BY <1>2 DEF RowInserted
    <3>4. QED  BY <1>1, <1>2, <3>1, <3>2, <3>3
  <2>2. row'[orderKey[r]].state = "SUBMITTING"
    BY <1>1, <1>2
  <2>3. RowInserted' /\ OneHolder'
    BY <2>1, <2>2 DEF RowInserted, OneHolder
  <2>4. \A s \in OrderRequests : OrderOK(s)'
    BY <1>1, <1>2, <2>1 DEF OrderOK, Holds
  <2>5. \A k \in OrderKeys : RowTells(k)'
    BY <1>1, <1>2 DEF RowTells
  <2>6. QED  BY <2>3, <2>4, <2>5
<1>3. CASE row[orderKey[r]].state # "absent"
  <2>1. \A s \in OrderRequests : Holds(s)' <=> Holds(s)
    BY <1>1, <1>3 DEF Holds
  <2>2. QED  BY <1>1, <1>3, <2>1 DEF RowInserted, OneHolder, OrderOK, RowTells
<1>4. QED  BY <1>2, <1>3

\* The steps that leave the rows alone, and keep or give up a key.
LEMMA QuietKeeps ==
  ASSUME OrderInv, Orders!TypeOK', NEW r \in OrderRequests,
         \/ Orders!Submit(r) \/ Orders!Include(r) \/ Orders!Refuse(r)
         \/ Orders!LearnOutcome(r) \/ Orders!GiveUp(r)
         \/ Orders!Audit(r) \/ Orders!WriteFails(r) \/ Orders!Stop(r)
  PROVE  OrderInv'
<1> USE DEF OrderInv, Orders!TypeOK, Orders!ToStep, Orders!Doubt, Submitted, HoldSteps,
            Orders!Submit, Orders!Include, Orders!Refuse, Orders!LearnOutcome, Orders!GiveUp, Orders!Audit, Orders!WriteFails, Orders!Stop
<1>1. UNCHANGED <<row, orderKey>> /\ chain \subseteq chain' /\ doubtful \subseteq doubtful'
  OBVIOUS
<1>2. \A s \in OrderRequests : Holds(s)' => Holds(s)
  BY DEF Holds
<1>3. RowInserted' /\ OneHolder'
  BY <1>1, <1>2 DEF RowInserted, OneHolder
<1>4. \A s \in OrderRequests \ {r} : OrderOK(s)'
  BY DEF OrderOK
<1>5. OrderOK(r)'
  BY DEF OrderOK
<1>6. \A k \in OrderKeys : RowTells(k)'
  BY DEF RowTells, OrderOK
<1>7. QED  BY <1>3, <1>4, <1>5, <1>6

\* The UPDATEs of the row, by the only request that holds its key.
LEMMA UpdateKeeps ==
  ASSUME OrderInv, Orders!TypeOK', NEW r \in OrderRequests, Orders!OpenRow(r) \/ Orders!FailRow(r)
  PROVE  OrderInv'
<1> USE DEF OrderInv, Orders!TypeOK, Orders!ToStep, Submitted, HoldSteps, Orders!Row,
   Orders!OpenRow, Orders!FailRow
<1>1. orderKey[r] \in OrderKeys /\ Holds(r)
  BY DEF OrderOK, Holds
<1>2. ASSUME NEW s \in OrderRequests \ {r}, Holds(s)
      PROVE  orderKey[s] # orderKey[r] /\ row'[orderKey[s]] = row[orderKey[s]]
  <2>1. orderKey[s] \in OrderKeys
    BY <1>2 DEF Holds, OrderOK
  <2>2. orderKey[s] # orderKey[r]
    BY <1>1, <1>2 DEF OneHolder
  <2>3. QED  BY <1>1, <2>1, <2>2
<1>3. row'[orderKey[r]].state \in {"OPEN", "FAILED"} /\ (Orders!FailRow(r) => row'[orderKey[r]].state = "FAILED")
      /\ (Orders!OpenRow(r) => row'[orderKey[r]].state = "OPEN" /\ row'[orderKey[r]].request = r)
  BY <1>1
<1>4. \A s \in OrderRequests : Holds(s)' => Holds(s)
  BY DEF Holds
<1>5. RowInserted' /\ OneHolder'
  BY <1>2, <1>3, <1>4 DEF RowInserted, OneHolder
<1>6. \A s \in OrderRequests \ {r} : OrderOK(s)'
  BY <1>2 DEF OrderOK, Holds
<1>7. OrderOK(r)'
  BY <1>3 DEF OrderOK
<1>8. ASSUME NEW k \in OrderKeys PROVE RowTells(k)'
  <2>1. CASE k = orderKey[r]
    BY <1>3, <2>1 DEF RowTells, OrderOK
  <2>2. CASE k # orderKey[r]
    <3>1. row'[k] = row[k]
      BY <1>1, <2>2
    <3>2. QED  BY <2>2, <3>1 DEF RowTells
  <2>3. QED  BY <2>1, <2>2
<1>9. QED  BY <1>5, <1>6, <1>7, <1>8

LEMMA StepOrderInv ==
  ASSUME Orders!ConstantsOK, OrderInv, Orders!Next \/ UNCHANGED orderVars
  PROVE  OrderInv'
<1>1. Orders!TypeOK'
  BY StepOrderType
<1>2. CASE Orders!Next
  BY <1>1, <1>2, PostKeeps, InsertRowKeeps, QuietKeeps, UpdateKeeps DEF Orders!Next
<1>3. CASE UNCHANGED orderVars
  BY <1>3 DEF orderVars, OrderInv, Orders!TypeOK, RowInserted, OneHolder, OrderOK, RowTells,
     Holds, Submitted
<1>4. QED  BY <1>2, <1>3

\* The invariant implies what is claimed of a key.
LEMMA OrderInvSuffices ==
  ASSUME OrderInv
  PROVE  Orders!OneOrderPerKey
<1> SUFFICES ASSUME NEW k \in OrderKeys
             PROVE  /\ Cardinality(Orders!OrdersOf(k)) <= 1
                    /\ row[k].state = "OPEN" => row[k].request \in chain
                    /\ row[k].state # "OPEN" =>
                         \A r \in Orders!OrdersOf(k) :
                           orderPc[r] \in {"wait", "open"} \/ r \in doubtful
                    /\ row[k].state = "SUBMITTING" =>
                         \E r \in OrderRequests :
                           orderKey[r] = k /\ (orderPc[r] # "over" \/ r \in doubtful)
  BY SameCardinality DEF Orders!OneOrderPerKey
<1>1. \A r \in Orders!OrdersOf(k) : r \in OrderRequests /\ Submitted(r) /\ orderKey[r] = k
  BY DEF Orders!OrdersOf, OrderInv, Orders!TypeOK, Submitted
<1>2. Cardinality(Orders!OrdersOf(k)) <= 1
  <2>1. CASE Orders!OrdersOf(k) = {}
    BY <2>1, FS_EmptySet
  <2>2. ASSUME NEW r \in Orders!OrdersOf(k) PROVE Cardinality(Orders!OrdersOf(k)) <= 1
    <3>1. \A s \in Orders!OrdersOf(k) : s = r
      BY <1>1, <2>2 DEF OrderInv, OneHolder, Holds
    <3>2. Orders!OrdersOf(k) = {r}
      BY <3>1
    <3>3. Cardinality({r}) = 1
      BY FS_Singleton
    <3>4. QED  BY <3>2, <3>3
  <2>3. QED  BY <2>1, <2>2
<1>3. QED  BY <1>1, <1>2 DEF OrderInv, OrderOK, RowTells, HoldSteps

\* An idempotency key opens one order at most, and its row tells what became
\* of it unless the request timed out, failed to write or stopped.
THEOREM KeyOpensOneOrder == Spec => []OneOrderPerKey
<1> DEFINE Inv == component = "RebalanceOrder" => OrderInv
<1>1. Init => Inv
  BY InitOrderInv, InitialComponent, ServicesConstants
<1>2. Inv /\ [Next]_vars => Inv'
  BY StepOrderInv, ComponentStep, ServicesConstants
<1>3. Inv => OneOrderPerKey
  BY OrderInvSuffices DEF OneOrderPerKey
<1>4. QED  BY <1>1, <1>2, <1>3, PTL DEF Spec

----------------------------------------------------------------------------
(***************************************************************************)
(* Phone numbers.                                                          *)
(***************************************************************************)
(***************************************************************************)
(* The inductive invariant.  A challenge of which a start has taken notice *)
(* is over for good, which is why a live one was inserted afterwards; and  *)
(* a proof of a phone, once given, is never taken back.                    *)
(***************************************************************************)
Proved(p) == \E c \in Starts : phone[c] = p /\ phoneState[c] = "consumed"

ChallengeOK(c) ==
  /\ phoneState[c] # "none" => phonePc[c] = "over"
  /\ phonePc[c] # "new" => phone[c] \in Phones
  /\ \A d \in phoneBefore[c] : phoneState[d] \in {"consumed", "invalidated"}

LinkOK(l) ==
  /\ phonePc[l] \in {"update", "insert", "upsert"} =>
       phoneWho[l] \in Identities /\ what[l] \in Phones /\ Proved(what[l])
  /\ phonePc[l] = "upsert" => link[what[l]] = phoneWho[l]

LinkedAreProved == \A p \in Phones : link[p] # Absent => Proved(p)

OnePhonePerWallet ==
  \A p, q \in Phones : p # q /\ link[p] # Absent /\ link[q] # Absent
                         => Phone!WalletOf(link[p]) # Phone!WalletOf(link[q])

OneAccountPerWallet ==
  \A s, t \in Phone!Subjects : s # t /\ account[s] # Absent => account[s] # account[t]

Follows(s) == \E p \in Phones : link[p] # Absent /\ link[p] = <<s, account[s]>>

AccountsFollow ==
  \A s \in Phone!Subjects : account[s] # Absent => Follows(s) \/ s \in profiled

Pending(a) == \E l \in Links : phonePc[l] = "upsert" /\ phoneWho[l] = a

LinkedFollow ==
  \A p \in Phones, a \in Identities : link[p] = a =>
    Follows(Phone!SubjectOf(a)) \/ Phone!SubjectOf(a) \in broken \/ Pending(a)

RowsOK ==
  /\ LinkedAreProved /\ OnePhonePerWallet
  /\ OneAccountPerWallet /\ AccountsFollow /\ LinkedFollow

PhoneInv ==
  /\ Phone!TypeOK /\ RowsOK
  /\ \A c \in Starts : ChallengeOK(c)
  /\ \A l \in Links : LinkOK(l)

\* Nothing has been asked for yet.
LEMMA InitPhoneInv ==
  ASSUME Phone!ConstantsOK, Phone!Init
  PROVE  PhoneInv
BY DEF Phone!ConstantsOK, Phone!Init, PhoneInv, Phone!TypeOK, RowsOK, LinkedAreProved,
   OnePhonePerWallet, OneAccountPerWallet, AccountsFollow, LinkedFollow, ChallengeOK, LinkOK, Phone!Requests

\* An identity is a pair of a subject and a wallet.
LEMMA Identity ==
  ASSUME Phone!ConstantsOK, NEW a \in Identities
  PROVE  /\ Phone!SubjectOf(a) \in Phone!Subjects /\ Phone!WalletOf(a) \in Phone!Wallets
         /\ a = <<Phone!SubjectOf(a), Phone!WalletOf(a)>>
<1>1. a \in Phone!Subjects \X Phone!Wallets
  BY DEF Phone!ConstantsOK
<1>2. QED  BY <1>1 DEF Phone!SubjectOf, Phone!WalletOf, Phone!Subjects, Phone!Wallets

OnChallenge(c) ==
  \/ \E p \in Phones : Phone!Start(c, p)
  \/ Phone!InvalidateOthers(c) \/ Phone!InsertChallenge(c) \/ Phone!Verify(c) \/ Phone!Expire(c)

ChallengeStep == (\E c \in Starts : OnChallenge(c)) \/ (\E p \in Phones : Phone!Cool(p))

\* The statements about challenges take no proof of a phone back, and a
\* challenge that is over stays so.
LEMMA ChallengeKeeps ==
  ASSUME Phone!ConstantsOK, PhoneInv, UNCHANGED <<Phone!tables, phoneWho, what>>, ChallengeStep
  PROVE  PhoneInv'
<1> USE DEF PhoneInv, Phone!TypeOK, Phone!ToStep, Phone!tables, ChallengeStep, OnChallenge
<1>1. \A l \in Links : phonePc'[l] = phonePc[l]
  BY DEF Phone!Start, Phone!InvalidateOthers, Phone!InsertChallenge, Phone!Verify,
     Phone!Expire, Phone!Cool, Phone!ConstantsOK, Phone!Requests
<1>2. \A c \in Starts : /\ phoneState[c] = "consumed" => phoneState'[c] = "consumed" /\ phone'[c] = phone[c]
                        /\ phoneState[c] \in {"consumed", "invalidated"} => phoneState'[c] \in {"consumed", "invalidated"}
  BY DEF Phone!Start, Phone!InvalidateOthers, Phone!InsertChallenge, Phone!Verify,
     Phone!Expire, Phone!Cool, Phone!Of, ChallengeOK
<1>3. \A p \in Phones : Proved(p) => Proved(p)'
  BY <1>2 DEF Proved
<1>4. \A l \in Links : LinkOK(l)'
  BY <1>1, <1>3 DEF LinkOK
<1>5. RowsOK'
  <2>1. UNCHANGED <<link, account, profiled, broken, phoneWho>>
    OBVIOUS
  <2>2. LinkedAreProved'
    BY <1>3, <2>1 DEF RowsOK, LinkedAreProved
  <2>3. \A a \in Identities : Pending(a) => Pending(a)'
    BY <1>1, <2>1 DEF Pending
  <2>4. LinkedFollow'
    BY <2>1, <2>3 DEF RowsOK, LinkedFollow, Follows
  <2>5. OnePhonePerWallet' /\ OneAccountPerWallet' /\ AccountsFollow'
    BY <2>1 DEF RowsOK, OnePhonePerWallet, OneAccountPerWallet, AccountsFollow, Follows
  <2>6. QED  BY <2>2, <2>4, <2>5 DEF RowsOK
<1>6. Phone!TypeOK' /\ \A c \in Starts : ChallengeOK(c)'
  <2>1. ASSUME NEW c \in Starts, NEW p \in Phones, Phone!Start(c, p)
        PROVE  Phone!TypeOK' /\ \A d \in Starts : ChallengeOK(d)'
    BY <2>1 DEF Phone!Start, ChallengeOK, Phone!Requests
  <2>2. ASSUME NEW c \in Starts, Phone!InvalidateOthers(c)
        PROVE  Phone!TypeOK' /\ \A d \in Starts : ChallengeOK(d)'
    <3>1. Phone!TypeOK'
      BY <2>2 DEF Phone!InvalidateOthers, Phone!Of, Phone!Requests
    <3>2. \A d \in Phone!Of(phone[c], {"live", "consumed", "invalidated"}) : phoneState'[d] \in {"consumed", "invalidated"}
      BY <2>2 DEF Phone!InvalidateOthers, Phone!Of
    <3>3. QED  BY <1>2, <2>2, <3>1, <3>2 DEF Phone!InvalidateOthers, Phone!Of, ChallengeOK,
       Phone!Requests
  <2>3. ASSUME NEW c \in Starts, Phone!InsertChallenge(c) \/ Phone!Expire(c)
        PROVE  Phone!TypeOK' /\ \A d \in Starts : ChallengeOK(d)'
    <3>1. Phone!TypeOK'
      <4>1. CASE Phone!InsertChallenge(c)
        BY <4>1 DEF Phone!InsertChallenge, Phone!Requests
      <4>2. CASE Phone!Expire(c)
        BY <4>2 DEF Phone!Expire
      <4>3. QED  BY <2>3, <4>1, <4>2
    <3>2. CASE Phone!InsertChallenge(c)
      BY <1>2, <3>1, <3>2 DEF Phone!InsertChallenge, ChallengeOK, Phone!Requests
    <3>3. CASE Phone!Expire(c)
      BY <1>2, <3>1, <3>3 DEF Phone!Expire, ChallengeOK
    <3>4. QED  BY <2>3, <3>1, <3>2, <3>3
  <2>4. ASSUME NEW c \in Starts, Phone!Verify(c)
        PROVE  Phone!TypeOK' /\ \A d \in Starts : ChallengeOK(d)'
    <3>1. Phone!TypeOK'
      BY <2>4 DEF Phone!Verify, Phone!ConstantsOK
    <3>2. QED  BY <1>2, <2>4, <3>1 DEF Phone!Verify, ChallengeOK
  <2>5. ASSUME NEW p \in Phones, Phone!Cool(p)
        PROVE  Phone!TypeOK' /\ \A d \in Starts : ChallengeOK(d)'
    BY <2>5 DEF Phone!Cool, ChallengeOK
  <2>6. QED  BY <2>1, <2>2, <2>3, <2>4, <2>5
<1>7. QED  BY <1>4, <1>5, <1>6

\* The steps of a link request that read.
LEMMA ReadKeeps ==
  ASSUME Phone!ConstantsOK, PhoneInv, NEW l \in Links,
         Phone!CheckLink(l) \/ \E a \in Identities, c \in Starts : Phone!BeginLink(l, a, c)
  PROVE  PhoneInv'
<1> USE DEF PhoneInv, Phone!ToStep, Phone!challenges, Phone!tables
<1>1. UNCHANGED <<Phone!challenges, Phone!tables>>
  BY DEF Phone!CheckLink, Phone!BeginLink
<1>2. \A c \in Starts : phonePc'[c] = phonePc[c]
  BY DEF Phone!CheckLink, Phone!BeginLink, Phone!TypeOK, Phone!ConstantsOK, Phone!Requests
<1>3. \A m \in Links \ {l} : phonePc'[m] = phonePc[m] /\ phoneWho'[m] = phoneWho[m] /\ what'[m] = what[m]
  BY DEF Phone!CheckLink, Phone!BeginLink, Phone!TypeOK, Phone!Requests
<1>4. phonePc[l] # "upsert"
  BY DEF Phone!CheckLink, Phone!BeginLink
<1>5. RowsOK'
  <2>1. \A a \in Identities : Pending(a) => Pending(a)'
    BY <1>3, <1>4 DEF Pending
  <2>2. LinkedFollow'
    BY <1>1, <2>1 DEF RowsOK, LinkedFollow, Follows
  <2>3. QED  BY <1>1, <2>2 DEF RowsOK, LinkedAreProved, OnePhonePerWallet, OneAccountPerWallet,
     AccountsFollow, Follows, Proved
<1>6. \A c \in Starts : ChallengeOK(c)'
  BY <1>1, <1>2 DEF ChallengeOK
<1>7. Phone!TypeOK' /\ LinkOK(l)'
  <2>1. CASE Phone!CheckLink(l)
    BY <1>1, <2>1 DEF Phone!CheckLink, Phone!TypeOK, LinkOK, Proved, Phone!Requests
  <2>2. ASSUME NEW a \in Identities, NEW c \in Starts, Phone!BeginLink(l, a, c)
        PROVE  Phone!TypeOK' /\ LinkOK(l)'
    <3>1. phone[c] \in Phones
      BY <2>2 DEF Phone!BeginLink, ChallengeOK
    <3>2. QED  BY <1>1, <2>2, <3>1 DEF Phone!BeginLink, Phone!TypeOK, LinkOK, Proved,
       Phone!Requests
  <2>3. QED  BY <2>1, <2>2
<1>8. \A m \in Links \ {l} : LinkOK(m)'
  BY <1>1, <1>3 DEF LinkOK, Proved
<1>9. QED  BY <1>5, <1>6, <1>7, <1>8

\* The INSERT of the link: an unlinked phone and a wallet without one.
LEMMA InsertKeeps ==
  ASSUME Phone!ConstantsOK, PhoneInv, NEW l \in Links, Phone!InsertLink(l)
  PROVE  PhoneInv'
<1> USE DEF PhoneInv, Phone!InsertLink, Phone!ToStep, Phone!challenges
<1>1. phoneWho[l] \in Identities /\ what[l] \in Phones /\ Proved(what[l])
  BY DEF LinkOK
<1>2. Phone!TypeOK'
  BY <1>1 DEF Phone!TypeOK, Phone!Requests
<1>3. \A c \in Starts : ChallengeOK(c)'
  BY DEF ChallengeOK, Phone!TypeOK, Phone!ConstantsOK, Phone!Requests
<1>4. \A p \in Phones : link[p] # Absent => link'[p] = link[p]
  BY DEF Phone!LinkIsFree, Phone!TypeOK
<1>5. \A p \in Phones : Proved(p)' <=> Proved(p)
  BY DEF Proved
<1>6. ASSUME NEW m \in Links PROVE LinkOK(m)'
  <2>1. CASE m # l
    BY <1>4, <1>5, <2>1 DEF LinkOK, Phone!TypeOK, Phone!Requests, Phone!ConstantsOK
  <2>2. CASE m = l
    BY <1>1, <1>5, <2>2 DEF LinkOK, Phone!TypeOK, Phone!Requests
  <2>3. QED  BY <2>1, <2>2
<1>7. \A a \in Identities : Pending(a) => Pending(a)'
  BY DEF Pending, Phone!TypeOK, Phone!Requests
<1>8. \A t \in Phone!Subjects : Follows(t) => Follows(t)'
  BY <1>4 DEF Follows
<1>9. OneAccountPerWallet' /\ AccountsFollow'
  BY <1>8 DEF RowsOK, OneAccountPerWallet, AccountsFollow
<1>10. RowsOK'
  <2>1. CASE ~Phone!LinkIsFree(what[l], phoneWho[l])
    <3>1. UNCHANGED <<link, account, broken, phoneWho>>
      BY <2>1
    <3>2. LinkedFollow'
      BY <1>7, <3>1 DEF RowsOK, LinkedFollow, Follows
    <3>3. QED  BY <1>5, <1>9, <3>1, <3>2 DEF RowsOK, LinkedAreProved, OnePhonePerWallet
  <2>2. CASE Phone!LinkIsFree(what[l], phoneWho[l])
    <3>1. /\ link' = [link EXCEPT ![what[l]] = phoneWho[l]] /\ link[what[l]] = Absent
          /\ \A q \in Phones : link[q] # Absent => Phone!WalletOf(link[q]) # Phone!WalletOf(phoneWho[l])
          /\ phonePc'[l] = "upsert" /\ phoneWho' = phoneWho
      BY <2>2 DEF Phone!LinkIsFree, Phone!TypeOK, Phone!Requests
    <3>2. \A p \in Phones \ {what[l]} : link'[p] = link[p]
      BY <3>1 DEF Phone!TypeOK
    <3>3. link'[what[l]] = phoneWho[l]
      BY <1>1, <3>1 DEF Phone!TypeOK
    <3>4. LinkedAreProved'
      BY <1>1, <1>5, <3>2 DEF RowsOK, LinkedAreProved
    <3>5. OnePhonePerWallet'
      BY <1>1, <3>1, <3>2, <3>3 DEF RowsOK, OnePhonePerWallet
    <3>6. ASSUME NEW p \in Phones, NEW a \in Identities, link'[p] = a
          PROVE  Follows(Phone!SubjectOf(a))' \/ Phone!SubjectOf(a) \in broken' \/ Pending(a)'
      <4>1. CASE p = what[l]
        BY <3>1, <3>3, <3>6, <4>1 DEF Pending
      <4>2. CASE p # what[l]
        <5>1. Follows(Phone!SubjectOf(a)) \/ Phone!SubjectOf(a) \in broken \/ Pending(a)
          BY <3>2, <3>6, <4>2 DEF RowsOK, LinkedFollow
        <5>2. QED  BY <1>7, <1>8, <5>1, Identity
      <4>3. QED  BY <4>1, <4>2
    <3>7. LinkedFollow'
      BY <3>6 DEF LinkedFollow
    <3>8. QED  BY <1>9, <3>4, <3>5, <3>7 DEF RowsOK
  <2>3. QED  BY <2>1, <2>2
<1>11. QED  BY <1>2, <1>3, <1>6, <1>10

\* An account that follows a link carries a wallet.
LEMMA FollowsAccount ==
  ASSUME Phone!ConstantsOK, Phone!TypeOK, NEW s \in Phone!Subjects, Follows(s)
  PROVE  account[s] # Absent
<1>1. PICK p \in Phones : link[p] # Absent /\ link[p] = <<s, account[s]>>
  BY DEF Follows
<1>2. link[p] \in Identities
  BY <1>1 DEF Phone!TypeOK
<1>3. <<s, account[s]>> \in Phone!Subjects \X Phone!Wallets
  BY <1>1, <1>2 DEF Phone!ConstantsOK
<1>4. QED  BY <1>3 DEF Phone!ConstantsOK

\* Writing a wallet into an account that no other account carries.
LEMMA AccountKeeps ==
  ASSUME Phone!ConstantsOK, Phone!TypeOK, RowsOK, NEW a \in Identities, Phone!WalletIsFree(a),
         UNCHANGED link,
         account' = [account EXCEPT ![Phone!SubjectOf(a)] = Phone!WalletOf(a)]
  PROVE  /\ OneAccountPerWallet'
         /\ \A t \in Phone!Subjects \ {Phone!SubjectOf(a)} :
              /\ Follows(t)' <=> Follows(t)
              /\ account'[t] # Absent => account[t] # Absent
<1> DEFINE s == Phone!SubjectOf(a)
<1>1. s \in Phone!Subjects /\ account'[s] = Phone!WalletOf(a)
  BY Identity DEF Phone!TypeOK
<1>2. \A t \in Phone!Subjects \ {s} : account'[t] = account[t]
  BY DEF Phone!TypeOK
<1>3. \A t \in Phone!Subjects \ {s} : account'[t] # account'[s]
  BY <1>1, <1>2 DEF Phone!WalletIsFree
<1>4. OneAccountPerWallet'
  BY <1>2, <1>3 DEF RowsOK, OneAccountPerWallet
<1>5. QED  BY <1>2, <1>4 DEF Follows

\* The upsert of the account: the wallet of the link just checked or made, unless
\* another account carries it.
LEMMA UpsertKeeps ==
  ASSUME Phone!ConstantsOK, PhoneInv, NEW l \in Links, Phone!UpsertAccount(l)
  PROVE  PhoneInv'
<1> USE DEF PhoneInv, Phone!UpsertAccount, Phone!ToStep, Phone!challenges
<1> DEFINE a == phoneWho[l]
           s == Phone!SubjectOf(phoneWho[l])
<1>1. a \in Identities /\ what[l] \in Phones /\ link[what[l]] = a /\ a # Absent
  BY DEF LinkOK, Phone!ConstantsOK
<1>2. s \in Phone!Subjects /\ Phone!WalletOf(a) \in Phone!Wallets /\ a = <<s, Phone!WalletOf(a)>>
  BY <1>1, Identity
<1>3. UNCHANGED <<phone, phoneState, link, phoneWho, what>>
  OBVIOUS
<1>4. Phone!TypeOK'
  BY <1>2 DEF Phone!TypeOK, Phone!Requests
<1>5. \A c \in Starts : ChallengeOK(c)'
  BY DEF ChallengeOK, Phone!TypeOK, Phone!ConstantsOK, Phone!Requests
<1>6. \A m \in Links : LinkOK(m)'
  BY DEF LinkOK, Proved, Phone!TypeOK, Phone!Requests
<1>7. \A b \in Identities : Pending(b) => Pending(b)' \/ Phone!SubjectOf(b) = s
  BY <1>1 DEF Pending, Phone!TypeOK, Phone!Requests
<1>8. LinkedAreProved' /\ OnePhonePerWallet'
  BY <1>3 DEF RowsOK, LinkedAreProved, OnePhonePerWallet, Proved
<1>9. CASE Phone!WalletIsFree(a)
  <2>1. /\ account' = [account EXCEPT ![s] = Phone!WalletOf(a)]
        /\ profiled' = profiled \ {s} /\ broken' = broken
    BY <1>9
  <2>2. /\ OneAccountPerWallet'
        /\ \A t \in Phone!Subjects \ {s} :
             /\ Follows(t)' <=> Follows(t)
             /\ account'[t] # Absent => account[t] # Absent
    BY <1>1, <1>3, <1>9, <2>1, AccountKeeps
  <2>3. Follows(s)'
    <3>1. account'[s] = Phone!WalletOf(a)
      BY <1>2, <2>1 DEF Phone!TypeOK
    <3>2. link'[what[l]] = <<s, account'[s]>> /\ link'[what[l]] # Absent
      BY <1>1, <1>2, <1>3, <3>1
    <3>3. \E p \in Phones : link'[p] # Absent /\ link'[p] = <<s, account'[s]>>
      BY <1>1, <3>2
    <3>4. QED  BY <1>3, <3>3 DEF Follows
  <2>4. AccountsFollow'
    <3> SUFFICES ASSUME NEW t \in Phone!Subjects, account'[t] # Absent
                 PROVE  Follows(t)' \/ t \in profiled'
      BY DEF AccountsFollow
    <3>1. CASE t = s
      BY <2>3, <3>1
    <3>2. CASE t # s
      <4>1. Follows(t) \/ t \in profiled
        BY <2>2, <3>2 DEF RowsOK, AccountsFollow
      <4>2. QED  BY <2>1, <2>2, <3>2, <4>1
    <3>3. QED  BY <3>1, <3>2
  <2>5. LinkedFollow'
    <3> SUFFICES ASSUME NEW p \in Phones, NEW b \in Identities, link[p] = b
                 PROVE  Follows(Phone!SubjectOf(b))' \/ Phone!SubjectOf(b) \in broken' \/ Pending(b)'
      BY <1>3 DEF LinkedFollow
    <3>1. CASE Phone!SubjectOf(b) = s
      BY <2>3, <3>1
    <3>2. CASE Phone!SubjectOf(b) # s
      <4>1. Follows(Phone!SubjectOf(b)) \/ Phone!SubjectOf(b) \in broken \/ Pending(b)
        BY DEF RowsOK, LinkedFollow
      <4>2. Phone!SubjectOf(b) \in Phone!Subjects \ {s}
        BY <3>2, Identity
      <4>3. Follows(Phone!SubjectOf(b))' <=> Follows(Phone!SubjectOf(b))
        BY <2>2, <4>2
      <4>4. Pending(b) => Pending(b)'
        BY <1>7, <3>2
      <4>5. QED  BY <2>1, <4>1, <4>3, <4>4
    <3>3. QED  BY <3>1, <3>2
  <2>6. QED  BY <1>4, <1>5, <1>6, <1>8, <2>2, <2>4, <2>5 DEF RowsOK
<1>10. CASE ~Phone!WalletIsFree(a)
  <2>1. UNCHANGED <<account, profiled>> /\ broken' = broken \cup {s}
    BY <1>10
  <2>2. OneAccountPerWallet' /\ AccountsFollow'
    BY <1>3, <2>1 DEF RowsOK, OneAccountPerWallet, AccountsFollow, Follows
  <2>3. LinkedFollow'
    BY <1>3, <1>7, <2>1 DEF RowsOK, LinkedFollow, Follows
  <2>4. QED  BY <1>4, <1>5, <1>6, <1>8, <2>2, <2>3 DEF RowsOK
<1>11. QED  BY <1>9, <1>10

\* A profile is saved for a subject without an account, which follows no link.
LEMMA SaveProfileKeeps ==
  ASSUME Phone!ConstantsOK, PhoneInv, NEW a \in Identities, Phone!SaveProfile(a)
  PROVE  PhoneInv'
<1> USE DEF PhoneInv, Phone!SaveProfile, Phone!challenges
<1> DEFINE s == Phone!SubjectOf(a)
<1>1. s \in Phone!Subjects /\ Phone!WalletOf(a) \in Phone!Wallets
  BY Identity
<1>2. UNCHANGED <<phone, phoneState, phoneBefore, link, broken, phonePc, phoneWho, what>>
  OBVIOUS
<1>3. Phone!TypeOK'
  BY <1>1 DEF Phone!TypeOK
<1>4. (\A c \in Starts : ChallengeOK(c)') /\ \A m \in Links : LinkOK(m)'
  BY <1>2 DEF ChallengeOK, LinkOK, Proved
<1>5. LinkedAreProved' /\ OnePhonePerWallet'
  BY <1>2 DEF RowsOK, LinkedAreProved, OnePhonePerWallet, Proved
<1>6. /\ OneAccountPerWallet'
      /\ \A t \in Phone!Subjects \ {s} :
           /\ Follows(t)' <=> Follows(t)
           /\ account'[t] # Absent => account[t] # Absent
  BY <1>2, AccountKeeps
<1>7. ~Follows(s)
  BY <1>1, FollowsAccount
<1>8. AccountsFollow'
  <2> SUFFICES ASSUME NEW t \in Phone!Subjects, account'[t] # Absent
               PROVE  Follows(t)' \/ t \in profiled'
    BY DEF AccountsFollow
  <2>1. CASE t = s
    BY <2>1
  <2>2. CASE t # s
    <3>1. Follows(t) \/ t \in profiled
      BY <1>6, <2>2 DEF RowsOK, AccountsFollow
    <3>2. QED  BY <1>6, <2>2, <3>1
  <2>3. QED  BY <2>1, <2>2
<1>9. LinkedFollow'
  <2> SUFFICES ASSUME NEW p \in Phones, NEW b \in Identities, link[p] = b
               PROVE  Follows(Phone!SubjectOf(b))' \/ Phone!SubjectOf(b) \in broken' \/ Pending(b)'
    BY <1>2 DEF LinkedFollow
  <2>1. Follows(Phone!SubjectOf(b)) \/ Phone!SubjectOf(b) \in broken \/ Pending(b)
    BY DEF RowsOK, LinkedFollow
  <2>2. Pending(b)' <=> Pending(b)
    BY <1>2 DEF Pending
  <2>3. CASE Phone!SubjectOf(b) = s
    BY <1>2, <1>7, <2>1, <2>2, <2>3
  <2>4. CASE Phone!SubjectOf(b) # s
    <3>1. Phone!SubjectOf(b) \in Phone!Subjects \ {s}
      BY <2>4, Identity
    <3>2. Follows(Phone!SubjectOf(b))' <=> Follows(Phone!SubjectOf(b))
      BY <1>6, <3>1
    <3>3. QED  BY <1>2, <2>1, <2>2, <3>2
  <2>5. QED  BY <2>3, <2>4
<1>10. QED  BY <1>3, <1>4, <1>5, <1>6, <1>8, <1>9 DEF RowsOK

\* A request breaks off: a subject whose account it did not write is known.
LEMMA BreakKeeps ==
  ASSUME Phone!ConstantsOK, PhoneInv, NEW r \in Phone!Requests, Phone!BreakOff(r)
  PROVE  PhoneInv'
<1> USE DEF PhoneInv, Phone!BreakOff, Phone!ToStep, Phone!challenges
<1>1. r \in Links => phoneWho[r] \in Identities
  BY DEF LinkOK
<1>2. r \in Links => Phone!SubjectOf(phoneWho[r]) \in Phone!Subjects
  BY <1>1, Identity
<1>3. Phone!TypeOK' /\ broken \subseteq broken'
  BY <1>2 DEF Phone!TypeOK
<1>4. \A c \in Starts : ChallengeOK(c)'
  BY DEF ChallengeOK, Phone!TypeOK, Phone!Requests
<1>5. \A m \in Links : LinkOK(m)'
  BY DEF LinkOK, Proved, Phone!TypeOK, Phone!Requests
<1>6. ASSUME NEW b \in Identities, Pending(b)
      PROVE  Phone!SubjectOf(b) \in broken' \/ Pending(b)'
  <2>1. PICK m \in Links : phonePc[m] = "upsert" /\ phoneWho[m] = b
    BY <1>6 DEF Pending
  <2>2. CASE m = r
    BY <2>1, <2>2
  <2>3. CASE m # r
    BY <2>1, <2>3 DEF Pending, Phone!TypeOK, Phone!Requests
  <2>4. QED  BY <2>2, <2>3
<1>7. RowsOK'
  <2>1. UNCHANGED <<phone, phoneState, link, account, profiled>>
    OBVIOUS
  <2>2. LinkedFollow'
    BY <1>3, <1>6, <2>1 DEF RowsOK, LinkedFollow, Follows
  <2>3. QED  BY <2>1, <2>2 DEF RowsOK, LinkedAreProved, OnePhonePerWallet, OneAccountPerWallet,
     AccountsFollow, Follows, Proved
<1>8. QED  BY <1>3, <1>4, <1>5, <1>7

LEMMA StepPhoneInv ==
  ASSUME Phone!ConstantsOK, PhoneInv, Phone!Next \/ UNCHANGED phoneVars
  PROVE  PhoneInv'
<1>1. ASSUME ChallengeStep PROVE PhoneInv'
  <2>1. UNCHANGED <<Phone!tables, phoneWho, what>>
    BY <1>1 DEF ChallengeStep, OnChallenge, Phone!Start, Phone!InvalidateOthers,
       Phone!InsertChallenge, Phone!Verify, Phone!Expire, Phone!Cool
  <2>2. QED  BY <1>1, <2>1, ChallengeKeeps
<1>2. ASSUME NEW l \in Links,
             \/ \E a \in Identities, c \in Starts : Phone!BeginLink(l, a, c)
             \/ Phone!CheckLink(l) \/ Phone!InsertLink(l) \/ Phone!UpsertAccount(l)
      PROVE  PhoneInv'
  BY <1>2, ReadKeeps, InsertKeeps, UpsertKeeps
<1>3. ASSUME NEW r \in Phone!Requests, Phone!BreakOff(r) PROVE PhoneInv'
  BY <1>3, BreakKeeps
<1>4. CASE UNCHANGED phoneVars
  <2> USE <1>4 DEF phoneVars, Phone!challenges, Phone!tables, PhoneInv
  <2>1. Phone!TypeOK'
    BY DEF Phone!TypeOK
  <2>2. RowsOK'
    <3>1. UNCHANGED <<phone, phoneState, link, account, profiled, broken, phonePc, phoneWho>>
      OBVIOUS
    <3>2. LinkedFollow'
      BY <3>1 DEF RowsOK, LinkedFollow, Follows, Pending
    <3>3. QED  BY <3>1, <3>2 DEF RowsOK, LinkedAreProved, OnePhonePerWallet,
       OneAccountPerWallet, AccountsFollow, Follows, Proved
  <2>3. QED  BY <2>1, <2>2 DEF ChallengeOK, LinkOK, Proved
<1>5. ASSUME NEW a \in Identities, Phone!SaveProfile(a) PROVE PhoneInv'
  BY <1>5, SaveProfileKeeps
<1>6. QED  BY <1>1, <1>2, <1>3, <1>4, <1>5 DEF Phone!Next, ChallengeStep, OnChallenge

\* The invariant implies what is claimed of phones.
LEMMA PhoneInvSuffices ==
  ASSUME PhoneInv
  PROVE  Phone!PhonesSound
<1>1. Phone!OneLiveChallenge
  BY DEF PhoneInv, Phone!OneLiveChallenge, ChallengeOK
<1>2. \A s \in Phone!Subjects : Follows(s) => Phone!FollowsLink(s)
  BY DEF Follows, Phone!FollowsLink
<1>3. ASSUME NEW p \in Phones, link[p] # Absent
      PROVE  \/ Phone!FollowsLink(Phone!SubjectOf(link[p])) \/ Phone!SubjectOf(link[p]) \in broken
             \/ \E l \in Links : phonePc[l] = "upsert" /\ phoneWho[l] = link[p]
  <2>1. PICK a \in Identities : link[p] = a
    BY <1>3 DEF PhoneInv, Phone!TypeOK
  <2>2. Follows(Phone!SubjectOf(a)) \/ Phone!SubjectOf(a) \in broken \/ Pending(a)
    BY <2>1 DEF PhoneInv, RowsOK, LinkedFollow
  <2>3. Phone!SubjectOf(a) \in Phone!Subjects
    BY DEF Phone!Subjects
  <2>4. QED  BY <1>2, <2>1, <2>2, <2>3 DEF Pending
<1>4. /\ \A p \in Phones : link[p] # Absent => Phone!Of(p, {"consumed"}) # {}
      /\ \A s \in Phone!Subjects : account[s] # Absent => Phone!FollowsLink(s) \/ s \in profiled
  BY <1>2 DEF PhoneInv, RowsOK, LinkedAreProved, AccountsFollow, Proved, Phone!Of
<1>5. Phone!LinksSound
  BY <1>3, <1>4 DEF PhoneInv, RowsOK, OnePhonePerWallet, OneAccountPerWallet, Phone!LinksSound
<1>6. QED  BY <1>1, <1>5 DEF Phone!PhonesSound

\* Two challenges of a phone are live only if their starts overlapped; a linked
\* phone was verified; a wallet has one phone and one account.  An account carries
\* a wallet its subject linked a phone to or saved its profile with before, and
\* the subject of a linked phone has an account that follows a link, unless a
\* request is about to write it or one ended before it did.
THEOREM LinkedPhonesSound == Spec => []PhonesSound
<1> DEFINE Inv == component = "PhoneLink" => PhoneInv
<1>1. Init => Inv
  BY InitPhoneInv, InitialComponent, ServicesConstants
<1>2. Inv /\ [Next]_vars => Inv'
  BY StepPhoneInv, ComponentStep, ServicesConstants
<1>3. Inv => PhonesSound
  BY PhoneInvSuffices DEF PhonesSound
<1>4. QED  BY <1>1, <1>2, <1>3, PTL DEF Spec

----------------------------------------------------------------------------
(***************************************************************************)
(* Invitations.                                                            *)
(***************************************************************************)
(***************************************************************************)
(* The inductive invariant.  A code, once it has an owner, keeps it, which *)
(* is why what was shown or confirmed stays true; nobody owns two; and an  *)
(* account, once written, carries a wallet for good.  What the last        *)
(* property says of a confirmed binding, WellBound says of one about to be *)
(* written as well: no linked wallet is another's, so that an account that *)
(* comes to carry the invitee's is the invitee's own.                      *)
(***************************************************************************)
OneCodePerOwner == \A c, d \in Codes : owner[c] # Absent /\ owner[c] = owner[d] => c = d

ShownStays == \A s \in inviteShown : owner[s[2]] = s[1]

AccountOf(s) == inviteAccount[s] # Absent

AccountsOK ==
  /\ \A c \in Codes : owner[c] # Absent => AccountOf(owner[c])
  /\ \A s \in Invite!Subjects : inviteAccount[s] # Absent =>
       \E x \in carried : Invite!SubjectOf(x) = s /\ Invite!WalletOf(x) = inviteAccount[s]
  /\ \A a, b \in linked : Invite!WalletOf(a) = Invite!WalletOf(b) => a = b

\* An owner is bound to its own code only past a wallet it had before, and its
\* account carries the wallet of no other invitee.
WellBound(a, c) ==
  /\ a \in linked /\ c \in Codes /\ owner[c] # Absent
  /\ owner[c] = Invite!SubjectOf(a) =>
       \E x \in carried : Invite!SubjectOf(x) = Invite!SubjectOf(a) /\ x # a
  /\ inviteAccount[owner[c]] = Invite!WalletOf(a) => owner[c] = Invite!SubjectOf(a)

ConfirmedStays ==
  \A a \in Members, c \in Codes :
    <<a, c>> \in confirmed => inviter[Invite!WalletOf(a)] = c /\ WellBound(a, c)

AskOK(r) ==
  /\ invitePc[r] \in {"generate", "upsert", "look"} =>
       inviteWho[r] \in Members /\ AccountOf(Invite!SubjectOf(inviteWho[r]))
  /\ invitePc[r] = "upsert" => code[r] \in Codes

BindOK(b) ==
  invitePc[b] = "insert" =>
    \E a \in Members, c \in Codes : inviteWho[b] = a /\ code[b] = c /\ WellBound(a, c)

InviteInv ==
  /\ Invite!TypeOK /\ OneCodePerOwner /\ ShownStays /\ AccountsOK /\ ConfirmedStays
  /\ \A r \in Asks : AskOK(r)
  /\ \A b \in Binds : BindOK(b)

\* Nobody has a code, an account or an inviter.
LEMMA InitInviteInv ==
  ASSUME Invite!ConstantsOK, Invite!Init
  PROVE  InviteInv
BY DEF Invite!ConstantsOK, Invite!Init, InviteInv, Invite!TypeOK, Invite!Requests, OneCodePerOwner,
   ShownStays, AccountsOK, ConfirmedStays, AskOK, BindOK

\* An identity is a pair of a subject and a wallet.
LEMMA Member ==
  ASSUME Invite!ConstantsOK, NEW a \in Members
  PROVE  /\ Invite!SubjectOf(a) \in Invite!Subjects /\ Invite!WalletOf(a) \in Invite!Wallets
         /\ Invite!SubjectOf(a) # Absent /\ Invite!WalletOf(a) # Absent
         /\ a = <<Invite!SubjectOf(a), Invite!WalletOf(a)>>
<1>1. a \in Invite!Subjects \X Invite!Wallets
  BY DEF Invite!ConstantsOK
<1>2. Invite!SubjectOf(a) \in Invite!Subjects /\ Invite!WalletOf(a) \in Invite!Wallets
  BY DEF Invite!Subjects, Invite!Wallets
<1>3. QED  BY <1>1, <1>2 DEF Invite!SubjectOf, Invite!WalletOf, Invite!ConstantsOK

\* A wallet is written into an account that no other one carries: that of a linked
\* phone, or of a subject that had no account.
LEMMA AccountWritten ==
  ASSUME Invite!ConstantsOK, InviteInv, NEW a \in Members, Invite!WriteAccount(a),
         a \in linked \/ inviteAccount[Invite!SubjectOf(a)] = Absent
  PROVE  InviteInv'
<1> USE DEF InviteInv, Invite!WriteAccount
<1> DEFINE t == Invite!SubjectOf(a)
<1>1. /\ UNCHANGED <<linked, owner, inviter, invitePc, inviteWho, code, inviteTries, inviteShown, confirmed>>
      /\ carried' = carried \cup {a}
  OBVIOUS
<1>2. t \in Invite!Subjects /\ inviteAccount'[t] = Invite!WalletOf(a) /\ inviteAccount'[t] # Absent
  BY Member DEF Invite!TypeOK
<1>3. \A s \in Invite!Subjects \ {t} : inviteAccount'[s] = inviteAccount[s]
  BY DEF Invite!TypeOK
<1>4. \A s \in Invite!Subjects : AccountOf(s) => AccountOf(s)'
  BY <1>2, <1>3 DEF AccountOf
<1>5. Invite!TypeOK'
  BY <1>1, Member DEF Invite!TypeOK
<1>6. \A c \in Codes : owner[c] \in Invite!Subjects \cup {Absent}
  BY DEF Invite!TypeOK
<1>7. AccountsOK'
  <2>1. \A c \in Codes : owner[c] # Absent => inviteAccount'[owner[c]] # Absent
    BY <1>4, <1>6 DEF AccountsOK, AccountOf
  <2>2. ASSUME NEW s \in Invite!Subjects, inviteAccount'[s] # Absent
        PROVE  \E x \in carried' : Invite!SubjectOf(x) = s /\ Invite!WalletOf(x) = inviteAccount'[s]
    <3>1. CASE s = t
      BY <1>1, <1>2, <3>1
    <3>2. CASE s # t
      BY <1>1, <1>3, <2>2, <3>2 DEF AccountsOK
    <3>3. QED  BY <3>1, <3>2
  <2>3. QED  BY <1>1, <2>1, <2>2 DEF AccountsOK, AccountOf
<1>8. ASSUME NEW b \in Members, NEW c \in Codes, WellBound(b, c)
      PROVE  WellBound(b, c)'
  <2>1. /\ b \in linked /\ owner[c] # Absent /\ owner[c] \in Invite!Subjects
        /\ inviteAccount[owner[c]] # Absent
    BY <1>6, <1>8 DEF WellBound, AccountsOK, AccountOf
  <2>2. ASSUME inviteAccount'[owner[c]] = Invite!WalletOf(b) PROVE owner[c] = Invite!SubjectOf(b)
    <3>1. CASE owner[c] = t
      <4>1. a \in linked /\ Invite!WalletOf(a) = Invite!WalletOf(b)
        BY <1>2, <2>1, <2>2, <3>1
      <4>2. a = b
        BY <2>1, <4>1 DEF AccountsOK
      <4>3. QED  BY <3>1, <4>2
    <3>2. CASE owner[c] # t
      BY <1>3, <1>8, <2>1, <2>2, <3>2 DEF WellBound
    <3>3. QED  BY <3>1, <3>2
  <2>3. QED  BY <1>1, <1>8, <2>1, <2>2 DEF WellBound
<1>9. ConfirmedStays'
  BY <1>1, <1>8 DEF ConfirmedStays
<1>10. \A b \in Binds : BindOK(b)'
  BY <1>1, <1>8 DEF BindOK
<1>11. ASSUME NEW r \in Asks PROVE AskOK(r)'
  <2>1. \A b \in Members : AccountOf(Invite!SubjectOf(b)) => AccountOf(Invite!SubjectOf(b))'
    BY <1>4, Member
  <2>2. ASSUME invitePc[r] \in {"generate", "upsert", "look"}
        PROVE  inviteWho[r] \in Members /\ inviteAccount'[Invite!SubjectOf(inviteWho[r])] # Absent
    <3>1. PICK b \in Members : inviteWho[r] = b /\ AccountOf(Invite!SubjectOf(b))
      BY <2>2 DEF AskOK
    <3>2. QED  BY <2>1, <3>1 DEF AccountOf
  <2>3. QED  BY <1>1, <2>2 DEF AskOK, AccountOf
<1>12. OneCodePerOwner' /\ ShownStays'
  BY <1>1 DEF OneCodePerOwner, ShownStays
<1>13. QED  BY <1>5, <1>7, <1>9, <1>10, <1>11, <1>12

\* A phone is linked whose wallet has no other.
LEMMA LinkPhoneKeeps ==
  ASSUME Invite!ConstantsOK, InviteInv, NEW a \in Members, Invite!LinkPhone(a)
  PROVE  InviteInv'
<1> USE DEF InviteInv, Invite!LinkPhone
<1>1. /\ UNCHANGED <<inviteAccount, carried, owner, inviter, invitePc, inviteWho, code, inviteTries,
                     inviteShown, confirmed>>
      /\ linked' = linked \cup {a}
  OBVIOUS
<1>2. Invite!TypeOK'
  BY <1>1 DEF Invite!TypeOK
<1>3. AccountsOK'
  BY <1>1 DEF AccountsOK, AccountOf
<1>4. \A b \in Members, c \in Codes : WellBound(b, c) => WellBound(b, c)'
  BY <1>1 DEF WellBound
<1>5. ConfirmedStays'
  BY <1>1, <1>4 DEF ConfirmedStays
<1>6. \A b \in Binds : BindOK(b)'
  BY <1>1, <1>4 DEF BindOK
<1>7. QED  BY <1>1, <1>2, <1>3, <1>5, <1>6 DEF OneCodePerOwner, ShownStays, AskOK, AccountOf

\* Answering, asking and generating leave codes and bindings alone.
LEMMA AskKeeps ==
  ASSUME Invite!ConstantsOK, InviteInv, NEW r \in Asks,
         \/ \E a \in Members : Invite!Ask(r, a)
         \/ Invite!Generate(r) \/ Invite!LookUpCode(r)
  PROVE  InviteInv'
<1> USE DEF InviteInv, Invite!ToStep, Invite!Answer, Invite!CodesOf, Invite!Requests
<1>1. UNCHANGED <<linked, inviteAccount, carried, owner, inviter, confirmed>>
  BY DEF Invite!Ask, Invite!Generate, Invite!LookUpCode, Invite!accounts
<1>2. \A s \in Invite!Requests \ {r} :
        invitePc'[s] = invitePc[s] /\ inviteWho'[s] = inviteWho[s] /\ code'[s] = code[s]
  BY DEF Invite!Ask, Invite!Generate, Invite!LookUpCode, Invite!TypeOK
<1>3. r \notin Binds
  BY DEF Invite!ConstantsOK
<1>4. \A b \in Binds : BindOK(b)'
  BY <1>1, <1>2, <1>3 DEF BindOK, WellBound
<1>5. \A s \in Asks \ {r} : AskOK(s)'
  BY <1>1, <1>2 DEF AskOK, AccountOf
<1>6. Invite!TypeOK' /\ AskOK(r)' /\ ShownStays'
  <2>1. ASSUME NEW a \in Members, Invite!Ask(r, a) PROVE Invite!TypeOK' /\ AskOK(r)' /\ ShownStays'
    <3>1. Invite!SubjectOf(a) \in Invite!Subjects /\ inviteAccount[Invite!SubjectOf(a)] # Absent
      BY <2>1, Member DEF Invite!Ask
    <3>2. QED  BY <1>1, <2>1, <3>1 DEF Invite!Ask, Invite!TypeOK, AskOK, AccountOf, ShownStays
  <2>2. CASE Invite!LookUpCode(r)
    <3>1. /\ inviteWho[r] \in Members /\ AccountOf(Invite!SubjectOf(inviteWho[r]))
          /\ Invite!SubjectOf(inviteWho[r]) \in Invite!Subjects
      BY <2>2, Member DEF Invite!LookUpCode, AskOK
    <3>2. QED  BY <1>1, <2>2, <3>1 DEF Invite!LookUpCode, Invite!TypeOK, AskOK, AccountOf, ShownStays
  <2>3. CASE Invite!Generate(r)
    <3>1. inviteTries' \in [Asks -> 0..MaxTries]
      BY <2>3 DEF Invite!Generate, Invite!TypeOK, Invite!ConstantsOK
    <3>2. QED  BY <1>1, <2>3, <3>1 DEF Invite!Generate, Invite!TypeOK, AskOK, AccountOf, ShownStays
  <2>4. QED  BY <2>1, <2>2, <2>3
<1>7. OneCodePerOwner' /\ AccountsOK' /\ ConfirmedStays'
  BY <1>1 DEF OneCodePerOwner, AccountsOK, AccountOf, ConfirmedStays, WellBound
<1>8. QED  BY <1>4, <1>5, <1>6, <1>7

\* The upsert gives a code without an owner to an account without a code.
LEMMA UpsertCodeKeeps ==
  ASSUME Invite!ConstantsOK, InviteInv, NEW r \in Asks, Invite!UpsertCode(r)
  PROVE  InviteInv'
<1> USE DEF InviteInv, Invite!ToStep, Invite!UpsertCode, Invite!CodesOf, Invite!Requests
<1> DEFINE t == Invite!SubjectOf(inviteWho[r])
<1>1. inviteWho[r] \in Members /\ code[r] \in Codes /\ AccountOf(t)
  BY DEF AskOK
<1>2. t \in Invite!Subjects /\ t # Absent
  BY <1>1, Member
<1>3. UNCHANGED <<linked, inviteAccount, carried, inviter, inviteWho, code, inviteTries, inviteShown, confirmed>>
  BY DEF Invite!accounts
<1>4. \A c \in Codes : owner[c] # Absent => owner'[c] = owner[c]
  BY <1>1, <1>2 DEF Invite!TypeOK
<1>5. Invite!TypeOK'
  BY <1>1, <1>2, <1>3 DEF Invite!TypeOK
<1>6. OneCodePerOwner'
  BY <1>1, <1>2 DEF OneCodePerOwner, Invite!TypeOK
<1>7. ShownStays'
  BY <1>3, <1>4 DEF ShownStays, Invite!TypeOK, Invite!ConstantsOK
<1>8. AccountsOK'
  <2>1. \A c \in Codes : owner'[c] = owner[c] \/ owner'[c] = t
    BY <1>1 DEF Invite!TypeOK
  <2>2. \A c \in Codes : owner'[c] # Absent => inviteAccount[owner'[c]] # Absent
    BY <1>1, <2>1 DEF AccountsOK, AccountOf
  <2>3. QED  BY <1>3, <2>2 DEF AccountsOK, AccountOf
<1>9. \A b \in Members, c \in Codes : WellBound(b, c) => WellBound(b, c)'
  BY <1>3, <1>4 DEF WellBound
<1>10. ConfirmedStays'
  BY <1>3, <1>9 DEF ConfirmedStays
<1>11. \A s \in Asks : AskOK(s)'
  BY <1>3 DEF AskOK, AccountOf, Invite!TypeOK
<1>12. \A b \in Binds : BindOK(b)'
  BY <1>3, <1>9 DEF BindOK, Invite!TypeOK, Invite!ConstantsOK
<1>13. QED  BY <1>5, <1>6, <1>7, <1>8, <1>10, <1>11, <1>12

\* A binding starts from a code whose owner's account carries another wallet.
LEMMA BeginKeeps ==
  ASSUME Invite!ConstantsOK, InviteInv, NEW b \in Binds, NEW a \in Members, NEW c \in Codes,
         Invite!BeginBind(b, a, c)
  PROVE  InviteInv'
<1> USE DEF InviteInv, Invite!ToStep, Invite!Requests, Invite!BeginBind
<1>1. UNCHANGED <<linked, inviteAccount, carried, owner, inviter, inviteTries, inviteShown>> /\ b \notin Asks
  BY DEF Invite!ConstantsOK, Invite!accounts
<1>2. \A s \in Invite!Requests \ {b} :
        invitePc'[s] = invitePc[s] /\ inviteWho'[s] = inviteWho[s] /\ code'[s] = code[s]
  BY DEF Invite!TypeOK
<1>3. inviteWho'[b] = a /\ code'[b] = c
  BY DEF Invite!TypeOK
<1>4. WellBound(a, c)
  <2>1. owner[c] # Absent /\ inviteAccount[owner[c]] # Invite!WalletOf(a) /\ a \in linked
    OBVIOUS
  <2>2. PICK x \in carried : Invite!SubjectOf(x) = owner[c] /\ Invite!WalletOf(x) = inviteAccount[owner[c]]
    BY <2>1 DEF AccountsOK, AccountOf, Invite!TypeOK
  <2>3. x # a
    BY <2>1, <2>2
  <2>4. QED  BY <2>1, <2>2, <2>3 DEF WellBound
<1>5. \A d \in Members, e \in Codes : WellBound(d, e)' <=> WellBound(d, e)
  BY <1>1 DEF WellBound
<1>6. Invite!TypeOK'
  BY <1>1 DEF Invite!TypeOK
<1>7. \A r \in Asks : AskOK(r)'
  BY <1>1, <1>2 DEF AskOK, AccountOf
<1>8. \A d \in Binds \ {b} : BindOK(d)'
  BY <1>1, <1>2, <1>5 DEF BindOK
<1>9. BindOK(b)'
  BY <1>3, <1>4, <1>5 DEF BindOK
<1>10. ConfirmedStays'
  <2>1. confirmed' = confirmed \/ (confirmed' = confirmed \cup {<<a, c>>} /\ inviter[Invite!WalletOf(a)] = c)
    BY Member DEF Invite!TypeOK
  <2>2. QED  BY <1>1, <1>4, <1>5, <2>1 DEF ConfirmedStays
<1>11. OneCodePerOwner' /\ ShownStays' /\ AccountsOK'
  BY <1>1 DEF OneCodePerOwner, ShownStays, AccountsOK, AccountOf
<1>12. QED  BY <1>6, <1>7, <1>8, <1>9, <1>10, <1>11

\* The INSERT of a binding takes the place of no other.
LEMMA BindKeeps ==
  ASSUME Invite!ConstantsOK, InviteInv, NEW b \in Binds, Invite!Bind(b)
  PROVE  InviteInv'
<1> USE DEF InviteInv, Invite!ToStep, Invite!Requests, Invite!Bind
<1>1. /\ UNCHANGED <<linked, inviteAccount, carried, owner, inviteWho, code, inviteTries, inviteShown>>
      /\ b \notin Asks
  BY DEF Invite!ConstantsOK, Invite!accounts
<1>2. \A s \in Invite!Requests \ {b} : invitePc'[s] = invitePc[s]
  BY DEF Invite!TypeOK
<1>3. invitePc'[b] = "over"
  BY DEF Invite!TypeOK
<1>4. PICK a \in Members, c \in Codes : inviteWho[b] = a /\ code[b] = c /\ WellBound(a, c)
  BY DEF BindOK
<1>5. \A d \in Members, e \in Codes : WellBound(d, e)' <=> WellBound(d, e)
  BY <1>1 DEF WellBound
<1>6. \A r \in Asks : AskOK(r)'
  BY <1>1, <1>2 DEF AskOK, AccountOf
<1>7. \A d \in Binds : BindOK(d)'
  BY <1>1, <1>2, <1>3, <1>5 DEF BindOK
<1>8. OneCodePerOwner' /\ ShownStays' /\ AccountsOK'
  BY <1>1 DEF OneCodePerOwner, ShownStays, AccountsOK, AccountOf
<1>9. Invite!TypeOK' /\ ConfirmedStays'
  <2>1. CASE inviter[Invite!WalletOf(a)] = Absent
    <3>1. /\ inviter' = [inviter EXCEPT ![Invite!WalletOf(a)] = c]
          /\ confirmed' = confirmed \cup {<<a, c>>}
      BY <1>4, <2>1
    <3>2. Invite!TypeOK'
      BY <1>1, <3>1, Member DEF Invite!TypeOK
    <3>3. inviter'[Invite!WalletOf(a)] = c
      BY <3>1, Member DEF Invite!TypeOK
    <3>4. \A w \in Invite!Wallets : inviter[w] # Absent => inviter'[w] = inviter[w]
      BY <2>1, <3>1 DEF Invite!TypeOK
    <3>5. \A d \in Members, e \in Codes : <<d, e>> \in confirmed => inviter'[Invite!WalletOf(d)] = e
      BY <3>4, Member DEF ConfirmedStays, Invite!ConstantsOK
    <3>6. QED  BY <1>4, <1>5, <3>1, <3>2, <3>3, <3>5 DEF ConfirmedStays
  <2>2. CASE inviter[Invite!WalletOf(a)] # Absent
    <3>1. UNCHANGED <<inviter, confirmed>>
      BY <1>4, <2>2
    <3>2. QED  BY <1>1, <1>5, <3>1 DEF ConfirmedStays, Invite!TypeOK
  <2>3. QED  BY <2>1, <2>2
<1>10. QED  BY <1>6, <1>7, <1>8, <1>9

\* Every step keeps the invariant.
LEMMA StepInviteInv ==
  ASSUME Invite!ConstantsOK, InviteInv, Invite!Next \/ UNCHANGED inviteVars
  PROVE  InviteInv'
<1>1. ASSUME NEW a \in Members, Invite!FollowLink(a) \/ Invite!SaveProfile(a) PROVE InviteInv'
  BY <1>1, AccountWritten DEF Invite!FollowLink, Invite!SaveProfile
<1>2. CASE UNCHANGED inviteVars
  BY <1>2 DEF inviteVars, InviteInv, Invite!TypeOK, OneCodePerOwner, ShownStays, AccountsOK,
     AccountOf, WellBound, ConfirmedStays, AskOK, BindOK
<1>3. QED
  BY <1>1, <1>2, LinkPhoneKeeps, AskKeeps, UpsertCodeKeeps, BeginKeeps, BindKeeps DEF Invite!Next

\* A subject was only ever shown one code and still has it, and an identity was
\* only ever confirmed to one code, and its wallet is still bound to it.  A subject
\* is bound to its own code only if its account has carried another of its wallets,
\* and no account carries a wallet that another subject bound to its code.
THEOREM InvitationsNeverChange == Spec => []InvitationsStick
<1> DEFINE Inv == component = "Referrals" => InviteInv
<1>1. Init => Inv
  BY InitInviteInv, InitialComponent, ServicesConstants
<1>2. Inv /\ [Next]_vars => Inv'
  BY StepInviteInv, ComponentStep, ServicesConstants
<1>3. Inv => InvitationsStick
  <2> SUFFICES ASSUME InviteInv PROVE Invite!InvitationsStick
    BY DEF InvitationsStick
  <2>1. \A s, t \in inviteShown : s[1] = t[1] => s[2] = t[2]
    BY ServicesConstants
       DEF InviteInv, Invite!TypeOK, Invite!ConstantsOK, OneCodePerOwner, ShownStays
  <2>2. ASSUME NEW b \in confirmed
        PROVE  inviter[Invite!WalletOf(b[1])] = b[2] /\ WellBound(b[1], b[2])
    <3>1. PICK a \in Members, c \in Codes : b = <<a, c>>
      BY DEF InviteInv, Invite!TypeOK
    <3>2. inviter[Invite!WalletOf(a)] = c /\ WellBound(a, c)
      BY <3>1 DEF InviteInv, ConfirmedStays
    <3>3. b[1] = a /\ b[2] = c
      BY <3>1
    <3>4. QED  BY <3>2, <3>3 DEF WellBound
  <2>3. QED  BY <2>1, <2>2 DEF InviteInv, ShownStays, WellBound, Invite!InvitationsStick,
     Invite!AnswersStick, Invite!OwnLinkRefused
<1>4. QED  BY <1>1, <1>2, <1>3, PTL DEF Spec

----------------------------------------------------------------------------
(***************************************************************************)
(* Synchronization runs.                                                   *)
(***************************************************************************)
(***************************************************************************)
(* The inductive invariant.  Whoever is active holds the lock or has lost  *)
(* its connection; the flag of a process is up only between the INSERT and *)
(* Finish; and what the lists of a call say of the chains it has handled.  *)
(***************************************************************************)
LockedOrLost == \A c \in Run!Active : lock = c \/ c \in lost

FlagIsOfARun ==
  \A p \in Processes : running[p] =>
    \E c \in Calls : Run!ProcessOf(c) = p /\ runPc[c] \in {"bsc", "solana", "pair", "finish"}

\* The lists of a call name each chain once.
ListsSplit(c, chains) == good[c] \cup bad[c] = chains /\ good[c] \cap bad[c] = {}

BeforeRow(c) ==
  runStatus[c] = "ABSENT" /\ good[c] = {} /\ bad[c] = {} /\ achieved[c] = {}

\* The pairing succeeded, or it failed, or the call broke off before Solana.
ReadyToTell(c) ==
  /\ runStatus[c] \in {"ABSENT", "RUNNING"}
  /\ ListsSplit(c, Run!Chains)
  /\ \/ achieved[c] = good[c] \cup {"PAIRING"}
     \/ good[c] = {} /\ "PAIRING" \notin achieved[c]
     \/ achieved[c] = good[c] /\ "SOLANA" \in bad[c]

Truthful(c) ==
  /\ runStatus[c] = "COMPLETED" => achieved[c] = Run!Chains \cup {"PAIRING"}
  /\ runStatus[c] = "PARTIAL" => achieved[c] \cap Run!Chains \in {{"BSC"}, {"SOLANA"}}
  /\ runStatus[c] = "FAILED" => achieved[c] \cap Run!Chains = {} \/ "PAIRING" \notin achieved[c]
  /\ runStatus[c] = "RUNNING" => c \in lost

CallOK(c) ==
  /\ runPc[c] \in {"new", "called", "insert"} => BeforeRow(c)
  /\ runPc[c] = "bsc" => /\ runStatus[c] = "RUNNING" /\ ListsSplit(c, {})
                         /\ achieved[c] = good[c]
  /\ runPc[c] = "solana" => /\ runStatus[c] = "RUNNING" /\ ListsSplit(c, {"BSC"})
                            /\ achieved[c] = good[c]
  /\ runPc[c] = "pair" => /\ runStatus[c] = "RUNNING" /\ ListsSplit(c, Run!Chains)
                          /\ achieved[c] = good[c]
  /\ runPc[c] \in {"finish", "record"} => ReadyToTell(c)
  /\ runPc[c] \in {"unlock", "over"} => Truthful(c)

RunInv ==
  /\ Run!TypeOK /\ LockedOrLost /\ FlagIsOfARun
  /\ \A c \in Calls : CallOK(c)

\* No call has been made.
LEMMA InitRunInv ==
  ASSUME Run!ConstantsOK, Run!Init
  PROVE  RunInv
BY DEF Run!ConstantsOK, Run!Init, RunInv, Run!TypeOK, Run!Steps, Run!Final, Run!Active, LockedOrLost,
   FlagIsOfARun, CallOK, BeforeRow

\* A call is of a process, and nobody is no call.
LEMMA CallProcess ==
  ASSUME Run!ConstantsOK
  PROVE  /\ \A c \in Calls : Run!ProcessOf(c) \in Processes
         /\ Run!Nobody \notin Calls
BY DEF Run!ConstantsOK, Run!ProcessOf, Run!Nobody

OnCall(c) ==
  \/ Run!CallSync(c) \/ Run!TryLock(c) \/ Run!InsertRun(c) \/ Run!SyncBsc(c) \/ Run!SyncSolana(c)
  \/ Run!PairLegs(c) \/ Run!BreakOff(c) \/ Run!Finish(c) \/ Run!RecordOutcome(c) \/ Run!Unlock(c)
  \/ Run!RecordFails(c)

\* A statement of one call moves that call alone.
LEMMA OnCallFrame ==
  ASSUME RunInv, NEW c \in Calls, OnCall(c)
  PROVE  /\ lost \subseteq lost'
         /\ \A d \in Calls \ {c} :
              /\ runPc'[d] = runPc[d] /\ good'[d] = good[d] /\ bad'[d] = bad[d]
              /\ runStatus'[d] = runStatus[d] /\ achieved'[d] = achieved[d]
BY DEF RunInv, Run!TypeOK, OnCall, Run!ToStep, Run!ChainEnds, Run!CallSync, Run!TryLock, Run!InsertRun,
   Run!SyncBsc, Run!SyncSolana, Run!PairLegs, Run!BreakOff, Run!Finish, Run!RecordOutcome, Run!Unlock,
   Run!RecordFails

\* The variables keep their types.
LEMMA OnCallType ==
  ASSUME Run!ConstantsOK, RunInv, NEW c \in Calls, OnCall(c)
  PROVE  Run!TypeOK'
<1> USE CallProcess DEF RunInv, Run!TypeOK, Run!ToStep, Run!Steps
<1>1. CASE Run!CallSync(c) \/ Run!TryLock(c) \/ Run!Unlock(c)
  BY <1>1 DEF Run!CallSync, Run!TryLock, Run!Unlock
<1>2. CASE Run!InsertRun(c)
  BY <1>2 DEF Run!InsertRun
<1>3. CASE Run!SyncBsc(c) \/ Run!SyncSolana(c)
  BY <1>3 DEF Run!SyncBsc, Run!SyncSolana, Run!ChainEnds, Run!Chains
<1>4. CASE Run!PairLegs(c) \/ Run!BreakOff(c)
  BY <1>4 DEF Run!PairLegs, Run!BreakOff, Run!Chains
<1>5. CASE Run!Finish(c) \/ Run!RecordOutcome(c)
  BY <1>5 DEF Run!Finish, Run!RecordOutcome, Run!Outcome, Run!Final
<1>6. CASE Run!RecordFails(c)
  <2>1. runFaults' \in 0..MaxRunFaults
    BY <1>6 DEF Run!RecordFails, Run!Fault, Run!ConstantsOK
  <2>2. QED  BY <1>6, <2>1 DEF Run!RecordFails
<1>7. QED  BY <1>1, <1>2, <1>3, <1>4, <1>5, <1>6 DEF OnCall

\* What the outcome of a call says of it.
LEMMA OutcomeTells ==
  ASSUME NEW c \in Calls, ReadyToTell(c)
  PROVE  /\ Run!Outcome(c) \in Run!Final
         /\ Run!Outcome(c) = "COMPLETED" => achieved[c] = Run!Chains \cup {"PAIRING"}
         /\ Run!Outcome(c) = "PARTIAL" => achieved[c] \cap Run!Chains \in {{"BSC"}, {"SOLANA"}}
         /\ Run!Outcome(c) = "FAILED" =>
              achieved[c] \cap Run!Chains = {} \/ "PAIRING" \notin achieved[c]
<1> USE DEF ReadyToTell, ListsSplit, Run!Chains
<1>1. CASE bad[c] = {}
  BY <1>1 DEF Run!Outcome, Run!Final
<1>2. CASE bad[c] # {} /\ good[c] = {}
  BY <1>2 DEF Run!Outcome, Run!Final
<1>3. CASE bad[c] # {} /\ good[c] # {}
  <2>1. good[c] = {"BSC"} \/ good[c] = {"SOLANA"}
    BY <1>3
  <2>2. achieved[c] = good[c] \cup {"PAIRING"} \/ achieved[c] = good[c]
    BY <1>3
  <2>3. achieved[c] \cap Run!Chains = good[c]
    BY <2>1, <2>2
  <2>4. Run!Outcome(c) = "PARTIAL"
    BY <1>3 DEF Run!Outcome
  <2>5. QED  BY <2>1, <2>3, <2>4 DEF Run!Final
<1>4. QED  BY <1>1, <1>2, <1>3

\* What a call says of itself follows from where it was.
LEMMA OnCallTells ==
  ASSUME Run!ConstantsOK, RunInv, NEW c \in Calls, OnCall(c)
  PROVE  CallOK(c)'
<1> USE DEF RunInv, Run!TypeOK, Run!ToStep
<1>1. CASE Run!CallSync(c) \/ Run!TryLock(c)
  BY <1>1 DEF Run!CallSync, Run!TryLock, CallOK, BeforeRow, Truthful
<1>2. CASE Run!InsertRun(c)
  BY <1>2 DEF Run!InsertRun, CallOK, BeforeRow, ListsSplit
<1>3. ASSUME NEW network \in {"BSC", "SOLANA"}, NEW ok \in BOOLEAN, Run!ChainEnds(c, network, ok)
      PROVE  /\ good'[c] = IF ok THEN good[c] \cup {network} ELSE good[c]
             /\ bad'[c] = IF ok THEN bad[c] ELSE bad[c] \cup {network}
             /\ achieved'[c] = IF ok THEN achieved[c] \cup {network} ELSE achieved[c]
  BY <1>3 DEF Run!ChainEnds
<1>4. CASE Run!SyncBsc(c)
  <2>1. runPc[c] = "bsc" /\ runPc'[c] = "solana" /\ runStatus' = runStatus
    BY <1>4 DEF Run!SyncBsc
  <2>2. PICK ok \in BOOLEAN : Run!ChainEnds(c, "BSC", ok)
    BY <1>4 DEF Run!SyncBsc
  <2>3. runStatus[c] = "RUNNING" /\ ListsSplit(c, {}) /\ achieved[c] = good[c]
    BY <2>1 DEF CallOK
  <2>4. ListsSplit(c, {"BSC"})' /\ achieved'[c] = good'[c]
    BY <1>3, <2>2, <2>3 DEF ListsSplit
  <2>5. QED  BY <2>1, <2>3, <2>4 DEF CallOK
<1>5. CASE Run!SyncSolana(c)
  <2>1. runPc[c] = "solana" /\ runPc'[c] = "pair" /\ runStatus' = runStatus
    BY <1>5 DEF Run!SyncSolana
  <2>2. PICK ok \in BOOLEAN : Run!ChainEnds(c, "SOLANA", ok)
    BY <1>5 DEF Run!SyncSolana
  <2>3. runStatus[c] = "RUNNING" /\ ListsSplit(c, {"BSC"}) /\ achieved[c] = good[c]
    BY <2>1 DEF CallOK
  <2>4. ListsSplit(c, Run!Chains)' /\ achieved'[c] = good'[c]
    BY <1>3, <2>2, <2>3 DEF ListsSplit, Run!Chains
  <2>5. QED  BY <2>1, <2>3, <2>4 DEF CallOK
<1>6. CASE Run!PairLegs(c)
  BY <1>6 DEF Run!PairLegs, CallOK, ListsSplit, ReadyToTell, Run!Chains
<1>7. CASE Run!BreakOff(c)
  BY <1>7 DEF Run!BreakOff, CallOK, BeforeRow, ListsSplit, ReadyToTell, Run!Chains
<1>8. CASE Run!Finish(c)
  BY <1>8 DEF Run!Finish, CallOK, ListsSplit, ReadyToTell
<1>9. CASE Run!RecordOutcome(c)
  <2>1. ReadyToTell(c)
    BY <1>9 DEF Run!RecordOutcome, CallOK
  <2>2. runPc'[c] = "unlock" /\ achieved' = achieved
        /\ runStatus'[c] = IF runStatus[c] = "ABSENT" THEN "ABSENT" ELSE Run!Outcome(c)
    BY <1>9 DEF Run!RecordOutcome
  <2>3. Truthful(c)'
    BY <2>1, <2>2, OutcomeTells DEF Truthful, Run!Final
  <2>4. QED  BY <2>2, <2>3 DEF CallOK
<1>10. CASE Run!Unlock(c)
  BY <1>10 DEF Run!Unlock, CallOK, Truthful
<1>11. CASE Run!RecordFails(c)
  BY <1>11 DEF Run!RecordFails, CallOK, ReadyToTell, Truthful
<1>12. QED
  BY <1>1, <1>2, <1>4, <1>5, <1>6, <1>7, <1>8, <1>9, <1>10, <1>11 DEF OnCall

\* A statement of a call.
LEMMA OnCallKeeps ==
  ASSUME Run!ConstantsOK, RunInv, NEW c \in Calls, OnCall(c)
  PROVE  RunInv'
<1>1. Run!TypeOK' /\ CallOK(c)'
  BY OnCallType, OnCallTells
<1>2. ASSUME NEW d \in Calls \ {c} PROVE CallOK(d)'
  BY <1>2, OnCallFrame
     DEF RunInv, CallOK, BeforeRow, ListsSplit, ReadyToTell, Truthful
<1>3. LockedOrLost'
  <2>1. ASSUME NEW d \in Run!Active' PROVE lock' = d \/ d \in lost'
    <3>1. d \in Calls /\ runPc'[d] \notin {"new", "called", "over"}
      BY DEF Run!Active
    <3>2. CASE d = c /\ Run!TryLock(c)
      BY <3>1, <3>2 DEF Run!TryLock, Run!ToStep, RunInv, Run!TypeOK
    <3>3. CASE d # c \/ ~Run!TryLock(c)
      <4>1. runPc[d] \notin {"new", "called", "over"}
        BY <3>1, <3>3, OnCallFrame
           DEF OnCall, Run!CallSync, Run!InsertRun, Run!SyncBsc, Run!SyncSolana, Run!PairLegs,
               Run!BreakOff, Run!Finish, Run!RecordOutcome, Run!Unlock, Run!RecordFails, Run!ToStep,
               RunInv, Run!TypeOK
      <4>2. lock = d \/ d \in lost
        BY <3>1, <4>1 DEF RunInv, LockedOrLost, Run!Active
      <4>3. lock = d => lock' = d
        BY <3>1, <3>3, CallProcess
           DEF OnCall, Run!CallSync, Run!TryLock, Run!InsertRun, Run!SyncBsc, Run!SyncSolana,
               Run!PairLegs, Run!BreakOff, Run!Finish, Run!RecordOutcome, Run!Unlock,
               Run!RecordFails, Run!ToStep, RunInv, Run!TypeOK
      <4>4. QED  BY <4>2, <4>3, OnCallFrame
    <3>4. QED  BY <3>2, <3>3
  <2>2. QED  BY <2>1 DEF LockedOrLost
<1>4. FlagIsOfARun'
  <2> DEFINE Up == {"bsc", "solana", "pair", "finish"}
  <2>1. ASSUME NEW p \in Processes, running'[p]
        PROVE  \E d \in Calls : Run!ProcessOf(d) = p /\ runPc'[d] \in Up
    <3>1. CASE Run!InsertRun(c) /\ Run!ProcessOf(c) = p
      BY <3>1 DEF Run!InsertRun, Run!ToStep, RunInv, Run!TypeOK
    <3>2. CASE ~(Run!InsertRun(c) /\ Run!ProcessOf(c) = p)
      <4>1. running[p] /\ (Run!Finish(c) => Run!ProcessOf(c) # p)
        BY <2>1, <3>2, CallProcess
           DEF OnCall, Run!CallSync, Run!TryLock, Run!InsertRun, Run!SyncBsc, Run!SyncSolana,
               Run!PairLegs, Run!BreakOff, Run!Finish, Run!RecordOutcome, Run!Unlock,
               Run!RecordFails, RunInv, Run!TypeOK
      <4>2. PICK d \in Calls : Run!ProcessOf(d) = p /\ runPc[d] \in Up
        BY <4>1 DEF RunInv, FlagIsOfARun
      <4>3. runPc'[d] \in Up
        BY <4>1, <4>2, OnCallFrame
           DEF OnCall, Run!CallSync, Run!TryLock, Run!InsertRun, Run!SyncBsc, Run!SyncSolana,
               Run!PairLegs, Run!BreakOff, Run!RecordOutcome, Run!Unlock, Run!RecordFails,
               Run!Finish, Run!ToStep, RunInv, Run!TypeOK
      <4>4. QED  BY <4>2, <4>3
    <3>3. QED  BY <3>1, <3>2
  <2>2. QED  BY <2>1 DEF FlagIsOfARun
<1>5. QED  BY <1>1, <1>2, <1>3, <1>4 DEF RunInv

\* A connection that breaks, and a process that ends, are remembered as lost.
LEMMA RunFaultKeeps ==
  ASSUME Run!ConstantsOK, RunInv,
         (\E c \in Calls : Run!LoseLock(c)) \/ \E p \in Processes : Run!Crash(p)
  PROVE  RunInv'
<1> USE DEF RunInv, Run!TypeOK, Run!Fault
<1>1. runFaults' \in 0..MaxRunFaults
  BY DEF Run!LoseLock, Run!Crash, Run!ConstantsOK
<1>2. ASSUME NEW c \in Calls, Run!LoseLock(c) PROVE RunInv'
  <2>1. Run!TypeOK'
    BY <1>1, <1>2 DEF Run!LoseLock
  <2>2. LockedOrLost' /\ FlagIsOfARun'
    BY <1>2 DEF Run!LoseLock, LockedOrLost, FlagIsOfARun, Run!Active
  <2>3. \A d \in Calls : CallOK(d)'
    BY <1>2 DEF Run!LoseLock, CallOK, BeforeRow, ListsSplit, ReadyToTell, Truthful
  <2>4. QED  BY <2>1, <2>2, <2>3
<1>3. ASSUME NEW p \in Processes, Run!Crash(p) PROVE RunInv'
  <2> DEFINE calls == {c \in Calls : Run!ProcessOf(c) = p /\ runPc[c] # "new"}
  <2> USE <1>3 DEF Run!Crash
  <2>1. Run!TypeOK'
    BY <1>1 DEF Run!Steps, Run!Final
  <2>2. \A c \in calls : runPc'[c] = "over" /\ c \in lost'
    OBVIOUS
  <2>3. \A c \in Calls \ calls :
          runPc'[c] = runPc[c] /\ good'[c] = good[c] /\ bad'[c] = bad[c]
    OBVIOUS
  <2>4. UNCHANGED <<runStatus, achieved>> /\ lost \subseteq lost'
    OBVIOUS
  <2>5. LockedOrLost'
    BY <2>2, <2>3, <2>4, CallProcess DEF LockedOrLost, Run!Active
  <2>6. FlagIsOfARun'
    <3>1. ASSUME NEW q \in Processes, running'[q]
          PROVE  \E d \in Calls :
                   Run!ProcessOf(d) = q /\ runPc'[d] \in {"bsc", "solana", "pair", "finish"}
      <4>1. q # p /\ running[q]
        BY <3>1
      <4>2. PICK d \in Calls :
              Run!ProcessOf(d) = q /\ runPc[d] \in {"bsc", "solana", "pair", "finish"}
        BY <4>1 DEF FlagIsOfARun
      <4>3. QED  BY <2>3, <4>1, <4>2
    <3>2. QED  BY <3>1 DEF FlagIsOfARun
  <2>7. ASSUME NEW c \in calls PROVE CallOK(c)'
    <3>1. Truthful(c)'
      BY <2>2, <2>4 DEF CallOK, BeforeRow, ReadyToTell, Truthful, Run!Steps
    <3>2. QED  BY <2>2, <3>1 DEF CallOK
  <2>8. ASSUME NEW c \in Calls \ calls PROVE CallOK(c)'
    BY <2>3, <2>4 DEF CallOK, BeforeRow, ListsSplit, ReadyToTell, Truthful
  <2>9. QED  BY <2>1, <2>5, <2>6, <2>7, <2>8
<1>4. QED  BY <1>2, <1>3

\* Every step keeps the invariant.
LEMMA StepRunInv ==
  ASSUME Run!ConstantsOK, RunInv, Run!Next \/ UNCHANGED runVars
  PROVE  RunInv'
<1>1. CASE UNCHANGED runVars
  BY <1>1 DEF runVars, RunInv, Run!TypeOK, LockedOrLost, Run!Active, FlagIsOfARun, CallOK, BeforeRow,
     ListsSplit, ReadyToTell, Truthful
<1>2. QED  BY <1>1, OnCallKeeps, RunFaultKeeps DEF Run!Next, OnCall

\* As long as no connection breaks one run is active, and the flag of a process
\* is up only for its own; what a run recorded is what it achieved.
THEOREM RunsExcludeAndTell == Spec => []RunsSound
<1> DEFINE Inv == component = "SyncRun" => RunInv
<1>1. Init => Inv
  BY InitRunInv, InitialComponent, ServicesConstants
<1>2. Inv /\ [Next]_vars => Inv'
  BY StepRunInv, ComponentStep, ServicesConstants
<1>3. Inv => RunsSound
  <2> SUFFICES ASSUME RunInv PROVE Run!RunsExclusive /\ Run!RunTellsOutcome
    BY DEF RunsSound
  <2>1. Run!RunsExclusive
    BY DEF RunInv, LockedOrLost, FlagIsOfARun, Run!Active, Run!RunsExclusive
  <2>2. ASSUME NEW c \in Calls
        PROVE  /\ runStatus[c] \in Run!Final => Truthful(c)
               /\ runStatus[c] = "RUNNING" => c \in Run!Active \cup lost
    BY DEF RunInv, CallOK, BeforeRow, ReadyToTell, Truthful, Run!Active, Run!TypeOK, Run!Steps, Run!Final
  <2>3. \A c \in Calls : runStatus[c] = "PARTIAL" => Cardinality(achieved[c] \cap Run!Chains) = 1
    BY <2>2, FS_Singleton DEF Truthful, Run!Final
  <2>4. QED
    BY <2>1, <2>2, <2>3, SameCardinality DEF Truthful, Run!Final, Run!RunTellsOutcome, RunInv, Run!TypeOK
<1>4. QED  BY <1>1, <1>2, <1>3, PTL DEF Spec

----------------------------------------------------------------------------
(***************************************************************************)
(* Signing keys.                                                           *)
(***************************************************************************)
(***************************************************************************)
(* The inductive invariant.  A key that the cache got after a verification *)
(* began comes from a fetch that was in flight then, or it is of the       *)
(* version that is current, which for a valid token is its own: so it is   *)
(* with what the provider answered to a fetch still in flight.  Fetches    *)
(* come one by one, so that one in flight is younger than the cached key,  *)
(* and the key a verification holds is younger than the one that expired.  *)
(***************************************************************************)
OneFlight == \A f, g \in flights : f = g

NewestIsCached == cached.version = newest /\ newest <= current

FlightsOK ==
  /\ cached.fetch <= fetched /\ (fresh => cached.fetch > 0)
  /\ \A f \in flights :
       cached.fetch < f /\ (answer[f] # 0 => newest <= answer[f] /\ answer[f] <= current)
  /\ \A f \in 1..MaxFetches : f > fetched => answer[f] = 0

Since(t, k) == k.fetch \in keyFlying[t] \/ (valid[t] => k.version = signed[t])

TokenOK(t) ==
  /\ valid[t] => signed[t] = current
  /\ \A f \in flights :
       answer[f] # 0 => f \in keyFlying[t] \/ (valid[t] => answer[f] = signed[t])
  /\ keyStep[t] \in {"name", "try"} => held[t] = cached \/ Since(t, cached)
  /\ keyStep[t] = "retry" => keyCooled[t] \/ Since(t, held[t])
  /\ keyStep[t] = "rejected" /\ valid[t] => keyCooled[t] \/ held[t].fetch \in keyFlying[t]

HeldOK(t) ==
  /\ lapsed[t] <= cached.fetch /\ held[t].fetch <= cached.fetch
  /\ held[t] # Signing!NoKey => lapsed[t] < held[t].fetch
  /\ keyStep[t] = "new" => held[t] = Signing!NoKey
  /\ keyStep[t] \in {"name", "try", "retry"} => held[t] # Signing!NoKey

CachedKeys == [fetch : 0..MaxFetches, version : 0..MaxVersions]

KeySteps ==
  {"new", "name", "try", "retry", "accepted", "rejected", "failed"} \cup Signing!Waiting

KeyTypes ==
  /\ current \in 1..MaxVersions /\ newest \in 0..MaxVersions
  /\ cached \in CachedKeys /\ held \in [Tokens -> CachedKeys]
  /\ fresh \in BOOLEAN /\ cooling \in BOOLEAN
  /\ fetched \in 0..MaxFetches /\ flights \subseteq 1..fetched
  /\ keyStep \in [Tokens -> KeySteps]
  /\ signed \in [Tokens -> 0..MaxVersions]
  /\ awaits \in [Tokens -> 0..MaxFetches] /\ keyFlying \in [Tokens -> SUBSET (1..MaxFetches)]
  /\ valid \in [Tokens -> BOOLEAN] /\ keyCooled \in [Tokens -> BOOLEAN]
  /\ answer \in [1..MaxFetches -> 0..MaxVersions] /\ lapsed \in [Tokens -> 0..MaxFetches]

KeyInv ==
  /\ KeyTypes /\ OneFlight /\ NewestIsCached /\ FlightsOK
  /\ \A t \in Tokens : TokenOK(t) /\ HeldOK(t)

\* No key has been fetched.
LEMMA InitKeyInv ==
  ASSUME Signing!ConstantsOK, Signing!Init
  PROVE  KeyInv
<1> USE DEF Signing!ConstantsOK, Signing!Init, Signing!NoKey, Signing!Key
<1>1. MaxVersions \in Nat \ {0} /\ MaxFetches \in Nat \ {0}
  OBVIOUS
<1>2. KeyTypes
  <2>1. /\ current \in 1..MaxVersions /\ newest \in 0..MaxVersions
        /\ fetched \in 0..MaxFetches /\ flights \subseteq 1..fetched
        /\ signed \in [Tokens -> 0..MaxVersions]
        /\ awaits \in [Tokens -> 0..MaxFetches] /\ keyFlying \in [Tokens -> SUBSET (1..MaxFetches)]
        /\ answer \in [1..MaxFetches -> 0..MaxVersions] /\ lapsed \in [Tokens -> 0..MaxFetches]
    BY <1>1
  <2>2. cached \in CachedKeys
    BY <1>1 DEF CachedKeys
  <2>3. held \in [Tokens -> CachedKeys]
    BY <2>2
  <2>4. keyStep \in [Tokens -> KeySteps]
    BY DEF KeySteps
  <2>5. /\ fresh \in BOOLEAN /\ cooling \in BOOLEAN
        /\ valid \in [Tokens -> BOOLEAN] /\ keyCooled \in [Tokens -> BOOLEAN]
    OBVIOUS
  <2>6. QED  BY <2>1, <2>2, <2>3, <2>4, <2>5 DEF KeyTypes
<1>3. OneFlight /\ NewestIsCached /\ FlightsOK /\ \A t \in Tokens : TokenOK(t)
  BY DEF OneFlight, NewestIsCached, FlightsOK, TokenOK
<1>4. \A t \in Tokens : HeldOK(t)
  BY DEF HeldOK
<1>5. QED  BY <1>2, <1>3, <1>4 DEF KeyInv

\* The domains, apart from the LET they are stated under.
LEMMA KeyShapes ==
  ASSUME Signing!ConstantsOK, KeyInv
  PROVE  /\ MaxFetches \in Nat \ {0} /\ MaxVersions \in Nat \ {0}
         /\ fetched \in Nat /\ fetched <= MaxFetches /\ flights \subseteq 1..MaxFetches
         /\ current \in Nat /\ newest \in Nat /\ current <= MaxVersions
         /\ held \in [Tokens -> CachedKeys] /\ cached \in CachedKeys
         /\ awaits \in [Tokens -> 0..MaxFetches] /\ keyStep \in [Tokens -> KeySteps]
         /\ keyCooled \in [Tokens -> BOOLEAN] /\ cooling \in BOOLEAN
         /\ fetched \in fetched..MaxFetches /\ 0 \in 0..MaxFetches
         /\ cached.fetch \in Nat /\ cached.version \in Nat
         /\ \A t \in Tokens : held[t].fetch \in Nat /\ lapsed[t] \in Nat
         /\ \A f \in 1..MaxFetches : answer[f] \in Nat
<1>1. MaxFetches \in Nat \ {0} /\ MaxVersions \in Nat \ {0}
  BY DEF Signing!ConstantsOK
<1>2. /\ fetched \in Nat /\ fetched <= MaxFetches /\ flights \subseteq 1..MaxFetches
      /\ current \in Nat /\ newest \in Nat /\ current <= MaxVersions
      /\ fetched \in fetched..MaxFetches /\ 0 \in 0..MaxFetches
  BY <1>1 DEF KeyInv, KeyTypes
<1>3. cached.fetch \in Nat /\ cached.version \in Nat /\ \A t \in Tokens : held[t].fetch \in Nat
  BY <1>1 DEF KeyInv, KeyTypes, CachedKeys
<1>4. (\A t \in Tokens : lapsed[t] \in Nat) /\ \A f \in 1..MaxFetches : answer[f] \in Nat
  BY <1>1 DEF KeyInv, KeyTypes
<1>5. QED  BY <1>1, <1>2, <1>3, <1>4 DEF KeyInv, KeyTypes

\* The fetch that is joined is the one in flight.
LEMMA JoinedFetch ==
  ASSUME KeyInv, Signing!Joins
  PROVE  Signing!Max(flights) \in flights
<1>1. PICK f \in flights : TRUE
  BY DEF Signing!Joins
<1>2. flights = {f}
  BY <1>1 DEF KeyInv, OneFlight
<1>3. f \in 1..fetched
  BY <1>1 DEF KeyInv, KeyTypes
<1>4. f <= f
  BY <1>3
<1>5. QED  BY <1>2, <1>4 DEF Signing!Max

\* What a refresh may do to a verification and to the cache.
Moved(t) ==
  /\ fetched' \in fetched..MaxFetches
  /\ flights' = flights \/ (flights = {} /\ flights' = {fetched'} /\ fetched' = fetched + 1)
  /\ keyCooled[t] => keyCooled'[t]
  /\ cooling' \in BOOLEAN /\ keyCooled' \in [Tokens -> BOOLEAN]
  /\ held' \in [Tokens -> CachedKeys]
  /\ awaits' \in [Tokens -> 0..MaxFetches]
  /\ \A u \in Tokens \ {t} :
       keyStep'[u] = keyStep[u] /\ held'[u] = held[u] /\ keyCooled'[u] = keyCooled[u]

\* A refresh ends in a wait, in a failure, or with the cached key: a newer one
\* than was observed, or after the cooldown refused, if it has not expired.
LEMMA RefreshResult ==
  ASSUME Signing!ConstantsOK, KeyInv, NEW t \in Tokens, NEW wait \in Signing!Waiting, NEW k,
         Signing!Refresh(t, wait, k)
  PROVE  /\ Moved(t)
         /\ \/ keyStep' = [keyStep EXCEPT ![t] = wait] /\ held'[t] = held[t]
            \/ keyStep' = [keyStep EXCEPT ![t] = "failed"] /\ held'[t] = held[t]
            \/ /\ keyStep' = [keyStep EXCEPT ![t] = Signing!After(wait)]
               /\ held'[t] = cached /\ (keyCooled'[t] \/ cached # k)
               /\ fresh \/ k # Signing!NoKey
<1> USE DEF Signing!Refresh, Signing!WaitFor, Signing!Proceed
<1>1. CASE Signing!Joins
  <2>1. Signing!Max(flights) \in 0..MaxFetches
    BY <1>1, JoinedFetch, KeyShapes
  <2>2. UNCHANGED <<cooling, flights, fetched, keyCooled, held>>
        /\ awaits' = [awaits EXCEPT ![t] = Signing!Max(flights)]
        /\ keyStep' = [keyStep EXCEPT ![t] = wait]
    BY <1>1
  <2>3. QED  BY KeyShapes, <2>1, <2>2 DEF Moved
<1>2. CASE ~Signing!Joins /\ Signing!Newer(k)
  <2>1. UNCHANGED <<cooling, flights, fetched, keyCooled>> /\ cached # k /\ k # Signing!NoKey
        /\ awaits' = [awaits EXCEPT ![t] = 0] /\ held' = [held EXCEPT ![t] = cached]
        /\ keyStep' = [keyStep EXCEPT ![t] = Signing!After(wait)]
    BY <1>2 DEF Signing!Newer
  <2>2. QED  BY KeyShapes, <2>1 DEF Moved
<1>3. CASE ~Signing!Joins /\ ~Signing!Newer(k) /\ cooling
  <2>1. UNCHANGED <<cooling, flights, fetched>>
        /\ keyCooled' = [keyCooled EXCEPT ![t] = TRUE]
        /\ \/ /\ UNCHANGED <<held, awaits>>
              /\ keyStep' = [keyStep EXCEPT ![t] = "failed"]
           \/ /\ fresh /\ awaits' = [awaits EXCEPT ![t] = 0] /\ held' = [held EXCEPT ![t] = cached]
              /\ keyStep' = [keyStep EXCEPT ![t] = Signing!After(wait)]
    BY <1>3
  <2>2. QED  BY KeyShapes, <2>1 DEF Moved
<1>4. CASE ~Signing!Joins /\ ~Signing!Newer(k) /\ ~cooling
  <2>1. /\ fetched < MaxFetches /\ fetched' = fetched + 1 /\ flights = {}
        /\ flights' = {fetched + 1} /\ cooling' = TRUE
        /\ UNCHANGED <<keyCooled, held>> /\ awaits' = [awaits EXCEPT ![t] = fetched + 1]
        /\ keyStep' = [keyStep EXCEPT ![t] = wait]
    BY <1>4 DEF Signing!Joins
  <2>2. fetched + 1 \in 0..MaxFetches /\ fetched + 1 \in fetched..MaxFetches
    BY <2>1, KeyShapes
  <2>3. QED  BY KeyShapes, <2>1, <2>2 DEF Moved
<1>5. QED  BY <1>1, <1>2, <1>3, <1>4

\* The comparison of names proceeds with the key it was given or refreshes it.
LEMMA CompareResult ==
  ASSUME Signing!ConstantsOK, KeyInv, NEW t \in Tokens, NEW version,
         NEW k \in CachedKeys,
         Signing!CompareName(t, version, k)
  PROVE  /\ Moved(t)
         /\ \/ keyStep' = [keyStep EXCEPT ![t] = "named"] /\ held'[t] = held[t]
            \/ keyStep' = [keyStep EXCEPT ![t] = "failed"] /\ held'[t] = held[t]
            \/ keyStep' = [keyStep EXCEPT ![t] = "try"] /\ held'[t] \in {cached, k}
<1>1. CASE t \in WithKid /\ version # k.version
  BY <1>1, RefreshResult DEF Signing!CompareName, Signing!Waiting, Signing!After
<1>2. CASE ~(t \in WithKid /\ version # k.version)
  <2>1. UNCHANGED <<cooling, flights, fetched, keyCooled>>
        /\ awaits' = [awaits EXCEPT ![t] = 0] /\ held' = [held EXCEPT ![t] = k]
        /\ keyStep' = [keyStep EXCEPT ![t] = "try"]
    BY <1>2 DEF Signing!CompareName, Signing!Proceed, Signing!After
  <2>2. QED  BY KeyShapes, <2>1 DEF Moved
<1>3. QED  BY <1>1, <1>2

\* What a verification knows, apart from the fetches in flight.
VerificationOK(t) ==
  /\ valid[t] => signed[t] = current
  /\ keyStep[t] \in {"name", "try"} => held[t] = cached \/ Since(t, cached)
  /\ keyStep[t] = "retry" => keyCooled[t] \/ Since(t, held[t])
  /\ keyStep[t] = "rejected" /\ valid[t] => keyCooled[t] \/ held[t].fetch \in keyFlying[t]

\* A verification that moves disturbs neither the cache nor the others.
LEMMA MovedKeeps ==
  ASSUME Signing!ConstantsOK, KeyInv, NEW t \in Tokens, Moved(t),
         UNCHANGED <<current, cached, fresh, newest, answer>>,
         keyStep' \in [Tokens -> KeySteps],
         signed' \in [Tokens -> 0..MaxVersions], keyFlying' \in [Tokens -> SUBSET (1..MaxFetches)],
         valid' \in [Tokens -> BOOLEAN], lapsed' \in [Tokens -> 0..MaxFetches],
         \A u \in Tokens \ {t} :
           /\ signed'[u] = signed[u] /\ keyFlying'[u] = keyFlying[u] /\ valid'[u] = valid[u]
           /\ lapsed'[u] = lapsed[u],
         \A f \in flights : f \in keyFlying'[t] \/ answer[f] = 0 \/ (valid'[t] => answer[f] = signed'[t]),
         VerificationOK(t)', HeldOK(t)'
  PROVE  KeyInv'
<1> USE DEF KeyInv, Moved
<1>1. OneFlight'
  BY DEF OneFlight
<1>2. NewestIsCached'
  BY DEF NewestIsCached
<1>3. fetched \in Nat /\ fetched' \in 0..MaxFetches /\ flights' \subseteq 1..fetched'
  <2>1. fetched \in Nat /\ MaxFetches \in Nat /\ flights \subseteq 1..fetched
    BY KeyShapes DEF KeyTypes
  <2>2. fetched' \in Nat /\ fetched <= fetched' /\ fetched' <= MaxFetches
    BY <2>1
  <2>3. ASSUME NEW f \in flights' PROVE f \in 1..fetched'
    <3>1. f \in flights \/ (f = fetched + 1 /\ fetched' = fetched + 1)
      BY <2>3
    <3>2. f \in flights => f \in 1..fetched
      BY <2>1
    <3>3. QED  BY <2>1, <2>2, <3>1, <3>2
  <2>4. QED  BY <2>1, <2>2, <2>3
<1>4. ASSUME NEW f \in flights', f \notin flights
      PROVE  f = fetched + 1 /\ f \in 1..MaxFetches /\ answer[f] = 0
  <2>1. f = fetched + 1 /\ fetched' = fetched + 1
    BY <1>4
  <2>2. f \in 1..MaxFetches /\ f > fetched
    BY <1>3, <2>1
  <2>3. QED  BY <2>1, <2>2 DEF FlightsOK
<1>5. FlightsOK'
  <2>1. cached.fetch \in Nat /\ fetched \in Nat /\ fetched' \in Nat /\ fetched <= fetched'
    BY <1>3, KeyShapes
  <2>2. cached.fetch <= fetched'
    BY <2>1 DEF FlightsOK
  <2>3. \A f \in 1..MaxFetches : f > fetched' => answer[f] = 0
    BY <2>1 DEF FlightsOK
  <2>4. ASSUME NEW f \in flights'
        PROVE  cached.fetch < f /\ (answer[f] # 0 => newest <= answer[f] /\ answer[f] <= current)
    <3>1. CASE f \in flights
      BY <3>1 DEF FlightsOK
    <3>2. CASE f \notin flights
      BY <1>4, <2>1, <3>2 DEF FlightsOK
    <3>3. QED  BY <3>1, <3>2
  <2>5. QED  BY <2>2, <2>3, <2>4 DEF FlightsOK
<1>6. ASSUME NEW u \in Tokens PROVE TokenOK(u)' /\ HeldOK(u)'
  <2>1. CASE u = t
    <3>1. \A f \in flights' :
            answer[f] # 0 => f \in keyFlying'[t] \/ (valid'[t] => answer[f] = signed'[t])
      BY <1>4
    <3>2. QED  BY <2>1, <3>1 DEF TokenOK, VerificationOK
  <2>2. CASE u # t
    <3>1. \A f \in flights' :
            answer[f] # 0 => f \in keyFlying'[u] \/ (valid'[u] => answer[f] = signed'[u])
      BY <1>4, <2>2 DEF TokenOK
    <3>2. TokenOK(u)'
      BY <2>2, <3>1 DEF TokenOK, Since
    <3>3. HeldOK(u)'
      BY <2>2 DEF HeldOK
    <3>4. QED  BY <3>2, <3>3
  <2>3. QED  BY <2>1, <2>2
<1>7. KeyTypes'
  BY <1>3 DEF KeyTypes
<1>8. QED  BY <1>1, <1>2, <1>5, <1>6, <1>7

\* A key that takes the place of the one held is the cached one, no older.
LEMMA HeldMoves ==
  ASSUME Signing!ConstantsOK, KeyInv, NEW t \in Tokens, UNCHANGED <<cached, lapsed>>,
         keyStep[t] \in {"name", "try", "retry"}, keyStep'[t] # "new", held'[t] \in {held[t], cached}
  PROVE  HeldOK(t)'
<1>1. /\ lapsed[t] <= cached.fetch /\ held[t].fetch <= cached.fetch
      /\ held[t] # Signing!NoKey /\ lapsed[t] < held[t].fetch
  BY DEF KeyInv, HeldOK
<1>2. cached.fetch \in Nat /\ held[t].fetch \in Nat /\ lapsed[t] \in Nat
  BY KeyShapes
<1>3. lapsed[t] < cached.fetch /\ cached.fetch # 0
  BY <1>1, <1>2
<1>4. cached # Signing!NoKey
  BY <1>3 DEF Signing!NoKey, Signing!Key
<1>5. QED  BY <1>1, <1>2, <1>3, <1>4 DEF HeldOK

\* A verification begins with the cached key or without one.
LEMMA BeginVerifying ==
  ASSUME Signing!ConstantsOK, KeyInv, NEW t \in Tokens, NEW version \in 0..current,
         Signing!Begin(t, version)
  PROVE  KeyInv'
<1> USE DEF Signing!Begin, Signing!Waiting, Signing!After
<1>1. /\ version \in 0..MaxVersions /\ flights \subseteq 1..MaxFetches
      /\ cached.fetch \in 0..MaxFetches /\ 0 \in 0..MaxFetches
  BY DEF KeyInv, KeyTypes, CachedKeys, Signing!ConstantsOK
<1>2. /\ signed' \in [Tokens -> 0..MaxVersions] /\ keyFlying' \in [Tokens -> SUBSET (1..MaxFetches)]
      /\ valid' \in [Tokens -> BOOLEAN] /\ lapsed' \in [Tokens -> 0..MaxFetches]
      /\ \A u \in Tokens \ {t} :
           /\ signed'[u] = signed[u] /\ keyFlying'[u] = keyFlying[u] /\ valid'[u] = valid[u]
           /\ lapsed'[u] = lapsed[u]
      /\ keyFlying'[t] = flights /\ lapsed'[t] = IF fresh THEN 0 ELSE cached.fetch
  BY <1>1 DEF KeyInv, KeyTypes
<1>3. /\ Moved(t)
      /\ \/ /\ keyStep' = [keyStep EXCEPT ![t] = "named"] \/ keyStep' = [keyStep EXCEPT ![t] = "failed"]
                \/ keyStep' = [keyStep EXCEPT ![t] = "first"]
            /\ held'[t] = held[t]
         \/ keyStep' = [keyStep EXCEPT ![t] = "try"] /\ held'[t] = cached /\ fresh
  <2>1. CASE fresh
    BY <2>1, CompareResult DEF KeyInv, KeyTypes
  <2>2. CASE ~fresh
    BY <2>2, RefreshResult
  <2>3. QED  BY <2>1, <2>2
<1>4. VerificationOK(t)'
  <2>1. valid'[t] => signed'[t] = current'
    BY DEF KeyInv, KeyTypes
  <2>2. QED  BY <1>3, <2>1 DEF VerificationOK, KeyInv, KeyTypes
<1>5. keyStep' \in [Tokens -> KeySteps]
  BY <1>3, KeyShapes DEF KeySteps
<1>6. HeldOK(t)'
  <2>1. /\ held[t] = Signing!NoKey /\ held[t].fetch <= cached.fetch /\ cached' = cached
        /\ fresh => cached.fetch > 0
    BY DEF KeyInv, HeldOK, FlightsOK
  <2>2. cached.fetch \in Nat /\ lapsed'[t] <= cached.fetch
    BY <1>2, KeyShapes
  <2>3. CASE held'[t] = held[t] /\ keyStep'[t] \in {"named", "failed", "first"}
    BY <2>1, <2>2, <2>3 DEF HeldOK
  <2>4. CASE keyStep'[t] = "try" /\ held'[t] = cached /\ fresh
    <3>1. cached # Signing!NoKey /\ lapsed'[t] < cached.fetch
      BY <1>2, <2>1, <2>2, <2>4 DEF Signing!NoKey, Signing!Key
    <3>2. QED  BY <2>1, <2>2, <2>4, <3>1 DEF HeldOK
  <2>5. QED  BY <1>3, <2>3, <2>4 DEF KeyInv, KeyTypes
<1>7. UNCHANGED <<current, cached, fresh, newest, answer>>
  OBVIOUS
<1>8. QED  BY <1>2, <1>3, <1>4, <1>5, <1>6, <1>7, MovedKeeps

\* A verification compares names, checks the signature, or checks it again.
LEMMA VerifyKeeps ==
  ASSUME Signing!ConstantsOK, KeyInv, NEW t \in Tokens,
         Signing!TakeNewKey(t) \/ Signing!CheckSignature(t) \/ Signing!CheckAgain(t)
  PROVE  KeyInv'
<1> USE DEF Signing!Waiting, Signing!After
<1>1. /\ UNCHANGED <<current, cached, fresh, newest, answer, signed, keyFlying, valid, lapsed>>
      /\ keyStep[t] \in {"name", "try", "retry"}
  BY DEF Signing!TakeNewKey, Signing!CheckSignature, Signing!CheckAgain, Signing!cache, Signing!history
<1>2. /\ Moved(t) /\ VerificationOK(t)' /\ held'[t] \in {held[t], cached} /\ keyStep'[t] # "new"
      /\ keyStep' \in [Tokens -> KeySteps]
  <2>1. CASE Signing!TakeNewKey(t)
    <3>1. keyStep[t] = "name" /\ Signing!CompareName(t, signed[t], held[t])
      BY <2>1 DEF Signing!TakeNewKey
    <3>2. /\ Moved(t)
          /\ \/ keyStep' = [keyStep EXCEPT ![t] = "named"] /\ held'[t] = held[t]
             \/ keyStep' = [keyStep EXCEPT ![t] = "failed"] /\ held'[t] = held[t]
             \/ keyStep' = [keyStep EXCEPT ![t] = "try"] /\ held'[t] \in {cached, held[t]}
      BY <3>1, CompareResult DEF KeyInv, KeyTypes
    <3>3. TokenOK(t)
      BY DEF KeyInv
    <3>4. QED  BY <1>1, <3>1, <3>2, <3>3, KeyShapes DEF KeySteps, TokenOK, VerificationOK, Since
  <2>2. CASE Signing!CheckSignature(t) /\ held[t].version = signed[t]
    <3>1. /\ UNCHANGED <<held, awaits, cooling, flights, fetched, keyCooled>>
          /\ keyStep' = [keyStep EXCEPT ![t] = "accepted"]
      BY <2>2 DEF Signing!CheckSignature
    <3>2. Moved(t)
      BY <3>1, KeyShapes DEF Moved
    <3>3. TokenOK(t)
      BY DEF KeyInv
    <3>4. QED  BY <1>1, <3>1, <3>2, <3>3, KeyShapes DEF KeySteps, TokenOK, VerificationOK
  <2>3. CASE Signing!CheckSignature(t) /\ held[t].version # signed[t]
    <3>1. keyStep[t] = "try" /\ Signing!Refresh(t, "last", held[t])
      BY <2>3 DEF Signing!CheckSignature
    <3>2. /\ Moved(t)
          /\ \/ keyStep' = [keyStep EXCEPT ![t] = "last"] /\ held'[t] = held[t]
             \/ keyStep' = [keyStep EXCEPT ![t] = "failed"] /\ held'[t] = held[t]
             \/ /\ keyStep' = [keyStep EXCEPT ![t] = "retry"]
                /\ held'[t] = cached /\ (keyCooled'[t] \/ cached # held[t])
      BY <3>1, RefreshResult
    <3>3. TokenOK(t)
      BY DEF KeyInv
    <3>4. QED  BY <1>1, <3>1, <3>2, <3>3, KeyShapes DEF KeySteps, TokenOK, VerificationOK, Since
  <2>4. CASE Signing!CheckAgain(t)
    <3>1. /\ UNCHANGED <<held, awaits, cooling, flights, fetched, keyCooled>> /\ keyStep[t] = "retry"
          /\ keyStep' = [keyStep EXCEPT
               ![t] = IF held[t].version = signed[t] THEN "accepted" ELSE "rejected"]
      BY <2>4 DEF Signing!CheckAgain, Signing!cache
    <3>2. Moved(t)
      BY <3>1, KeyShapes DEF Moved
    <3>3. TokenOK(t)
      BY DEF KeyInv
    <3>4. QED  BY <1>1, <3>1, <3>2, <3>3, KeyShapes DEF KeySteps, TokenOK, VerificationOK, Since
  <2>5. QED  BY <2>1, <2>2, <2>3, <2>4
<1>3. HeldOK(t)'
  BY <1>1, <1>2, HeldMoves
<1>4. \A f \in flights : f \in keyFlying[t] \/ answer[f] = 0 \/ (valid[t] => answer[f] = signed[t])
  BY DEF KeyInv, TokenOK
<1>5. QED  BY <1>1, <1>2, <1>3, <1>4, MovedKeeps DEF KeyInv, KeyTypes

\* The answer that arrives is the version that was current when it was given.
LEMMA FetchKeeps ==
  ASSUME Signing!ConstantsOK, KeyInv, NEW f \in 1..MaxFetches,
         Signing!FetchAnswered(f) \/ Signing!FetchFails(f)
  PROVE  KeyInv'
<1> USE DEF KeyInv, Signing!history
<1>1. CASE Signing!FetchFails(f)
  <2> USE <1>1 DEF Signing!FetchFails
  <2>1. KeyTypes'
    <3>1. /\ keyStep' \in [Tokens -> KeySteps] /\ awaits' \in [Tokens -> 0..MaxFetches]
          /\ flights' \subseteq 1..fetched
      BY KeyShapes DEF KeySteps, KeyTypes
    <3>2. QED  BY <3>1 DEF KeyTypes
  <2>2. OneFlight' /\ NewestIsCached' /\ FlightsOK'
    BY DEF OneFlight, NewestIsCached, FlightsOK
  <2>3. \A t \in Tokens : TokenOK(t)' /\ HeldOK(t)'
    BY KeyShapes DEF TokenOK, Since, HeldOK
  <2>4. QED  BY <2>1, <2>2, <2>3
<1>2. CASE Signing!FetchAnswered(f)
  <2> DEFINE k == Signing!Key(f, answer[f])
  <2>1. k.fetch = f /\ k.version = answer[f] /\ k \in CachedKeys
    BY KeyShapes DEF Signing!Key, CachedKeys, KeyTypes
  <2>2. /\ cached' = k /\ fresh' = TRUE /\ flights' = flights \ {f} /\ f \in flights /\ answer[f] # 0
        /\ UNCHANGED <<current, answer, fetched, cooling, signed, keyFlying, valid, keyCooled, lapsed>>
        /\ newest' = IF answer[f] > newest THEN answer[f] ELSE newest
    BY <1>2 DEF Signing!FetchAnswered
  <2>3. \A t \in Tokens :
          /\ awaits[t] = f => held'[t] = k /\ keyStep'[t] \in {"name", "try", "retry"}
          /\ awaits[t] # f => held'[t] = held[t] /\ keyStep'[t] = keyStep[t]
    BY <1>2 DEF Signing!FetchAnswered, Signing!After
  <2> HIDE DEF k
  <2>4. /\ cached.fetch < f /\ newest <= answer[f] /\ answer[f] <= current
        /\ f \in Nat /\ cached.fetch \in Nat /\ newest \in Nat /\ answer[f] \in Nat
    BY <2>2, KeyShapes DEF FlightsOK
  <2>5. newest' = answer[f]
    BY <2>2, <2>4
  <2>6. KeyTypes'
    <3>1. awaits' \in [Tokens -> 0..MaxFetches] /\ held' \in [Tokens -> CachedKeys]
      BY <1>2, <2>1, KeyShapes DEF Signing!FetchAnswered, k
    <3>2. keyStep' \in [Tokens -> KeySteps]
      BY <1>2, KeyShapes DEF Signing!FetchAnswered, Signing!After, Signing!Waiting, KeySteps
    <3>3. newest' \in 0..MaxVersions
      BY <2>5 DEF KeyTypes
    <3>4. QED  BY <2>1, <2>2, <3>1, <3>2, <3>3 DEF KeyTypes
  <2>7. OneFlight' /\ NewestIsCached' /\ flights' = {}
    BY <2>1, <2>2, <2>4, <2>5 DEF OneFlight, NewestIsCached
  <2>8. FlightsOK'
    <3>1. f \in 1..fetched
      BY <2>2 DEF KeyTypes
    <3>2. f <= fetched /\ f > 0
      BY <3>1, KeyShapes
    <3>3. QED  BY <2>1, <2>2, <2>7, <3>2 DEF FlightsOK
  <2>9. ASSUME NEW t \in Tokens PROVE TokenOK(t)' /\ HeldOK(t)'
    <3>1. TokenOK(t) /\ HeldOK(t) /\ lapsed[t] \in Nat /\ held[t].fetch \in Nat
      BY KeyShapes
    <3>2. f \in keyFlying[t] \/ (valid[t] => answer[f] = signed[t])
      BY <2>2, <3>1 DEF TokenOK
    <3>3. lapsed[t] < f /\ held[t].fetch < f
      BY <2>4, <3>1 DEF HeldOK
    <3>4. k # Signing!NoKey
      BY <2>1, <2>4 DEF Signing!NoKey, Signing!Key
    <3>5. CASE awaits[t] = f
      <4>1. TokenOK(t)'
        BY <2>1, <2>2, <2>3, <2>7, <3>1, <3>2, <3>5 DEF TokenOK, Since
      <4>2. HeldOK(t)'
        BY <2>1, <2>2, <2>3, <2>4, <3>1, <3>3, <3>4, <3>5 DEF HeldOK
      <4>3. QED  BY <4>1, <4>2
    <3>6. CASE awaits[t] # f
      <4>1. TokenOK(t)'
        BY <2>1, <2>2, <2>3, <2>7, <3>1, <3>2, <3>6 DEF TokenOK, Since
      <4>2. HeldOK(t)'
        BY <2>1, <2>2, <2>3, <2>4, <3>1, <3>3, <3>6 DEF HeldOK
      <4>3. QED  BY <4>1, <4>2
    <3>7. QED  BY <3>5, <3>6
  <2>10. QED  BY <2>6, <2>7, <2>8, <2>9
<1>3. QED  BY <1>1, <1>2

\* The provider answers with the version of this moment.
LEMMA AnswerKeeps ==
  ASSUME Signing!ConstantsOK, KeyInv, NEW f \in 1..MaxFetches, Signing!AnswerFetch(f)
  PROVE  KeyInv'
<1> USE DEF KeyInv, Signing!AnswerFetch, Signing!history
<1>1. f \in flights /\ answer' = [answer EXCEPT ![f] = current]
      /\ UNCHANGED <<current, cached, fresh, flights, fetched, newest, signed, keyFlying, valid,
                     keyStep, held, keyCooled, lapsed>>
  OBVIOUS
<1>2. KeyTypes'
  <2>1. current \in 0..MaxVersions
    BY KeyShapes
  <2>2. QED  BY <2>1 DEF KeyTypes
<1>3. answer'[f] = current /\ \A g \in 1..MaxFetches : g # f => answer'[g] = answer[g]
  BY <1>1 DEF KeyTypes
<1>4. flights \subseteq 1..MaxFetches /\ current <= current /\ f <= fetched /\ fetched \in Nat
  <2>1. f \in 1..fetched
    BY <1>1 DEF KeyTypes
  <2>2. QED  BY <2>1, KeyShapes
<1>5. OneFlight' /\ NewestIsCached'
  BY <1>1 DEF OneFlight, NewestIsCached
<1>6. FlightsOK'
  <2>1. \A g \in 1..MaxFetches : g > fetched => answer'[g] = 0
    BY <1>3, <1>4 DEF FlightsOK
  <2>2. ASSUME NEW g \in flights
        PROVE  cached.fetch < g /\ (answer'[g] # 0 => newest <= answer'[g] /\ answer'[g] <= current)
    BY <1>3, <1>4 DEF FlightsOK, NewestIsCached
  <2>3. QED  BY <1>1, <2>1, <2>2 DEF FlightsOK
<1>7. ASSUME NEW t \in Tokens PROVE TokenOK(t)' /\ HeldOK(t)'
  <2>1. TokenOK(t) /\ HeldOK(t)
    OBVIOUS
  <2>2. \A g \in flights : answer'[g] # 0 => g \in keyFlying[t] \/ (valid[t] => answer'[g] = signed[t])
    BY <1>3, <1>4, <2>1 DEF TokenOK
  <2>3. QED  BY <1>1, <2>1, <2>2 DEF TokenOK, HeldOK, Since
<1>8. QED  BY <1>2, <1>5, <1>6, <1>7

\* Every step keeps the invariant.
LEMMA StepKeyInv ==
  ASSUME Signing!ConstantsOK, KeyInv, Signing!Next \/ UNCHANGED keyVars
  PROVE  KeyInv'
<1>1. CASE Signing!Rotate
  <2> USE <1>1 DEF Signing!Rotate, Signing!cache, Signing!history, KeyInv
  <2>1. current' \in 1..MaxVersions /\ newest <= current'
    BY DEF KeyTypes, NewestIsCached, Signing!ConstantsOK
  <2>2. KeyTypes' /\ OneFlight' /\ NewestIsCached'
    BY <2>1 DEF KeyTypes, OneFlight, NewestIsCached
  <2>3. FlightsOK'
    <3>1. \A f \in flights : answer[f] <= current => answer[f] <= current'
      BY KeyShapes
    <3>2. QED  BY <3>1 DEF FlightsOK
  <2>4. \A t \in Tokens : TokenOK(t)' /\ HeldOK(t)'
    BY DEF TokenOK, Since, HeldOK
  <2>5. QED  BY <2>2, <2>3, <2>4
<1>2. CASE Signing!CoolDown
  BY <1>2 DEF Signing!CoolDown, Signing!history, KeyInv, KeyTypes, OneFlight, NewestIsCached,
     FlightsOK, TokenOK, HeldOK, Since
<1>3. CASE Signing!ExpireKey
  BY <1>3 DEF Signing!ExpireKey, Signing!history, KeyInv, KeyTypes, OneFlight, NewestIsCached,
     FlightsOK, TokenOK, HeldOK, Since
<1>4. CASE UNCHANGED keyVars
  BY <1>4 DEF keyVars, KeyInv, KeyTypes, OneFlight, NewestIsCached, FlightsOK, TokenOK, HeldOK, Since
<1>5. QED
  BY <1>1, <1>2, <1>3, <1>4, AnswerKeeps, FetchKeeps, BeginVerifying, VerifyKeeps DEF Signing!Next

\* One fetch is in flight at a time, and the cached version never goes back,
\* though an answer may arrive after a rotation.  A token of the provider's
\* version is rejected only after the cooldown refused a refresh or with a key
\* whose fetch was in flight when it came, and no verification checks a key that
\* had expired when it began, whenever keys expire.
THEOREM KeysServed == Spec => []KeyServed
<1> DEFINE Inv == component = "SigningKeyCache" => KeyInv
<1>1. Init => Inv
  BY InitKeyInv, InitialComponent, ServicesConstants
<1>2. Inv /\ [Next]_vars => Inv'
  BY StepKeyInv, ComponentStep, ServicesConstants
<1>3. Inv => KeyServed
  <2> SUFFICES ASSUME KeyInv PROVE Signing!KeyServed
    BY DEF KeyServed
  <2>1. Cardinality(flights) <= 1
    <3>1. CASE flights = {}
      BY <3>1, FS_EmptySet
    <3>2. ASSUME NEW f \in flights PROVE Cardinality(flights) <= 1
      <4>1. flights = {f}
        BY <3>2 DEF KeyInv, OneFlight
      <4>2. Cardinality({f}) = 1
        BY FS_Singleton
      <4>3. QED  BY <4>1, <4>2
    <3>3. QED  BY <3>1, <3>2
  <2>2. \A t \in Tokens : held[t] # Signing!NoKey => held[t].fetch > lapsed[t]
    BY KeyShapes, ServicesConstants DEF KeyInv, HeldOK
  <2>3. QED  BY <2>1, <2>2, SameCardinality DEF KeyInv, NewestIsCached, TokenOK, Signing!KeyServed
<1>4. QED  BY <1>1, <1>2, <1>3, PTL DEF Spec

----------------------------------------------------------------------------
(***************************************************************************)
(* The Solana indexer.                                                     *)
(***************************************************************************)
Admits(f, m) == f = All \/ m = f

\* What a cursor has passed, and what a scan has dealt with so far.
Behind(f, s, m) == s <= cursor[f] /\ m \in moved[s] /\ Admits(f, m)

Handled(p, s, m) ==
  /\ solPc[p] # "idle" /\ m \in moved[s] /\ Admits(filter[p], m)
  /\ \/ s <= from[p]
     \/ solPc[p] \in {"load", "store", "resolve"} /\ s < at[p]
     \/ solPc[p] \in {"store", "resolve"} /\ s = at[p] /\ m \notin left[p]
     \/ solPc[p] = "save" /\ s <= top[p]

\* Where a scan stands in the history.  A scan that resolves a failure has
\* stored a mint of that transaction.
ScanOK(p) ==
  /\ solPc[p] = "idle" => top[p] = 0
  /\ solPc[p] # "idle" => from[p] <= latest /\ top[p] <= latest
  /\ solPc[p] = "page" /\ top[p] # 0 => from[p] < at[p] /\ at[p] <= top[p]
  /\ solPc[p] \in {"load", "store", "resolve"} => 0 < at[p] /\ at[p] <= top[p]
  /\ solPc[p] = "store" => left[p] \subseteq moved[at[p]]
  /\ solPc[p] = "resolve" =>
       left[p] \subseteq moved[at[p]] /\ \E m \in moved[at[p]] : <<at[p], m>> \in rows \/ m \in deleted

(***************************************************************************)
(* The inductive invariant.                                                *)
(***************************************************************************)
SolTypes ==
  /\ latest \in 0..MaxSigs
  /\ moved \in [1..MaxSigs -> SUBSET Mints]
  /\ cursor \in [Sol!Filters -> 0..MaxSigs]
  /\ solPc \in [Sol!Scanners -> Sol!Steps]
  /\ filter \in [Sol!Scanners -> Sol!Filters]
  /\ from \in [Sol!Scanners -> 0..MaxSigs] /\ top \in [Sol!Scanners -> 0..MaxSigs]
  /\ at \in [Sol!Scanners -> 0..(MaxSigs + 1)]
  /\ left \in [Sol!Scanners -> SUBSET Mints]

RowTypes ==
  /\ rows \subseteq (1..MaxSigs) \X Mints
  /\ failure \in [1..MaxSigs -> {"none", "open", "resolved"}]
  /\ deleted \subseteq ScriptMints

CursorsPassed ==
  \A f \in Sol!Filters :
    /\ cursor[f] <= latest
    /\ \A s \in 1..MaxSigs, m \in Mints : Behind(f, s, m) => Sol!Accounted(s, m)

ScansHandled ==
  \A p \in Sol!Scanners :
    /\ ScanOK(p)
    /\ \A s \in 1..MaxSigs, m \in Mints : Handled(p, s, m) => Sol!Accounted(s, m)

SolInv == SolTypes /\ RowTypes /\ CursorsPassed /\ ScansHandled

\* Nothing has been indexed.
LEMMA InitSolInv ==
  ASSUME Sol!ConstantsOK, Sol!Init
  PROVE  SolInv
<1> USE DEF Sol!ConstantsOK, Sol!Init
<1>1. MaxSigs \in Nat
  BY DEF Sol!ConstantsOK
<1>2. SolTypes /\ RowTypes
  BY <1>1 DEF SolTypes, RowTypes, Sol!Filters, Sol!Steps, Sol!Signatures
<1>3. CursorsPassed /\ ScansHandled
  BY <1>1 DEF CursorsPassed, ScansHandled, ScanOK, Handled, Behind, Sol!Filters
<1>4. QED  BY <1>2, <1>3 DEF SolInv

\* What is accounted for stays so: a row is deleted with all of its mint, and a
\* failure is resolved by a scan that stored a mint of the transaction.
LEMMA AccountedStays ==
  ASSUME Sol!ConstantsOK, SolInv, Sol!Next \/ UNCHANGED solVars,
         NEW s \in 1..MaxSigs, NEW m \in Mints,
         s <= latest, m \in moved[s], Sol!Accounted(s, m)
  PROVE  Sol!Accounted(s, m)' /\ moved'[s] = moved[s]
<1> USE DEF SolInv, SolTypes, RowTypes, Sol!locals
<1>1. CASE Sol!NewSignature
  <2>1. latest + 1 # s /\ UNCHANGED <<rows, failure, deleted>>
    BY <1>1 DEF Sol!NewSignature
  <2>2. moved'[s] = moved[s]
    BY <1>1, <2>1 DEF Sol!NewSignature
  <2>3. QED  BY <2>1, <2>2 DEF Sol!Accounted
<1>2. ASSUME NEW p \in Sol!Scanners, Sol!StoreTransfer(p)
      PROVE  Sol!Accounted(s, m)' /\ moved'[s] = moved[s]
  BY <1>2 DEF Sol!StoreTransfer, Sol!Accounted
<1>3. ASSUME NEW p \in Sol!Scanners, Sol!FileFailure(p)
      PROVE  Sol!Accounted(s, m)' /\ moved'[s] = moved[s]
  <2>1. UNCHANGED <<moved, rows, deleted>> /\ failure'[s] \in {failure[s], "open"}
    BY <1>3 DEF Sol!FileFailure
  <2>2. QED  BY <2>1 DEF Sol!Accounted
<1>4. ASSUME NEW p \in Sol!Scanners, Sol!ResolveFailure(p)
      PROVE  Sol!Accounted(s, m)' /\ moved'[s] = moved[s]
  <2>1. UNCHANGED <<moved, rows, deleted>>
    BY <1>4 DEF Sol!ResolveFailure
  <2>2. CASE s # at[p]
    <3>1. failure'[s] = failure[s]
      BY <1>4, <2>2 DEF Sol!ResolveFailure
    <3>2. QED  BY <2>1, <3>1 DEF Sol!Accounted
  <2>3. CASE s = at[p]
    <3>1. failure'[s] = IF failure[s] = "open" THEN "resolved" ELSE failure[s]
      BY <1>4, <2>3 DEF Sol!ResolveFailure
    <3>2. PICK n \in moved[s] : <<s, n>> \in rows \/ n \in deleted
      BY <1>4, <2>3 DEF ScansHandled, ScanOK, Sol!ResolveFailure
    <3>3. CASE n = m
      BY <2>1, <3>2, <3>3 DEF Sol!Accounted
    <3>4. CASE n # m
      <4>1. moved[s] # {m}
        BY <3>2, <3>4
      <4>2. QED  BY <2>1, <3>1, <4>1 DEF Sol!Accounted
    <3>5. QED  BY <3>3, <3>4
  <2>4. QED  BY <2>2, <2>3
<1>5. ASSUME NEW n \in ScriptMints, Sol!DeleteTransfers(n)
      PROVE  Sol!Accounted(s, m)' /\ moved'[s] = moved[s]
  <2>1. UNCHANGED <<moved, failure>> /\ deleted' = deleted \cup {n}
        /\ rows' = {r \in rows : r[2] # n}
    BY <1>5 DEF Sol!DeleteTransfers
  <2>2. CASE n = m
    BY <2>1, <2>2 DEF Sol!Accounted
  <2>3. CASE n # m
    BY <2>1, <2>3 DEF Sol!Accounted
  <2>4. QED  BY <2>2, <2>3
<1>6. ASSUME UNCHANGED <<moved, rows, failure, deleted>>
      PROVE  Sol!Accounted(s, m)' /\ moved'[s] = moved[s]
  BY <1>6 DEF Sol!Accounted
<1>7. ASSUME NEW p \in Sol!Scanners,
             \/ \E f \in Sol!Filters : Sol!Start(p, f)
             \/ Sol!FetchPage(p) \/ Sol!FetchLastPage(p) \/ Sol!NothingNew(p)
             \/ Sol!LoadTransaction(p) \/ Sol!SaveCursor(p) \/ Sol!ScanFails(p)
      PROVE  UNCHANGED <<moved, rows, failure, deleted>>
  BY <1>7 DEF Sol!Start, Sol!FetchPage, Sol!FetchLastPage, Sol!NothingNew,
     Sol!LoadTransaction, Sol!SaveCursor, Sol!ScanFails
<1>8. CASE UNCHANGED solVars
  BY <1>6, <1>8 DEF solVars
<1>9. QED
  BY <1>1, <1>2, <1>3, <1>4, <1>5, <1>6, <1>7, <1>8 DEF Sol!Next, Sol!ScanStep

\* The transactions of the history do not change.
LEMMA SeenStays ==
  ASSUME Sol!ConstantsOK, SolInv, Sol!Next \/ UNCHANGED solVars, NEW s \in 1..MaxSigs, s <= latest
  PROVE  moved'[s] = moved[s]
<1>1. CASE Sol!NewSignature
  <2>1. latest + 1 # s
    BY DEF SolInv, SolTypes, Sol!ConstantsOK
  <2>2. QED  BY <1>1, <2>1 DEF Sol!NewSignature, SolInv, SolTypes
<1>2. CASE ~Sol!NewSignature
  <2>1. UNCHANGED moved
    BY <1>2 DEF Sol!Next, Sol!ScanStep, Sol!Start, Sol!FetchPage, Sol!FetchLastPage, Sol!NothingNew,
       Sol!FileFailure, Sol!LoadTransaction, Sol!StoreTransfer, Sol!ResolveFailure, Sol!SaveCursor,
       Sol!ScanFails, Sol!DeleteTransfers, solVars
  <2>2. QED  BY <2>1
<1>3. QED  BY <1>1, <1>2

\* What is handled or passed exists.
LEMMA HandledExists ==
  ASSUME Sol!ConstantsOK, SolInv, NEW s \in 1..MaxSigs, NEW m \in Mints
  PROVE  /\ \A p \in Sol!Scanners : Handled(p, s, m) => s <= latest /\ m \in moved[s]
         /\ \A f \in Sol!Filters : Behind(f, s, m) => s <= latest /\ m \in moved[s]
<1>1. MaxSigs \in Nat
  BY DEF Sol!ConstantsOK
<1>2. ASSUME NEW p \in Sol!Scanners, Handled(p, s, m) PROVE s <= latest /\ m \in moved[s]
  BY <1>1, <1>2 DEF Handled, SolInv, SolTypes, ScansHandled, ScanOK
<1>3. ASSUME NEW f \in Sol!Filters, Behind(f, s, m) PROVE s <= latest /\ m \in moved[s]
  BY <1>1, <1>3 DEF Behind, SolInv, SolTypes, CursorsPassed
<1>4. QED  BY <1>2, <1>3

\* A step of one scan leaves what the others handled, and their place.
OthersStay(p) ==
  /\ UNCHANGED <<latest, moved>>
  /\ \A r \in rows : r \in rows' \/ r[2] \in deleted'
  /\ deleted \subseteq deleted'
  /\ \A q \in Sol!Scanners \ {p} :
       /\ solPc'[q] = solPc[q] /\ filter'[q] = filter[q] /\ from'[q] = from[q]
       /\ top'[q] = top[q] /\ at'[q] = at[q] /\ left'[q] = left[q]

LEMMA ScansKeep ==
  ASSUME Sol!ConstantsOK, SolInv, Sol!Next, NEW p \in Sol!Scanners, OthersStay(p),
         ScanOK(p)',
         \A s \in 1..MaxSigs, m \in Mints :
           Handled(p, s, m)' => Sol!Accounted(s, m)' \/ Handled(p, s, m)
  PROVE  ScansHandled'
<1>1. ASSUME NEW q \in Sol!Scanners \ {p} PROVE ScanOK(q)'
  <2>1. ScanOK(q)
    BY DEF SolInv, ScansHandled
  <2>2. \A m \in Mints : <<at[q], m>> \in rows \/ m \in deleted => <<at[q], m>> \in rows' \/ m \in deleted'
    BY DEF OthersStay
  <2>3. solPc[q] = "resolve" => moved[at[q]] \subseteq Mints
    <3>1. solPc[q] = "resolve" => at[q] \in 1..MaxSigs
      BY <2>1 DEF ScanOK, SolInv, SolTypes, Sol!ConstantsOK
    <3>2. QED  BY <3>1 DEF SolInv, SolTypes
  <2>4. QED  BY <2>1, <2>2, <2>3 DEF ScanOK, OthersStay
<1>2. ASSUME NEW q \in Sol!Scanners, NEW s \in 1..MaxSigs, NEW m \in Mints, Handled(q, s, m)'
      PROVE  Sol!Accounted(s, m)'
  <2>1. CASE Handled(q, s, m)
    <3>1. s <= latest /\ m \in moved[s] /\ Sol!Accounted(s, m)
      BY <2>1, HandledExists DEF SolInv, ScansHandled
    <3>2. QED  BY <3>1, AccountedStays
  <2>2. CASE q = p /\ ~Handled(q, s, m)
    BY <1>2, <2>2
  <2>3. CASE q # p
    <3>1. Handled(q, s, m)
      BY <1>2, <2>3 DEF Handled, OthersStay
    <3>2. QED  BY <2>1, <3>1
  <2>4. QED  BY <2>1, <2>2, <2>3
<1>3. QED  BY <1>1, <1>2 DEF ScansHandled

\* Cursors that do not move stay where they are right.
LEMMA CursorsKeep ==
  ASSUME Sol!ConstantsOK, SolInv, Sol!Next \/ UNCHANGED solVars,
         NEW F \in SUBSET Sol!Filters,
         latest' \in Nat, latest <= latest',
         \A f \in F : cursor'[f] = cursor[f],
         \A f \in Sol!Filters \ F :
           cursor'[f] <= latest' /\ \A s \in 1..MaxSigs, m \in Mints : Behind(f, s, m)' => Sol!Accounted(s, m)'
  PROVE  CursorsPassed'
<1>1. ASSUME NEW f \in F PROVE cursor'[f] <= latest'
  BY DEF SolInv, CursorsPassed, SolTypes, Sol!ConstantsOK
<1>2. ASSUME NEW f \in F, NEW s \in 1..MaxSigs, NEW m \in Mints, Behind(f, s, m)'
      PROVE  Sol!Accounted(s, m)'
  <2>1. s <= cursor[f] /\ cursor[f] <= latest /\ s <= latest
    BY <1>2 DEF Behind, SolInv, CursorsPassed, SolTypes, Sol!ConstantsOK
  <2>2. moved'[s] = moved[s]
    BY <2>1, SeenStays
  <2>3. Behind(f, s, m)
    BY <1>2, <2>1, <2>2 DEF Behind
  <2>4. m \in moved[s] /\ Sol!Accounted(s, m)
    BY <2>3 DEF SolInv, CursorsPassed, Behind
  <2>5. QED  BY <2>1, <2>4, AccountedStays
<1>3. QED  BY <1>1, <1>2 DEF CursorsPassed

\* The domains of one scan.
LEMMA ScanShapes ==
  ASSUME Sol!ConstantsOK, SolInv, NEW p \in Sol!Scanners
  PROVE  /\ MaxSigs \in Nat /\ Limit \in Nat \ {0} /\ MaxPages * Limit \in Nat
         /\ MaxSigs <= MaxPages * Limit
         /\ latest \in Nat /\ latest <= MaxSigs
         /\ from[p] \in Nat /\ top[p] \in Nat /\ at[p] \in Nat
         /\ solPc[p] # "idle" => from[p] <= latest /\ top[p] <= latest
<1>1. /\ MaxPages \in Nat /\ Limit \in Nat \ {0} /\ MaxSigs \in 0..(MaxPages * Limit)
  BY DEF Sol!ConstantsOK
<1>2. MaxPages * Limit \in Nat
  BY <1>1
<1>3. MaxSigs \in Nat /\ MaxSigs <= MaxPages * Limit
  BY <1>1, <1>2
<1>4. QED  BY <1>1, <1>2, <1>3 DEF SolInv, SolTypes, ScansHandled, ScanOK

\* What a step of scan p shows of its own position.
StepHandled(p) ==
  /\ ScanOK(p)'
  /\ \A s \in 1..MaxSigs, m \in Mints : Handled(p, s, m)' => Sol!Accounted(s, m)' \/ Handled(p, s, m)

\* A scan starts behind its cursor, and a scan that stops keeps nothing.
LEMMA EndsOfScan ==
  ASSUME Sol!ConstantsOK, SolInv, NEW p \in Sol!Scanners,
         \/ \E f \in Sol!Filters : Sol!Start(p, f)
         \/ Sol!NothingNew(p) \/ Sol!SaveCursor(p) \/ Sol!ScanFails(p)
  PROVE  StepHandled(p)
<1> USE DEF SolInv, SolTypes
<1>1. ASSUME NEW f \in Sol!Filters, Sol!Start(p, f)
      PROVE  StepHandled(p)
  <2> USE <1>1 DEF Sol!Start, Sol!ToStep
  <2>1. /\ solPc'[p] = "page" /\ from'[p] = cursor[f] /\ filter'[p] = f
        /\ UNCHANGED <<latest, moved, cursor, rows, failure, deleted, top, at, left>>
    OBVIOUS
  <2> HIDE <1>1 DEF Sol!Start, Sol!ToStep
  <2>2. cursor[f] <= latest /\ solPc[p] = "idle" /\ top[p] <= latest
        /\ (top[p] # 0 => cursor[f] < at[p] /\ at[p] <= top[p])
    BY <1>1 DEF Sol!Start, CursorsPassed, ScansHandled, ScanOK
  <2>3. ScanOK(p)'
    BY <2>1, <2>2 DEF ScanOK
  <2>4. ASSUME NEW s \in 1..MaxSigs, NEW m \in Mints, Handled(p, s, m)'
        PROVE  Sol!Accounted(s, m)'
    <3>1. Behind(f, s, m)
      BY <2>1, <2>4 DEF Handled, Behind, Admits
    <3>2. Sol!Accounted(s, m)
      BY <3>1 DEF CursorsPassed
    <3>3. QED  BY <2>1, <3>2 DEF Sol!Accounted
  <2>5. QED  BY <2>3, <2>4 DEF StepHandled
<1>2. ASSUME Sol!NothingNew(p) \/ Sol!SaveCursor(p) \/ Sol!ScanFails(p)
      PROVE  StepHandled(p)
  <2>1. solPc'[p] = "idle" /\ top'[p] = 0
    BY <1>2 DEF Sol!NothingNew, Sol!SaveCursor, Sol!ScanFails, Sol!Stop, Sol!ToStep
  <2>2. QED  BY <2>1 DEF StepHandled, ScanOK, Handled
<1>3. QED  BY <1>1, <1>2

\* The pages reach down to the cursor: the oldest signature fetched is the one
\* after it.
LEMMA PagesReachCursor ==
  ASSUME Sol!ConstantsOK, SolInv, NEW p \in Sol!Scanners,
         Sol!FetchPage(p) \/ Sol!FetchLastPage(p)
  PROVE  StepHandled(p)
<1> DEFINE upper == Sol!NewestFetched(p)
           head == Sol!PageTop(p)
           size == Sol!PageSize(p)
<1>1. /\ upper = IF top[p] = 0 THEN latest ELSE top[p]
      /\ head = IF top[p] = 0 THEN latest ELSE at[p] - 1
      /\ size = IF head - from[p] < Limit THEN head - from[p] ELSE Limit
  BY DEF Sol!NewestFetched, Sol!PageTop, Sol!PageSize
<1>2. /\ UNCHANGED <<latest, moved, rows, failure, deleted, filter, from, left>>
      /\ solPc[p] = "page" /\ top'[p] = upper /\ at'[p] = head - size + 1
      /\ \/ solPc'[p] = "page" /\ ~(size < Limit)
         \/ /\ solPc'[p] = "load" /\ upper > from[p]
            /\ (size < Limit \/ upper - head + Limit = MaxPages * Limit)
  BY DEF Sol!FetchPage, Sol!FetchLastPage, Sol!LastPage, Sol!ToStep, SolInv, SolTypes
<1>3. top[p] # 0 => from[p] < at[p] /\ at[p] <= top[p]
  BY <1>2 DEF SolInv, ScansHandled, ScanOK
<1> HIDE DEF upper, head, size
<1>4. /\ upper \in Nat /\ head \in Nat /\ from[p] <= head /\ head <= upper
      /\ upper <= latest
  BY <1>1, <1>2, <1>3, ScanShapes
<1>5. CASE solPc'[p] = "page"
  <2>1. from[p] < head - size + 1 /\ head - size + 1 <= upper
    BY <1>1, <1>2, <1>4, <1>5, ScanShapes
  <2>2. ScanOK(p)'
    BY <1>2, <1>4, <1>5, <2>1, ScanShapes DEF ScanOK
  <2>3. QED  BY <1>2, <1>5, <2>2 DEF StepHandled, Handled
<1>6. CASE solPc'[p] = "load"
  <2>1. head - size + 1 = from[p] + 1
    <3>1. CASE size < Limit
      BY <1>1, <1>4, <3>1, ScanShapes
    <3>2. CASE ~(size < Limit)
      <4>1. upper - head + Limit = MaxPages * Limit /\ upper <= MaxPages * Limit
        BY <1>2, <1>4, <1>6, <3>2, ScanShapes
      <4>2. head <= Limit /\ Limit <= head - from[p]
        BY <1>1, <1>4, <3>2, <4>1, ScanShapes
      <4>3. /\ head \in Nat /\ from[p] \in Nat /\ Limit \in Nat
            /\ (head - from[p] < Limit => size = head - from[p])
            /\ (~(head - from[p] < Limit) => size = Limit)
        BY <1>1, <1>4, ScanShapes
      <4>4. size = Limit /\ head = Limit /\ from[p] = 0
        BY <4>2, <4>3
      <4>5. QED  BY <4>3, <4>4
    <3>3. QED  BY <3>1, <3>2
  <2>2. upper > from[p] /\ upper <= latest
    BY <1>2, <1>4, <1>6
  <2>3. ScanOK(p)'
    BY <1>2, <1>4, <1>6, <2>1, <2>2, ScanShapes DEF ScanOK
  <2>4. ASSUME NEW s \in 1..MaxSigs, NEW m \in Mints, Handled(p, s, m)' PROVE Handled(p, s, m)
    <3>1. s <= from[p]
      BY <1>2, <1>6, <2>1, <2>4, ScanShapes DEF Handled
    <3>2. QED  BY <1>2, <2>4, <3>1 DEF Handled
  <2>5. QED  BY <2>3, <2>4 DEF StepHandled
<1>7. QED  BY <1>2, <1>5, <1>6

\* The next signature is taken up when everything of this one is handled.
LEMMA NextSignatureKeeps ==
  ASSUME Sol!ConstantsOK, SolInv, NEW p \in Sol!Scanners, Sol!NextSignature(p),
         UNCHANGED <<latest, moved, filter, from, top>>,
         solPc[p] \in {"load", "resolve"},
         \A s \in 1..MaxSigs, m \in Mints :
           s = at[p] /\ m \in moved[s] /\ Admits(filter[p], m) => Sol!Accounted(s, m)'
  PROVE  StepHandled(p)
<1>1. 0 < at[p] /\ at[p] <= top[p]
  BY DEF SolInv, ScansHandled, ScanOK
<1>2. \/ solPc'[p] = "load" /\ at'[p] = at[p] + 1 /\ at[p] < top[p]
      \/ solPc'[p] = "save" /\ at'[p] = at[p] /\ at[p] = top[p]
  BY <1>1, ScanShapes DEF Sol!NextSignature, Sol!ToStep, SolInv, SolTypes
<1>3. ScanOK(p)'
  BY <1>1, <1>2, ScanShapes DEF ScanOK
<1>4. ASSUME NEW s \in 1..MaxSigs, NEW m \in Mints, Handled(p, s, m)'
      PROVE  Sol!Accounted(s, m)' \/ Handled(p, s, m)
  <2>1. m \in moved[s] /\ Admits(filter[p], m) /\ (s <= from[p] \/ s <= at[p])
    BY <1>2, <1>4, ScanShapes DEF Handled, Admits
  <2>2. CASE s <= from[p] \/ s < at[p]
    BY <2>1, <2>2 DEF Handled
  <2>3. CASE s = at[p]
    BY <2>1, <2>3
  <2>4. QED  BY <2>1, <2>2, <2>3, ScanShapes
<1>5. QED  BY <1>3, <1>4 DEF StepHandled

\* The signature in hand is stored, or filed as a failure.
LEMMA SignatureKeeps ==
  ASSUME Sol!ConstantsOK, SolInv, Sol!Next, NEW p \in Sol!Scanners,
         \/ Sol!FileFailure(p) \/ Sol!LoadTransaction(p)
         \/ Sol!StoreTransfer(p) \/ Sol!ResolveFailure(p)
  PROVE  StepHandled(p)
<1>1. CASE Sol!FileFailure(p)
  <2>1. at[p] \in 1..MaxSigs
    BY <1>1, ScanShapes DEF Sol!FileFailure, SolInv, ScansHandled, ScanOK
  <2>2. failure'[at[p]] = "open"
    BY <1>1, <2>1 DEF Sol!FileFailure, SolInv, RowTypes
  <2>3. \A s \in 1..MaxSigs, m \in Mints : s = at[p] => Sol!Accounted(s, m)'
    BY <2>2 DEF Sol!Accounted
  <2>4. QED  BY <1>1, <2>3, NextSignatureKeeps DEF Sol!FileFailure
<1>2. CASE Sol!LoadTransaction(p)
  <2> DEFINE found == moved[at[p]] \cap Sol!Wanted(filter[p])
  <2>1. \A m \in Mints : m \in found <=> m \in moved[at[p]] /\ Admits(filter[p], m)
    BY DEF Sol!Wanted, Admits, SolInv, SolTypes
  <2>2. /\ UNCHANGED <<latest, moved, cursor, rows, failure, deleted, filter, from, top>>
        /\ solPc[p] = "load" /\ left' = [left EXCEPT ![p] = found]
        /\ found = {} => Sol!NextSignature(p)
        /\ found # {} => solPc' = [solPc EXCEPT ![p] = "store"] /\ UNCHANGED at
    BY <1>2 DEF Sol!LoadTransaction, Sol!ToStep
  <2>3. found \subseteq moved[at[p]]
    OBVIOUS
  <2> HIDE DEF found
  <2>4. CASE found = {}
    BY <2>1, <2>2, <2>4, NextSignatureKeeps
  <2>5. CASE found # {}
    <3>1. solPc'[p] = "store" /\ left'[p] = found /\ UNCHANGED at
      BY <2>2, <2>5 DEF SolInv, SolTypes
    <3>2. ScanOK(p)'
      <4>1. ScanOK(p)
        BY DEF SolInv, ScansHandled
      <4>2. QED  BY <2>2, <2>3, <3>1, <4>1 DEF ScanOK
    <3>3. ASSUME NEW s \in 1..MaxSigs, NEW m \in Mints, Handled(p, s, m)' PROVE Handled(p, s, m)
      BY <2>1, <2>2, <3>1, <3>3 DEF Handled
    <3>4. QED  BY <3>2, <3>3 DEF StepHandled
  <2>6. QED  BY <2>4, <2>5
<1>3. CASE Sol!StoreTransfer(p)
  <2>1. PICK n \in left[p] : rows' = rows \cup {<<at[p], n>>} /\ left' = [left EXCEPT ![p] = left[p] \ {n}]
    BY <1>3 DEF Sol!StoreTransfer
  <2>2. /\ UNCHANGED <<latest, moved, cursor, failure, deleted, filter, from, top, at>>
        /\ solPc[p] = "store" /\ solPc' = [solPc EXCEPT ![p] = "resolve"]
    BY <1>3 DEF Sol!StoreTransfer, Sol!ToStep
  <2>3. solPc'[p] = "resolve" /\ left'[p] = left[p] \ {n}
    BY <2>1, <2>2 DEF SolInv, SolTypes
  <2>4. ScanOK(p)'
    <3>1. ScanOK(p)
      BY DEF SolInv, ScansHandled
    <3>2. n \in moved[at[p]] /\ <<at[p], n>> \in rows'
      BY <2>1, <2>2, <3>1 DEF ScanOK
    <3>3. QED  BY <2>2, <2>3, <3>1, <3>2 DEF ScanOK
  <2>5. ASSUME NEW s \in 1..MaxSigs, NEW m \in Mints, Handled(p, s, m)'
        PROVE  Sol!Accounted(s, m)' \/ Handled(p, s, m)
    <3>1. CASE s = at[p] /\ m = n
      BY <2>1, <3>1 DEF Sol!Accounted
    <3>2. CASE ~(s = at[p] /\ m = n)
      BY <2>2, <2>3, <2>5, <3>2 DEF Handled
    <3>3. QED  BY <3>1, <3>2
  <2>6. QED  BY <2>4, <2>5 DEF StepHandled
<1>4. CASE Sol!ResolveFailure(p)
  <2>1. /\ UNCHANGED <<latest, moved, cursor, rows, deleted, filter, from, top, left>>
        /\ solPc[p] = "resolve"
        /\ left[p] = {} => Sol!NextSignature(p)
        /\ left[p] # {} => solPc' = [solPc EXCEPT ![p] = "store"] /\ UNCHANGED at
    BY <1>4 DEF Sol!ResolveFailure, Sol!ToStep
  <2>2. CASE left[p] = {}
    <3>1. ASSUME NEW s \in 1..MaxSigs, NEW m \in Mints, s = at[p], m \in moved[s], Admits(filter[p], m)
          PROVE  Sol!Accounted(s, m)'
      <4>1. Handled(p, s, m)
        BY <2>1, <2>2, <3>1 DEF Handled
      <4>2. Sol!Accounted(s, m) /\ s <= latest
        BY <4>1, HandledExists DEF SolInv, ScansHandled
      <4>3. QED  BY <3>1, <4>2, AccountedStays
    <3>2. QED  BY <2>1, <2>2, <3>1, NextSignatureKeeps
  <2>3. CASE left[p] # {}
    <3>1. solPc'[p] = "store" /\ UNCHANGED at
      BY <2>1, <2>3 DEF SolInv, SolTypes
    <3>2. ScanOK(p)'
      <4>1. ScanOK(p)
        BY DEF SolInv, ScansHandled
      <4>2. QED  BY <2>1, <3>1, <4>1 DEF ScanOK
    <3>3. ASSUME NEW s \in 1..MaxSigs, NEW m \in Mints, Handled(p, s, m)' PROVE Handled(p, s, m)
      BY <2>1, <3>1, <3>3 DEF Handled
    <3>4. QED  BY <3>2, <3>3 DEF StepHandled
  <2>4. QED  BY <2>2, <2>3
<1>5. QED  BY <1>1, <1>2, <1>3, <1>4

\* A cursor moves to what its scan has handled.
LEMMA SaveCursorKeeps ==
  ASSUME Sol!ConstantsOK, SolInv, Sol!Next, NEW p \in Sol!Scanners, Sol!SaveCursor(p)
  PROVE  CursorsPassed'
<1>1. /\ cursor' = [cursor EXCEPT ![filter[p]] = top[p]] /\ UNCHANGED <<latest, moved>>
      /\ solPc[p] = "save"
  BY DEF Sol!SaveCursor
<1>2. filter[p] \in Sol!Filters /\ top[p] <= latest
  BY <1>1, ScanShapes DEF SolInv, SolTypes
<1>3. ASSUME NEW f \in Sol!Filters \ (Sol!Filters \ {filter[p]}),
             NEW s \in 1..MaxSigs, NEW m \in Mints, Behind(f, s, m)'
      PROVE  Sol!Accounted(s, m)'
  <2>1. f = filter[p] /\ cursor'[f] = top[p]
    BY <1>1, <1>2 DEF SolInv, SolTypes
  <2>2. Handled(p, s, m)
    BY <1>1, <1>3, <2>1 DEF Behind, Handled
  <2>3. s <= latest /\ m \in moved[s] /\ Sol!Accounted(s, m)
    BY <2>2, HandledExists DEF SolInv, ScansHandled
  <2>4. QED  BY <2>3, AccountedStays
<1>4. \A f \in Sol!Filters \ (Sol!Filters \ {filter[p]}) : cursor'[f] <= latest'
  BY <1>1, <1>2 DEF SolInv, SolTypes
<1>5. \A f \in Sol!Filters \ {filter[p]} : cursor'[f] = cursor[f]
  BY <1>1 DEF SolInv, SolTypes
<1>6. latest' \in Nat /\ latest <= latest'
  BY <1>1, ScanShapes
<1>7. Sol!Filters \ {filter[p]} \in SUBSET Sol!Filters
  OBVIOUS
<1>8. QED  BY <1>3, <1>4, <1>5, <1>6, <1>7, CursorsKeep

\* A step of a scan changes nothing of another.
LEMMA ScanStepAlone ==
  ASSUME Sol!ConstantsOK, SolInv, NEW p \in Sol!Scanners, Sol!ScanStep(p)
  PROVE  OthersStay(p)
<1> USE DEF SolInv, SolTypes, OthersStay, Sol!ToStep, Sol!Stop, Sol!NextSignature
<1>1. CASE \E f \in Sol!Filters : Sol!Start(p, f)
  BY <1>1 DEF Sol!Start
<1>2. CASE Sol!FetchPage(p) \/ Sol!FetchLastPage(p) \/ Sol!NothingNew(p)
  BY <1>2 DEF Sol!FetchPage, Sol!FetchLastPage, Sol!NothingNew
<1>3. CASE Sol!FileFailure(p) \/ Sol!LoadTransaction(p)
  BY <1>3 DEF Sol!FileFailure, Sol!LoadTransaction
<1>4. CASE Sol!StoreTransfer(p) \/ Sol!ResolveFailure(p)
  BY <1>4 DEF Sol!StoreTransfer, Sol!ResolveFailure
<1>5. CASE Sol!SaveCursor(p) \/ Sol!ScanFails(p)
  BY <1>5 DEF Sol!SaveCursor, Sol!ScanFails
<1>6. QED  BY <1>1, <1>2, <1>3, <1>4, <1>5 DEF Sol!ScanStep

\* Positions, rows and failures stay within their domains.
LEMMA StepSolTypes ==
  ASSUME Sol!ConstantsOK, SolInv, Sol!Next \/ UNCHANGED solVars
  PROVE  SolTypes' /\ RowTypes'
<1> USE DEF SolTypes, RowTypes, SolInv, Sol!Stop, Sol!ToStep, Sol!Steps, Sol!locals
<1>1. MaxSigs \in Nat /\ All \in Sol!Filters
  BY DEF Sol!ConstantsOK, Sol!Filters
<1>2. CASE Sol!NewSignature
  BY <1>1, <1>2 DEF Sol!NewSignature
<1>3. ASSUME NEW p \in Sol!Scanners, \E f \in Sol!Filters : Sol!Start(p, f)
      PROVE  SolTypes' /\ RowTypes'
  BY <1>1, <1>3 DEF Sol!Start
<1>4. ASSUME NEW p \in Sol!Scanners, Sol!NothingNew(p) \/ Sol!SaveCursor(p) \/ Sol!ScanFails(p)
      PROVE  SolTypes' /\ RowTypes'
  <2>1. /\ UNCHANGED <<latest, moved, rows, failure, deleted>>
        /\ UNCHANGED cursor \/ cursor' = [cursor EXCEPT ![filter[p]] = top[p]]
        /\ solPc' = [solPc EXCEPT ![p] = "idle"] /\ filter' = [filter EXCEPT ![p] = All]
        /\ from' = [from EXCEPT ![p] = 0] /\ top' = [top EXCEPT ![p] = 0]
        /\ at' = [at EXCEPT ![p] = 0] /\ left' = [left EXCEPT ![p] = {}]
    BY <1>4 DEF Sol!NothingNew, Sol!SaveCursor, Sol!ScanFails
  <2>2. cursor' \in [Sol!Filters -> 0..MaxSigs]
    BY <2>1
  <2>3. 0 \in 0..MaxSigs /\ 0 \in 0..(MaxSigs + 1)
    BY <1>1
  <2>4. QED  BY <1>1, <2>1, <2>2, <2>3
<1>5. ASSUME NEW p \in Sol!Scanners, Sol!FetchPage(p) \/ Sol!FetchLastPage(p)
      PROVE  SolTypes' /\ RowTypes'
  <2> DEFINE upper == Sol!NewestFetched(p)
             oldest == Sol!PageTop(p) - Sol!PageSize(p) + 1
  <2>1. upper \in 0..MaxSigs /\ oldest \in 0..(MaxSigs + 1)
    <3>1. /\ top[p] # 0 => from[p] < at[p] /\ at[p] <= top[p]
          /\ solPc[p] # "idle"
      BY <1>5 DEF ScansHandled, ScanOK, Sol!FetchPage, Sol!FetchLastPage
    <3>2. Sol!PageTop(p) \in Nat /\ from[p] <= Sol!PageTop(p) /\ Sol!PageTop(p) <= MaxSigs
      BY <3>1, ScanShapes DEF Sol!PageTop
    <3>3. Sol!PageSize(p) \in Nat /\ Sol!PageSize(p) <= Sol!PageTop(p)
      BY <3>2, ScanShapes DEF Sol!PageSize
    <3>4. upper \in 0..MaxSigs
      BY ScanShapes DEF Sol!NewestFetched
    <3>5. ASSUME NEW a \in Nat, NEW b \in Nat, a <= MaxSigs, b <= a
          PROVE  a - b + 1 \in 0..(MaxSigs + 1)
      BY <1>1, <3>5
    <3>6. QED  BY <3>2, <3>3, <3>4, <3>5
  <2>2. /\ UNCHANGED <<latest, moved, cursor, rows, failure, deleted, filter, from, left>>
        /\ top' = [top EXCEPT ![p] = upper] /\ at' = [at EXCEPT ![p] = oldest]
        /\ solPc' = solPc \/ solPc' = [solPc EXCEPT ![p] = "load"]
    BY <1>5 DEF Sol!FetchPage, Sol!FetchLastPage
  <2> HIDE DEF upper, oldest
  <2>3. QED  BY <2>1, <2>2
<1>6. ASSUME NEW p \in Sol!Scanners, Sol!FileFailure(p) \/ Sol!LoadTransaction(p) \/ Sol!ResolveFailure(p)
      PROVE  SolTypes' /\ RowTypes'
  <2>1. at[p] \in 1..MaxSigs /\ at[p] <= top[p]
    <3>1. solPc[p] \in {"load", "store", "resolve"}
      BY <1>6 DEF Sol!FileFailure, Sol!LoadTransaction, Sol!ResolveFailure
    <3>2. 0 < at[p] /\ at[p] <= top[p] /\ top[p] <= latest
      BY <3>1 DEF ScansHandled, ScanOK
    <3>3. QED  BY <3>2, ScanShapes
  <2>2. /\ \/ UNCHANGED at
           \/ at' = [at EXCEPT ![p] = at[p] + 1]
           \/ at' = [at EXCEPT ![p] = at[p]]
        /\ \E step \in Sol!Steps : solPc' = [solPc EXCEPT ![p] = step]
    BY <1>6 DEF Sol!FileFailure, Sol!LoadTransaction, Sol!ResolveFailure, Sol!NextSignature
  <2>3. UNCHANGED <<latest, moved, cursor, rows, deleted, filter, from, top>>
    BY <1>6 DEF Sol!FileFailure, Sol!LoadTransaction, Sol!ResolveFailure
  <2>4. at' \in [Sol!Scanners -> 0..(MaxSigs + 1)] /\ solPc' \in [Sol!Scanners -> Sol!Steps]
    BY <1>1, <2>1, <2>2
  <2>5. left' \in [Sol!Scanners -> SUBSET Mints]
    <3>1. moved[at[p]] \cap Sol!Wanted(filter[p]) \in SUBSET Mints
      BY <2>1
    <3>2. QED  BY <1>6, <3>1 DEF Sol!FileFailure, Sol!LoadTransaction, Sol!ResolveFailure
  <2>6. failure' \in [1..MaxSigs -> {"none", "open", "resolved"}]
    BY <1>6, <2>1 DEF Sol!FileFailure, Sol!LoadTransaction, Sol!ResolveFailure
  <2>7. QED  BY <2>3, <2>4, <2>5, <2>6
<1>7. ASSUME NEW p \in Sol!Scanners, Sol!StoreTransfer(p)
      PROVE  SolTypes' /\ RowTypes'
  <2>1. at[p] \in 1..MaxSigs
    <3>1. solPc[p] \in {"load", "store", "resolve"}
      BY <1>7 DEF Sol!StoreTransfer
    <3>2. 0 < at[p] /\ at[p] <= top[p] /\ top[p] <= latest
      BY <3>1 DEF ScansHandled, ScanOK
    <3>3. QED  BY <3>2, ScanShapes
  <2>2. QED  BY <1>7, <2>1 DEF Sol!StoreTransfer
<1>8. ASSUME NEW m \in ScriptMints, Sol!DeleteTransfers(m)
      PROVE  SolTypes' /\ RowTypes'
  BY <1>8 DEF Sol!DeleteTransfers
<1>9. CASE UNCHANGED solVars
  BY <1>9 DEF solVars
<1>10. QED
  BY <1>2, <1>3, <1>4, <1>5, <1>6, <1>7, <1>8, <1>9 DEF Sol!Next, Sol!ScanStep

\* Every step keeps the invariant.
LEMMA StepSolInv ==
  ASSUME Sol!ConstantsOK, SolInv, Sol!Next \/ UNCHANGED solVars
  PROVE  SolInv'
<1>1. SolTypes' /\ RowTypes'
  BY StepSolTypes
<1>2. ASSUME NEW p \in Sol!Scanners, Sol!ScanStep(p), Sol!Next
      PROVE  CursorsPassed' /\ ScansHandled'
  <2>1. StepHandled(p)
    BY <1>2, EndsOfScan, PagesReachCursor, SignatureKeeps DEF Sol!ScanStep
  <2>2. ScansHandled'
    BY <1>2, <2>1, ScansKeep, ScanStepAlone DEF StepHandled
  <2>3. CASE Sol!SaveCursor(p)
    BY <1>2, <2>2, <2>3, SaveCursorKeeps
  <2>4. CASE ~Sol!SaveCursor(p)
    <3>1. UNCHANGED <<latest, cursor>>
      BY <1>2, <2>4 DEF Sol!ScanStep, Sol!Start, Sol!FetchPage, Sol!FetchLastPage, Sol!NothingNew,
         Sol!FileFailure, Sol!LoadTransaction, Sol!StoreTransfer, Sol!ResolveFailure, Sol!ScanFails
    <3>2. latest' \in Nat /\ latest <= latest'
      BY <3>1 DEF SolInv, SolTypes, Sol!ConstantsOK
    <3>3. CursorsPassed'
      BY <1>2, <3>1, <3>2, CursorsKeep
    <3>4. QED  BY <2>2, <3>3
  <2>5. QED  BY <2>3, <2>4
<1>3. CASE Sol!NewSignature \/ (\E m \in ScriptMints : Sol!DeleteTransfers(m)) \/ UNCHANGED solVars
  <2>1. Sol!Next \/ UNCHANGED solVars
    BY <1>3 DEF Sol!Next
  <2>2. /\ UNCHANGED <<cursor, solPc, filter, from, top, at, left>>
        /\ latest' \in Nat /\ latest <= latest'
        /\ deleted \subseteq deleted' /\ \A r \in rows : r \in rows' \/ r[2] \in deleted'
    BY <1>3 DEF Sol!NewSignature, Sol!DeleteTransfers, Sol!locals, solVars, SolInv, SolTypes,
       Sol!ConstantsOK
  <2>3. CursorsPassed'
    BY <2>1, <2>2, CursorsKeep
  <2>4. ASSUME NEW p \in Sol!Scanners PROVE ScanOK(p)'
    <3>1. ScanOK(p)
      BY DEF SolInv, ScansHandled
    <3>2. solPc[p] \in {"load", "store", "resolve"} => at[p] \in 1..MaxSigs /\ at[p] <= latest
      BY <3>1, ScanShapes DEF ScanOK
    <3>3. solPc[p] \in {"load", "store", "resolve"} => moved'[at[p]] = moved[at[p]] /\ moved[at[p]] \subseteq Mints
      BY <2>1, <3>2, SeenStays DEF SolInv, SolTypes
    <3>4. \A m \in Mints : <<at[p], m>> \in rows \/ m \in deleted => <<at[p], m>> \in rows' \/ m \in deleted'
      BY <2>2
    <3>5. from[p] <= latest /\ top[p] <= latest => from[p] <= latest' /\ top[p] <= latest'
      BY <2>2, ScanShapes
    <3>6. QED  BY <2>2, <3>1, <3>3, <3>4, <3>5 DEF ScanOK
  <2>5. ASSUME NEW p \in Sol!Scanners, NEW s \in 1..MaxSigs, NEW m \in Mints, Handled(p, s, m)'
        PROVE  Sol!Accounted(s, m)'
    <3>1. s <= latest
      BY <2>2, <2>5, ScanShapes DEF Handled, SolInv, ScansHandled, ScanOK
    <3>2. moved'[s] = moved[s]
      BY <2>1, <3>1, SeenStays
    <3>3. Handled(p, s, m)
      BY <2>2, <2>5, <3>2 DEF Handled
    <3>4. m \in moved[s] /\ Sol!Accounted(s, m)
      BY <3>3, HandledExists DEF SolInv, ScansHandled
    <3>5. QED  BY <2>1, <3>1, <3>4, AccountedStays
  <2>6. ScansHandled'
    BY <2>4, <2>5 DEF ScansHandled
  <2>7. QED  BY <1>1, <2>3, <2>6 DEF SolInv
<1>4. QED  BY <1>1, <1>2, <1>3 DEF SolInv, Sol!Next

\* Every transfer behind a cursor is stored, was deleted by the script, or is
\* filed as a failure, whatever scans overlapped or broke off.
THEOREM NothingLostSilently == Spec => []NoSilentLoss
<1> DEFINE Inv == component = "SolanaIndexer" => SolInv
<1>1. Init => Inv
  BY InitSolInv, InitialComponent, ServicesConstants
<1>2. Inv /\ [Next]_vars => Inv'
  BY StepSolInv, ComponentStep, ServicesConstants
<1>3. Inv => NoSilentLoss
  <2> SUFFICES ASSUME SolInv PROVE Sol!NoSilentLoss
    BY DEF NoSilentLoss
  <2>1. ASSUME NEW f \in Sol!Filters, NEW s \in Sol!Signatures, s <= cursor[f],
               NEW m \in moved[s] \cap Sol!Wanted(f)
        PROVE  Sol!Accounted(s, m)
    <3>1. s \in 1..MaxSigs /\ m \in Mints
      BY <2>1 DEF Sol!Signatures, SolInv, SolTypes
    <3>2. Behind(f, s, m)
      BY <2>1 DEF Behind, Admits, Sol!Wanted
    <3>3. QED  BY <3>1, <3>2 DEF SolInv, CursorsPassed
  <2>2. QED  BY <2>1 DEF Sol!NoSilentLoss
<1>4. QED  BY <1>1, <1>2, <1>3, PTL DEF Spec

----------------------------------------------------------------------------
(***************************************************************************)
(* One-time codes of the console.                                          *)
(***************************************************************************)
(***************************************************************************)
(* The inductive invariant.  A row that a request has locked can still be  *)
(* consumed or invalidated; a request locks what it will invalidate.  Of   *)
(* the codes that precede a request, those it has not seen or not locked   *)
(* are settled, and so are all of them once its own code is committed.     *)
(***************************************************************************)
Settled(c) == codeState[c] \in {"consumed", "invalidated"}

LocksExclusive ==
  \A r, q \in Console!Requests : \A c \in Issues : c \in holds[r] /\ c \in holds[q] => r = q

HoldsOpen ==
  \A r \in Console!Requests :
    /\ \A c \in holds[r] : codeState[c] \in {"live", "expired"}
    /\ holds[r] # {} => codePc[r] \in {"insert", "consume"}

CheckOK ==
  \A k \in Checks : codePc[k] # "new" =>
    /\ codePc[k] \in {"consume", "over"} /\ presents[k] \in Issues
    /\ codePc[k] = "consume" => presents[k] \in holds[k] /\ codeAttempts[presents[k]] < MaxCodeAttempts

IssueOK ==
  \A i \in Issues :
    /\ codePc[i] # "consume" /\ (codeState[i] # "none" => codePc[i] = "over")
    /\ \A c \in codeBefore[i] :
         /\ codeState[c] # "none"
         /\ codePc[i] = "update" => Settled(c) \/ c \in codeSeen[i]
         /\ codePc[i] = "insert" => Settled(c) \/ c \in holds[i]
         /\ codeState[i] # "none" => Settled(c)

CodeInv ==
  /\ Console!TypeOK /\ LocksExclusive /\ HoldsOpen /\ CheckOK /\ IssueOK
  /\ Console!ConsumedOnce

\* No code has been asked for.
LEMMA InitCodeInv ==
  ASSUME Console!ConstantsOK, Console!Init
  PROVE  CodeInv
<1> USE DEF Console!ConstantsOK, Console!Init, Console!Requests
<1>1. Console!TypeOK
  BY DEF Console!TypeOK, Console!Purposes, Console!None
<1>2. LocksExclusive /\ HoldsOpen /\ CheckOK /\ IssueOK
  BY DEF LocksExclusive, HoldsOpen, CheckOK, IssueOK
<1>3. Console!ConsumedOnce
  BY DEF Console!ConsumedOnce
<1>4. QED  BY <1>1, <1>2, <1>3 DEF CodeInv

\* A request asks for a code.
LEMMA RequestKeeps ==
  ASSUME Console!ConstantsOK, CodeInv, NEW i \in Issues, Console!RequestCode(i)
  PROVE  CodeInv'
<1> USE DEF CodeInv
<1>1. PICK p \in Console!Purposes : purpose' = [purpose EXCEPT ![i] = p]
  BY DEF Console!RequestCode
<1>2. /\ user' \in {user, "PENDING_VERIFICATION"} /\ codePc[i] = "new"
      /\ codePc' = [codePc EXCEPT ![i] = "begin"]
      /\ UNCHANGED <<codeState, codeAttempts, codeCooled, sessions, codeSeen, holds, presents, codeBefore, effects>>
  BY DEF Console!RequestCode, Console!ToStep
<1>3. Console!TypeOK'
  BY <1>1, <1>2 DEF Console!TypeOK
<1>4. codePc'[i] = "begin" /\ \A r \in Console!Requests \ {i} : codePc'[r] = codePc[r]
  BY <1>2 DEF Console!TypeOK, Console!Requests
<1>5. codeState[i] = "none"
  BY <1>2 DEF IssueOK
<1>6. LocksExclusive' /\ HoldsOpen'
  BY <1>2, <1>4 DEF LocksExclusive, HoldsOpen
<1>7. CheckOK' /\ IssueOK'
  BY <1>2, <1>4, <1>5 DEF CheckOK, IssueOK, Settled, Console!ConstantsOK, Console!Requests
<1>8. Console!ConsumedOnce'
  BY <1>1, <1>2, <1>5 DEF Console!ConsumedOnce, Console!TypeOK
<1>9. QED  BY <1>3, <1>6, <1>7, <1>8

\* The snapshot of the UPDATE has every code that is not settled.
LEMMA BeginIssueKeeps ==
  ASSUME Console!ConstantsOK, CodeInv, NEW i \in Issues, Console!BeginIssue(i)
  PROVE  CodeInv'
<1> USE DEF CodeInv
<1> DEFINE usable == Console!OfPurpose(i, {"live", "expired"})
           past == Console!OfPurpose(i, {"live", "expired", "consumed", "invalidated"})
<1>1. /\ codePc[i] = "begin" /\ codePc' = [codePc EXCEPT ![i] = "update"]
      /\ codeSeen' = [codeSeen EXCEPT ![i] = usable] /\ codeBefore' = [codeBefore EXCEPT ![i] = past]
      /\ UNCHANGED <<user, codeState, purpose, codeAttempts, codeCooled, sessions, holds, presents, effects>>
  BY DEF Console!BeginIssue, Console!ToStep
<1>2. /\ usable \subseteq Issues /\ past \subseteq Issues
      /\ \A c \in past : codeState[c] # "none" /\ (Settled(c) \/ c \in usable)
  BY DEF Console!OfPurpose, Settled
<1> HIDE DEF usable, past
<1>3. Console!TypeOK'
  BY <1>1, <1>2 DEF Console!TypeOK
<1>4. codePc'[i] = "update" /\ \A r \in Console!Requests \ {i} : codePc'[r] = codePc[r]
  BY <1>1 DEF Console!TypeOK, Console!Requests
<1>5. LocksExclusive' /\ HoldsOpen' /\ Console!ConsumedOnce'
  BY <1>1, <1>4 DEF LocksExclusive, HoldsOpen, Console!ConsumedOnce
<1>6. CheckOK'
  BY <1>1, <1>4 DEF CheckOK, Console!ConstantsOK, Console!Requests
<1>7. ASSUME NEW j \in Issues, j # i
      PROVE  codeSeen'[j] = codeSeen[j] /\ codeBefore'[j] = codeBefore[j] /\ codePc'[j] = codePc[j]
  BY <1>1, <1>7 DEF Console!TypeOK, Console!Requests
<1>8. codeSeen'[i] = usable /\ codeBefore'[i] = past /\ codeState[i] = "none"
  BY <1>1 DEF Console!TypeOK, IssueOK
<1>9. IssueOK'
  BY <1>1, <1>2, <1>4, <1>7, <1>8 DEF IssueOK, Settled
<1>10. QED  BY <1>3, <1>5, <1>6, <1>9

\* An UPDATE that has its row locks holds what is not settled.
LEMMA InvalidateKeeps ==
  ASSUME Console!ConstantsOK, CodeInv, NEW i \in Issues, Console!InvalidateOlder(i)
  PROVE  CodeInv'
<1> USE DEF CodeInv
<1> DEFINE usable == {c \in codeSeen[i] : codeState[c] \in {"live", "expired"}}
<1>1. /\ codePc[i] = "update" /\ codePc' = [codePc EXCEPT ![i] = "insert"]
      /\ holds' = [holds EXCEPT ![i] = usable]
      /\ \A c \in codeSeen[i], q \in Console!Requests \ {i} : c \notin holds[q]
      /\ UNCHANGED <<user, codeState, purpose, codeAttempts, codeCooled, sessions, codeSeen, presents, codeBefore, effects>>
  BY DEF Console!InvalidateOlder, Console!ToStep, Console!Unlocked
<1>2. usable \subseteq Issues /\ usable \subseteq codeSeen[i]
      /\ \A c \in usable : codeState[c] \in {"live", "expired"}
  BY DEF Console!TypeOK
<1>3. \A c \in codeSeen[i] : codeState[c] # "none" => Settled(c) \/ c \in usable
  BY DEF Settled, Console!TypeOK
<1> HIDE DEF usable
<1>4. Console!TypeOK'
  BY <1>1, <1>2 DEF Console!TypeOK, Console!Requests
<1>5. /\ codePc'[i] = "insert" /\ holds'[i] = usable
      /\ \A r \in Console!Requests \ {i} : codePc'[r] = codePc[r] /\ holds'[r] = holds[r]
  BY <1>1 DEF Console!TypeOK, Console!Requests
<1>6. LocksExclusive'
  BY <1>1, <1>2, <1>5 DEF LocksExclusive
<1>7. HoldsOpen'
  BY <1>1, <1>2, <1>5 DEF HoldsOpen
<1>8. CheckOK' /\ Console!ConsumedOnce'
  BY <1>1, <1>5 DEF CheckOK, Console!ConsumedOnce, Console!ConstantsOK, Console!Requests
<1>9. IssueOK'
  BY <1>1, <1>3, <1>5 DEF IssueOK, Settled, Console!Requests
<1>10. QED  BY <1>4, <1>6, <1>7, <1>8, <1>9

\* The commit settles the codes that were held, and frees them.
LEMMA CommitIssueKeeps ==
  ASSUME Console!ConstantsOK, CodeInv, NEW i \in Issues, Console!CommitIssue(i)
  PROVE  CodeInv'
<1> USE DEF CodeInv
<1>1. /\ codePc[i] = "insert" /\ codePc' = [codePc EXCEPT ![i] = "over"]
      /\ holds' = [holds EXCEPT ![i] = {}]
      /\ codeState' = [c \in Issues |->
           IF c = i THEN "live" ELSE IF c \in holds[i] THEN "invalidated" ELSE codeState[c]]
      /\ UNCHANGED <<user, purpose, codeAttempts, codeCooled, sessions, codeSeen, presents, codeBefore, effects>>
  BY DEF Console!CommitIssue, Console!ToStep
<1>2. codeState[i] = "none" /\ \A c \in holds[i] : codeState[c] \in {"live", "expired"}
  BY <1>1 DEF IssueOK, HoldsOpen, Console!Requests
<1>3. Console!TypeOK'
  BY <1>1 DEF Console!TypeOK, Console!Requests
<1>4. /\ codePc'[i] = "over" /\ holds'[i] = {}
      /\ \A r \in Console!Requests \ {i} : codePc'[r] = codePc[r] /\ holds'[r] = holds[r]
  BY <1>1 DEF Console!TypeOK, Console!Requests
<1>5. /\ codeState'[i] = "live"
      /\ \A c \in Issues \ {i} :
           /\ c \in holds[i] => codeState'[c] = "invalidated"
           /\ c \notin holds[i] => codeState'[c] = codeState[c]
  BY <1>1
<1>6. LocksExclusive'
  BY <1>4 DEF LocksExclusive
<1>7. HoldsOpen'
  <2> SUFFICES ASSUME NEW r \in Console!Requests
               PROVE  /\ \A c \in holds'[r] : codeState'[c] \in {"live", "expired"}
                      /\ holds'[r] # {} => codePc'[r] \in {"insert", "consume"}
    BY DEF HoldsOpen
  <2>1. CASE r = i
    BY <1>4, <2>1
  <2>2. CASE r # i
    <3>1. holds'[r] = holds[r] /\ codePc'[r] = codePc[r] /\ holds[r] \subseteq Issues
      BY <1>4, <2>2 DEF Console!TypeOK
    <3>2. \A c \in holds[r] : codeState[c] \in {"live", "expired"} /\ c # i /\ c \notin holds[i]
      BY <1>2, <2>2, <3>1 DEF HoldsOpen, LocksExclusive, Console!Requests
    <3>3. QED  BY <1>5, <3>1, <3>2 DEF HoldsOpen
  <2>3. QED  BY <2>1, <2>2
<1>8. CheckOK'
  BY <1>1, <1>4 DEF CheckOK, Console!ConstantsOK, Console!Requests
<1>9. Console!ConsumedOnce'
  BY <1>1, <1>2, <1>5 DEF Console!ConsumedOnce
<1>10. IssueOK'
  <2> SUFFICES ASSUME NEW j \in Issues
               PROVE  /\ codePc'[j] # "consume" /\ (codeState'[j] # "none" => codePc'[j] = "over")
                      /\ \A c \in codeBefore[j] :
                           /\ codeState'[c] # "none"
                           /\ codePc'[j] = "update" => Settled(c)' \/ c \in codeSeen[j]
                           /\ codePc'[j] = "insert" => Settled(c)' \/ c \in holds'[j]
                           /\ codeState'[j] # "none" => Settled(c)'
    BY <1>1 DEF IssueOK
  <2>1. codeBefore[j] \subseteq Issues
    BY DEF Console!TypeOK
  <2>2. \A c \in codeBefore[j] :
          codeState[c] # "none" /\ codeState'[c] # "none" /\ c # i /\ (Settled(c) => Settled(c)')
    BY <1>2, <1>5, <2>1 DEF IssueOK, Settled
  <2>3. CASE j = i
    <3>1. \A c \in codeBefore[i] : Settled(c)'
      <4> SUFFICES ASSUME NEW c \in codeBefore[i] PROVE Settled(c)'
        OBVIOUS
      <4>1. c \in Issues \ {i} /\ (Settled(c) => Settled(c)')
        BY <2>1, <2>2, <2>3
      <4>2. Settled(c) \/ c \in holds[i]
        BY <1>1 DEF IssueOK
      <4>3. c \in holds[i] => Settled(c)'
        BY <1>5, <4>1 DEF Settled
      <4>4. QED  BY <4>1, <4>2, <4>3
    <3>2. QED  BY <1>4, <2>2, <2>3, <3>1
  <2>4. CASE j # i
    <3>1. codePc'[j] = codePc[j] /\ holds'[j] = holds[j] /\ (codeState'[j] # "none" => codeState[j] # "none")
      BY <1>2, <1>4, <1>5, <2>4 DEF Console!Requests
    <3>2. QED  BY <2>2, <3>1 DEF IssueOK
  <2>5. QED  BY <2>3, <2>4
<1>11. QED  BY <1>3, <1>6, <1>7, <1>8, <1>9, <1>10

\* The cooldown passes, a code expires, a session is revoked.
LEMMA ClockKeeps ==
  ASSUME Console!ConstantsOK, CodeInv, NEW i \in Issues,
         Console!Cool(i) \/ Console!Expire(i) \/ Console!LogOut(i)
  PROVE  CodeInv'
<1> USE DEF CodeInv
<1>1. /\ UNCHANGED <<user, purpose, codeAttempts, codePc, codeSeen, holds, presents, codeBefore, effects>>
      /\ codeCooled' \in [Issues -> BOOLEAN] /\ sessions' \subseteq sessions
      /\ UNCHANGED codeState \/ (codeState[i] = "live" /\ codeState' = [codeState EXCEPT ![i] = "expired"])
  BY DEF Console!Cool, Console!Expire, Console!LogOut, Console!TypeOK
<1>2. Console!TypeOK'
  BY <1>1 DEF Console!TypeOK
<1>3. \A c \in Issues : \/ codeState'[c] = codeState[c]
                        \/ codeState[c] = "live" /\ codeState'[c] = "expired"
  BY <1>1 DEF Console!TypeOK
<1>4. LocksExclusive' /\ CheckOK' /\ Console!ConsumedOnce'
  BY <1>1, <1>3 DEF LocksExclusive, CheckOK, Console!ConsumedOnce
<1>5. HoldsOpen'
  BY <1>1, <1>3 DEF HoldsOpen, Console!TypeOK
<1>6. IssueOK'
  BY <1>1, <1>3 DEF IssueOK, Settled, Console!TypeOK
<1>7. QED  BY <1>2, <1>4, <1>5, <1>6

\* A check locks the code it will consume.
LEMMA ReadChallengeKeeps ==
  ASSUME Console!ConstantsOK, CodeInv, NEW k \in Checks, NEW c \in Issues, Console!ReadChallenge(k, c)
  PROVE  CodeInv'
<1> USE DEF CodeInv
<1>1. /\ codePc[k] = "new" /\ codePc' = [codePc EXCEPT ![k] = "consume"]
      /\ holds' = [holds EXCEPT ![k] = {c}] /\ presents' = [presents EXCEPT ![k] = c]
      /\ codeState[c] = "live" /\ codeAttempts[c] < MaxCodeAttempts
      /\ \A q \in Console!Requests \ {k} : c \notin holds[q]
      /\ UNCHANGED <<user, codeState, purpose, codeAttempts, codeCooled, sessions, codeSeen, codeBefore, effects>>
  BY DEF Console!ReadChallenge, Console!ToStep, Console!Unlocked
<1>2. Console!TypeOK'
  BY <1>1 DEF Console!TypeOK, Console!Requests
<1>3. /\ codePc'[k] = "consume" /\ holds'[k] = {c} /\ presents'[k] = c
      /\ \A r \in Console!Requests \ {k} : codePc'[r] = codePc[r] /\ holds'[r] = holds[r]
      /\ \A r \in Checks \ {k} : presents'[r] = presents[r]
  BY <1>1 DEF Console!TypeOK, Console!Requests
<1>4. LocksExclusive'
  BY <1>1, <1>3 DEF LocksExclusive
<1>5. HoldsOpen' /\ Console!ConsumedOnce'
  BY <1>1, <1>3 DEF HoldsOpen, Console!ConsumedOnce
<1>6. CheckOK'
  BY <1>1, <1>3 DEF CheckOK, Console!Requests
<1>7. IssueOK'
  BY <1>1, <1>3 DEF IssueOK, Settled, Console!Requests, Console!ConstantsOK
<1>8. QED  BY <1>2, <1>4, <1>5, <1>6, <1>7

\* A transaction that ends without writing frees its rows.
LEMMA RollBackKeeps ==
  ASSUME Console!ConstantsOK, CodeInv, NEW r \in Console!Requests, Console!RollBack(r)
  PROVE  CodeInv'
<1> USE DEF CodeInv
<1>1. /\ codePc' = [codePc EXCEPT ![r] = "over"] /\ holds' = [holds EXCEPT ![r] = {}] /\ codePc[r] # "new"
      /\ UNCHANGED <<user, codeState, purpose, codeAttempts, codeCooled, sessions, codeSeen, presents, codeBefore, effects>>
  BY DEF Console!RollBack, Console!ToStep
<1>2. Console!TypeOK'
  BY <1>1 DEF Console!TypeOK
<1>3. /\ codePc'[r] = "over" /\ holds'[r] = {}
      /\ \A q \in Console!Requests \ {r} : codePc'[q] = codePc[q] /\ holds'[q] = holds[q]
  BY <1>1 DEF Console!TypeOK
<1>4. LocksExclusive' /\ HoldsOpen' /\ Console!ConsumedOnce'
  BY <1>1, <1>3 DEF LocksExclusive, HoldsOpen, Console!ConsumedOnce
<1>5. CheckOK'
  BY <1>1, <1>3 DEF CheckOK, Console!Requests
<1>6. IssueOK'
  BY <1>1, <1>3 DEF IssueOK, Settled, Console!Requests
<1>7. QED  BY <1>2, <1>4, <1>5, <1>6

\* A code is consumed, or an attempt counted, by the check that holds it.
LEMMA ConsumeKeeps ==
  ASSUME Console!ConstantsOK, CodeInv, NEW k \in Checks, Console!WrongCode(k) \/ Console!RightCode(k)
  PROVE  CodeInv'
<1> USE DEF CodeInv
<1> DEFINE c == presents[k]
<1>1. codePc[k] = "consume" /\ codePc' = [codePc EXCEPT ![k] = "over"] /\ holds' = [holds EXCEPT ![k] = {}]
      /\ UNCHANGED <<purpose, codeCooled, codeSeen, presents, codeBefore>>
  BY DEF Console!WrongCode, Console!RightCode, Console!EndCheck, Console!ToStep
<1>2. c \in Issues /\ c \in holds[k] /\ codeAttempts[c] < MaxCodeAttempts
      /\ codeState[c] \in {"live", "expired"}
      /\ \A q \in Console!Requests \ {k} : c \notin holds[q]
  BY <1>1 DEF CheckOK, HoldsOpen, LocksExclusive, Console!Requests
<1>3. \/ /\ UNCHANGED <<user, codeState, sessions, effects>>
         /\ codeAttempts' = [codeAttempts EXCEPT ![c] = codeAttempts[c] + 1]
      \/ /\ UNCHANGED codeAttempts /\ user' \in {user, "ACTIVE"}
         /\ codeState' = [codeState EXCEPT ![c] = "consumed"]
         /\ effects' = [effects EXCEPT ![c] = effects[c] + 1]
         /\ sessions' \subseteq sessions \cup {c} /\ (c \in sessions' => c \in sessions \/ purpose[c] = "SIGN_IN")
  BY DEF Console!WrongCode, Console!RightCode
<1> HIDE DEF c
<1>4. /\ codePc'[k] = "over" /\ holds'[k] = {}
      /\ \A q \in Console!Requests \ {k} : codePc'[q] = codePc[q] /\ holds'[q] = holds[q]
  BY <1>1 DEF Console!TypeOK, Console!Requests
<1>5. \A d \in Issues : codeState'[d] = codeState[d] \/ (d = c /\ codeState'[d] = "consumed")
  BY <1>2, <1>3 DEF Console!TypeOK
<1>6. \A d \in Issues : codeAttempts'[d] \in 0..MaxCodeAttempts
  BY <1>2, <1>3 DEF Console!TypeOK, Console!ConstantsOK
<1>7. Console!TypeOK'
  <2>1. codeAttempts' \in [Issues -> 0..MaxCodeAttempts]
    BY <1>3, <1>6 DEF Console!TypeOK
  <2>2. /\ codeState' \in [Issues -> {"none", "live", "consumed", "invalidated", "expired"}]
        /\ effects' \in [Issues -> Nat] /\ sessions' \subseteq Issues
        /\ user' \in {"absent", "PENDING_VERIFICATION", "ACTIVE"}
    BY <1>2, <1>3 DEF Console!TypeOK
  <2>3. /\ codePc' \in [Console!Requests -> {"new", "begin", "update", "insert", "consume", "over"}]
        /\ holds' \in [Console!Requests -> SUBSET Issues]
    BY <1>1 DEF Console!TypeOK
  <2>4. QED  BY <1>1, <2>1, <2>2, <2>3 DEF Console!TypeOK
<1>8. LocksExclusive'
  BY <1>4 DEF LocksExclusive
<1>9. HoldsOpen'
  BY <1>2, <1>4, <1>5 DEF HoldsOpen, Console!TypeOK
<1>10. CheckOK'
  <2> SUFFICES ASSUME NEW j \in Checks, codePc'[j] # "new"
               PROVE  /\ codePc'[j] \in {"consume", "over"} /\ presents[j] \in Issues
                      /\ codePc'[j] = "consume" =>
                           presents[j] \in holds'[j] /\ codeAttempts'[presents[j]] < MaxCodeAttempts
    BY <1>1 DEF CheckOK
  <2>1. CASE j = k
    BY <1>2, <1>4, <2>1 DEF c
  <2>2. CASE j # k
    <3>1. codePc'[j] = codePc[j] /\ holds'[j] = holds[j]
      BY <1>4, <2>2 DEF Console!Requests
    <3>2. codePc[j] = "consume" => presents[j] # c /\ presents[j] \in Issues
      BY <1>2, <2>2 DEF CheckOK, Console!Requests
    <3>3. codePc[j] = "consume" => codeAttempts'[presents[j]] = codeAttempts[presents[j]]
      BY <1>2, <1>3, <3>2 DEF Console!TypeOK
    <3>4. QED  BY <3>1, <3>3 DEF CheckOK
  <2>3. QED  BY <2>1, <2>2
<1>11. IssueOK'
  BY <1>1, <1>2, <1>4, <1>5 DEF IssueOK, Settled, Console!TypeOK, Console!Requests, Console!ConstantsOK
<1>12. Console!ConsumedOnce'
  <2> SUFFICES ASSUME NEW d \in Issues
               PROVE  /\ effects'[d] = IF codeState'[d] = "consumed" THEN 1 ELSE 0
                      /\ codeAttempts'[d] <= MaxCodeAttempts
                      /\ d \in sessions' => codeState'[d] = "consumed" /\ purpose[d] = "SIGN_IN"
    BY <1>1 DEF Console!ConsumedOnce
  <2>1. codeAttempts'[d] <= MaxCodeAttempts
    BY <1>6 DEF Console!ConstantsOK
  <2>2. CASE d = c
    BY <1>2, <1>3, <2>1, <2>2 DEF Console!ConsumedOnce, Console!TypeOK
  <2>3. CASE d # c
    BY <1>2, <1>3, <2>1, <2>3 DEF Console!ConsumedOnce, Console!TypeOK
  <2>4. QED  BY <2>2, <2>3
<1>13. QED  BY <1>7, <1>8, <1>9, <1>10, <1>11, <1>12

\* Every step keeps the invariant.
LEMMA StepCodeInv ==
  ASSUME Console!ConstantsOK, CodeInv, Console!Next \/ UNCHANGED codeVars
  PROVE  CodeInv'
<1>1. CASE Console!Next
  BY <1>1, RequestKeeps, BeginIssueKeeps, InvalidateKeeps, CommitIssueKeeps, ClockKeeps,
     ReadChallengeKeeps, ConsumeKeeps, RollBackKeeps DEF Console!Next
<1>2. CASE UNCHANGED codeVars
  BY <1>2 DEF codeVars, CodeInv, Console!TypeOK, LocksExclusive, HoldsOpen, CheckOK, IssueOK, Settled,
     Console!ConsumedOnce
<1>3. QED  BY <1>1, <1>2

\* Two codes of one purpose are live together only if neither precedes the
\* request of the other, and a code takes effect once at most.
THEOREM CodesTakeEffectOnce == Spec => []CodesSound
<1> DEFINE Inv == component = "Otp" => CodeInv
<1>1. Init => Inv
  BY InitCodeInv, InitialComponent, ServicesConstants
<1>2. Inv /\ [Next]_vars => Inv'
  BY StepCodeInv, ComponentStep, ServicesConstants
<1>3. Inv => CodesSound
  <2> SUFFICES ASSUME CodeInv PROVE Console!OneLiveCode /\ Console!ConsumedOnce
    BY DEF CodesSound, Console!CodesSound
  <2>1. \A i \in Issues : codeState[i] = "live" => \A c \in codeBefore[i] : codeState[c] # "live"
    BY DEF CodeInv, IssueOK, Settled
  <2>2. QED  BY <2>1 DEF CodeInv, Console!OneLiveCode
<1>4. QED  BY <1>1, <1>2, <1>3, PTL DEF Spec

----------------------------------------------------------------------------
(***************************************************************************)
(* Welcome messages.                                                       *)
(***************************************************************************)
\* Processes that will find out that they have lost the lease of a row whose
\* message they have sent, and the one that will mark it.
LateBy(e) == {w \in Workers : mailStep[w] = "mark" /\ job[w] = e /\ lease[e] # w}

WillMark(e) == \E w \in Workers : mailStep[w] = "mark" /\ job[w] = e /\ lease[e] = w

\* The message of the current subscription may still be sent.
Owing(e) == mailStatus[e] \in {"pending", "sending"} /\ ~WillMark(e)

(***************************************************************************)
(* The inductive invariant: the messages sent, and the one that is owed,   *)
(* are covered by subscriptions, by what was not recorded, and by who is   *)
(* late.                                                                   *)
(***************************************************************************)
Balance(e) ==
  mails[e] + (IF Owing(e) THEN 1 ELSE 0) <= joined[e] + unrecorded[e] + Cardinality(LateBy(e))

QueueOK(e) ==
  /\ lease[e] # News!Nobody => mailStatus[e] = "sending"
  /\ mailStatus[e] = "pending" => mailAttempts[e] < GiveUpAfter
  /\ mailAttempts[e] <= GiveUpAfter + mailExpired[e]
  /\ mailStatus[e] = "sent" => mails[e] > 0

WorkerOK(w) ==
  /\ mailStep[w] # "idle" /\ lease[job[w]] = w => mailTries[w] = mailAttempts[job[w]]
  /\ mailStep[w] = "mark" => mails[job[w]] > 0

MailInv ==
  /\ News!TypeOK
  /\ \A e \in Emails : QueueOK(e)
  /\ \A w \in Workers : WorkerOK(w)
  /\ \A e \in Emails : Balance(e)

\* How many are late when one more or one fewer may be.
LEMMA LateCounts ==
  ASSUME News!ConstantsOK, NEW L \in SUBSET Workers, NEW M \in SUBSET Workers
  PROVE  /\ Cardinality(L) \in Nat /\ Cardinality(M) \in Nat
         /\ L \subseteq M => Cardinality(L) <= Cardinality(M)
         /\ \A w \in Workers : L \subseteq M \cup {w} => Cardinality(L) <= Cardinality(M) + 1
         /\ \A w \in M \ L : L \subseteq M => Cardinality(L) + 1 <= Cardinality(M)
<1>1. IsFiniteSet(Workers)
  BY DEF News!ConstantsOK, News!IsFiniteSet, IsFiniteSet
<1>2. IsFiniteSet(L) /\ IsFiniteSet(M)
  BY <1>1, FS_Subset
<1>3. Cardinality(L) \in Nat /\ Cardinality(M) \in Nat
  BY <1>2, FS_CardinalityType
<1>4. L \subseteq M => Cardinality(L) <= Cardinality(M)
  BY <1>2, FS_Subset
<1>5. ASSUME NEW w \in Workers, L \subseteq M \cup {w} PROVE Cardinality(L) <= Cardinality(M) + 1
  <2>1. /\ IsFiniteSet(M \cup {w})
        /\ Cardinality(M \cup {w}) = IF w \in M THEN Cardinality(M) ELSE Cardinality(M) + 1
    BY <1>2, FS_AddElement
  <2>2. Cardinality(L) <= Cardinality(M \cup {w})
    BY <1>5, <2>1, FS_Subset
  <2>3. QED  BY <1>3, <2>1, <2>2
<1>6. ASSUME NEW w \in M \ L, L \subseteq M PROVE Cardinality(L) + 1 <= Cardinality(M)
  <2>1. /\ IsFiniteSet(L \cup {w})
        /\ Cardinality(L \cup {w}) = IF w \in L THEN Cardinality(L) ELSE Cardinality(L) + 1
    BY <1>2, FS_AddElement
  <2>2. L \cup {w} \subseteq M
    BY <1>6
  <2>3. Cardinality(L \cup {w}) <= Cardinality(M)
    BY <1>2, <2>2, FS_Subset
  <2>4. QED  BY <1>6, <2>1, <2>3
<1>7. QED  BY <1>3, <1>4, <1>5, <1>6

\* Nobody has subscribed.
LEMMA InitMailInv ==
  ASSUME News!ConstantsOK, News!Init
  PROVE  MailInv
<1> USE DEF News!Init
<1>1. GiveUpAfter \in Nat \ {0} /\ MaxExpired \in Nat /\ MaxMailFaults \in Nat
      /\ (CHOOSE e \in Emails : TRUE) \in Emails
  BY DEF News!ConstantsOK
<1>2. News!TypeOK
  <2>1. /\ 0 \in 0..(GiveUpAfter + MaxExpired) /\ 0 \in 0..MaxExpired /\ 0 \in 0..MaxMailFaults
        /\ 0 \in 0..MaxSubscriptions /\ 0 \in 0..2 /\ 0 \in Nat
    BY <1>1 DEF News!ConstantsOK
  <2>2. QED  BY <1>1, <2>1 DEF News!TypeOK
<1>3. \A e \in Emails : QueueOK(e)
  BY <1>1 DEF QueueOK
<1>4. \A w \in Workers : WorkerOK(w)
  BY DEF WorkerOK
<1>5. ASSUME NEW e \in Emails PROVE Balance(e)
  <2>1. ~Owing(e) /\ mails[e] = 0 /\ joined[e] = 0 /\ unrecorded[e] = 0
    BY DEF Owing
  <2>2. LateBy(e) \in SUBSET Workers
    BY DEF LateBy
  <2>3. Cardinality(LateBy(e)) \in Nat
    BY <2>2, LateCounts
  <2>4. QED  BY <2>1, <2>3 DEF Balance
<1>6. QED  BY <1>2, <1>3, <1>4, <1>5 DEF MailInv

\* The account of a row whose messages, subscriptions and lost records grow by
\* a, b and c, while the processes that are late change by d.
LEMMA BalanceMoves ==
  ASSUME News!ConstantsOK, MailInv, NEW e \in Emails,
         NEW a \in 0..1, NEW b \in 0..1, NEW c \in 0..1, NEW d \in -1..1,
         mails'[e] = mails[e] + a, joined'[e] = joined[e] + b, unrecorded'[e] = unrecorded[e] + c,
         d = -1 => \E w \in Workers : LateBy(e) \subseteq LateBy(e)' \cup {w},
         d >= 0 => LateBy(e) \subseteq LateBy(e)',
         d = 1 => LateBy(e)' \ LateBy(e) # {},
         a + (IF Owing(e)' THEN 1 ELSE 0) <= (IF Owing(e) THEN 1 ELSE 0) + b + c + d
  PROVE  Balance(e)'
<1> DEFINE n == IF Owing(e) THEN 1 ELSE 0
           m == IF Owing(e)' THEN 1 ELSE 0
           L == LateBy(e)
           M == LateBy(e)'
<1>1. L \in SUBSET Workers /\ M \in SUBSET Workers
  BY DEF LateBy
<1>2. n \in 0..1 /\ m \in 0..1 /\ a + m <= n + b + c + d
  OBVIOUS
<1>3. mails[e] + n <= joined[e] + unrecorded[e] + Cardinality(L)
  BY DEF MailInv, Balance
<1>4. mails[e] \in Nat /\ joined[e] \in Nat /\ unrecorded[e] \in Nat
  BY DEF MailInv, News!TypeOK, News!ConstantsOK
<1>5. /\ d = -1 => \E w \in Workers : L \subseteq M \cup {w}
      /\ d >= 0 => L \subseteq M
      /\ d = 1 => M \ L # {}
  OBVIOUS
<1> HIDE DEF n, m, L, M
<1>6. Cardinality(L) \in Nat /\ Cardinality(M) \in Nat /\ Cardinality(L) + d <= Cardinality(M)
  <2>1. Cardinality(L) \in Nat /\ Cardinality(M) \in Nat
    BY <1>1, LateCounts
  <2>2. CASE d = -1
    <3>1. Cardinality(L) <= Cardinality(M) + 1
      BY <1>1, <1>5, <2>2, LateCounts
    <3>2. QED  BY <2>1, <2>2, <3>1
  <2>3. CASE d = 0
    <3>1. Cardinality(L) <= Cardinality(M)
      BY <1>1, <1>5, <2>3, LateCounts
    <3>2. QED  BY <2>1, <2>3, <3>1
  <2>4. CASE d = 1
    <3>1. Cardinality(L) + 1 <= Cardinality(M)
      <4>1. L \subseteq M /\ M \ L # {}
        BY <1>5, <2>4
      <4>2. QED  BY <1>1, <4>1, LateCounts
    <3>2. QED  BY <2>1, <2>4, <3>1
  <2>5. QED  BY <2>2, <2>3, <2>4
<1>7. mails'[e] + m <= joined'[e] + unrecorded'[e] + Cardinality(M)
  BY <1>2, <1>3, <1>4, <1>6
<1>8. QED  BY <1>7 DEF Balance, m, M

\* A row of which nothing changes that is counted.
LEMMA BalanceStays ==
  ASSUME News!ConstantsOK, MailInv, NEW e \in Emails,
         mails'[e] = mails[e], joined'[e] = joined[e], unrecorded'[e] = unrecorded[e],
         LateBy(e) \subseteq LateBy(e)', Owing(e)' => Owing(e)
  PROVE  Balance(e)'
<1>1. mails[e] \in Nat /\ joined[e] \in Nat /\ unrecorded[e] \in Nat
  BY DEF MailInv, News!TypeOK, News!ConstantsOK
<1>2. mails'[e] = mails[e] + 0 /\ joined'[e] = joined[e] + 0 /\ unrecorded'[e] = unrecorded[e] + 0
  BY <1>1
<1>3. 0 + (IF Owing(e)' THEN 1 ELSE 0) <= (IF Owing(e) THEN 1 ELSE 0) + 0 + 0 + 0
  OBVIOUS
<1>4. QED  BY <1>2, <1>3, BalanceMoves

\* Subscribing, unsubscribing and the clock.
LEMMA RequestsKeep ==
  ASSUME News!ConstantsOK, MailInv, NEW e \in Emails,
         News!Subscribe(e) \/ News!Unsubscribe(e) \/ News!FallDue(e) \/ News!DayPasses(e)
  PROVE  MailInv'
<1> USE DEF MailInv, News!locals
<1>1. GiveUpAfter \in Nat \ {0} /\ MaxExpired \in Nat /\ MaxSubscriptions \in Nat
      /\ News!Nobody \notin Workers
  BY DEF News!ConstantsOK
<1>2. CASE News!Subscribe(e)
  <2>1. /\ mailStatus' = [mailStatus EXCEPT ![e] = "pending"]
        /\ unsubscribed' = [unsubscribed EXCEPT ![e] = FALSE]
        /\ mailAttempts' = [mailAttempts EXCEPT ![e] = 0]
        /\ due' = [due EXCEPT ![e] = TRUE] /\ dayOld' = [dayOld EXCEPT ![e] = FALSE]
        /\ lease' = [lease EXCEPT ![e] = News!Nobody]
        /\ joined' = [joined EXCEPT ![e] = joined[e] + 1]
        /\ mailExpired' = [mailExpired EXCEPT ![e] = 0]
        /\ joined[e] < MaxSubscriptions
        /\ UNCHANGED <<mailStep, job, mailTries, smtp, mails, unrecorded, mailFaults>>
    BY <1>2 DEF News!Subscribe, News!MayJoin, News!Active
  <2>2. News!TypeOK'
    <3>1. /\ 0 \in 0..(GiveUpAfter + MaxExpired) /\ 0 \in 0..MaxExpired
          /\ joined[e] + 1 \in 0..MaxSubscriptions
      BY <1>1, <2>1 DEF News!TypeOK
    <3>2. QED  BY <2>1, <3>1 DEF News!TypeOK
  <2>3. /\ mailStatus'[e] = "pending" /\ mailAttempts'[e] = 0 /\ lease'[e] = News!Nobody
        /\ joined'[e] = joined[e] + 1 /\ mailExpired'[e] = 0
        /\ \A f \in Emails \ {e} :
             /\ mailStatus'[f] = mailStatus[f] /\ mailAttempts'[f] = mailAttempts[f]
             /\ lease'[f] = lease[f] /\ joined'[f] = joined[f] /\ mailExpired'[f] = mailExpired[f]
    BY <2>1 DEF News!TypeOK
  <2>4. \A f \in Emails : QueueOK(f)'
    BY <1>1, <2>1, <2>3 DEF QueueOK
  <2>5. \A w \in Workers : WorkerOK(w)'
    BY <1>1, <2>1, <2>3 DEF WorkerOK, News!TypeOK
  <2>6. Balance(e)'
    <3>1. LateBy(e) \subseteq LateBy(e)'
      BY <1>1, <2>1, <2>3 DEF LateBy
    <3>2. mails'[e] = mails[e] + 0 /\ unrecorded'[e] = unrecorded[e] + 0
      BY <2>1 DEF News!TypeOK
    <3>3. 0 + (IF Owing(e)' THEN 1 ELSE 0) <= (IF Owing(e) THEN 1 ELSE 0) + 1 + 0 + 0
      OBVIOUS
    <3>4. QED  BY <2>3, <3>1, <3>2, <3>3, BalanceMoves
  <2>7. ASSUME NEW f \in Emails, f # e PROVE Balance(f)'
    <3>1. LateBy(f) \subseteq LateBy(f)' /\ (Owing(f)' => Owing(f))
      BY <2>1, <2>3, <2>7 DEF LateBy, Owing, WillMark
    <3>2. QED  BY <2>1, <2>3, <2>7, <3>1, BalanceStays
  <2>8. QED  BY <2>2, <2>4, <2>5, <2>6, <2>7
<1>3. CASE News!Unsubscribe(e) \/ News!FallDue(e) \/ News!DayPasses(e)
  <2>1. /\ UNCHANGED <<mailStatus, mailAttempts, lease, mailStep, job, mailTries, smtp, mails, joined,
             unrecorded, mailExpired, mailFaults>>
        /\ unsubscribed' \in [Emails -> BOOLEAN] /\ due' \in [Emails -> BOOLEAN]
        /\ dayOld' \in [Emails -> BOOLEAN]
    BY <1>3 DEF News!Unsubscribe, News!FallDue, News!DayPasses, News!TypeOK
  <2>2. News!TypeOK'
    BY <2>1 DEF News!TypeOK
  <2>3. (\A f \in Emails : QueueOK(f)') /\ \A w \in Workers : WorkerOK(w)'
    BY <2>1 DEF QueueOK, WorkerOK
  <2>4. \A f \in Emails : Balance(f)'
    BY <2>1 DEF Balance, LateBy, Owing, WillMark
  <2>5. QED  BY <2>2, <2>3, <2>4
<1>4. QED  BY <1>2, <1>3

\* A lease: who held the row and has sent its message is late from now on.
LEMMA LeaseKeeps ==
  ASSUME News!ConstantsOK, MailInv, NEW w \in Workers, NEW e \in Emails, News!Lease(w, e)
  PROVE  MailInv'
<1> USE DEF MailInv
<1>1. GiveUpAfter \in Nat \ {0} /\ MaxExpired \in Nat /\ News!Nobody \notin Workers
  BY DEF News!ConstantsOK
<1>2. /\ mailStep[w] = "idle" /\ mailStatus[e] \in {"pending", "sending"}
      /\ mailStatus[e] = "sending" => mailExpired[e] < MaxExpired
      /\ mailExpired' = [mailExpired EXCEPT
           ![e] = IF mailStatus[e] = "sending" THEN mailExpired[e] + 1 ELSE mailExpired[e]]
      /\ mailStatus' = [mailStatus EXCEPT ![e] = "sending"]
      /\ mailAttempts' = [mailAttempts EXCEPT ![e] = mailAttempts[e] + 1]
      /\ lease' = [lease EXCEPT ![e] = w] /\ due' = [due EXCEPT ![e] = FALSE]
      /\ mailStep' = [mailStep EXCEPT ![w] = "send"] /\ job' = [job EXCEPT ![w] = e]
      /\ mailTries' = [mailTries EXCEPT ![w] = mailAttempts[e] + 1]
      /\ UNCHANGED <<unsubscribed, dayOld, smtp, mails, joined, unrecorded, mailFaults>>
  BY DEF News!Lease, News!ToStep
<1>3. /\ mailStep'[w] = "send" /\ job'[w] = e /\ mailTries'[w] = mailAttempts[e] + 1
      /\ \A u \in Workers \ {w} :
           mailStep'[u] = mailStep[u] /\ job'[u] = job[u] /\ mailTries'[u] = mailTries[u]
      /\ mailStatus'[e] = "sending" /\ mailAttempts'[e] = mailAttempts[e] + 1 /\ lease'[e] = w
      /\ mailExpired'[e] = IF mailStatus[e] = "sending" THEN mailExpired[e] + 1 ELSE mailExpired[e]
      /\ \A f \in Emails \ {e} :
           /\ mailStatus'[f] = mailStatus[f] /\ mailAttempts'[f] = mailAttempts[f]
           /\ lease'[f] = lease[f] /\ mailExpired'[f] = mailExpired[f]
  BY <1>2 DEF News!TypeOK
<1>4. /\ mailExpired'[e] \in 0..MaxExpired /\ mailAttempts[e] + 1 <= GiveUpAfter + mailExpired'[e]
      /\ mailAttempts[e] + 1 \in 0..(GiveUpAfter + MaxExpired)
  <2>1. mailAttempts[e] \in Nat /\ mailExpired[e] \in Nat /\ mailExpired[e] <= MaxExpired
    BY <1>1 DEF News!TypeOK
  <2>2. /\ mailStatus[e] = "pending" => mailAttempts[e] < GiveUpAfter
        /\ mailAttempts[e] <= GiveUpAfter + mailExpired[e]
    BY DEF QueueOK
  <2>3. QED  BY <1>1, <1>2, <1>3, <2>1, <2>2
<1>5. News!TypeOK'
  <2>1. mailExpired' \in [Emails -> 0..MaxExpired]
    BY <1>2, <1>3, <1>4 DEF News!TypeOK
  <2>2. /\ mailAttempts' \in [Emails -> 0..(GiveUpAfter + MaxExpired)]
        /\ mailTries' \in [Workers -> 0..(GiveUpAfter + MaxExpired)]
    BY <1>2, <1>4 DEF News!TypeOK
  <2>3. QED  BY <1>2, <2>1, <2>2 DEF News!TypeOK
<1>6. \A f \in Emails : QueueOK(f)'
  BY <1>1, <1>2, <1>3, <1>4 DEF QueueOK
<1>7. \A u \in Workers : WorkerOK(u)'
  BY <1>2, <1>3 DEF WorkerOK, News!TypeOK
<1>8. Balance(e)'
  <2>1. LateBy(e) \subseteq LateBy(e)'
    BY <1>2, <1>3 DEF LateBy
  <2>2. mails'[e] = mails[e] + 0 /\ unrecorded'[e] = unrecorded[e] + 0 /\ joined'[e] = joined[e] + 0
    BY <1>2 DEF News!TypeOK
  <2>3. CASE WillMark(e)
    <3>1. LateBy(e)' \ LateBy(e) # {}
      BY <1>2, <1>3, <2>3 DEF LateBy, WillMark
    <3>2. 0 + (IF Owing(e)' THEN 1 ELSE 0) <= (IF Owing(e) THEN 1 ELSE 0) + 0 + 0 + 1
      OBVIOUS
    <3>3. QED  BY <2>1, <2>2, <3>1, <3>2, BalanceMoves
  <2>4. CASE ~WillMark(e)
    <3>1. Owing(e)
      BY <1>2, <2>4 DEF Owing
    <3>2. QED  BY <1>2, <2>1, <3>1, BalanceStays
  <2>5. QED  BY <2>3, <2>4
<1>9. ASSUME NEW f \in Emails, f # e PROVE Balance(f)'
  <2>1. LateBy(f) \subseteq LateBy(f)' /\ (Owing(f)' => Owing(f))
    BY <1>2, <1>3, <1>9 DEF LateBy, Owing, WillMark
  <2>2. QED  BY <1>2, <1>9, <2>1, BalanceStays
<1>10. QED  BY <1>5, <1>6, <1>7, <1>8, <1>9

\* A step of one process in deliver touches its row alone.
LEMMA DeliveryKeeps ==
  ASSUME News!ConstantsOK, MailInv, NEW w \in Workers, NEW e \in Emails, e = job[w],
         UNCHANGED <<mailAttempts, job, mailTries, joined, mailExpired>>,
         \A u \in Workers \ {w} : mailStep'[u] = mailStep[u],
         \A f \in Emails \ {e} :
           /\ mailStatus'[f] = mailStatus[f] /\ lease'[f] = lease[f]
           /\ mails'[f] = mails[f] /\ unrecorded'[f] = unrecorded[f],
         lease'[e] = lease[e] \/ lease'[e] = News!Nobody, mails'[e] >= mails[e],
         News!TypeOK', QueueOK(e)', WorkerOK(w)', Balance(e)'
  PROVE  MailInv'
<1> USE DEF MailInv
<1>1. News!Nobody \notin Workers /\ job \in [Workers -> Emails] /\ mails \in [Emails -> Nat]
      /\ mails' \in [Emails -> Nat]
  BY DEF News!ConstantsOK, News!TypeOK
<1>2. ASSUME NEW f \in Emails, f # e PROVE QueueOK(f)'
  BY <1>2 DEF QueueOK
<1>3. ASSUME NEW u \in Workers, u # w PROVE WorkerOK(u)'
  <2>1. job[u] \in Emails /\ mails[job[u]] \in Nat /\ mails'[job[u]] \in Nat
    BY <1>1
  <2>2. mails'[job[u]] >= mails[job[u]]
    <3>1. CASE job[u] = e
      BY <3>1
    <3>2. CASE job[u] # e
      BY <2>1, <3>2
    <3>3. QED  BY <3>1, <3>2
  <2>3. mailStep'[u] = "mark" => mails'[job[u]] > 0
    <3>1. mailStep'[u] = "mark" => mails[job[u]] > 0
      BY <1>3 DEF WorkerOK
    <3>2. QED  BY <2>1, <2>2, <3>1
  <2>4. lease'[job[u]] = u => lease[job[u]] = u
    BY <1>1, <2>1
  <2>5. QED  BY <1>3, <2>3, <2>4 DEF WorkerOK
<1>4. ASSUME NEW f \in Emails, f # e PROVE Balance(f)'
  <2>1. LateBy(f) \subseteq LateBy(f)' /\ (Owing(f)' => Owing(f))
    BY <1>4 DEF LateBy, Owing, WillMark
  <2>2. QED  BY <1>4, <2>1, BalanceStays
<1>5. QED  BY <1>2, <1>3, <1>4

\* A message is sent, refused, or accepted without an answer.
LEMMA SendKeeps ==
  ASSUME News!ConstantsOK, MailInv, NEW w \in Workers, NEW e \in Emails, e = job[w],
         News!MessageSent(w) \/ News!MessageRefused(w) \/ News!AnswerLost(w)
  PROVE  MailInv'
<1> USE DEF MailInv
<1>1. e \in Emails /\ mails[e] \in Nat /\ unrecorded[e] \in Nat /\ joined[e] \in Nat
  BY DEF News!TypeOK, News!ConstantsOK
<1>2. /\ UNCHANGED <<mailStatus, unsubscribed, mailAttempts, due, dayOld, lease, job, mailTries, joined,
           mailExpired>>
      /\ mailStep[w] = "send" /\ smtp' \in [Workers -> 0..2] /\ mailFaults' \in 0..MaxMailFaults
      /\ \/ /\ mailStep' = [mailStep EXCEPT ![w] = "mark"] /\ UNCHANGED unrecorded
            /\ mails' = [mails EXCEPT ![e] = mails[e] + 1]
         \/ /\ UNCHANGED mailStep \/ mailStep' = [mailStep EXCEPT ![w] = "defer"]
            /\ UNCHANGED <<mails, unrecorded>>
         \/ /\ UNCHANGED mailStep \/ mailStep' = [mailStep EXCEPT ![w] = "defer"]
            /\ mails' = [mails EXCEPT ![e] = mails[e] + 1]
            /\ unrecorded' = [unrecorded EXCEPT ![e] = unrecorded[e] + 1]
  BY DEF News!MessageSent, News!MessageRefused, News!AnswerLost, News!SmtpFails, News!ToStep, News!Fault,
     News!queue, News!TypeOK, News!ConstantsOK
<1>3. News!TypeOK'
  BY <1>1, <1>2 DEF News!TypeOK
<1>4. /\ \A u \in Workers \ {w} : mailStep'[u] = mailStep[u]
      /\ \A f \in Emails \ {e} : mails'[f] = mails[f] /\ unrecorded'[f] = unrecorded[f]
      /\ \/ mailStep'[w] = "mark" /\ mails'[e] = mails[e] + 1 /\ unrecorded'[e] = unrecorded[e] + 0
         \/ mailStep'[w] \in {"send", "defer"} /\ mails'[e] = mails[e] + 0 /\ unrecorded'[e] = unrecorded[e] + 0
         \/ mailStep'[w] \in {"send", "defer"} /\ mails'[e] = mails[e] + 1 /\ unrecorded'[e] = unrecorded[e] + 1
      /\ joined'[e] = joined[e] + 0
  BY <1>1, <1>2 DEF News!TypeOK
<1>5. QueueOK(e)'
  <2>1. QueueOK(e)
    BY <1>1
  <2>2. mails'[e] >= mails[e]
    BY <1>1, <1>4
  <2>3. mails[e] > 0 => mails'[e] > 0
    BY <1>1, <1>4
  <2>4. QED  BY <1>2, <2>1, <2>3 DEF QueueOK
<1>6. WorkerOK(w)'
  <2>1. mailStep'[w] = "mark" => mails'[e] > 0
    BY <1>1, <1>4
  <2>2. WorkerOK(w) /\ job'[w] = e /\ job[w] = e
    BY <1>2
  <2>3. QED  BY <1>2, <2>1, <2>2 DEF WorkerOK
<1>7. job[w] = e
  OBVIOUS
<1>8. Balance(e)'
  <2>1. CASE mailStep'[w] # "mark"
    <3>1. LateBy(e) \subseteq LateBy(e)' /\ (Owing(e)' => Owing(e))
      BY <1>2, <1>4, <2>1 DEF LateBy, Owing, WillMark
    <3>2. CASE mails'[e] = mails[e] + 0 /\ unrecorded'[e] = unrecorded[e] + 0
      BY <1>1, <1>2, <1>4, <3>1, <3>2, BalanceStays
    <3>3. CASE mails'[e] = mails[e] + 1 /\ unrecorded'[e] = unrecorded[e] + 1
      <4>1. 1 + (IF Owing(e)' THEN 1 ELSE 0) <= (IF Owing(e) THEN 1 ELSE 0) + 0 + 1 + 0
        BY <3>1
      <4>2. QED  BY <1>1, <1>4, <3>1, <3>3, <4>1, BalanceMoves
    <3>4. QED  BY <1>4, <2>1, <3>2, <3>3
  <2>2. CASE mailStep'[w] = "mark" /\ lease[e] = w
    <3>1. LateBy(e) \subseteq LateBy(e)'
      BY <1>2, <1>4, <2>2 DEF LateBy
    <3>2. Owing(e) /\ ~Owing(e)'
      <4>1. mailStatus[e] = "sending"
        BY <1>1, <2>2 DEF QueueOK, News!ConstantsOK
      <4>2. QED  BY <1>2, <1>7, <2>2, <4>1 DEF Owing, WillMark
    <3>3. mails'[e] = mails[e] + 1 /\ unrecorded'[e] = unrecorded[e] + 0
      BY <1>4, <2>2
    <3>4. 1 + (IF Owing(e)' THEN 1 ELSE 0) <= (IF Owing(e) THEN 1 ELSE 0) + 0 + 0 + 0
      BY <3>2
    <3>5. QED  BY <1>1, <1>4, <3>1, <3>3, <3>4, BalanceMoves
  <2>3. CASE mailStep'[w] = "mark" /\ lease[e] # w
    <3>1. LateBy(e) \subseteq LateBy(e)' /\ LateBy(e)' \ LateBy(e) # {}
      BY <1>2, <1>4, <1>7, <2>3 DEF LateBy
    <3>2. Owing(e)' => Owing(e)
      BY <1>2, <1>4, <2>3 DEF Owing, WillMark
    <3>3. mails'[e] = mails[e] + 1 /\ unrecorded'[e] = unrecorded[e] + 0
      BY <1>4, <2>3
    <3>4. 1 + (IF Owing(e)' THEN 1 ELSE 0) <= (IF Owing(e) THEN 1 ELSE 0) + 0 + 0 + 1
      BY <3>2
    <3>5. QED  BY <1>1, <1>4, <3>1, <3>3, <3>4, BalanceMoves
  <2>4. QED  BY <2>1, <2>2, <2>3
<1>9. mails'[e] >= mails[e]
  BY <1>1, <1>4
<1>10. QED  BY <1>1, <1>2, <1>3, <1>4, <1>5, <1>6, <1>7, <1>8, <1>9, DeliveryKeeps

\* The outcome is recorded if the lease still stands; or it never is.
LEMMA RecordKeeps ==
  ASSUME News!ConstantsOK, MailInv, NEW w \in Workers, NEW e \in Emails, e = job[w],
         News!MarkSent(w) \/ News!MarkFails(w) \/ News!Defer(w) \/ News!Abandon(w)
  PROVE  MailInv'
<1> USE DEF MailInv
<1>1. /\ e \in Emails /\ mails[e] \in Nat /\ unrecorded[e] \in Nat /\ joined[e] \in Nat
      /\ News!Nobody \notin Workers
  BY DEF News!TypeOK, News!ConstantsOK
\* What is written, what is left unrecorded, and where the process goes.
<1>2. /\ UNCHANGED <<unsubscribed, mailAttempts, dayOld, job, mailTries, mails, joined, mailExpired>>
      /\ mailStep' \in {[mailStep EXCEPT ![w] = "idle"], [mailStep EXCEPT ![w] = "defer"]}
      /\ mailStep[w] # "idle"
      /\ smtp' \in [Workers -> 0..2] /\ mailFaults' \in 0..MaxMailFaults
      /\ due' \in [Emails -> BOOLEAN]
      /\ \/ UNCHANGED <<mailStatus, lease>>
         \/ /\ lease[e] = w /\ lease' = [lease EXCEPT ![e] = News!Nobody]
            /\ \/ mailStep[w] = "mark" /\ mailStatus' = [mailStatus EXCEPT ![e] = "sent"]
               \/ /\ mailStep[w] = "defer"
                  /\ \/ mailStatus' = [mailStatus EXCEPT ![e] = "failed"]
                     \/ /\ mailTries[w] < GiveUpAfter
                        /\ mailStatus' = [mailStatus EXCEPT ![e] = "pending"]
      /\ \/ unrecorded' = [unrecorded EXCEPT ![e] = unrecorded[e] + 1]
         \/ /\ unrecorded' = [unrecorded EXCEPT ![e] = unrecorded[e]]
            /\ mailStep[w] = "mark" => lease[e] = w /\ mailStatus' = [mailStatus EXCEPT ![e] = "sent"]
  <2>1. CASE News!MarkSent(w)
    BY <1>1, <2>1 DEF News!MarkSent, News!SetRow, News!Leased, News!ToStep, News!TypeOK
  <2>2. CASE News!MarkFails(w)
    BY <1>1, <2>2 DEF News!MarkFails, News!Fault, News!queue, News!ToStep, News!TypeOK, News!ConstantsOK
  <2>3. CASE News!Defer(w)
    <3>1. /\ UNCHANGED <<unsubscribed, mailAttempts, dayOld, job, mailTries, smtp, mails, joined,
               unrecorded, mailExpired, mailFaults>>
          /\ mailStep[w] = "defer" /\ mailStep' = [mailStep EXCEPT ![w] = "idle"]
          /\ due' = [due EXCEPT ![e] = IF lease[e] = w THEN FALSE ELSE due[e]]
      BY <2>3 DEF News!Defer, News!ToStep, News!Leased
    <3>2. CASE lease[e] = w
      <4>1. /\ lease' = [lease EXCEPT ![e] = News!Nobody]
            /\ mailStatus' = [mailStatus EXCEPT ![e] = IF News!GivesUp(w) THEN "failed" ELSE "pending"]
        BY <2>3, <3>2 DEF News!Defer, News!SetRow, News!Leased
      <4>2. ~News!GivesUp(w) => mailTries[w] < GiveUpAfter
        BY DEF News!GivesUp, News!TypeOK, News!ConstantsOK
      <4>3. due' \in [Emails -> BOOLEAN]
        BY <3>1, <3>2 DEF News!TypeOK
      <4>4. QED  BY <1>1, <3>1, <3>2, <4>1, <4>2, <4>3 DEF News!TypeOK
    <3>3. CASE lease[e] # w
      <4>1. UNCHANGED <<lease, mailStatus, due>>
        BY <2>3, <3>1, <3>3 DEF News!Defer, News!SetRow, News!Leased, News!TypeOK
      <4>2. QED  BY <1>1, <3>1, <3>3, <4>1 DEF News!TypeOK
    <3>4. QED  BY <3>2, <3>3
  <2>4. CASE News!Abandon(w)
    <3>1. /\ UNCHANGED <<mailStatus, unsubscribed, mailAttempts, due, dayOld, lease, job, mailTries,
               mails, joined, mailExpired>>
          /\ mailStep[w] # "idle" /\ mailStep' = [mailStep EXCEPT ![w] = "idle"]
          /\ smtp' = [smtp EXCEPT ![w] = 0] /\ mailFaults' = mailFaults + 1 /\ mailFaults < MaxMailFaults
          /\ unrecorded' = [unrecorded EXCEPT
               ![e] = IF mailStep[w] = "mark" THEN unrecorded[e] + 1 ELSE unrecorded[e]]
      BY <2>4 DEF News!Abandon, News!Fault, News!queue, News!ToStep
    <3>2. mailFaults' \in 0..MaxMailFaults
      BY <3>1 DEF News!TypeOK, News!ConstantsOK
    <3>3. smtp' \in [Workers -> 0..2] /\ due' \in [Emails -> BOOLEAN]
      BY <3>1 DEF News!TypeOK
    <3>4. CASE mailStep[w] = "mark"
      <4>1. unrecorded' = [unrecorded EXCEPT ![e] = unrecorded[e] + 1]
        BY <3>1, <3>4
      <4>2. QED  BY <1>1, <3>1, <3>2, <3>3, <4>1
    <3>5. CASE mailStep[w] # "mark"
      <4>1. unrecorded' = [unrecorded EXCEPT ![e] = unrecorded[e]]
        BY <3>1, <3>5
      <4>2. QED  BY <1>1, <3>1, <3>2, <3>3, <3>5, <4>1
    <3>6. QED  BY <3>4, <3>5
  <2>5. QED  BY <2>1, <2>2, <2>3, <2>4

<1>3. News!TypeOK'
  BY <1>1, <1>2 DEF News!TypeOK
<1>4. /\ \A u \in Workers \ {w} : mailStep'[u] = mailStep[u]
      /\ mailStep'[w] \in {"idle", "defer"}
      /\ \A f \in Emails \ {e} :
           mailStatus'[f] = mailStatus[f] /\ lease'[f] = lease[f] /\ unrecorded'[f] = unrecorded[f]
      /\ \/ lease'[e] = lease[e] /\ mailStatus'[e] = mailStatus[e]
         \/ /\ lease[e] = w /\ lease'[e] = News!Nobody
            /\ \/ mailStep[w] = "mark" /\ mailStatus'[e] = "sent"
               \/ mailStep[w] = "defer" /\ mailStatus'[e] = "failed"
               \/ mailStep[w] = "defer" /\ mailTries[w] < GiveUpAfter /\ mailStatus'[e] = "pending"
      /\ \/ unrecorded'[e] = unrecorded[e] + 1
         \/ /\ unrecorded'[e] = unrecorded[e]
            /\ mailStep[w] = "mark" => lease[e] = w /\ mailStatus'[e] = "sent"
  BY <1>1, <1>2 DEF News!TypeOK
<1>5. QueueOK(e) /\ WorkerOK(w) /\ job[w] = e
  BY <1>1
<1>6. QueueOK(e)' /\ WorkerOK(w)'
  <2>1. QueueOK(e)'
    BY <1>1, <1>2, <1>4, <1>5 DEF QueueOK, WorkerOK
  <2>2. WorkerOK(w)'
    BY <1>1, <1>2, <1>4, <1>5 DEF WorkerOK
  <2>3. QED  BY <2>1, <2>2
<1>7. mails'[e] = mails[e] + 0 /\ joined'[e] = joined[e] + 0
  BY <1>1, <1>2
<1>8. Balance(e)'
  <2>1. CASE mailStep[w] = "mark" /\ lease[e] # w
    <3>1. LateBy(e) \subseteq LateBy(e)' \cup {w}
      BY <1>1, <1>2, <1>4 DEF LateBy
    <3>2. Owing(e)' => Owing(e)
      BY <1>2, <1>4, <2>1 DEF Owing, WillMark
    <3>3. unrecorded'[e] = unrecorded[e] + 1
      BY <1>4, <2>1
    <3>4. 0 + (IF Owing(e)' THEN 1 ELSE 0) <= (IF Owing(e) THEN 1 ELSE 0) + 0 + 1 + (-1)
      BY <3>2
    <3>5. QED  BY <1>1, <1>7, <3>1, <3>3, <3>4, BalanceMoves
  <2>2. CASE ~(mailStep[w] = "mark" /\ lease[e] # w)
    <3>1. LateBy(e) \subseteq LateBy(e)'
      BY <1>1, <1>2, <1>4, <2>2 DEF LateBy
    <3>2. CASE unrecorded'[e] = unrecorded[e] + 1
      <4>1. 0 + (IF Owing(e)' THEN 1 ELSE 0) <= (IF Owing(e) THEN 1 ELSE 0) + 0 + 1 + 0
        OBVIOUS
      <4>2. QED  BY <1>1, <1>7, <3>1, <3>2, <4>1, BalanceMoves
    <3>3. CASE unrecorded'[e] = unrecorded[e] /\ (mailStep[w] = "mark" => mailStatus'[e] = "sent")
      <4>1. Owing(e)' => Owing(e)
        <5>1. CASE mailStep[w] = "mark"
          BY <3>3, <5>1 DEF Owing
        <5>2. CASE mailStep[w] # "mark" /\ lease'[e] = lease[e] /\ mailStatus'[e] = mailStatus[e]
          BY <1>2, <1>4, <5>2 DEF Owing, WillMark
        <5>3. CASE mailStep[w] # "mark" /\ lease[e] = w
          BY <1>1, <1>5, <5>3 DEF Owing, WillMark, QueueOK
        <5>4. QED  BY <1>4, <5>1, <5>2, <5>3
      <4>2. QED  BY <1>1, <1>7, <3>1, <3>3, <4>1, BalanceStays
    <3>4. QED  BY <1>4, <3>2, <3>3
  <2>3. QED  BY <2>1, <2>2
<1>9. mails'[e] >= mails[e] /\ (lease'[e] = lease[e] \/ lease'[e] = News!Nobody)
  BY <1>1, <1>4, <1>7
<1>10. QED  BY <1>1, <1>2, <1>3, <1>4, <1>5, <1>6, <1>8, <1>9, DeliveryKeeps

\* Every step keeps the invariant.
LEMMA StepMailInv ==
  ASSUME News!ConstantsOK, MailInv, News!Next \/ UNCHANGED mailVars
  PROVE  MailInv'
<1>1. CASE News!Next
  <2>1. \A w \in Workers : job[w] \in Emails
    BY DEF MailInv, News!TypeOK
  <2>2. QED  BY <1>1, <2>1, RequestsKeep, LeaseKeeps, SendKeeps, RecordKeeps DEF News!Next
<1>2. CASE UNCHANGED mailVars
  BY <1>2 DEF mailVars, MailInv, News!TypeOK, QueueOK, WorkerOK, Balance, Owing, WillMark, LateBy
<1>3. QED  BY <1>1, <1>2

\* An address gets a message for each subscription, one more for each that was
\* not recorded, and the queue gives up after its attempts.
THEOREM MessagesAccounted == Spec => []WelcomeAccounted
<1> DEFINE Inv == component = "Newsletter" => MailInv
<1>1. Init => Inv
  BY InitMailInv, InitialComponent, ServicesConstants
<1>2. Inv /\ [Next]_vars => Inv'
  BY StepMailInv, ComponentStep, ServicesConstants
<1>3. Inv => WelcomeAccounted
  <2> SUFFICES ASSUME MailInv PROVE News!WelcomeOnce /\ News!QueueGivesUp
    BY DEF WelcomeAccounted, News!WelcomeAccounted
  <2>1. ASSUME NEW e \in Emails PROVE mails[e] <= joined[e] + unrecorded[e] + News!Late(e)
    <3>1. LateBy(e) = {w \in Workers : mailStep[w] = "mark" /\ job[w] = e /\ ~News!Leased(w)}
      BY DEF LateBy, News!Leased
    <3>2. News!Late(e) = Cardinality(LateBy(e))
      BY <3>1, SameCardinality DEF News!Late
    <3>3. LateBy(e) \in SUBSET Workers
      BY DEF LateBy
    <3>4. Cardinality(LateBy(e)) \in Nat
      BY <3>3, LateCounts, ServicesConstants
    <3>5. mails[e] \in Nat /\ joined[e] \in Nat /\ unrecorded[e] \in Nat
      BY ServicesConstants DEF MailInv, News!TypeOK, News!ConstantsOK
    <3>6. mails[e] + (IF Owing(e) THEN 1 ELSE 0) <= joined[e] + unrecorded[e] + Cardinality(LateBy(e))
      BY DEF MailInv, Balance
    <3>7. QED  BY <3>2, <3>4, <3>5, <3>6
  <2>2. QED  BY <2>1 DEF News!WelcomeOnce, News!QueueGivesUp, MailInv, QueueOK
<1>4. QED  BY <1>1, <1>2, <1>3, PTL DEF Spec

----------------------------------------------------------------------------
(***************************************************************************)
(* Transfer pairing.                                                       *)
(***************************************************************************)
Confirmed(l) == leg[l].status = "CONFIRMED"

\* A stored pair is mutual, unless the partner was deleted.
PairOK(l) ==
  pair[l] # 0 =>
    /\ Pairs!Opposite(l, pair[l]) /\ Confirmed(l) /\ Confirmed(pair[l])
    /\ pair[pair[l]] = l \/ pair[l] \in gone

\* What a transaction has locked stays free.
LockOK(l) == rowLock[l] \in Pairers => rowLock[l] \in open /\ Pairs!Free(l)

\* A match that is not committed yet is mutual, and one transaction holds both.
MatchOK(l) ==
  match[l] # 0 =>
    /\ Pairs!Opposite(l, match[l]) /\ match[match[l]] = l
    /\ rowLock[l] \in Pairers /\ rowLock[match[l]] = rowLock[l]

\* A transaction that is not open has nothing to do, it sees what is there, and
\* what it has still to do has no match.
PairerOK(p) ==
  /\ pairSeen[p] \subseteq present /\ (p \notin open => todo[p] = {})
  /\ \A i \in todo[p] : rowLock[i] = p => match[i] = 0

\* An inflow that was handled has a match no free outflow fits better.
InflowOK(p, i, x) ==
  /\ rowLock[i] = p /\ i \notin todo[p] /\ x \in pairSeen[p]
  /\ Pairs!Free(x) /\ rowLock[x] # p /\ x \notin passed[i]
  => match[i] # 0 /\ \A o \in Outflows : match[i] = o => ~Pairs!FitsBetter(i, x, o)

(***************************************************************************)
(* The inductive invariant.  A leg that was there when a transaction began *)
(* and still is has never lost a pair, so that an outflow which is free at *)
(* the end was free at the turn of every inflow, unless it was locked.     *)
(***************************************************************************)
PairInv ==
  /\ Pairs!TypeOK
  /\ \A l \in Pairs!Legs : PairOK(l) /\ LockOK(l) /\ MatchOK(l)
  /\ \A p \in Pairers : PairerOK(p)
  /\ \A p \in Pairers, i \in Inflows, x \in Outflows : InflowOK(p, i, x)

\* Legs are numbered from 1, so that 0 is none; nobody and a writer do not pair.
LEMMA LegNumbers ==
  ASSUME Pairs!ConstantsOK
  PROVE  /\ 0 \notin Pairs!Legs /\ Pairs!None = 0
         /\ Inflows \subseteq Pairs!Legs /\ Outflows \subseteq Pairs!Legs
         /\ Inflows \cap Outflows = {} /\ Pairs!Legs = Inflows \cup Outflows
         /\ ScriptLegs \subseteq Pairs!Legs
         /\ Pairs!Nobody \notin Pairers /\ Pairs!Writer \notin Pairers
         /\ Pairs!Nobody # Pairs!Writer
BY DEF Pairs!ConstantsOK, Pairs!Legs, Pairs!None, Pairs!Nobody, Pairs!Writer

\* Nothing is stored.
LEMMA InitPairInv ==
  ASSUME Pairs!ConstantsOK, Pairs!Init
  PROVE  PairInv
<1> USE DEF Pairs!Init
<1>1. Pairs!TypeOK
  BY LegNumbers DEF Pairs!TypeOK, Pairs!ConstantsOK
<1>2. \A l \in Pairs!Legs : pair[l] = 0 /\ match[l] = 0 /\ rowLock[l] = Pairs!Nobody
  BY LegNumbers
<1>3. \A p \in Pairers : PairerOK(p)
  BY DEF PairerOK
<1>4. QED  BY <1>1, <1>2, <1>3, LegNumbers DEF PairInv, PairOK, LockOK, MatchOK, InflowOK

\* The first of two outflows in the order of the SELECT is not worse.
LEMMA ClosestFits ==
  ASSUME Pairs!ConstantsOK, Pairs!TypeOK, NEW i \in Inflows, NEW o \in Outflows, NEW x \in Outflows,
         Pairs!Before(Pairs!Closeness(i, o), Pairs!Closeness(i, x))
  PROVE  ~Pairs!FitsBetter(i, x, o)
<1> DEFINE a == Pairs!Closeness(i, o)
           b == Pairs!Closeness(i, x)
<1>1. leg[i].value \in Nat /\ leg[o].value \in Nat /\ leg[x].value \in Nat
  BY LegNumbers DEF Pairs!ConstantsOK, Pairs!TypeOK
<1>2. /\ DOMAIN a = 1..5
      /\ a[1] = IF leg[o].asset = leg[i].asset THEN 0 ELSE 1
      /\ b[1] = IF leg[x].asset = leg[i].asset THEN 0 ELSE 1
      /\ a[2] = Pairs!Distance(leg[o].value, leg[i].value)
      /\ b[2] = Pairs!Distance(leg[x].value, leg[i].value)
  BY DEF Pairs!Closeness
<1>3. a[2] \in Nat /\ b[2] \in Nat
  BY <1>1, <1>2 DEF Pairs!Distance
<1>4. PICK k \in 1..5 : a[k] < b[k] /\ \A j \in 1..(k - 1) : a[j] = b[j]
  BY <1>2 DEF Pairs!Before
<1>5. Pairs!FitsBetter(i, x, o) =>
        \/ leg[x].asset = leg[i].asset /\ leg[o].asset # leg[i].asset
        \/ /\ (leg[x].asset # leg[i].asset) <=> (leg[o].asset # leg[i].asset)
           /\ b[2] < a[2]
  BY <1>2 DEF Pairs!FitsBetter
<1> HIDE DEF a, b
<1>6. CASE k = 1
  BY <1>2, <1>4, <1>5, <1>6
<1>7. CASE k = 2
  <2>1. a[1] = b[1] /\ a[2] < b[2]
    BY <1>4, <1>7
  <2>2. QED  BY <1>2, <1>3, <1>5, <2>1
<1>8. CASE k \in 3..5
  <2>1. 1 \in 1..(k - 1) /\ 2 \in 1..(k - 1)
    BY <1>8
  <2>2. a[1] = b[1] /\ a[2] = b[2]
    BY <1>4, <2>1
  <2>3. QED  BY <1>2, <1>3, <1>5, <2>2
<1>9. QED  BY <1>6, <1>7, <1>8

\* The functions on the legs.
LEMMA PairTypes ==
  ASSUME Pairs!ConstantsOK, PairInv
  PROVE  /\ pair \in [Pairs!Legs -> Pairs!Legs \cup {0}] /\ match \in [Pairs!Legs -> Pairs!Legs \cup {0}]
         /\ leg \in [Pairs!Legs -> Data]
         /\ rowLock \in [Pairs!Legs -> Pairers \cup {Pairs!Writer, Pairs!Nobody}]
         /\ present \subseteq Pairs!Legs /\ gone \subseteq Pairs!Legs /\ open \subseteq Pairers
         /\ todo \in [Pairers -> SUBSET Inflows] /\ pairSeen \in [Pairers -> SUBSET Pairs!Legs]
         /\ passed \in [Inflows -> SUBSET Outflows]
         /\ \A l \in Pairs!Legs : Pairs!Free(l) <=> l \in present /\ pair[l] = 0 /\ Confirmed(l)
BY LegNumbers DEF PairInv, Pairs!TypeOK, Pairs!Free, Confirmed

\* A leg is stored: no open transaction has seen it.
LEMMA StoreKeeps ==
  ASSUME Pairs!ConstantsOK, PairInv, NEW l \in Pairs!Legs, Pairs!StoreLeg(l)
  PROVE  PairInv'
<1> USE DEF PairInv
<1>1. /\ l \notin present /\ present' = present \cup {l}
      /\ UNCHANGED <<leg, pair, gone, rowLock, open, todo, pairSeen, match, passed>>
  BY DEF Pairs!StoreLeg, Pairs!transactions
<1>2. Pairs!TypeOK'
  BY <1>1 DEF Pairs!TypeOK
<1>3. \A k \in present : Pairs!Free(k)' <=> Pairs!Free(k)
  BY <1>1 DEF Pairs!Free
<1>4. \A k \in Pairs!Legs : Pairs!Free(k) => k \in present
  BY DEF Pairs!Free
<1>5. \A k \in Pairs!Legs : PairOK(k)' /\ MatchOK(k)'
  BY <1>1 DEF PairOK, MatchOK, Confirmed, Pairs!Opposite
<1>6. \A k \in Pairs!Legs : LockOK(k)'
  BY <1>1, <1>3, <1>4 DEF LockOK
<1>7. \A p \in Pairers : PairerOK(p)'
  BY <1>1 DEF PairerOK
<1>8. ASSUME NEW p \in Pairers, NEW i \in Inflows, NEW x \in Outflows PROVE InflowOK(p, i, x)'
  <2>1. x \in pairSeen[p] => (Pairs!Free(x)' <=> Pairs!Free(x))
    BY <1>3 DEF PairerOK
  <2>2. InflowOK(p, i, x)
    OBVIOUS
  <2>3. QED  BY <1>1, <2>1, <2>2 DEF InflowOK, Pairs!FitsBetter
<1>9. QED  BY <1>2, <1>5, <1>6, <1>7, <1>8

\* A row that no transaction holds is locked by a writer, or let go.
LEMMA WriterKeeps ==
  ASSUME Pairs!ConstantsOK, PairInv, NEW l \in Pairs!Legs, Pairs!Seize(l) \/ Pairs!LetGo(l)
  PROVE  PairInv'
<1> USE DEF PairInv
<1>1. /\ rowLock[l] \notin Pairers
      /\ \E w \in {Pairs!Writer, Pairs!Nobody} : rowLock' = [rowLock EXCEPT ![l] = w]
      /\ UNCHANGED <<leg, present, pair, gone, open, todo, pairSeen, match, passed>>
  BY LegNumbers DEF Pairs!Seize, Pairs!LetGo, Pairs!transactions
<1>2. Pairs!TypeOK'
  BY <1>1 DEF Pairs!TypeOK
<1>3. /\ rowLock'[l] \notin Pairers
      /\ \A k \in Pairs!Legs \ {l} : rowLock'[k] = rowLock[k]
  BY <1>1, LegNumbers, PairTypes
<1>4. \A k \in Pairs!Legs : Pairs!Free(k)' <=> Pairs!Free(k)
  BY <1>1 DEF Pairs!Free
<1>5. ASSUME NEW k \in Pairs!Legs PROVE PairOK(k)' /\ LockOK(k)' /\ MatchOK(k)'
  <2>1. PairOK(k) /\ LockOK(k) /\ MatchOK(k)
    OBVIOUS
  <2>2. PairOK(k)' /\ LockOK(k)'
    BY <1>1, <1>3, <1>4, <2>1 DEF PairOK, LockOK, Confirmed, Pairs!Opposite
  <2>3. match[k] # 0 => match[k] \in Pairs!Legs
    BY PairTypes
  <2>4. MatchOK(k)'
    BY <1>1, <1>3, <2>1, <2>3 DEF MatchOK, Pairs!Opposite
  <2>5. QED  BY <2>2, <2>4
<1>6. ASSUME NEW p \in Pairers PROVE PairerOK(p)'
  <2>1. \A i \in todo[p] : rowLock'[i] = p => rowLock[i] = p
    BY <1>3, LegNumbers, PairTypes
  <2>2. QED  BY <1>1, <2>1 DEF PairerOK
<1>7. ASSUME NEW p \in Pairers, NEW i \in Inflows, NEW x \in Outflows PROVE InflowOK(p, i, x)'
  <2>1. /\ rowLock'[i] = p <=> rowLock[i] = p
        /\ rowLock'[x] = p <=> rowLock[x] = p
        /\ Pairs!Free(x)' <=> Pairs!Free(x)
    BY <1>1, <1>3, <1>4, LegNumbers
  <2>2. InflowOK(p, i, x)
    OBVIOUS
  <2>3. QED  BY <1>1, <2>1, <2>2 DEF InflowOK, Pairs!FitsBetter
<1>8. QED  BY <1>2, <1>5, <1>6, <1>7

\* A leg that no transaction holds is deleted: its partner keeps its pair.
LEMMA DeleteKeeps ==
  ASSUME Pairs!ConstantsOK, PairInv, NEW l \in Pairs!Legs, Pairs!DeleteLeg(l)
  PROVE  PairInv'
<1> USE DEF PairInv
<1>1. /\ rowLock[l] = Pairs!Writer /\ rowLock' = [rowLock EXCEPT ![l] = Pairs!Nobody]
      /\ present' = present \ {l} /\ pair' = [pair EXCEPT ![l] = 0] /\ gone' = gone \cup {l}
      /\ pairSeen' = [p \in Pairers |-> pairSeen[p] \ {l}]
      /\ UNCHANGED <<leg, open, todo, match, passed>>
  BY LegNumbers DEF Pairs!DeleteLeg, Pairs!transactions
<1>2. /\ rowLock[l] \notin Pairers /\ rowLock'[l] \notin Pairers
      /\ \A k \in Pairs!Legs \ {l} : rowLock'[k] = rowLock[k]
  BY <1>1, LegNumbers, PairTypes
<1>3. Pairs!TypeOK'
  BY <1>1, LegNumbers DEF Pairs!TypeOK
<1>4. pair'[l] = 0 /\ \A k \in Pairs!Legs \ {l} : pair'[k] = pair[k]
  BY <1>1, PairTypes
<1>5. \A k \in Pairs!Legs \ {l} : Pairs!Free(k)' <=> Pairs!Free(k)
  BY <1>1, <1>4 DEF Pairs!Free
<1>6. ASSUME NEW k \in Pairs!Legs PROVE PairOK(k)' /\ LockOK(k)' /\ MatchOK(k)'
  <2>1. PairOK(k) /\ LockOK(k) /\ MatchOK(k)
    OBVIOUS
  <2>2. PairOK(k)'
    <3>1. pair[k] # 0 => pair[k] \in Pairs!Legs
      BY PairTypes
    <3>2. QED  BY <1>1, <1>4, <2>1, <3>1 DEF PairOK, Confirmed, Pairs!Opposite
  <2>3. LockOK(k)'
    BY <1>1, <1>2, <1>5, <2>1 DEF LockOK
  <2>4. MatchOK(k)'
    <3>1. match[k] # 0 => match[k] \in Pairs!Legs
      BY PairTypes
    <3>2. QED  BY <1>1, <1>2, <2>1, <3>1 DEF MatchOK, Pairs!Opposite
  <2>5. QED  BY <2>2, <2>3, <2>4
<1>7. ASSUME NEW p \in Pairers PROVE PairerOK(p)' /\ pairSeen'[p] = pairSeen[p] \ {l}
  <2>1. \A i \in todo[p] : rowLock'[i] = p => rowLock[i] = p
    BY <1>2, LegNumbers, PairTypes
  <2>2. QED  BY <1>1, <2>1 DEF PairerOK
<1>8. ASSUME NEW p \in Pairers, NEW i \in Inflows, NEW x \in Outflows PROVE InflowOK(p, i, x)'
  <2>1. x \in pairSeen'[p] => x \in pairSeen[p] /\ (Pairs!Free(x)' <=> Pairs!Free(x))
    BY <1>5, <1>7, LegNumbers
  <2>2. /\ rowLock'[i] = p <=> rowLock[i] = p
        /\ rowLock'[x] = p <=> rowLock[x] = p
    BY <1>2, LegNumbers
  <2>3. InflowOK(p, i, x)
    OBVIOUS
  <2>4. QED  BY <1>1, <2>1, <2>2, <2>3 DEF InflowOK, Pairs!FitsBetter
<1>9. QED  BY <1>3, <1>6, <1>7, <1>8

\* BEGIN: every inflow that can be paired is read.
LEMMA BeginPairingKeeps ==
  ASSUME Pairs!ConstantsOK, PairInv, NEW p \in Pairers, Pairs!BeginPairing(p)
  PROVE  PairInv'
<1> USE DEF PairInv
<1>1. /\ p \notin open /\ open' = open \cup {p}
      /\ todo' = [todo EXCEPT ![p] = Pairs!Unpaired] /\ pairSeen' = [pairSeen EXCEPT ![p] = present]
      /\ UNCHANGED <<leg, present, pair, gone, rowLock, match, passed>>
  BY DEF Pairs!BeginPairing
<1>2. Pairs!TypeOK'
  BY <1>1 DEF Pairs!TypeOK, Pairs!Unpaired
<1>3. \A k \in Pairs!Legs : /\ PairOK(k)' /\ LockOK(k)' /\ MatchOK(k)'
                            /\ Pairs!Free(k)' <=> Pairs!Free(k)
  BY <1>1 DEF PairOK, LockOK, MatchOK, Confirmed, Pairs!Opposite, Pairs!Free
<1>4. /\ todo'[p] = Pairs!Unpaired /\ pairSeen'[p] = present
      /\ \A q \in Pairers \ {p} : todo'[q] = todo[q] /\ pairSeen'[q] = pairSeen[q]
  BY <1>1, PairTypes
<1>5. ASSUME NEW q \in Pairers PROVE PairerOK(q)'
  <2>1. \A i \in Inflows : rowLock[i] # p
    BY <1>1, LegNumbers DEF LockOK
  <2>2. Pairs!Unpaired \subseteq Inflows
    BY DEF Pairs!Unpaired
  <2>3. QED  BY <1>1, <1>4, <2>1, <2>2 DEF PairerOK
<1>6. ASSUME NEW q \in Pairers, NEW i \in Inflows, NEW x \in Outflows PROVE InflowOK(q, i, x)'
  <2>1. CASE q = p
    <3>1. rowLock[i] # p
      BY <1>1, LegNumbers DEF LockOK
    <3>2. QED  BY <1>1, <2>1, <3>1 DEF InflowOK
  <2>2. CASE q # p
    <3>1. InflowOK(q, i, x) /\ (Pairs!Free(x)' <=> Pairs!Free(x))
      BY <1>3, LegNumbers
    <3>2. QED  BY <1>1, <1>4, <2>2, <3>1 DEF InflowOK, Pairs!FitsBetter
  <2>3. QED  BY <2>1, <2>2
<1>7. QED  BY <1>2, <1>3, <1>5, <1>6

\* FOR UPDATE: an inflow is locked that still is free, or dropped.
LEMMA LockInflowKeeps ==
  ASSUME Pairs!ConstantsOK, PairInv, NEW p \in Pairers, NEW j \in Inflows, Pairs!LockInflow(p, j)
  PROVE  PairInv'
<1> USE DEF PairInv
<1>1. /\ j \in todo[p] /\ rowLock[j] = Pairs!Nobody /\ j \in Pairs!Legs
      /\ UNCHANGED <<leg, present, pair, gone, open, pairSeen, match, passed>>
  BY LegNumbers DEF Pairs!LockInflow, Pairs!Oldest
<1>2. \/ Pairs!Free(j) /\ rowLock' = [rowLock EXCEPT ![j] = p] /\ todo' = todo
      \/ rowLock' = rowLock /\ todo' = [todo EXCEPT ![p] = todo[p] \ {j}]
  BY DEF Pairs!LockInflow
<1>3. Pairs!TypeOK'
  BY <1>1, <1>2 DEF Pairs!TypeOK
<1>4. /\ \A k \in Pairs!Legs : rowLock'[k] # rowLock[k] => k = j /\ rowLock'[k] = p /\ Pairs!Free(k)
      /\ \A q \in Pairers : todo'[q] = todo[q] \/ (q = p /\ todo'[p] = todo[p] \ {j} /\ rowLock'[j] # p)
  BY <1>1, <1>2, LegNumbers, PairTypes
<1>5. p \in open /\ match[j] = 0
  BY <1>1, LegNumbers DEF PairerOK, MatchOK
<1>6. \A k \in Pairs!Legs : Pairs!Free(k)' <=> Pairs!Free(k)
  BY <1>1 DEF Pairs!Free
<1>7. ASSUME NEW k \in Pairs!Legs PROVE PairOK(k)' /\ LockOK(k)' /\ MatchOK(k)'
  <2>1. PairOK(k) /\ LockOK(k) /\ MatchOK(k) /\ (match[k] # 0 => match[k] \in Pairs!Legs)
    BY PairTypes
  <2>2. PairOK(k)'
    BY <1>1, <2>1 DEF PairOK, Confirmed, Pairs!Opposite
  <2>3. LockOK(k)'
    BY <1>1, <1>4, <1>5, <1>6, <2>1 DEF LockOK
  <2>4. MatchOK(k)'
    <3>1. match[k] # 0 => k # j /\ match[k] # j
      BY <1>1, <1>5, <2>1, LegNumbers DEF MatchOK
    <3>2. match[k] # 0 => rowLock'[k] = rowLock[k] /\ rowLock'[match[k]] = rowLock[match[k]]
      BY <1>4, <2>1, <3>1
    <3>3. QED  BY <1>1, <2>1, <3>2 DEF MatchOK, Pairs!Opposite
  <2>5. QED  BY <2>2, <2>3, <2>4
<1>8. ASSUME NEW q \in Pairers PROVE PairerOK(q)'
  <2>1. PairerOK(q) /\ todo'[q] \subseteq todo[q] /\ todo[q] \subseteq Pairs!Legs /\ (todo'[q] # todo[q] => q = p)
    BY <1>4, LegNumbers, PairTypes
  <2>2. \A i \in todo'[q] : rowLock'[i] = q => match[i] = 0
    BY <1>4, <1>5, <2>1 DEF PairerOK
  <2>3. QED  BY <1>1, <1>5, <2>1, <2>2 DEF PairerOK
<1>9. ASSUME NEW q \in Pairers, NEW i \in Inflows, NEW x \in Outflows PROVE InflowOK(q, i, x)'
  <2>1. InflowOK(q, i, x) /\ (Pairs!Free(x)' <=> Pairs!Free(x)) /\ rowLock'[x] = rowLock[x]
    BY <1>1, <1>4, <1>6, LegNumbers
  <2>2. CASE rowLock'[i] = q /\ i \notin todo'[q]
    <3>1. i \notin todo[q] /\ rowLock[i] = q
      BY <1>1, <1>2, <1>4, <2>2, LegNumbers, PairTypes
    <3>2. QED  BY <1>1, <2>1, <3>1 DEF InflowOK, Pairs!FitsBetter
  <2>3. CASE ~(rowLock'[i] = q /\ i \notin todo'[q])
    BY <2>3 DEF InflowOK
  <2>4. QED  BY <2>2, <2>3
<1>10. QED  BY <1>3, <1>7, <1>8, <1>9

\* The transaction ends: what it matched is stored, or nothing is.
LEMMA EndKeeps ==
  ASSUME Pairs!ConstantsOK, PairInv, NEW p \in Pairers, Pairs!Commit(p) \/ Pairs!RollBack(p)
  PROVE  PairInv'
<1> USE DEF PairInv
<1>1. /\ open' = open \ {p} /\ UNCHANGED <<leg, present, gone>>
      /\ todo' = [todo EXCEPT ![p] = {}] /\ pairSeen' = [pairSeen EXCEPT ![p] = {}]
      /\ rowLock' = [l \in Pairs!Legs |-> IF l \in {k \in Pairs!Legs : rowLock[k] = p} THEN Pairs!Nobody ELSE rowLock[l]]
      /\ match' = [l \in Pairs!Legs |-> IF l \in {k \in Pairs!Legs : rowLock[k] = p} THEN 0 ELSE match[l]]
      /\ passed' = [i \in Inflows |-> IF i \in {k \in Pairs!Legs : rowLock[k] = p} THEN {} ELSE passed[i]]
      /\ \/ pair' = pair
         \/ pair' = [l \in Pairs!Legs |-> IF rowLock[l] = p /\ match[l] # 0 THEN match[l] ELSE pair[l]]
  BY LegNumbers DEF Pairs!Commit, Pairs!RollBack, Pairs!EndPairing
<1>2. \A l \in Pairs!Legs :
        /\ rowLock[l] = p => rowLock'[l] = Pairs!Nobody /\ match'[l] = 0
        /\ rowLock[l] # p => rowLock'[l] = rowLock[l] /\ match'[l] = match[l] /\ pair'[l] = pair[l]
        /\ pair'[l] = 0 => pair[l] = 0
  BY <1>1, PairTypes
<1>3. /\ todo'[p] = {} /\ pairSeen'[p] = {}
      /\ \A q \in Pairers \ {p} : todo'[q] = todo[q] /\ pairSeen'[q] = pairSeen[q]
  BY <1>1, PairTypes
<1>4. Pairs!TypeOK'
  <2>1. rowLock' \in [Pairs!Legs -> Pairers \cup {Pairs!Writer, Pairs!Nobody}]
    BY <1>1, PairTypes
  <2>2. match' \in [Pairs!Legs -> Pairs!Legs \cup {0}] /\ pair' \in [Pairs!Legs -> Pairs!Legs \cup {0}]
    BY <1>1, PairTypes
  <2>3. /\ passed' \in [Inflows -> SUBSET Outflows] /\ open' \subseteq Pairers
        /\ todo' \in [Pairers -> SUBSET Inflows] /\ pairSeen' \in [Pairers -> SUBSET Pairs!Legs]
    BY <1>1, PairTypes
  <2>4. QED  BY <1>1, <2>1, <2>2, <2>3, LegNumbers DEF Pairs!TypeOK
<1>5. \A k \in Pairs!Legs :
        /\ Pairs!Free(k)' => Pairs!Free(k)
        /\ rowLock[k] # p => (Pairs!Free(k)' <=> Pairs!Free(k))
  BY <1>1, <1>2, LegNumbers DEF Pairs!Free
<1>6. ASSUME NEW k \in Pairs!Legs PROVE PairOK(k)' /\ LockOK(k)' /\ MatchOK(k)'
  <2>1. /\ PairOK(k) /\ LockOK(k) /\ MatchOK(k)
        /\ (match[k] # 0 => match[k] \in Pairs!Legs) /\ (pair[k] # 0 => pair[k] \in Pairs!Legs)
    BY PairTypes
  <2>2. MatchOK(k)'
    BY <1>2, <2>1 DEF MatchOK, Pairs!Opposite
  <2>3. LockOK(k)'
    <3>1. rowLock'[k] \in Pairers => rowLock[k] # p /\ rowLock'[k] = rowLock[k]
      BY <1>2, LegNumbers
    <3>2. QED  BY <1>1, <1>5, <2>1, <3>1 DEF LockOK
  <2>4. PairOK(k)'
    <3>1. CASE pair' = pair
      BY <1>1, <2>1, <3>1 DEF PairOK, Confirmed, Pairs!Opposite
    <3>2. CASE pair' = [l \in Pairs!Legs |-> IF rowLock[l] = p /\ match[l] # 0 THEN match[l] ELSE pair[l]]
      <4>1. \A l \in Pairs!Legs : pair'[l] = IF rowLock[l] = p /\ match[l] # 0 THEN match[l] ELSE pair[l]
        BY <3>2
      <4>2. CASE rowLock[k] = p /\ match[k] # 0
        <5>1. /\ match[k] \in Pairs!Legs /\ match[match[k]] = k /\ k # 0 /\ rowLock[match[k]] = p
              /\ Pairs!Opposite(k, match[k])
          BY <2>1, <4>2, LegNumbers DEF MatchOK
        <5>2. pair'[k] = match[k] /\ pair'[match[k]] = k
          BY <4>1, <4>2, <5>1
        <5>3. Confirmed(k) /\ Confirmed(match[k])
          BY <4>2, <5>1, PairTypes DEF LockOK
        <5>4. QED  BY <1>1, <5>1, <5>2, <5>3 DEF PairOK, Confirmed, Pairs!Opposite
      <4>3. CASE ~(rowLock[k] = p /\ match[k] # 0)
        <5>1. pair'[k] = pair[k]
          BY <4>1, <4>3
        <5>2. pair[k] # 0 /\ pair[pair[k]] = k => pair'[pair[k]] = k
          <6> SUFFICES ASSUME pair[k] # 0, pair[pair[k]] = k PROVE pair'[pair[k]] = k
            OBVIOUS
          <6>1. pair[k] \in Pairs!Legs /\ pair[pair[k]] # 0
            BY <2>1, LegNumbers
          <6>2. rowLock[pair[k]] # p
            BY <6>1, PairTypes DEF LockOK
          <6>3. QED  BY <4>1, <6>1, <6>2
        <5>3. QED  BY <1>1, <2>1, <5>1, <5>2 DEF PairOK, Confirmed, Pairs!Opposite
      <4>4. QED  BY <4>2, <4>3
    <3>3. QED  BY <1>1, <3>1, <3>2
  <2>5. QED  BY <2>2, <2>3, <2>4
<1>7. ASSUME NEW q \in Pairers PROVE PairerOK(q)'
  <2>1. PairerOK(q) /\ todo'[q] \subseteq todo[q] /\ todo[q] \subseteq Pairs!Legs
    BY <1>3, LegNumbers, PairTypes
  <2>2. \A i \in Pairs!Legs : rowLock'[i] = q => match'[i] = match[i] /\ rowLock[i] = q
    BY <1>2, LegNumbers
  <2>3. \A i \in todo'[q] : rowLock'[i] = q => match'[i] = 0
    BY <2>1, <2>2 DEF PairerOK
  <2>4. QED  BY <1>1, <1>3, <2>1, <2>3 DEF PairerOK
<1>8. ASSUME NEW q \in Pairers, NEW i \in Inflows, NEW x \in Outflows PROVE InflowOK(q, i, x)'
  <2>1. CASE rowLock'[i] # q
    BY <2>1 DEF InflowOK
  <2>2. CASE rowLock'[i] = q
    <3>1. rowLock[i] = q /\ q # p /\ match'[i] = match[i] /\ passed'[i] = passed[i]
      BY <1>1, <1>2, <2>2, LegNumbers
    <3>2. Pairs!Free(x)' /\ rowLock'[x] # q => Pairs!Free(x) /\ rowLock[x] # q
      BY <1>2, <1>5, <3>1, LegNumbers
    <3>3. InflowOK(q, i, x)
      OBVIOUS
    <3>4. QED  BY <1>1, <1>3, <3>1, <3>2, <3>3 DEF InflowOK, Pairs!FitsBetter
  <2>3. QED  BY <2>1, <2>2
<1>9. QED  BY <1>4, <1>6, <1>7, <1>8

\* The oldest inflow gets the closest outflow that is free and not locked.
LEMMA MatchNextKeeps ==
  ASSUME Pairs!ConstantsOK, PairInv, NEW p \in Pairers, NEW i \in Inflows, Pairs!MatchNext(p, i)
  PROVE  PairInv'
<1> USE DEF PairInv
<1>1. /\ i \in todo[p] /\ rowLock[i] = p /\ todo' = [todo EXCEPT ![p] = todo[p] \ {i}]
      /\ passed' = [passed EXCEPT ![i] = {o \in Outflows : rowLock[o] \notin {Pairs!Nobody, p}}]
      /\ UNCHANGED <<leg, present, pair, gone, open, pairSeen>>
  BY DEF Pairs!MatchNext, Pairs!Oldest
<1>2. /\ i \in Pairs!Legs /\ i \notin Outflows /\ i # 0 /\ p \in open /\ Pairs!Free(i)
      /\ \A o \in Outflows : o \in Pairs!Legs /\ o \notin Inflows /\ o # 0 /\ o # i
  BY <1>1, LegNumbers DEF LockOK
<1>3. /\ todo'[p] = todo[p] \ {i} /\ \A q \in Pairers \ {p} : todo'[q] = todo[q]
      /\ passed'[i] = {o \in Outflows : rowLock[o] \notin {Pairs!Nobody, p}}
      /\ \A j \in Inflows \ {i} : passed'[j] = passed[j]
  BY <1>1, PairTypes
<1>4. \A k \in Pairs!Legs : Pairs!Free(k)' <=> Pairs!Free(k)
  BY <1>1 DEF Pairs!Free
<1>5. \A k \in Pairs!Legs : PairOK(k)'
  BY <1>1 DEF PairOK, Confirmed, Pairs!Opposite
<1>6. CASE (\A o \in Outflows : ~Pairs!Available(o)) /\ UNCHANGED <<match, rowLock>>
  <2>1. Pairs!TypeOK'
    BY <1>1, <1>6 DEF Pairs!TypeOK
  <2>2. \A k \in Pairs!Legs : LockOK(k)' /\ MatchOK(k)'
    BY <1>1, <1>4, <1>6 DEF LockOK, MatchOK, Pairs!Opposite
  <2>3. ASSUME NEW q \in Pairers, NEW j \in Inflows, NEW x \in Outflows PROVE InflowOK(q, j, x)'
    <3>1. InflowOK(q, j, x) /\ (Pairs!Free(x)' <=> Pairs!Free(x)) /\ ~Pairs!Available(x)
      BY <1>2, <1>4, <1>6
    <3>2. CASE j = i
      <4>1. ~(Pairs!Free(x) /\ rowLock[x] # p /\ x \notin passed'[i])
        BY <1>3, <3>1 DEF Pairs!Available
      <4>2. QED  BY <1>1, <1>6, <3>1, <3>2, <4>1 DEF InflowOK
    <3>3. CASE j # i
      <4>1. j \in todo'[q] <=> j \in todo[q]
        BY <1>3, <3>3
      <4>2. QED  BY <1>1, <1>3, <1>6, <3>1, <3>3, <4>1 DEF InflowOK, Pairs!FitsBetter
    <3>4. QED  BY <3>2, <3>3
  <2>4. ASSUME NEW q \in Pairers PROVE PairerOK(q)'
    BY <1>1, <1>2, <1>3, <1>6 DEF PairerOK
  <2>5. QED  BY <1>5, <2>1, <2>2, <2>3, <2>4
<1>7. ASSUME NEW o \in Outflows, Pairs!Closest(i, o), match' = [match EXCEPT ![i] = o, ![o] = i],
             rowLock' = [rowLock EXCEPT ![o] = p]
      PROVE  PairInv'
  <2>1. Pairs!Free(o) /\ rowLock[o] = Pairs!Nobody /\ match[o] = 0
    <3>1. Pairs!Free(o) /\ rowLock[o] = Pairs!Nobody
      BY <1>7 DEF Pairs!Closest, Pairs!Available
    <3>2. QED  BY <1>2, <3>1, LegNumbers DEF MatchOK
  <2>2. /\ match'[i] = o /\ match'[o] = i /\ \A k \in Pairs!Legs \ {i, o} : match'[k] = match[k]
        /\ rowLock'[o] = p /\ rowLock'[i] = p /\ \A k \in Pairs!Legs \ {o} : rowLock'[k] = rowLock[k]
    BY <1>1, <1>2, <1>7, PairTypes
  <2>3. Pairs!TypeOK'
    BY <1>1, <1>2, <1>7 DEF Pairs!TypeOK
  <2>4. ASSUME NEW k \in Pairs!Legs PROVE LockOK(k)'
    BY <1>1, <1>2, <1>4, <2>1, <2>2 DEF LockOK
  <2>5. ASSUME NEW k \in Pairs!Legs PROVE MatchOK(k)'
    <3>1. CASE k = i \/ k = o
      BY <1>1, <1>2, <2>2, <3>1 DEF MatchOK, Pairs!Opposite
    <3>2. CASE k # i /\ k # o
      <4>1. MatchOK(k) /\ match'[k] = match[k] /\ rowLock'[k] = rowLock[k] /\ k # 0 /\ match[i] = 0
        BY <1>1, <2>2, <3>2, LegNumbers DEF PairerOK
      <4>2. match[k] # 0 => match[k] \in Pairs!Legs \ {i, o}
        BY <2>1, <3>2, <4>1, PairTypes DEF MatchOK
      <4>3. match[k] # 0 => match'[match[k]] = match[match[k]] /\ rowLock'[match[k]] = rowLock[match[k]]
        BY <2>2, <4>2
      <4>4. QED  BY <1>1, <4>1, <4>3 DEF MatchOK, Pairs!Opposite
    <3>3. QED  BY <3>1, <3>2
  <2>6. ASSUME NEW q \in Pairers PROVE PairerOK(q)'
    <3>1. PairerOK(q) /\ todo'[q] \subseteq todo[q] /\ todo[q] \subseteq Inflows /\ (todo'[q] # todo[q] => q = p)
      BY <1>3, PairTypes
    <3>2. ASSUME NEW j \in todo'[q], rowLock'[j] = q PROVE match'[j] = 0
      <4>1. j \in Inflows /\ j \in Pairs!Legs /\ j # o /\ rowLock[j] = q /\ j \in todo[q]
        BY <1>2, <2>2, <3>1, <3>2, LegNumbers
      <4>2. j # i
        BY <1>1, <1>3, <3>2, <4>1
      <4>3. QED  BY <2>2, <3>1, <4>1, <4>2 DEF PairerOK
    <3>3. QED  BY <1>1, <1>2, <3>1, <3>2 DEF PairerOK
  <2>7. ASSUME NEW q \in Pairers, NEW j \in Inflows, NEW x \in Outflows PROVE InflowOK(q, j, x)'
    <3>1. InflowOK(q, j, x) /\ (Pairs!Free(x)' <=> Pairs!Free(x)) /\ x \in Pairs!Legs
      BY <1>2, <1>4
    <3>2. CASE j = i
      <4>1. rowLock'[i] = q /\ Pairs!Free(x) /\ rowLock'[x] # q /\ x \notin passed'[i]
              => x # o /\ Pairs!Available(x)
        BY <1>2, <1>3, <2>2, <3>1 DEF Pairs!Available
      <4>2. x # o /\ Pairs!Available(x) => ~Pairs!FitsBetter(i, x, o)
        BY <1>7, ClosestFits DEF Pairs!Closest
      <4>3. QED  BY <1>1, <1>2, <2>2, <3>1, <3>2, <4>1, <4>2 DEF InflowOK, Pairs!FitsBetter
    <3>3. CASE j # i
      <4>1. /\ j \in todo'[q] <=> j \in todo[q]
            /\ match'[j] = match[j] /\ rowLock'[j] = rowLock[j] /\ passed'[j] = passed[j]
        BY <1>2, <1>3, <2>2, <3>3, LegNumbers
      <4>2. rowLock'[x] # q => rowLock[x] # q
        BY <2>1, <2>2, <3>1, LegNumbers
      <4>3. QED  BY <1>1, <3>1, <4>1, <4>2 DEF InflowOK, Pairs!FitsBetter
    <3>4. QED  BY <3>2, <3>3
  <2>8. QED  BY <1>5, <2>3, <2>4, <2>5, <2>6, <2>7
<1>8. QED  BY <1>6, <1>7 DEF Pairs!MatchNext

\* Every step keeps the invariant.
LEMMA StepPairInv ==
  ASSUME Pairs!ConstantsOK, PairInv, Pairs!Next \/ UNCHANGED pairVars
  PROVE  PairInv'
<1>1. CASE Pairs!Next
  BY <1>1, StoreKeeps, WriterKeeps, DeleteKeeps, BeginPairingKeeps, LockInflowKeeps, EndKeeps,
     MatchNextKeeps, LegNumbers DEF Pairs!Next
<1>2. CASE UNCHANGED pairVars
  <2> USE <1>2 DEF pairVars, PairInv
  <2>1. Pairs!TypeOK'
    BY DEF Pairs!TypeOK
  <2>2. \A l \in Pairs!Legs : PairOK(l)' /\ LockOK(l)' /\ MatchOK(l)'
    BY DEF PairOK, LockOK, MatchOK, Confirmed, Pairs!Opposite, Pairs!Free
  <2>3. (\A p \in Pairers : PairerOK(p)')
        /\ \A p \in Pairers, i \in Inflows, x \in Outflows : InflowOK(p, i, x)'
    BY DEF PairerOK, InflowOK, Pairs!Free, Pairs!FitsBetter
  <2>4. QED  BY <2>1, <2>2, <2>3
<1>3. QED  BY <1>1, <1>2

\* Pairs are mutual and of confirmed legs of opposite directions; and however many
\* transactions pair beside scans and the script, no free outflow fits an inflow
\* better than the one it was given, unless somebody had it locked at its turn.
THEOREM PairsMutualAndStable == Spec => []PairsSound
<1> DEFINE Inv == component = "Pairing" => PairInv
<1>1. Init => Inv
  BY InitPairInv, InitialComponent, ServicesConstants
<1>2. Inv /\ [Next]_vars => Inv'
  BY StepPairInv, ComponentStep, ServicesConstants
<1>3. Inv => PairsSound
  <2> SUFFICES ASSUME PairInv PROVE Pairs!PairsMutual /\ Pairs!MatchStable
    BY DEF PairsSound, Pairs!PairsSound
  <2>1. Pairs!PairsMutual
    BY LegNumbers, ServicesConstants DEF PairInv, PairOK, Confirmed, Pairs!PairsMutual
  <2>2. ASSUME NEW p \in open, NEW i \in Inflows \ todo[p], NEW x \in pairSeen[p] \cap Outflows,
               rowLock[i] = p, Pairs!Free(x), rowLock[x] # p, x \notin passed[i]
        PROVE  match[i] # 0 /\ ~Pairs!FitsBetter(i, x, match[i])
    <3>1. InflowOK(p, i, x)
      BY PairTypes, ServicesConstants DEF PairInv
    <3>2. match[i] # 0 /\ \A o \in Outflows : match[i] = o => ~Pairs!FitsBetter(i, x, o)
      BY <2>2, <3>1 DEF InflowOK
    <3>3. match[i] \in Outflows
      BY <3>2, LegNumbers, ServicesConstants DEF PairInv, MatchOK, Pairs!Opposite
    <3>4. QED  BY <3>2, <3>3
  <2>3. QED  BY <2>1, <2>2, LegNumbers, ServicesConstants DEF Pairs!MatchStable
<1>4. QED  BY <1>1, <1>2, <1>3, PTL DEF Spec

----------------------------------------------------------------------------
(***************************************************************************)
(* Prices.                                                                 *)
(***************************************************************************)
\* The input of a calculation is of its type and stays what it is.
LEMMA Inputs ==
  /\ component = "TokenMovement" /\ Movement!Init => Movement!TypeOK
  /\ component = "TransferQuote" /\ Quote!Init => Quote!TypeOK
  /\ UNCHANGED <<tokenVars, principal>> /\ Movement!TypeOK => Movement!TypeOK'
  /\ UNCHANGED <<tokenVars, principal>> /\ Quote!TypeOK => Quote!TypeOK'
BY DEF Movement!Init, Movement!TypeOK, Quote!Init, Quote!TypeOK, tokenVars

\* The amounts of a quote.
LEMMA PriceTypes ==
  ASSUME Quote!ConstantsOK, Quote!TypeOK
  PROVE  principal \in Nat \ {0} /\ Threshold \in Nat \ {0} /\ Cap \in Nat \ {0}
BY DEF Quote!ConstantsOK, Quote!TypeOK

\* On each side of the threshold a larger amount leaves no less: what the
\* percentage adds is at most what is added to the amount.
LEMMA NetRises ==
  ASSUME Quote!ConstantsOK, NEW g \in Nat, NEW h \in Nat, g <= h, g < Threshold <=> h < Threshold
  PROVE  /\ g - Quote!Fee(g) <= h - Quote!Fee(h)
         /\ Quote!Fee(g) \in Int /\ Quote!Fee(h) \in Int /\ Quote!Fee(h) <= Cap
<1>1. /\ BasisPoints \in Nat /\ FlatFee \in Nat /\ Threshold \in Nat /\ Cap \in Nat
      /\ BasisPoints <= 10000
  BY DEF Quote!ConstantsOK
<1> DEFINE a == g * BasisPoints + 9999
           b == h * BasisPoints + 9999
           flat == IF g < Threshold THEN 0 ELSE FlatFee
<1>2. /\ g * BasisPoints \in Nat /\ h * BasisPoints \in Nat
      /\ h * BasisPoints <= g * BasisPoints + 10000 * (h - g)
  <2> DEFINE k == h - g
  <2>1. k \in Nat /\ h = g + k
    OBVIOUS
  <2>2. k * BasisPoints <= k * 10000 /\ k * BasisPoints \in Nat
    BY <1>1, <2>1
  <2>3. (g + k) * BasisPoints = g * BasisPoints + k * BasisPoints
    BY <1>1, <2>1
  <2>4. g * BasisPoints \in Nat /\ h * BasisPoints \in Nat
    BY <1>1
  <2>5. QED  BY <2>1, <2>2, <2>3, <2>4
<1>3. b \div 10000 <= a \div 10000 + (h - g) /\ a \div 10000 \in Int /\ b \div 10000 \in Int
  BY <1>2
<1>4. flat \in Nat /\ (IF h < Threshold THEN 0 ELSE FlatFee) = flat
  BY <1>1
<1>5. /\ Quote!Fee(g) = Quote!Lesser(a \div 10000 + flat, Cap)
      /\ Quote!Fee(h) = Quote!Lesser(b \div 10000 + flat, Cap)
  BY <1>4 DEF Quote!Fee
<1> HIDE DEF a, b, flat
<1>6. QED  BY <1>1, <1>3, <1>4, <1>5 DEF Quote!Lesser

\* Once an amount of s..e leaves the principal, so do the larger ones.
Rising(s, e) == \A g, h \in s..e : g <= h /\ Quote!Leaves(g) => Quote!Leaves(h)

\* The first amount of l..r that leaves the principal, or r.
IsFirst(l, r, x) ==
  x \in l..r /\ (x = r \/ Quote!Leaves(x)) /\ \A y \in l..(x - 1) : ~Quote!Leaves(y)

\* There is a first amount, and it is unique.
LEMMA FirstExists ==
  ASSUME NEW l \in Nat, NEW r \in Nat, l <= r
  PROVE  /\ \E x \in Nat : IsFirst(l, r, x)
         /\ \A x, y : IsFirst(l, r, x) /\ IsFirst(l, r, y) => x = y
<1> DEFINE S == {x \in l..r : x = r \/ Quote!Leaves(x)}
<1>1. S \in SUBSET Nat /\ r \in S
  OBVIOUS
<1>2. PICK x \in S : \A m \in S : x <= m
  BY <1>1, LeastElement
<1>3. ASSUME NEW y \in l..(x - 1) PROVE ~Quote!Leaves(y)
  BY <1>2, <1>3
<1>4. IsFirst(l, r, x) /\ x \in Nat
  BY <1>2, <1>3 DEF IsFirst
<1>5. ASSUME NEW x1, NEW y1, IsFirst(l, r, x1), IsFirst(l, r, y1) PROVE x1 = y1
  <2>1. x1 \in l..r /\ y1 \in l..r
    BY <1>5 DEF IsFirst
  <2>2. ~(x1 < y1)
    BY <1>5, <2>1 DEF IsFirst
  <2>3. ~(y1 < x1)
    BY <1>5, <2>1 DEF IsFirst
  <2>4. QED  BY <2>1, <2>2, <2>3
<1>6. QED  BY <1>4, <1>5

\* The middle of a band lies in it, and both halves are shorter.
LEMMA Middle ==
  ASSUME NEW l \in Nat, NEW r \in Nat, l < r
  PROVE  LET mid == (l + r) \div 2 IN mid \in Nat /\ l <= mid /\ mid + 1 <= r
OBVIOUS

\* The first amount of the half that the bisection goes on with is the first of
\* the whole.
LEMMA HalfFirst ==
  ASSUME NEW l \in Nat, NEW r \in Nat, NEW m \in Nat, l <= m, m + 1 <= r,
         Rising(l, r), NEW x
  PROVE  /\ Quote!Leaves(m) /\ IsFirst(l, m, x) => IsFirst(l, r, x)
         /\ ~Quote!Leaves(m) /\ IsFirst(m + 1, r, x) => IsFirst(l, r, x)
<1>1. ASSUME Quote!Leaves(m), IsFirst(l, m, x) PROVE IsFirst(l, r, x)
  BY <1>1 DEF IsFirst
<1>2. ASSUME ~Quote!Leaves(m), IsFirst(m + 1, r, x) PROVE IsFirst(l, r, x)
  <2>1. x \in (m + 1)..r /\ (x = r \/ Quote!Leaves(x)) /\ \A y \in (m + 1)..(x - 1) : ~Quote!Leaves(y)
    BY <1>2 DEF IsFirst
  <2>2. ASSUME NEW y \in l..(x - 1) PROVE ~Quote!Leaves(y)
    <3>1. CASE y <= m
      BY <1>2, <2>1, <3>1 DEF Rising
    <3>2. CASE m + 1 <= y
      BY <2>1, <3>2
    <3>3. QED  BY <2>1, <3>1, <3>2
  <2>3. QED  BY <2>1, <2>2 DEF IsFirst
<1>3. QED  BY <1>1, <1>2

Half(b) == (b[1] + b[2]) \div 2

\* f is the table of the bisection.
IsSearch(f, s, e) ==
  f = [b \in (s..e) \X (s..e) |->
         IF b[1] >= b[2] THEN b[1]
         ELSE IF Quote!Leaves(Half(b)) THEN f[<<b[1], Half(b)>>] ELSE f[<<Half(b) + 1, b[2]>>]]

\* Its row of a band with middle m.
RowIs(f, l, r, m) ==
  /\ l >= r => f[<<l, r>>] = l
  /\ l < r /\ Quote!Leaves(m) => f[<<l, r>>] = f[<<l, m>>]
  /\ l < r /\ ~Quote!Leaves(m) => f[<<l, r>>] = f[<<m + 1, r>>]

\* A row of the table that ends the bisection, and one that goes on.
LEMMA SearchRow ==
  ASSUME NEW s \in Nat, NEW e \in Nat, NEW f, IsSearch(f, s, e)
  PROVE  \A l, r \in s..e : \A m : m = (l + r) \div 2 => RowIs(f, l, r, m)
<1> TAKE l, r \in s..e
<1> TAKE m
<1> HAVE m = (l + r) \div 2
<1> DEFINE b == <<l, r>>
<1>1. b \in (s..e) \X (s..e) /\ b[1] = l /\ b[2] = r /\ Half(b) = m
  BY DEF Half
<1>2. f[b] = IF b[1] >= b[2] THEN b[1]
             ELSE IF Quote!Leaves(Half(b)) THEN f[<<b[1], Half(b)>>] ELSE f[<<Half(b) + 1, b[2]>>]
  BY <1>1 DEF IsSearch
<1>3. l \in Int /\ r \in Int /\ (l < r => ~(l >= r))
  OBVIOUS
<1>4. QED  BY <1>1, <1>2, <1>3 DEF RowIs

\* Every table of the bisection holds the first amounts.
LEMMA SearchFinds ==
  ASSUME NEW s \in Nat, NEW e \in Nat, Rising(s, e), NEW f, IsSearch(f, s, e)
  PROVE  \A l, r \in s..e : l <= r => IsFirst(l, r, f[<<l, r>>])
<1> DEFINE Bad == {n \in Nat : \E l, r \in s..e :
                     l <= r /\ n = r - l /\ ~IsFirst(l, r, f[<<l, r>>])}
<1>0. \A l, r \in s..e : \A m : m = (l + r) \div 2 => RowIs(f, l, r, m)
  BY SearchRow
<1>1. SUFFICES ASSUME Bad # {} PROVE FALSE
  <2>1. ASSUME NEW l \in s..e, NEW r \in s..e, l <= r, ~IsFirst(l, r, f[<<l, r>>]) PROVE r - l \in Bad
    <3>1. r - l \in Nat
      BY <2>1
    <3>2. QED  BY <2>1, <3>1
  <2>2. QED  BY <2>1
<1>2. PICK n \in Bad : \A k \in Bad : n <= k
  BY <1>1, LeastElement
<1>3. PICK l \in s..e, r \in s..e : l <= r /\ n = r - l /\ ~IsFirst(l, r, f[<<l, r>>])
  BY <1>2
<1>4. l \in Nat /\ r \in Nat
  OBVIOUS
<1>5. ASSUME NEW i \in s..e, NEW j \in s..e, i <= j, j - i < n PROVE IsFirst(i, j, f[<<i, j>>])
  <2>1. j - i \in Nat /\ ~(n <= j - i)
    BY <1>5
  <2>2. ~(j - i \in Bad)
    BY <1>2, <2>1
  <2>3. QED  BY <1>5, <2>1, <2>2
<1> HIDE DEF Bad
<1>6. CASE l = r
  <2>1. f[<<l, r>>] = l
    <3>1. PICK m : m = (l + r) \div 2
      OBVIOUS
    <3>2. l >= r
      BY <1>4, <1>6
    <3>3. QED  BY <1>0, <3>1, <3>2 DEF RowIs
  <2>2. IsFirst(l, r, l)
    BY <1>4, <1>6 DEF IsFirst
  <2>3. QED  BY <1>3, <2>1, <2>2
<1>7. CASE l < r
  <2>1. PICK m \in Nat : m = (l + r) \div 2 /\ l <= m /\ m + 1 <= r
    BY <1>4, <1>7, Middle
  <2>2. Rising(l, r)
    BY DEF Rising
  <2>3. CASE Quote!Leaves(m)
    <3>1. IsFirst(l, m, f[<<l, m>>])
      BY <1>3, <1>4, <1>5, <2>1
    <3>2. IsFirst(l, r, f[<<l, m>>])
      BY <1>4, <2>1, <2>2, <2>3, <3>1, HalfFirst
    <3>3. f[<<l, r>>] = f[<<l, m>>]
      <4>1. RowIs(f, l, r, m)
        BY <1>0, <2>1
      <4>2. QED  BY <1>7, <2>3, <4>1 DEF RowIs
    <3>4. QED  BY <1>3, <3>2, <3>3
  <2>4. CASE ~Quote!Leaves(m)
    <3>1. IsFirst(m + 1, r, f[<<m + 1, r>>])
      BY <1>3, <1>4, <1>5, <2>1
    <3>2. IsFirst(l, r, f[<<m + 1, r>>])
      BY <1>4, <2>1, <2>2, <2>4, <3>1, HalfFirst
    <3>3. f[<<l, r>>] = f[<<m + 1, r>>]
      <4>1. RowIs(f, l, r, m)
        BY <1>0, <2>1
      <4>2. QED  BY <1>7, <2>4, <4>1 DEF RowIs
    <3>4. QED  BY <1>3, <3>2, <3>3
  <2>5. QED  BY <2>3, <2>4
<1>8. QED  BY <1>3, <1>4, <1>6, <1>7

First(l, r) == CHOOSE x \in Nat : IsFirst(l, r, x)

\* What it is said to be.
LEMMA FirstIs ==
  ASSUME NEW l \in Nat, NEW r \in Nat, l <= r
  PROVE  IsFirst(l, r, First(l, r))
BY FirstExists DEF First

\* The table exists: it is the one of the first amounts.
LEMMA SearchExists ==
  ASSUME NEW s \in Nat, NEW e \in Nat, Rising(s, e)
  PROVE  \E f : IsSearch(f, s, e)
<1> DEFINE S == (s..e) \X (s..e)
           f == [b \in S |-> IF b[1] >= b[2] THEN b[1] ELSE First(b[1], b[2])]
           entry(b) == IF b[1] >= b[2] THEN b[1]
                     ELSE IF Quote!Leaves(Half(b)) THEN f[<<b[1], Half(b)>>] ELSE f[<<Half(b) + 1, b[2]>>]
<1>1. ASSUME NEW l \in s..e, NEW r \in s..e
      PROVE  /\ l >= r => f[<<l, r>>] = l
             /\ l < r => f[<<l, r>>] = First(l, r)
  <2>1. <<l, r>> \in S /\ <<l, r>>[1] = l /\ <<l, r>>[2] = r /\ (l < r => ~(l >= r))
    OBVIOUS
  <2>2. f[<<l, r>>] = IF l >= r THEN l ELSE First(l, r)
    BY <2>1
  <2>3. QED  BY <2>1, <2>2
<1>2. ASSUME NEW l \in s..e, NEW r \in s..e, l <= r PROVE IsFirst(l, r, f[<<l, r>>])
  <2>1. CASE l = r
    BY <1>1, <2>1 DEF IsFirst
  <2>2. CASE l < r
    BY <1>1, <2>2, FirstIs
  <2>3. QED  BY <1>2, <2>1, <2>2
<1> HIDE DEF f
<1>3. ASSUME NEW l \in s..e, NEW r \in s..e, NEW m, m = (l + r) \div 2
      PROVE  RowIs(f, l, r, m)
  <2>1. CASE l >= r
    BY <1>1, <2>1 DEF RowIs
  <2>2. CASE l < r
    <3>1. m \in Nat /\ l <= m /\ m + 1 <= r /\ m \in s..e /\ m + 1 \in s..e
      BY <1>3, <2>2
    <3>2. Rising(l, r)
      BY DEF Rising
    <3>3. IsFirst(l, r, f[<<l, r>>])
      BY <1>2, <2>2
    <3>4. Quote!Leaves(m) => IsFirst(l, r, f[<<l, m>>])
      BY <1>2, <3>1, <3>2, HalfFirst
    <3>5. ~Quote!Leaves(m) => IsFirst(l, r, f[<<m + 1, r>>])
      BY <1>2, <3>1, <3>2, HalfFirst
    <3>6. \A x, y : IsFirst(l, r, x) /\ IsFirst(l, r, y) => x = y
      BY <2>2, FirstExists
    <3>7. QED  BY <2>2, <3>3, <3>4, <3>5, <3>6 DEF RowIs
  <2>3. QED  BY <2>1, <2>2
<1>4. ASSUME NEW b \in S PROVE f[b] = entry(b)
  <2>1. PICK l \in s..e, r \in s..e : b = <<l, r>>
    OBVIOUS
  <2>2. PICK m : m = (l + r) \div 2
    OBVIOUS
  <2>3. b[1] = l /\ b[2] = r /\ Half(b) = m /\ l \in Int /\ r \in Int
    BY <2>1, <2>2 DEF Half
  <2>4. (l < r) = (~(l >= r))
    BY <2>3
  <2>5. QED  BY <1>3, <2>1, <2>2, <2>3, <2>4 DEF RowIs
<1>5. f = [b \in S |-> f[b]]
  BY DEF f
<1>6. f = [b \in S |-> entry(b)]
  BY <1>4, <1>5, Zenon
<1>7. IsSearch(f, s, e)
  BY <1>6 DEF IsSearch
<1>8. QED  BY <1>7

\* What the code computes is the first amount of its band.
LEMMA LeastIsFirst ==
  ASSUME NEW s \in Nat, NEW e \in Nat, s <= e, Rising(s, e)
  PROVE  IsFirst(s, e, Quote!Least(<<s, e>>))
<1> DEFINE search == CHOOSE f : IsSearch(f, s, e)
<1>1. IsSearch(search, s, e)
  BY SearchExists
<1>2. Quote!Least(<<s, e>>) = search[<<s, e>>]
  BY DEF Quote!Least, IsSearch, Half
<1> HIDE DEF search
<1>3. s \in s..e /\ e \in s..e
  OBVIOUS
<1>4. IsFirst(s, e, search[<<s, e>>])
  BY <1>1, <1>3, SearchFinds
<1>5. QED  BY <1>2, <1>4

\* Within a band amounts rise, and its upper end is the principal and a cap or
\* the last below the threshold.
LEMMA BandsRise ==
  ASSUME Quote!ConstantsOK, Quote!TypeOK, NEW b \in Quote!Bands
  PROVE  b = <<b[1], b[2]>> /\ b[1] \in Nat /\ b[2] \in Int /\ Rising(b[1], b[2])
<1>1. principal \in Nat \ {0} /\ Threshold \in Nat \ {0} /\ Cap \in Nat \ {0}
  BY PriceTypes
<1>2. /\ b = <<b[1], b[2]>> /\ b[1] \in Nat /\ b[2] \in Int
      /\ b[2] < Threshold \/ b[1] >= Threshold
  BY <1>1 DEF Quote!Bands, Quote!Lesser, Quote!Greater
<1>3. ASSUME NEW g \in b[1]..b[2], NEW h \in b[1]..b[2], g <= h, Quote!Leaves(g) PROVE Quote!Leaves(h)
  <2>1. g \in Nat /\ h \in Nat /\ (g < Threshold <=> h < Threshold)
    BY <1>1, <1>2
  <2>2. g - Quote!Fee(g) <= h - Quote!Fee(h) /\ Quote!Fee(g) \in Int /\ Quote!Fee(h) \in Int
    BY <1>3, <2>1, NetRises
  <2>3. QED  BY <1>1, <1>3, <2>1, <2>2 DEF Quote!Leaves
<1>4. QED  BY <1>2, <1>3 DEF Rising

\* With the cap on top of the principal, enough is left.
LEMMA CapSuffices ==
  ASSUME Quote!ConstantsOK, Quote!TypeOK
  PROVE  Quote!Leaves(principal + Cap)
<1>1. principal \in Nat /\ Cap \in Nat
  BY PriceTypes
<1>2. Quote!Fee(principal + Cap) \in Int /\ Quote!Fee(principal + Cap) <= Cap
  BY <1>1, NetRises
<1>3. QED  BY <1>1, <1>2 DEF Quote!Leaves

\* The amounts between the principal and the cap on top of it are in the bands.
LEMMA InSomeBand ==
  ASSUME Quote!ConstantsOK, Quote!TypeOK, NEW g \in principal..(principal + Cap)
  PROVE  \E b \in Quote!Bands : g \in b[1]..b[2] /\ b[1] \in Nat /\ b[2] \in Nat
<1>1. principal \in Nat \ {0} /\ Threshold \in Nat \ {0} /\ Cap \in Nat \ {0}
  BY PriceTypes
<1> DEFINE low == <<principal, Quote!Lesser(principal + Cap, Threshold - 1)>>
           up == <<Quote!Greater(principal, Threshold), principal + Cap>>
<1>2. low \in Quote!Bands /\ up \in Quote!Bands
  BY DEF Quote!Bands
<1>3. CASE g < Threshold
  <2>1. g \in low[1]..low[2] /\ low[1] \in Nat /\ low[2] \in Nat
    BY <1>1, <1>3 DEF Quote!Lesser
  <2>2. QED  BY <1>2, <2>1
<1>4. CASE g >= Threshold
  <2>1. g \in up[1]..up[2] /\ up[1] \in Nat /\ up[2] \in Nat
    BY <1>1, <1>4 DEF Quote!Greater
  <2>2. QED  BY <1>2, <2>1
<1>5. QED  BY <1>1, <1>3, <1>4

\* An amount that suffices has a candidate at or below it.
LEMMA CandidateBelow ==
  ASSUME Quote!ConstantsOK, Quote!TypeOK, NEW g \in principal..(principal + Cap), Quote!Leaves(g)
  PROVE  \E c \in Quote!Candidates : c <= g
<1>1. PICK b \in Quote!Bands : g \in b[1]..b[2] /\ b[1] \in Nat /\ b[2] \in Nat
  BY InSomeBand
<1>2. b = <<b[1], b[2]>> /\ Rising(b[1], b[2])
  BY BandsRise
<1>3. b[1] <= b[2] /\ b[2] \in b[1]..b[2] /\ g <= b[2]
  BY <1>1
<1>4. Quote!Leaves(b[2])
  BY <1>1, <1>2, <1>3 DEF Rising
<1>5. Quote!Least(b) \in Quote!Candidates
  BY <1>3, <1>4 DEF Quote!Candidates
<1>6. IsFirst(b[1], b[2], Quote!Least(b))
  BY <1>1, <1>2, <1>3, LeastIsFirst
<1>7. Quote!Least(b) <= g
  BY <1>1, <1>6 DEF IsFirst
<1>8. QED  BY <1>5, <1>7

\* A candidate is an amount that suffices.
LEMMA CandidateSuffices ==
  ASSUME Quote!ConstantsOK, Quote!TypeOK, NEW c \in Quote!Candidates
  PROVE  c \in Nat /\ c <= principal + Cap /\ Quote!Leaves(c)
<1>1. PICK b \in Quote!Bands : b[1] <= b[2] /\ Quote!Leaves(b[2]) /\ c = Quote!Least(b)
  BY DEF Quote!Candidates
<1>2. b = <<b[1], b[2]>> /\ b[1] \in Nat /\ b[2] \in Int /\ Rising(b[1], b[2])
  BY BandsRise
<1>3. b[2] \in Nat
  BY <1>1, <1>2
<1>4. IsFirst(b[1], b[2], c)
  BY <1>1, <1>2, <1>3, LeastIsFirst
<1>5. c \in b[1]..b[2] /\ Quote!Leaves(c)
  BY <1>1, <1>4 DEF IsFirst
<1>6. principal \in Nat \ {0} /\ Threshold \in Nat \ {0} /\ Cap \in Nat \ {0}
  BY PriceTypes
<1>7. b[2] <= principal + Cap
  BY <1>6 DEF Quote!Bands, Quote!Lesser
<1>8. QED  BY <1>2, <1>3, <1>5, <1>6, <1>7

\* The price is the least amount that leaves the principal.
LEMMA PriceIsLeast ==
  ASSUME Quote!ConstantsOK, Quote!TypeOK
  PROVE  Quote!SmallestGross
<1>1. principal \in Nat \ {0} /\ Cap \in Nat \ {0}
  BY PriceTypes
<1>2. \E c \in Quote!Candidates : c <= principal + Cap
  BY <1>1, CapSuffices, CandidateBelow
<1>3. Quote!Candidates \in SUBSET Nat /\ Quote!Candidates # {}
  BY <1>2, CandidateSuffices
<1>4. \E x \in Quote!Candidates : \A y \in Quote!Candidates : x <= y
  BY <1>3, LeastElement
<1>5. Quote!Gross \in Quote!Candidates /\ \A y \in Quote!Candidates : Quote!Gross <= y
  BY <1>4 DEF Quote!Gross, Quote!Min
<1>6. Quote!Gross \in Nat /\ Quote!Gross <= principal + Cap /\ Quote!Leaves(Quote!Gross)
  BY <1>5, CandidateSuffices
<1>7. ASSUME NEW g \in principal..(Quote!Gross - 1), Quote!Leaves(g) PROVE FALSE
  <2>1. g \in principal..(principal + Cap) /\ g < Quote!Gross
    BY <1>1, <1>6
  <2>2. PICK c \in Quote!Candidates : c <= g
    BY <1>7, <2>1, CandidateBelow
  <2>3. Quote!Gross <= c /\ c \in Nat
    BY <1>5, CandidateSuffices
  <2>4. QED  BY <1>1, <1>6, <2>1, <2>2, <2>3
<1>8. QED  BY <1>3, <1>6, <1>7 DEF Quote!SmallestGross

\* A deposit is priced at the least amount that leaves its principal, on either
\* side of the threshold and of the cap.
THEOREM PricesAreLeast == Spec => []SmallestGross
<1> DEFINE Inv == component = "TransferQuote" => Quote!TypeOK
<1>1. Init => Inv
  BY InitialComponent, Inputs
<1>2. Inv /\ [Next]_vars => Inv'
  BY ComponentStep, Inputs
<1>3. Inv => SmallestGross
  BY ServicesConstants, PriceIsLeast DEF SmallestGross
<1>4. QED  BY <1>1, <1>2, <1>3, PTL DEF Spec

----------------------------------------------------------------------------
(***************************************************************************)
(* Movements.                                                              *)
(***************************************************************************)
\* The sums and the finiteness that the instance speaks of are the library's.
LEMMA SameSums ==
  /\ \A f, S : Movement!SumFunctionOnSet(f, S) = SumFunctionOnSet(f, S)
  /\ \A S : Movement!IsFiniteSet(S) = IsFiniteSet(S)
<1>1. \A f, S : Movement!SumFunctionOnSet(f, S) = SumFunctionOnSet(f, S)
  BY DEF Movement!SumFunctionOnSet, Movement!FoldFunctionOnSet, Movement!MapThenFoldSet,
     SumFunctionOnSet, FoldFunctionOnSet, MapThenFoldSet
<1>2. \A S : Movement!IsFiniteSet(S) = IsFiniteSet(S)
  BY DEF Movement!IsFiniteSet, IsFiniteSet
<1>3. QED  BY <1>1, <1>2

\* g has the first rows of the table of powers.
Powers(g, n) == g = [k \in 0..n |-> IF k = 0 THEN 1 ELSE 10 * g[k - 1]]

\* A row of such a table.
LEMMA PowersRow ==
  ASSUME NEW n \in Nat, NEW g, Powers(g, n), NEW k \in 0..n
  PROVE  g[k] = IF k = 0 THEN 1 ELSE 10 * g[k - 1]
BY DEF Powers

\* There is a table with any number of rows.
LEMMA PowersExist == \A n \in Nat : \E g : Powers(g, n)
<1> DEFINE Missing == {n \in Nat : ~ \E g : Powers(g, n)}
<1>1. \E g : Powers(g, 0)
  <2> DEFINE g == [k \in 0..0 |-> 1]
  <2>1. g = [k \in 0..0 |-> IF k = 0 THEN 1 ELSE 10 * g[k - 1]]
    OBVIOUS
  <2>2. QED  BY <2>1 DEF Powers
<1>2. ASSUME NEW n \in Nat, NEW h, Powers(h, n) PROVE \E g : Powers(g, n + 1)
  <2> DEFINE g == [k \in 0..(n + 1) |-> IF k = 0 THEN 1 ELSE 10 * h[k - 1]]
  <2>1. \A k \in 0..n : g[k] = h[k]
    BY <1>2, PowersRow
  <2>2. \A k \in 0..(n + 1) : k # 0 => g[k - 1] = h[k - 1]
    BY <2>1
  <2>3. g = [k \in 0..(n + 1) |-> IF k = 0 THEN 1 ELSE 10 * g[k - 1]]
    BY <2>2
  <2> HIDE DEF g
  <2>4. QED  BY <2>3 DEF Powers
<1>3. SUFFICES ASSUME Missing # {} PROVE FALSE
  OBVIOUS
<1>4. PICK n \in Missing : \A m \in Missing : n <= m
  BY <1>3, LeastElement
<1>5. n # 0
  BY <1>1
<1>6. n - 1 \in Nat /\ n - 1 \notin Missing
  BY <1>4, <1>5
<1>7. PICK h : Powers(h, n - 1)
  BY <1>6
<1>8. \E g : Powers(g, (n - 1) + 1)
  BY <1>2, <1>6, <1>7
<1>9. (n - 1) + 1 = n
  BY <1>4
<1>10. QED  BY <1>8, <1>9

\* Two tables agree on the rows both have.
LEMMA PowersAgree ==
  ASSUME NEW m \in Nat, NEW n \in Nat, m <= n, NEW g, Powers(g, m), NEW h, Powers(h, n)
  PROVE  \A k \in 0..m : g[k] = h[k]
<1> DEFINE Bad == {k \in 0..m : g[k] # h[k]}
<1>1. SUFFICES ASSUME Bad # {} PROVE FALSE
  OBVIOUS
<1>2. Bad \in SUBSET Nat
  OBVIOUS
<1>3. PICK k \in Bad : \A j \in Bad : k <= j
  BY <1>1, <1>2, LeastElement
<1>4. k \in 0..m /\ k \in 0..n /\ g[k] # h[k]
  BY <1>3
<1>5. /\ g[k] = IF k = 0 THEN 1 ELSE 10 * g[k - 1]
      /\ h[k] = IF k = 0 THEN 1 ELSE 10 * h[k - 1]
  BY <1>4, PowersRow
<1>6. k # 0
  BY <1>4, <1>5
<1>7. k - 1 \in 0..m /\ ~(k <= k - 1)
  BY <1>4, <1>6
<1>8. g[k - 1] = h[k - 1]
  BY <1>3, <1>7
<1>9. QED  BY <1>4, <1>5, <1>6, <1>8

\* The powers of ten are what their definition says.
LEMMA TenRows == Movement!Ten[0] = 1 /\ \A n \in Nat : Movement!Ten[n + 1] = 10 * Movement!Ten[n]
<1> DEFINE Table(n) == CHOOSE g : Powers(g, n)
           p == [n \in Nat |-> Table(n)[n]]
<1>1. \A n \in Nat : Powers(Table(n), n)
  BY PowersExist
<1> HIDE DEF Table
<1>2. ASSUME NEW n \in Nat PROVE p[n] = IF n = 0 THEN 1 ELSE 10 * p[n - 1]
  <2>1. p[n] = Table(n)[n] /\ n \in 0..n
    OBVIOUS
  <2>2. Table(n)[n] = IF n = 0 THEN 1 ELSE 10 * Table(n)[n - 1]
    BY <1>1, <2>1, PowersRow
  <2>3. CASE n = 0
    BY <2>1, <2>2, <2>3
  <2>4. CASE n # 0
    <3>1. n - 1 \in Nat /\ n - 1 <= n /\ n - 1 \in 0..(n - 1)
      BY <2>4
    <3>2. Table(n - 1)[n - 1] = Table(n)[n - 1]
      BY <1>1, <3>1, PowersAgree
    <3>3. p[n - 1] = Table(n - 1)[n - 1]
      BY <3>1
    <3>4. QED  BY <2>1, <2>2, <2>4, <3>2, <3>3
  <2>5. QED  BY <2>3, <2>4
<1>3. p = [n \in Nat |-> IF n = 0 THEN 1 ELSE 10 * p[n - 1]]
  <2>1. p = [n \in Nat |-> p[n]]
    OBVIOUS
  <2> HIDE DEF p
  <2>2. QED  BY <1>2, <2>1
<1> HIDE DEF p
<1>4. \E f : f = [n \in Nat |-> IF n = 0 THEN 1 ELSE 10 * f[n - 1]]
  BY <1>3
<1>5. Movement!Ten = [n \in Nat |-> IF n = 0 THEN 1 ELSE 10 * Movement!Ten[n - 1]]
  BY <1>4 DEF Movement!Ten
<1>6. ASSUME NEW n \in Nat PROVE Movement!Ten[n + 1] = 10 * Movement!Ten[n]
  <2>1. n + 1 \in Nat /\ n + 1 # 0 /\ (n + 1) - 1 = n
    OBVIOUS
  <2>2. Movement!Ten[n + 1] = IF n + 1 = 0 THEN 1 ELSE 10 * Movement!Ten[(n + 1) - 1]
    BY <1>5, <2>1
  <2>3. QED  BY <2>1, <2>2
<1>7. Movement!Ten[0] = 1
  BY <1>5
<1>8. QED  BY <1>6, <1>7

\* They are positive.
LEMMA TenPositive == \A n \in Nat : Movement!Ten[n] \in Nat \ {0}
<1> DEFINE Bad == {n \in Nat : Movement!Ten[n] \notin Nat \ {0}}
<1>1. SUFFICES ASSUME Bad # {} PROVE FALSE
  OBVIOUS
<1>2. PICK n \in Bad : \A m \in Bad : n <= m
  BY <1>1, LeastElement
<1>3. n # 0
  BY TenRows
<1>4. n - 1 \in Nat /\ n - 1 \notin Bad /\ (n - 1) + 1 = n
  BY <1>2, <1>3
<1>5. Movement!Ten[n - 1] \in Nat \ {0}
  BY <1>4
<1>6. Movement!Ten[n] = 10 * Movement!Ten[n - 1]
  BY <1>4, TenRows
<1>7. QED  BY <1>2, <1>5, <1>6

\* Exponents add.
LEMMA TenAdds == \A m, n \in Nat : Movement!Ten[m + n] = Movement!Ten[m] * Movement!Ten[n]
<1> SUFFICES ASSUME NEW m \in Nat PROVE \A n \in Nat : Movement!Ten[m + n] = Movement!Ten[m] * Movement!Ten[n]
  OBVIOUS
<1> DEFINE Bad == {n \in Nat : Movement!Ten[m + n] # Movement!Ten[m] * Movement!Ten[n]}
<1>1. SUFFICES ASSUME Bad # {} PROVE FALSE
  OBVIOUS
<1>2. PICK n \in Bad : \A k \in Bad : n <= k
  BY <1>1, LeastElement
<1>3. n # 0
  <2>1. Movement!Ten[m] \in Nat /\ m + 0 = m
    BY TenPositive
  <2>2. Movement!Ten[m + 0] = Movement!Ten[m] * Movement!Ten[0]
    BY <2>1, TenRows
  <2>3. QED  BY <2>2
<1>4. n - 1 \in Nat /\ n - 1 \notin Bad /\ (n - 1) + 1 = n
  BY <1>2, <1>3
<1>5. Movement!Ten[m + (n - 1)] = Movement!Ten[m] * Movement!Ten[n - 1]
  BY <1>4
<1>6. Movement!Ten[n] = 10 * Movement!Ten[n - 1]
  BY <1>4, TenRows
<1>7. Movement!Ten[m + n] = 10 * Movement!Ten[m + (n - 1)]
  <2>1. m + (n - 1) \in Nat /\ (m + (n - 1)) + 1 = m + n
    BY <1>4
  <2>2. QED  BY <2>1, TenRows
<1>8. \A a, b \in Nat : 10 * (a * b) = a * (10 * b)
  OBVIOUS
<1>9. Movement!Ten[m] \in Nat /\ Movement!Ten[n - 1] \in Nat
  BY <1>4, TenPositive
<1>10. Movement!Ten[m + n] = Movement!Ten[m] * Movement!Ten[n]
  BY <1>5, <1>6, <1>7, <1>8, <1>9
<1>11. QED  BY <1>2, <1>10

\* A multiple is divided without remainder.
LEMMA Multiple ==
  ASSUME NEW q \in Nat, NEW m \in Nat \ {0}
  PROVE  (q * m) % m = 0 /\ (q * m) \div m = q
<1> DEFINE a == q * m
           d == a \div m
           r == a % m
<1>1. a \in Nat
  OBVIOUS
<1>2. d \in Nat /\ r \in Nat /\ r < m /\ a = m * d + r
  BY <1>1
<1>3. m * d \in Nat /\ m * q \in Nat /\ m * q = m * d + r
  BY <1>2
<1> HIDE DEF a, d, r
<1>4. ~(q >= d + 1)
  <2>1. q >= d + 1 => m * q >= m * (d + 1)
    BY <1>2
  <2>2. m * (d + 1) = m * d + m
    BY <1>2
  <2>3. QED  BY <1>2, <1>3, <2>1, <2>2
<1>5. ~(d >= q + 1)
  <2>1. d >= q + 1 => m * d >= m * (q + 1)
    BY <1>2
  <2>2. m * (q + 1) = m * q + m
    OBVIOUS
  <2>3. QED  BY <1>2, <1>3, <2>1, <2>2
<1>6. d = q
  BY <1>2, <1>4, <1>5
<1>7. r = 0
  BY <1>2, <1>3, <1>6
<1>8. QED  BY <1>6, <1>7 DEF a, d, r

\* What is divided without remainder is a multiple.
LEMMA Quotient ==
  ASSUME NEW i \in Nat, NEW m \in Nat \ {0}
  PROVE  i \div m \in Nat /\ (i % m = 0 => i = (i \div m) * m)
<1> DEFINE d == i \div m
           r == i % m
<1>1. d \in Nat /\ r \in Nat /\ i = m * d + r
  OBVIOUS
<1> HIDE DEF d, r
<1>2. m * d = d * m
  BY <1>1
<1>3. r = 0 => i = d * m
  BY <1>1, <1>2
<1>4. QED  BY <1>1, <1>3 DEF d, r

\* z zeros of the integer i go, of s digits after the point.
IsZeros(i, s, z) == z \in 0..s /\ i % Movement!Ten[z] = 0 /\ (z = s \/ i % Movement!Ten[z + 1] # 0)

\* A larger power of ten is a multiple of a smaller one.
LEMMA TenDivides ==
  ASSUME NEW i \in Nat, NEW y \in Nat, NEW z \in Nat, y <= z, i % Movement!Ten[z] = 0
  PROVE  i % Movement!Ten[y] = 0
<1>1. Movement!Ten[y] \in Nat \ {0} /\ Movement!Ten[z] \in Nat \ {0}
  BY TenPositive
<1>2. PICK q \in Nat : i = q * Movement!Ten[z]
  BY <1>1, Quotient
<1>3. z - y \in Nat /\ Movement!Ten[z - y] \in Nat
  BY TenPositive
<1>4. Movement!Ten[z] = Movement!Ten[z - y] * Movement!Ten[y]
  <2>1. z = (z - y) + y
    OBVIOUS
  <2>2. Movement!Ten[(z - y) + y] = Movement!Ten[z - y] * Movement!Ten[y]
    BY <1>3, TenAdds
  <2>3. QED  BY <2>1, <2>2
<1>5. \A a, b, c \in Nat : a * (b * c) = (a * b) * c /\ a * b \in Nat
  OBVIOUS
<1>6. i = (q * Movement!Ten[z - y]) * Movement!Ten[y] /\ q * Movement!Ten[z - y] \in Nat
  BY <1>1, <1>2, <1>3, <1>4, <1>5
<1>7. QED  BY <1>1, <1>6, Multiple

\* There is a number of zeros to drop, and only one.
LEMMA ZerosExist ==
  ASSUME NEW i \in Nat, NEW s \in Nat
  PROVE  /\ \E z \in 0..s : IsZeros(i, s, z)
         /\ \A y, z : IsZeros(i, s, y) /\ IsZeros(i, s, z) => y = z
<1> DEFINE Ends == {z \in 0..s : z = s \/ i % Movement!Ten[z + 1] # 0}
<1>1. Ends \in SUBSET Nat /\ s \in Ends
  OBVIOUS
<1>2. PICK z \in Ends : \A y \in Ends : z <= y
  BY <1>1, LeastElement
<1>3. i % Movement!Ten[z] = 0
  <2>1. CASE z = 0
    <3>1. Movement!Ten[z] = 1
      BY <2>1, TenRows
    <3>2. i % 1 = 0
      OBVIOUS
    <3>3. QED  BY <3>1, <3>2
  <2>2. CASE z # 0
    <3>1. z - 1 \in 0..s /\ z - 1 # s /\ ~(z <= z - 1) /\ (z - 1) + 1 = z
      BY <1>2, <2>2
    <3>2. z - 1 \notin Ends
      BY <1>2, <3>1
    <3>3. QED  BY <3>1, <3>2
  <2>3. QED  BY <2>1, <2>2
<1>4. IsZeros(i, s, z) /\ z \in 0..s
  BY <1>2, <1>3 DEF IsZeros
<1>5. ASSUME NEW x, NEW y, IsZeros(i, s, x), IsZeros(i, s, y), x < y PROVE FALSE
  <2>1. x \in 0..s /\ y \in 0..s /\ i % Movement!Ten[y] = 0 /\ (x = s \/ i % Movement!Ten[x + 1] # 0)
    BY <1>5 DEF IsZeros
  <2>2. x + 1 \in Nat /\ y \in Nat /\ x + 1 <= y /\ x # s
    BY <1>5, <2>1
  <2>3. i % Movement!Ten[x + 1] = 0
    BY <2>1, <2>2, TenDivides
  <2>4. QED  BY <2>1, <2>2, <2>3
<1>6. ASSUME NEW x, NEW y, IsZeros(i, s, x), IsZeros(i, s, y) PROVE x = y
  <2>1. x \in Nat /\ y \in Nat
    BY <1>6 DEF IsZeros
  <2>2. ~(x < y) /\ ~(y < x)
    BY <1>5, <1>6
  <2>3. QED  BY <2>1, <2>2
<1>7. QED  BY <1>4, <1>6

\* That number is the one the definition chooses.
LEMMA TrimmedIs ==
  ASSUME NEW i \in Nat, NEW s \in Nat, NEW z, IsZeros(i, s, z)
  PROVE  Movement!Trimmed(i, s) = [integer |-> i \div Movement!Ten[z], scale |-> s - z]
<1> DEFINE zeros == CHOOSE x \in 0..s : i % Movement!Ten[x] = 0 /\ (x = s \/ i % Movement!Ten[x + 1] # 0)
<1>1. z \in 0..s /\ i % Movement!Ten[z] = 0 /\ (z = s \/ i % Movement!Ten[z + 1] # 0)
  BY DEF IsZeros
<1>2. zeros \in 0..s /\ i % Movement!Ten[zeros] = 0 /\ (zeros = s \/ i % Movement!Ten[zeros + 1] # 0)
  BY <1>1
<1>3. Movement!Trimmed(i, s) = [integer |-> i \div Movement!Ten[zeros], scale |-> s - zeros]
  BY DEF Movement!Trimmed, Movement!Decimal
<1> HIDE DEF zeros
<1>4. IsZeros(i, s, zeros)
  BY <1>2 DEF IsZeros
<1>5. zeros = z
  BY <1>4, ZerosExist
<1>6. QED  BY <1>3, <1>5

\* Trimming rounds nothing, and leaves no zero to trim.
LEMMA TrimmedExact ==
  ASSUME NEW i \in Nat, NEW s \in Nat
  PROVE  LET d == Movement!Trimmed(i, s)
         IN /\ d.integer \in Nat /\ d.scale \in 0..s
            /\ d.integer * Movement!Ten[s - d.scale] = i
            /\ Movement!Canonical(d)
<1>1. PICK z \in 0..s : IsZeros(i, s, z)
  BY ZerosExist
<1> DEFINE n == i \div Movement!Ten[z]
<1>2. Movement!Trimmed(i, s) = [integer |-> n, scale |-> s - z]
  BY <1>1, TrimmedIs
<1>3. z \in Nat /\ z + 1 \in Nat /\ s - z \in 0..s /\ s - (s - z) = z
  OBVIOUS
<1>4. /\ Movement!Ten[z] \in Nat \ {0} /\ Movement!Ten[z + 1] \in Nat \ {0}
      /\ Movement!Ten[z + 1] = 10 * Movement!Ten[z]
  BY <1>3, TenPositive, TenRows
<1>5. i % Movement!Ten[z] = 0 /\ (z = s \/ i % Movement!Ten[z + 1] # 0)
  BY <1>1 DEF IsZeros
<1>6. n \in Nat /\ i = n * Movement!Ten[z]
  BY <1>4, <1>5, Quotient
<1> HIDE DEF n
<1>7. ASSUME n % 10 = 0 PROVE s - z = 0
  <2>1. PICK q \in Nat : n = q * 10
    <3>1. n \div 10 \in Nat /\ n = (n \div 10) * 10
      BY <1>6, <1>7
    <3>2. QED  BY <3>1
  <2>2. \A a, b \in Nat : (a * 10) * b = a * (10 * b)
    OBVIOUS
  <2>3. i = q * Movement!Ten[z + 1]
    BY <1>4, <1>6, <2>1, <2>2
  <2>4. i % Movement!Ten[z + 1] = 0
    BY <1>4, <2>3, Multiple
  <2>5. QED  BY <1>3, <1>5, <2>4
<1>8. Movement!Canonical(Movement!Trimmed(i, s))
  BY <1>2, <1>7 DEF Movement!Canonical
<1>9. /\ Movement!Trimmed(i, s).integer = n /\ Movement!Trimmed(i, s).scale = s - z
  BY <1>2
<1>10. QED  BY <1>3, <1>6, <1>8, <1>9

\* Zeros appended to the integer and to the fraction are trimmed again.
LEMMA TrimmedShift ==
  ASSUME NEW i \in Nat, NEW s \in Nat, NEW k \in Nat
  PROVE  Movement!Trimmed(i * Movement!Ten[k], s + k) = Movement!Trimmed(i, s)
<1>1. PICK z \in 0..s : IsZeros(i, s, z)
  BY ZerosExist
<1> DEFINE n == i \div Movement!Ten[z]
           j == i * Movement!Ten[k]
<1>2. z \in Nat /\ z + 1 \in Nat /\ z + k \in Nat /\ (s + k) - (z + k) = s - z /\ z + k \in 0..(s + k)
  OBVIOUS
<1>3. /\ Movement!Ten[z] \in Nat \ {0} /\ Movement!Ten[z + 1] \in Nat \ {0} /\ Movement!Ten[k] \in Nat \ {0}
      /\ Movement!Ten[z + k] \in Nat \ {0} /\ Movement!Ten[z + k] = Movement!Ten[z] * Movement!Ten[k]
      /\ Movement!Ten[(z + 1) + k] \in Nat \ {0}
      /\ Movement!Ten[(z + 1) + k] = Movement!Ten[z + 1] * Movement!Ten[k]
  <2>1. (z + 1) + k \in Nat
    OBVIOUS
  <2>2. /\ Movement!Ten[z + k] = Movement!Ten[z] * Movement!Ten[k]
        /\ Movement!Ten[(z + 1) + k] = Movement!Ten[z + 1] * Movement!Ten[k]
    BY <1>2, TenAdds
  <2>3. /\ Movement!Ten[z] \in Nat \ {0} /\ Movement!Ten[z + 1] \in Nat \ {0} /\ Movement!Ten[k] \in Nat \ {0}
        /\ Movement!Ten[z + k] \in Nat \ {0} /\ Movement!Ten[(z + 1) + k] \in Nat \ {0}
    BY <1>2, <2>1, TenPositive
  <2>4. QED  BY <2>2, <2>3
<1>4. i % Movement!Ten[z] = 0 /\ (z = s \/ i % Movement!Ten[z + 1] # 0)
  BY <1>1 DEF IsZeros
<1>5. n \in Nat /\ i = n * Movement!Ten[z]
  BY <1>3, <1>4, Quotient
<1>6. j \in Nat
  BY <1>3
<1>7. Movement!Trimmed(i, s) = [integer |-> n, scale |-> s - z]
  BY <1>1, TrimmedIs
<1> HIDE DEF n
<1>8. \A a, b, c \in Nat : (a * b) * c = a * (b * c)
  OBVIOUS
<1>9. j = n * Movement!Ten[z + k]
  BY <1>3, <1>5, <1>8
<1>10. j % Movement!Ten[z + k] = 0 /\ j \div Movement!Ten[z + k] = n
  BY <1>3, <1>5, <1>9, Multiple
<1>11. ASSUME j % Movement!Ten[(z + 1) + k] = 0 PROVE z = s
  <2>1. PICK q \in Nat : j = q * Movement!Ten[(z + 1) + k]
    <3> HIDE DEF j
    <3>1. QED  BY <1>3, <1>6, <1>11, Quotient
  <2>2. i * Movement!Ten[k] = (q * Movement!Ten[z + 1]) * Movement!Ten[k] /\ q * Movement!Ten[z + 1] \in Nat
    BY <1>3, <1>8, <2>1
  <2>3. \A a, b \in Nat, c \in Nat \ {0} : a * c = b * c => a = b
    OBVIOUS
  <2>4. i = q * Movement!Ten[z + 1]
    BY <1>3, <2>2, <2>3
  <2>5. i % Movement!Ten[z + 1] = 0
    BY <1>3, <2>4, Multiple
  <2>6. QED  BY <1>4, <2>5
<1> HIDE DEF j
<1>12. (z + k) + 1 = (z + 1) + k /\ (z = s => z + k = s + k)
  OBVIOUS
<1>13. IsZeros(j, s + k, z + k)
  BY <1>2, <1>10, <1>11, <1>12 DEF IsZeros
<1>14. s + k \in Nat
  OBVIOUS
<1>15. Movement!Trimmed(j, s + k) = [integer |-> n, scale |-> s - z]
  BY <1>2, <1>6, <1>10, <1>13, <1>14, TrimmedIs
<1>16. QED  BY <1>7, <1>15 DEF j

\* Balances are sums of raw amounts.
LEMMA Balances ==
  ASSUME Movement!ConstantsOK, Movement!TypeOK, NEW o
  PROVE  /\ Movement!Balance(pre, o) \in Nat /\ Movement!Balance(post, o) \in Nat
         /\ Movement!Delta(o) \in Int /\ Movement!Magnitude(Movement!Delta(o)) \in Nat
<1> DEFINE S == {a \in TokenAccounts : tokenOwner[a] = o}
<1>1. IsFiniteSet(S)
  <2>1. IsFiniteSet(TokenAccounts)
    BY SameSums DEF Movement!ConstantsOK
  <2>2. S \subseteq TokenAccounts
    OBVIOUS
  <2>3. QED  BY <2>1, <2>2, FS_Subset
<1>2. \A a \in S : pre[a] \in Nat /\ post[a] \in Nat
  BY DEF Movement!ConstantsOK, Movement!TypeOK
<1> HIDE DEF S
<1>3. SumFunctionOnSet(pre, S) \in Nat /\ SumFunctionOnSet(post, S) \in Nat
  BY <1>1, <1>2, SumRemove
<1>4. Movement!Balance(pre, o) \in Nat /\ Movement!Balance(post, o) \in Nat
  BY <1>3, SameSums DEF Movement!Balance, S
<1>5. Movement!Delta(o) \in Int
  BY <1>4 DEF Movement!Delta
<1>6. Movement!Magnitude(Movement!Delta(o)) \in Nat
  BY <1>5 DEF Movement!Magnitude
<1>7. QED  BY <1>4, <1>5, <1>6

\* The amount and the value of a row are exact.
LEMMA ExactAmounts ==
  ASSUME Movement!ConstantsOK, Movement!TypeOK
  PROVE  Movement!AmountsExact
<1> DEFINE raw == Movement!Magnitude(Movement!Delta(Wallet))
           i == Movement!Amount.integer
           s == Movement!Amount.scale
           j == Movement!UsdValue.integer
           t == Movement!UsdValue.scale
<1>1. raw \in Nat /\ decimals \in Nat /\ price \in Nat
  BY Balances DEF Movement!ConstantsOK, Movement!TypeOK
<1>2. Movement!Amount = Movement!Trimmed(raw, decimals)
  BY DEF Movement!Amount
<1>3. /\ i \in Nat /\ s \in 0..decimals /\ i * Movement!Ten[decimals - s] = raw
      /\ Movement!Canonical(Movement!Amount)
  BY <1>1, <1>2, TrimmedExact
<1>4. Movement!UsdValue = Movement!Trimmed(i * price, s)
  <2>1. Movement!UsdValue = Movement!Trimmed(i * price, s + 0)
    BY DEF Movement!UsdValue, Movement!Product, Movement!Decimal
  <2>2. s + 0 = s
    BY <1>3
  <2>3. QED  BY <2>1, <2>2
<1>5. i * price \in Nat /\ s \in Nat
  BY <1>1, <1>3
<1>6. j \in Nat /\ t \in 0..s /\ j * Movement!Ten[s - t] = i * price /\ Movement!Canonical(Movement!UsdValue)
  BY <1>4, <1>5, TrimmedExact
<1>7. j * Movement!Ten[decimals - t] = raw * price
  <2> HIDE DEF raw, i, s, j, t
  <2>1. s - t \in Nat /\ decimals - s \in Nat /\ (s - t) + (decimals - s) = decimals - t
    BY <1>1, <1>3, <1>6
  <2>2. Movement!Ten[decimals - t] = Movement!Ten[s - t] * Movement!Ten[decimals - s]
    BY <2>1, TenAdds
  <2>3. Movement!Ten[s - t] \in Nat /\ Movement!Ten[decimals - s] \in Nat
    BY <2>1, TenPositive
  <2>4. \A a, b, c \in Nat : a * (b * c) = (a * b) * c /\ (a * b) * c = (a * c) * b
    OBVIOUS
  <2>5. j * Movement!Ten[decimals - t] = (i * price) * Movement!Ten[decimals - s]
    BY <1>6, <2>2, <2>3, <2>4
  <2>6. QED  BY <1>1, <1>3, <2>3, <2>4, <2>5
<1>8. ASSUME NEW e \in 0..2
      PROVE  Movement!Product(Movement!Expanded(Movement!Amount, e), Movement!Decimal(price, e))
               = Movement!UsdValue
  <2>1. CASE e <= s
    <3>1. Movement!Expanded(Movement!Amount, e) = [integer |-> i, scale |-> s - e]
      BY <2>1 DEF Movement!Expanded, Movement!Decimal
    <3>2. Movement!Product(Movement!Expanded(Movement!Amount, e), Movement!Decimal(price, e))
            = Movement!Trimmed(i * price, (s - e) + e)
      BY <3>1 DEF Movement!Product, Movement!Decimal
    <3>3. (s - e) + e = s
      BY <1>5
    <3>4. QED  BY <1>4, <3>2, <3>3
  <2>2. CASE ~(e <= s)
    <3> DEFINE k == e - s
    <3>1. Movement!Expanded(Movement!Amount, e) = [integer |-> i * Movement!Ten[k], scale |-> 0]
      BY <2>2 DEF Movement!Expanded, Movement!Decimal
    <3>2. Movement!Product(Movement!Expanded(Movement!Amount, e), Movement!Decimal(price, e))
            = Movement!Trimmed((i * Movement!Ten[k]) * price, 0 + e)
      BY <3>1 DEF Movement!Product, Movement!Decimal
    <3> HIDE DEF i, s
    <3>3. k \in Nat /\ 0 + e = s + k
      BY <1>5, <2>2
    <3> HIDE DEF k
    <3>4. Movement!Ten[k] \in Nat
      BY <3>3, TenPositive
    <3>5. \A a, b, c \in Nat : (a * b) * c = (a * c) * b
      OBVIOUS
    <3>6. (i * Movement!Ten[k]) * price = (i * price) * Movement!Ten[k]
      BY <1>1, <1>3, <3>4, <3>5
    <3>7. Movement!Trimmed((i * price) * Movement!Ten[k], s + k) = Movement!Trimmed(i * price, s)
      BY <1>5, <3>3, TrimmedShift
    <3>8. QED  BY <1>4, <3>2, <3>3, <3>6, <3>7
  <2>3. QED  BY <2>1, <2>2
<1>9. QED  BY <1>3, <1>6, <1>7, <1>8 DEF Movement!AmountsExact

\* Signs of a product.
LEMMA Signs ==
  \A a, b \in Int :
    /\ a * b < 0 => a # 0
    /\ b > 0 /\ ~(a * b < 0) => a >= 0
    /\ b < 0 /\ ~(a * b < 0) => a <= 0
<1> TAKE a, b \in Int
<1>1. a = 0 => a * b = 0
  OBVIOUS
<1>2. b > 0 /\ a < 0 => a * b < 0
  OBVIOUS
<1>3. b < 0 /\ a > 0 => a * b < 0
  OBVIOUS
<1>4. QED  BY <1>1, <1>2, <1>3

\* Of several owners that moved the other way, one is the counterparty.
LEMMA CounterpartyMoved ==
  ASSUME Movement!ConstantsOK, Movement!TypeOK, Movement!Movers # {}
  PROVE  Movement!Counterparty \in Movement!Movers
<1> DEFINE Misses == {Movement!Mismatch(o) : o \in Movement!Movers}
<1>1. \A o \in Movement!Movers : Movement!Mismatch(o) \in Nat
  <2> TAKE o \in Movement!Movers
  <2>1. Movement!Magnitude(Movement!Delta(o)) \in Nat /\ Movement!Magnitude(Movement!Delta(Wallet)) \in Nat
    BY Balances
  <2>2. Movement!Magnitude(Movement!Delta(o)) - Movement!Magnitude(Movement!Delta(Wallet)) \in Int
    BY <2>1
  <2>3. QED  BY <2>2 DEF Movement!Mismatch, Movement!Magnitude
<1>2. Misses \in SUBSET Nat /\ Misses # {}
  BY <1>1
<1>3. PICK m \in Misses : \A k \in Misses : m <= k
  BY <1>2, LeastElement
<1> DEFINE Closest == {o \in Movement!Movers : Movement!Mismatch(o) = m}
<1>4. Closest \in SUBSET Nat /\ Closest # {}
  <2>1. Movement!Movers \subseteq Nat
    BY DEF Movement!ConstantsOK, Movement!Movers
  <2>2. QED  BY <1>3, <2>1
<1>5. PICK o \in Closest : \A q \in Closest : o <= q
  BY <1>4, LeastElement
<1>6. o \in Movement!Movers /\ Movement!Mismatch(o) = m /\ o \in Nat
  BY <1>4, <1>5
<1>7. ASSUME NEW q \in Movement!Movers \ {o}
      PROVE  \/ Movement!Mismatch(o) < Movement!Mismatch(q)
             \/ Movement!Mismatch(o) = Movement!Mismatch(q) /\ o < q
  <2>1. Movement!Mismatch(q) \in Nat /\ m \in Nat /\ m <= Movement!Mismatch(q) /\ q # o
    BY <1>1, <1>2, <1>3, <1>7
  <2>2. CASE Movement!Mismatch(q) = m
    <3>1. q \in Closest
      BY <1>7, <2>2
    <3>2. o <= q /\ q \in Nat
      BY <1>4, <1>5, <3>1
    <3>3. QED  BY <1>6, <2>1, <2>2, <3>2
  <2>3. CASE Movement!Mismatch(q) # m
    BY <1>6, <2>1, <2>3
  <2>4. QED  BY <2>2, <2>3
<1>8. \E x \in Movement!Movers : \A q \in Movement!Movers \ {x} :
        Movement!Mismatch(x) < Movement!Mismatch(q) \/ (Movement!Mismatch(x) = Movement!Mismatch(q) /\ x < q)
  BY <1>6, <1>7
<1>9. QED  BY <1>8 DEF Movement!Counterparty

\* What the wallet gets or gives somebody else gives or gets.
LEMMA FittingCounterparty ==
  ASSUME Movement!ConstantsOK, Movement!TypeOK
  PROVE  Movement!CounterpartyFits
<1> DEFINE F == [o \in Owners |-> Movement!Delta(o)]
           R == Owners \ {Wallet}
           others == {o \in R : Movement!Delta(o) # 0}
           total == Movement!SumFunction(F)
           Sum(S) == SumFunctionOnSet(F, S)
<1>1. SUFFICES ASSUME Movement!Delta(Wallet) # 0, total = 0
               PROVE  /\ Movement!Counterparty \in others
                      /\ others = {Movement!Counterparty} => Movement!Mismatch(Movement!Counterparty) = 0
  BY DEF Movement!CounterpartyFits
<1>2. /\ \A o \in Owners : F[o] = Movement!Delta(o) /\ F[o] \in Int
      /\ Movement!Delta(Wallet) \in Int /\ Wallet \in Owners
      /\ IsFiniteSet(Owners) /\ R \subseteq Owners /\ IsFiniteSet(R)
  <2>1. Wallet \in Owners /\ IsFiniteSet(Owners)
    BY SameSums DEF Movement!ConstantsOK
  <2>2. R \subseteq Owners /\ IsFiniteSet(R)
    BY <2>1, FS_Subset
  <2>3. \A o \in Owners : F[o] = Movement!Delta(o) /\ F[o] \in Int
    BY Balances
  <2>4. QED  BY <2>1, <2>2, <2>3, Balances
<1>3. total = Sum(Owners)
  BY SameSums DEF Movement!SumFunction
<1> HIDE DEF F, total
<1>4. total = Movement!Delta(Wallet) + Sum(R)
  <2>1. Sum(Owners) = F[Wallet] + Sum(Owners \ {Wallet})
    BY <1>2, SumTake
  <2>2. QED  BY <1>2, <1>3, <2>1
<1>5. Sum(R) \in Int /\ \A o \in R : Sum(R) = F[o] + Sum(R \ {o})
  <2>1. \A o \in R : F[o] \in Int
    BY <1>2
  <2> HIDE DEF R
  <2>2. QED  BY <1>2, <2>1, SumTake
<1>6. Movement!Movers # {}
  <2>1. SUFFICES ASSUME Movement!Movers = {} PROVE FALSE
    OBVIOUS
  <2>2. \A o \in R : F[o] \in Int /\ ~(F[o] * Movement!Delta(Wallet) < 0)
    BY <1>2, <2>1 DEF Movement!Movers
  <2> HIDE DEF R
  <2>3. CASE Movement!Delta(Wallet) > 0
    <3>1. \A o \in R : F[o] >= 0
      BY <1>2, <2>2, <2>3, Signs
    <3>2. Sum(R) >= 0
      BY <1>2, <2>2, <3>1, SumSign
    <3> HIDE DEF Sum
    <3>3. QED  BY <1>1, <1>2, <1>4, <1>5, <2>3, <3>2
  <2>4. CASE Movement!Delta(Wallet) < 0
    <3>1. \A o \in R : F[o] <= 0
      BY <1>2, <2>2, <2>4, Signs
    <3>2. Sum(R) <= 0
      BY <1>2, <2>2, <3>1, SumSign
    <3> HIDE DEF Sum
    <3>3. QED  BY <1>1, <1>2, <1>4, <1>5, <2>4, <3>2
  <2>5. QED  BY <1>1, <1>2, <2>3, <2>4
<1>7. Movement!Counterparty \in others
  <2>1. Movement!Counterparty \in Movement!Movers
    BY <1>6, CounterpartyMoved
  <2>2. Movement!Counterparty \in R /\ Movement!Delta(Movement!Counterparty) * Movement!Delta(Wallet) < 0
    BY <2>1 DEF Movement!Movers
  <2>3. Movement!Delta(Movement!Counterparty) \in Int
    BY Balances
  <2>4. Movement!Delta(Movement!Counterparty) # 0
    BY <1>2, <2>2, <2>3, Signs
  <2>5. QED  BY <2>2, <2>4
<1>8. ASSUME others = {Movement!Counterparty} PROVE Movement!Mismatch(Movement!Counterparty) = 0
  <2> DEFINE c == Movement!Counterparty
             T == R \ {c}
  <2>1. c \in R /\ Movement!Delta(c) \in Int
    BY <1>7, Balances
  <2>2. \A o \in T : F[o] = 0
    <3>1. \A o \in R : Movement!Delta(o) # 0 => o = c
      BY <1>8
    <3>2. QED  BY <1>2, <3>1
  <2>3. IsFiniteSet(T)
    BY <1>2, FS_Subset
  <2>4. Sum(R) = F[c] + Sum(T) /\ F[c] = Movement!Delta(c)
    BY <1>2, <1>5, <2>1
  <2> HIDE DEF T
  <2>5. \A o \in T : F[o] \in Int /\ F[o] >= 0 /\ F[o] <= 0
    BY <2>2
  <2>6. Sum(T) \in Int /\ Sum(T) >= 0 /\ Sum(T) <= 0
    BY <2>3, <2>5, SumTake, SumSign
  <2> HIDE DEF Sum, c
  <2>7. Movement!Delta(c) = -Movement!Delta(Wallet)
    BY <1>1, <1>2, <1>4, <2>1, <2>4, <2>6
  <2>8. /\ Movement!Magnitude(Movement!Delta(c)) = Movement!Magnitude(Movement!Delta(Wallet))
        /\ Movement!Magnitude(Movement!Delta(c)) \in Nat
    BY <1>2, <2>1, <2>7 DEF Movement!Magnitude
  <2>9. Movement!Mismatch(c) = 0
    BY <2>8 DEF Movement!Mismatch, Movement!Magnitude
  <2>10. QED  BY <2>9 DEF c
<1>9. QED  BY <1>7, <1>8

\* A row says exactly what the transaction did.
LEMMA ExactMovement ==
  ASSUME Movement!ConstantsOK, Movement!TypeOK
  PROVE  Movement!MovementExact
BY ExactAmounts, FittingCounterparty DEF Movement!MovementExact
\* The strings of a Solana row are exact, and its counterparty is one that moved
\* the other way.
THEOREM MovementsAreExact == Spec => []MovementExact
<1> DEFINE Inv == component = "TokenMovement" => Movement!TypeOK
<1>1. Init => Inv
  BY InitialComponent, Inputs
<1>2. Inv /\ [Next]_vars => Inv'
  BY ComponentStep, Inputs
<1>3. Inv => MovementExact
  BY ServicesConstants, ExactMovement DEF MovementExact
<1>4. QED  BY <1>1, <1>2, <1>3, PTL DEF Spec

----------------------------------------------------------------------------
(***************************************************************************)
(* Type correctness of every component.                                    *)
(***************************************************************************)
\* What is known of whichever component was chosen.
EveryInv ==
  /\ component = "SolanaIndexer" => SolInv
  /\ component = "SyncRun" => RunInv
  /\ component = "Pairing" => PairInv
  /\ component = "TokenMovement" => Movement!TypeOK
  /\ component = "TransferQuote" => Quote!TypeOK
  /\ component = "Newsletter" => MailInv
  /\ component = "Otp" => CodeInv
  /\ component = "PhoneLink" => PhoneInv
  /\ component = "Referrals" => InviteInv
  /\ component = "SigningKeyCache" => KeyInv
  /\ component = "RebalanceOrder" => OrderInv

\* The domains the indexer's and the cache's invariants state are their types.
LEMMA RestatedTypes ==
  /\ SolInv => Sol!TypeOK
  /\ KeyInv => Signing!TypeOK
<1>1. ASSUME SolInv PROVE Sol!TypeOK
  BY <1>1 DEF SolInv, SolTypes, RowTypes, Sol!TypeOK, Sol!Signatures
<1>2. ASSUME KeyInv PROVE Signing!TypeOK
  <2>1. fresh \in BOOLEAN /\ cooling \in BOOLEAN
    BY <1>2 DEF KeyInv, KeyTypes
  <2>2. {fresh, cooling} \subseteq BOOLEAN
    BY <2>1, Zenon
  <2>3. KeyTypes
    BY <1>2 DEF KeyInv
  <2>4. QED  BY <2>2, <2>3, Zenon DEF KeyTypes, CachedKeys, KeySteps, Signing!TypeOK
<1>3. QED  BY <1>1, <1>2

\* The variables of every component keep their types.
THEOREM ServicesTypeCorrect == Spec => []TypeOK
<1>1. Init => EveryInv
  BY InitialComponent, Inputs, ServicesConstants, InitSolInv, InitRunInv, InitPairInv, InitMailInv,
     InitCodeInv, InitPhoneInv, InitInviteInv, InitKeyInv, InitOrderInv DEF EveryInv
<1>2. EveryInv /\ [Next]_vars => EveryInv'
  BY ComponentStep, Inputs, ServicesConstants, StepSolInv, StepRunInv, StepPairInv, StepMailInv,
     StepCodeInv, StepPhoneInv, StepInviteInv, StepKeyInv, StepOrderInv DEF EveryInv
<1>3. EveryInv => TypeOK
  BY RestatedTypes DEF EveryInv, TypeOK, RunInv, PairInv, MailInv, CodeInv, PhoneInv, InviteInv,
     OrderInv
<1>4. QED  BY <1>1, <1>2, <1>3, PTL DEF Spec
=============================================================================
