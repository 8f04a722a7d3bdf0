--------------------------- MODULE TransferQuote ---------------------------
(***************************************************************************)
(* The price of a deposit (transferQuote in consumer/money.ts): the        *)
(* provider charges a percentage of the gross amount, rounded up, a flat   *)
(* fee from a threshold on, and at most a cap; the customer pays the least *)
(* gross amount that leaves the requested principal.  Just above the       *)
(* threshold a larger amount leaves less, so each side of it is searched   *)
(* by bisection.  The input is chosen initially; amounts are in kobo and   *)
(* BigInt has no bound.                                                    *)
(***************************************************************************)
EXTENDS Integers, FiniteSetsExt

CONSTANTS
  Principals,      \* amounts to deposit
  BasisPoints,     \* 150
  FlatFee,         \* 10000, from Threshold on
  Threshold,       \* 250000
  Cap              \* 200000

ConstantsOK ==
  /\ Principals \subseteq Nat \ {0}
  /\ {BasisPoints, FlatFee, Threshold, Cap} \subseteq Nat \ {0}
  /\ BasisPoints <= 10000   \* a part of the amount

VARIABLE principal

TypeOK == principal \in Principals
Init == principal \in Principals

Lesser(a, b) == IF a < b THEN a ELSE b
Greater(a, b) == IF a > b THEN a ELSE b

Fee(gross) ==
  Lesser((gross * BasisPoints + 9999) \div 10000 + (IF gross < Threshold THEN 0 ELSE FlatFee),
         Cap)

Leaves(gross) == gross - Fee(gross) >= principal

\* The bisection of a band, of which the upper end suffices.
Least(band) ==
  LET amounts == band[1]..band[2]
      search[b \in amounts \X amounts] ==
        LET mid == (b[1] + b[2]) \div 2
        IN IF b[1] >= b[2] THEN b[1]
           ELSE IF Leaves(mid) THEN search[<<b[1], mid>>] ELSE search[<<mid + 1, b[2]>>]
  IN search[band]

\* Mutant of Bands: one search across the threshold.
OneBand == {<<principal, principal + Cap>>}

Bands ==
  LET high == principal + Cap
  IN {<<principal, Lesser(high, Threshold - 1)>>, <<Greater(principal, Threshold), high>>}

\* A band whose upper end leaves too little, or that is empty, has no candidate.
Candidates == {Least(b) : b \in {x \in Bands : x[1] <= x[2] /\ Leaves(x[2])}}

Gross == Min(Candidates)

----------------------------------------------------------------------------
\* "Find the smallest gross amount that leaves the requested deposit after
\* fees" (consumer/money.ts:17): there is a candidate, it leaves the principal,
\* and no smaller amount does, on either side of the threshold and of the cap.
SmallestGross ==
  /\ Candidates # {}
  /\ Leaves(Gross)
  /\ \A gross \in principal..(Gross - 1) : ~Leaves(gross)
=============================================================================
