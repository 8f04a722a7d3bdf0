--------------------------- MODULE TokenMovement ---------------------------
(***************************************************************************)
(* What a transfer row says of one mint in one Solana transaction: the     *)
(* change of the wallet's balance, its amount and value as decimal strings,*)
(* and the counterparty (indexers/solanaIndexer.ts, utils/decimal.ts).     *)
(* The input is chosen initially and nothing happens to it.                *)
(*                                                                         *)
(* A decimal string is the integer of its digits and the number of digits  *)
(* after the point; BigInt has no bound.                                   *)
(***************************************************************************)
EXTENDS Integers, FiniteSets, Functions

CONSTANTS
  Wallet,        \* the tracked wallet
  Owners,        \* owners in the order of the balances, the wallet among them
  Accounts,      \* token accounts of the mint
  Amounts,       \* raw amounts an account may hold
  Decimals, Prices

ConstantsOK ==
  /\ IsFiniteSet(Accounts) /\ IsFiniteSet(Owners)
  /\ Wallet \in Owners /\ Owners \subseteq Nat \ {0}
  /\ Amounts \cup Decimals \cup Prices \subseteq Nat

VARIABLES
  owner,          \* owner of an account, 0 if the RPC answer has none
  pre, post,      \* raw amounts before and after the transaction
  decimals, price \* of the token

vars == <<owner, pre, post, decimals, price>>

TypeOK ==
  /\ owner \in [Accounts -> Owners \cup {0}]
  /\ pre \in [Accounts -> Amounts] /\ post \in [Accounts -> Amounts]
  /\ decimals \in Decimals /\ price \in Prices

Init == TypeOK

----------------------------------------------------------------------------
(***************************************************************************)
(* Decimal strings.                                                        *)
(***************************************************************************)
Decimal(integer, scale) == [integer |-> integer, scale |-> scale]

\* 10^n, by which the digits of an integer are shifted and sliced.
Ten[n \in Nat] == IF n = 0 THEN 1 ELSE 10 * Ten[n - 1]

\* Mutant of Trimmed: zeros before the point are dropped as well.
TrimmedTooFar(integer, scale) ==
  LET zeros == CHOOSE z \in 0..(scale + 1) :
        /\ integer % Ten[z] = 0
        /\ z = scale + 1 \/ integer % Ten[z + 1] # 0
  IN Decimal(integer \div Ten[zeros], IF zeros > scale THEN 0 ELSE scale - zeros)

\* formatTokenAmount and formatScaledInteger print an integer divided by
\* Ten[scale]: padded to a digit before the point, without trailing zeros of the
\* fraction.
Trimmed(integer, scale) ==
  LET zeros == CHOOSE z \in 0..scale :
        /\ integer % Ten[z] = 0
        /\ z = scale \/ integer % Ten[z + 1] # 0
  IN Decimal(integer \div Ten[zeros], scale - zeros)

\* parseDecimal, with the exponent that expandScientificNotation writes out: the
\* point moves, and zeros fill what it moves over.
Expanded(decimal, exponent) ==
  IF exponent <= decimal.scale
  THEN Decimal(decimal.integer, decimal.scale - exponent)
  ELSE Decimal(decimal.integer * Ten[exponent - decimal.scale], 0)

\* multiplyDecimalStrings
Product(left, right) ==
  Trimmed(left.integer * right.integer, left.scale + right.scale)

----------------------------------------------------------------------------
(***************************************************************************)
(* Balances.                                                               *)
(***************************************************************************)
\* aggregateBalances, getOwnerBalance: accounts without an owner are skipped.
Balance(amounts, o) ==
  SumFunctionOnSet(amounts, {a \in Accounts : owner[a] = o})

Delta(o) == Balance(post, o) - Balance(pre, o)
Magnitude(n) == IF n < 0 THEN -n ELSE n

Amount == Trimmed(Magnitude(Delta(Wallet)), decimals)
UsdValue == Product(Amount, Decimal(price, 0))

Unknown == 0

\* Owners that moved the other way, and how far they are from the wallet's move.
Movers == {o \in Owners \ {Wallet} : Delta(o) * Delta(Wallet) < 0}
Mismatch(o) == Magnitude(Magnitude(Delta(o)) - Magnitude(Delta(Wallet)))

\* findCounterparty: the closest, and of several the first.
Counterparty ==
  IF Movers = {} THEN Unknown
  ELSE CHOOSE o \in Movers : \A q \in Movers \ {o} :
         Mismatch(o) < Mismatch(q) \/ (Mismatch(o) = Mismatch(q) /\ o < q)

----------------------------------------------------------------------------
\* No zero at the end of the fraction.
Canonical(d) == d.scale = 0 \/ d.integer % 10 # 0

\* The strings are exact: the amount is the raw amount over 10^decimals, and
\* its value the raw amount times the price, with nothing rounded and no zero
\* left to trim, in plain or in scientific notation (money stored in NUMERIC
\* columns never passes through a float).
AmountsExact ==
  LET raw == Magnitude(Delta(Wallet))
  IN /\ Amount.integer * Ten[decimals - Amount.scale] = raw
     /\ UsdValue.integer * Ten[decimals - UsdValue.scale] = raw * price
     /\ Canonical(Amount) /\ Canonical(UsdValue)
     /\ \A e \in 0..2 : Product(Expanded(Amount, e), Decimal(price, e)) = UsdValue

\* When every account has an owner and the mint is conserved, a wallet that
\* moved has a counterparty, and if a single other owner moved it is that one
\* and moved the same amount.
CounterpartyFits ==
  LET moved == {o \in Owners \ {Wallet} : Delta(o) # 0}
      total == SumFunction([o \in Owners |-> Delta(o)])
  IN (Delta(Wallet) # 0 /\ total = 0) =>
       /\ Counterparty \in moved
       /\ moved = {Counterparty} => Mismatch(Counterparty) = 0

MovementExact == AmountsExact /\ CounterpartyFits
=============================================================================
