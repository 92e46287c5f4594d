------------------------------- MODULE Amounts -------------------------------
(***************************************************************************)
(* CurrencyAmount: amounts in wei that keep `decimals' digits.             *)
(*                                                                         *)
(* Bound: all amounts too large for the precision lose the same digit,     *)
(* though each digit more than `decimals' costs one.                       *)
(***************************************************************************)
EXTENDS Integers

CONSTANTS
  Exact,        \* 10^decimals: amounts below this fit the precision
  Grain         \* the last digit kept of larger ones, in wei

ASSUME PrecisionAssumption ==
  /\ Exact \in Nat /\ Grain \in Nat \ {0} /\ Exact >= Grain
  /\ Exact % Grain = 0

\* n to a multiple of g, and half way between two of them to the even one.
RoundTo(n, g) ==
  LET r == n % g IN
  IF 2 * r < g \/ (2 * r = g /\ (n \div g) % 2 = 0) THEN n - r ELSE n - r + g

\* as_wei of an amount made from n wei: dividing by 10^decimals keeps `decimals' digits.
Rounded(n) == IF -Exact < n /\ n < Exact THEN n ELSE RoundTo(n, Grain)

IsExact(n) == Rounded(n) = n

Amount(n, currency) == [wei |-> Rounded(n), currency |-> currency]

\* Operations on two amounts, which raise unless they are of one currency.
ValueError == "ValueError"
Checked(a, b, result) == IF a.currency = b.currency THEN result ELSE ValueError

Plus(a, b) == Checked(a, b, Amount(a.wei + b.wei, a.currency))
Minus(a, b) == Checked(a, b, Amount(a.wei - b.wei, a.currency))

Eq(a, b) == a.currency = b.currency /\ a.wei = b.wei
Lt(a, b) == Checked(a, b, a.wei < b.wei)
Le(a, b) == Checked(a, b, a.wei <= b.wei)
Gt(a, b) == Checked(a, b, a.wei > b.wei)
Ge(a, b) == Checked(a, b, a.wei >= b.wei)
=============================================================================
