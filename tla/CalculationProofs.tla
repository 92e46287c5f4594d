-------------------------- MODULE CalculationProofs --------------------------
(***************************************************************************)
(* What the calculations without a state give for all of their inputs: the *)
(* rounding of amounts, the costs of a swap, amounts as shown, the tables  *)
(* of tokens and networks, and the order of releases.                      *)
(***************************************************************************)
EXTENDS Exchange, AmountFormat, TokenTables, ReleaseOrder, FiniteSetTheorems, TLAPS

-----------------------------------------------------------------------------
(* Rounding *)

\* A number is so many times g and a rest below g.
LEMMA Division ==
  ASSUME NEW n \in Int, NEW g \in Nat \ {0}
  PROVE  n % g \in 0 .. g - 1 /\ n \div g \in Int /\ n = g * (n \div g) + (n % g)
  OBVIOUS

\* Rounding takes a neighbouring multiple of g, the nearer one.
LEMMA RoundToMultiple ==
  ASSUME NEW n \in Int, NEW g \in Nat \ {0}
  PROVE  /\ RoundTo(n, g) \in Int
         /\ \E k \in {n \div g, (n \div g) + 1} : RoundTo(n, g) = g * k
         /\ 2 * RoundTo(n, g) <= 2 * n + g /\ 2 * n <= 2 * RoundTo(n, g) + g
<1> DEFINE q == n \div g
           r == n % g
<1>1. r \in 0 .. g - 1 /\ q \in Int /\ n = g * q + r
  BY Division
<1>2. CASE RoundTo(n, g) = n - r /\ 2 * r <= g
  <2> HIDE DEF q, r
  <2>1. g * q \in Int
    BY <1>1
  <2>2. RoundTo(n, g) = g * q
    BY <1>1, <1>2, <2>1
  <2>3. q \in {q, q + 1}
    OBVIOUS
  <2>4. \E k \in {q, q + 1} : RoundTo(n, g) = g * k
    BY <2>2
  <2>5. 2 * RoundTo(n, g) <= 2 * n + g /\ 2 * n <= 2 * RoundTo(n, g) + g
    BY <1>1, <1>2, <2>1, <2>2
  <2> QED
    BY <2>1, <2>2, <2>4, <2>5 DEF q
<1>3. CASE RoundTo(n, g) = n - r + g /\ 2 * r >= g
  <2> HIDE DEF q, r
  <2>1. g * q \in Int /\ g * (q + 1) = g * q + g
    BY <1>1
  <2>2. RoundTo(n, g) = g * (q + 1)
    BY <1>1, <1>3, <2>1
  <2>4. \E k \in {q, q + 1} : RoundTo(n, g) = g * k
    BY <2>2
  <2>5. 2 * RoundTo(n, g) <= 2 * n + g /\ 2 * n <= 2 * RoundTo(n, g) + g
    BY <1>1, <1>3, <2>1, <2>2
  <2>6. RoundTo(n, g) \in Int
    BY <2>1, <2>2
  <2> QED
    BY <2>4, <2>5, <2>6 DEF q
<1>4. \/ RoundTo(n, g) = n - r /\ 2 * r <= g
      \/ RoundTo(n, g) = n - r + g /\ 2 * r >= g
  BY <1>1 DEF RoundTo
<1> QED
  BY <1>2, <1>3, <1>4

\* The larger of two numbers is not rounded below the other.
LEMMA RoundToMonotone ==
  ASSUME NEW m \in Int, NEW n \in Int, NEW g \in Nat \ {0}, m <= n
  PROVE  RoundTo(m, g) <= RoundTo(n, g)
<1> DEFINE p == m \div g
           q == n \div g
           r == m % g
           s == n % g
<1>1. /\ r \in 0 .. g - 1 /\ p \in Int /\ m = g * p + r
      /\ s \in 0 .. g - 1 /\ q \in Int /\ n = g * q + s
  BY Division
<1>2. g * p \in Int /\ g * q \in Int /\ g * (p + 1) = g * p + g
  <2> HIDE DEF p, q, r, s
  <2> QED
    BY <1>1
<1>3. CASE p = q
  <2>1. r <= s
    <3> HIDE DEF p, q, r, s
    <3> QED
      BY <1>1, <1>2, <1>3
  <2>2. /\ RoundTo(m, g) = IF 2 * r < g \/ (2 * r = g /\ p % 2 = 0) THEN m - r ELSE m - r + g
        /\ RoundTo(n, g) = IF 2 * s < g \/ (2 * s = g /\ q % 2 = 0) THEN n - s ELSE n - s + g
    BY DEF RoundTo
  <2>3. m - r = g * p /\ n - s = g * p
    <3> HIDE DEF p, q, r, s
    <3> QED
      BY <1>1, <1>2, <1>3
  <2> HIDE DEF p, q, r, s
  <2> QED
    BY <1>1, <1>2, <1>3, <2>1, <2>2, <2>3
<1>4. CASE p < q
  <2>1. g * (p + 1) <= g * q
    <3>1. q - p - 1 \in Nat
      <4> HIDE DEF p, q
      <4> QED
        BY <1>1, <1>4
    <3>2. g * (q - p - 1) \in Nat
      <4> HIDE DEF p, q
      <4> QED
        BY <3>1
    <3>3. g * q = g * (p + 1) + g * (q - p - 1)
      <4> HIDE DEF p, q
      <4> QED
        BY <1>1
    <3> HIDE DEF p, q
    <3> QED
      BY <1>1, <1>2, <3>2, <3>3
  <2>2. RoundTo(m, g) \in {g * p, g * p + g} /\ RoundTo(n, g) \in {g * q, g * q + g}
    <3>1. m - r = g * p /\ n - s = g * q
      <4> HIDE DEF p, q, r, s
      <4> QED
        BY <1>1, <1>2
    <3>2. RoundTo(m, g) \in {m - r, m - r + g} /\ RoundTo(n, g) \in {n - s, n - s + g}
      BY DEF RoundTo
    <3> QED
      BY <3>1, <3>2
  <2> HIDE DEF p, q, r, s
  <2> QED
    BY <1>1, <1>2, <2>1, <2>2
<1>5. ~(p > q)
  <2>1. SUFFICES ASSUME p > q PROVE FALSE
    OBVIOUS
  <2>2. p - q - 1 \in Nat
    <3> HIDE DEF p, q
    <3> QED
      BY <1>1, <2>1
  <2>3. g * (p - q - 1) \in Nat /\ g * p = g * q + g + g * (p - q - 1)
    <3> HIDE DEF p, q
    <3> QED
      BY <1>1, <2>2
  <2> HIDE DEF p, q, r, s
  <2> QED
    BY <1>1, <1>2, <2>3
<1>6. p = q \/ p < q
  <2> HIDE DEF p, q
  <2> QED
    BY <1>1, <1>5
<1> QED
  BY <1>3, <1>4, <1>6

\* There is one rest.
LEMMA OneRest ==
  ASSUME NEW k \in Int, NEW g \in Nat \ {0}, NEW r \in 0 .. g - 1
  PROVE  g * k + r \in Int /\ (g * k + r) % g = r
<1> DEFINE n == g * k + r
           q == n \div g
           t == n % g
<1>1. n \in Int
  OBVIOUS
<1>2. t \in 0 .. g - 1 /\ q \in Int /\ n = g * q + t
  BY <1>1, Division
<1>3. g * (k - q) = t - r /\ k - q \in Int
  <2>1. g * (k - q) = n - r - g * q
    <3> HIDE DEF q
    <3> QED
      BY <1>2
  <2> HIDE DEF n, q, t
  <2> QED
    BY <1>1, <1>2, <2>1
<1>4. t = r
  <2> HIDE DEF q, t, n
  <2>1. CASE k - q >= 1
    <3>1. g * (k - q) = g + g * (k - q - 1) /\ g * (k - q - 1) \in Nat
      BY <1>2, <2>1
    <3> QED
      BY <1>2, <1>3, <3>1
  <2>2. CASE k - q <= -1
    <3>1. g * (k - q) = -(g * (q - k)) /\ g * (q - k) = g + g * (q - k - 1)
          /\ g * (q - k - 1) \in Nat
      BY <1>2, <2>2
    <3> QED
      BY <1>2, <1>3, <3>1
  <2>3. CASE k - q = 0
    BY <1>2, <1>3, <2>3
  <2> QED
    BY <1>3, <2>1, <2>2, <2>3
<1> QED
  BY <1>1, <1>4

\* Multiples of g divide without a rest, and are what they are rounded to.
LEMMA Multiples ==
  ASSUME NEW k \in Int, NEW g \in Nat \ {0}
  PROVE  g * k \in Int /\ (g * k) % g = 0 /\ RoundTo(g * k, g) = g * k
<1> DEFINE n == g * k
<1>1. n \in Int /\ n + 0 = n
  OBVIOUS
<1>2. (n + 0) % g = 0
  BY OneRest
<1> HIDE DEF n
<1>3. RoundTo(n, g) = n
  BY <1>1, <1>2 DEF RoundTo
<1> QED
  BY <1>1, <1>2, <1>3 DEF n

\* The bounds of what is exact are multiples of the digit lost.
LEMMA BoundsAreRound ==
  /\ Exact \in Nat /\ Grain \in Nat \ {0} /\ Exact > 0
  /\ RoundTo(Exact, Grain) = Exact /\ RoundTo(-Exact, Grain) = -Exact
<1> DEFINE e == Exact \div Grain
<1>0. Exact \in Nat /\ Grain \in Nat \ {0} /\ Exact > 0
  BY PrecisionAssumption
<1>1. e \in Int /\ Exact = Grain * e
  <2>1. e \in Int /\ Exact = Grain * e + (Exact % Grain)
    BY <1>0, Division
  <2> HIDE DEF e
  <2>2. Grain * e \in Int
    BY <1>0, <2>1
  <2> QED
    BY <1>0, <2>1, <2>2, PrecisionAssumption
<1> HIDE DEF e
<1>2. -e \in Int /\ Grain * (-e) = -(Grain * e)
  BY <1>0, <1>1
<1>3. RoundTo(Grain * e, Grain) = Grain * e
  BY <1>0, <1>1, Multiples
<1>4. RoundTo(Grain * (-e), Grain) = Grain * (-e)
  BY <1>0, <1>2, Multiples
<1> QED
  BY <1>0, <1>1, <1>2, <1>3, <1>4

\* Amounts that fit are kept, the others stay beyond the bound.
LEMMA RoundedRange ==
  ASSUME NEW n \in Int
  PROVE  /\ Rounded(n) \in Int
         /\ -Exact < n /\ n < Exact => Rounded(n) = n
         /\ n >= Exact => Rounded(n) = RoundTo(n, Grain) /\ Rounded(n) >= Exact
         /\ n <= -Exact => Rounded(n) = RoundTo(n, Grain) /\ Rounded(n) <= -Exact
         /\ 2 * Rounded(n) <= 2 * n + Grain /\ 2 * n <= 2 * Rounded(n) + Grain
<1>1. RoundTo(n, Grain) \in Int
      /\ 2 * RoundTo(n, Grain) <= 2 * n + Grain /\ 2 * n <= 2 * RoundTo(n, Grain) + Grain
  BY BoundsAreRound, RoundToMultiple
<1>2. n >= Exact => RoundTo(n, Grain) >= Exact
  BY BoundsAreRound, RoundToMonotone
<1>3. n <= -Exact => RoundTo(n, Grain) <= -Exact
  <2>1. -Exact \in Int
    BY BoundsAreRound
  <2> QED
    BY <2>1, BoundsAreRound, RoundToMonotone
<1> QED
  BY <1>1, <1>2, <1>3, BoundsAreRound DEF Rounded

\* Amounts are rounded in their order.
LEMMA RoundedMonotone ==
  ASSUME NEW m \in Int, NEW n \in Int, m <= n
  PROVE  Rounded(m) <= Rounded(n)
<1>1. RoundTo(m, Grain) <= RoundTo(n, Grain)
  BY BoundsAreRound, RoundToMonotone
<1>0. /\ RoundTo(m, Grain) \in Int /\ RoundTo(n, Grain) \in Int
      /\ Rounded(m) \in Int /\ Rounded(n) \in Int
  BY RoundedRange, BoundsAreRound, RoundToMultiple
<1>5. /\ -Exact < m /\ m < Exact => Rounded(m) = m
      /\ m >= Exact => Rounded(m) = RoundTo(m, Grain) /\ Rounded(m) >= Exact
      /\ m <= -Exact => Rounded(m) = RoundTo(m, Grain) /\ Rounded(m) <= -Exact
  BY RoundedRange
<1>6. /\ -Exact < n /\ n < Exact => Rounded(n) = n
      /\ n >= Exact => Rounded(n) = RoundTo(n, Grain) /\ Rounded(n) >= Exact
      /\ n <= -Exact => Rounded(n) = RoundTo(n, Grain) /\ Rounded(n) <= -Exact
  BY RoundedRange
<1>2. CASE m <= -Exact
  BY <1>0, <1>1, <1>2, <1>5, <1>6, BoundsAreRound
<1>3. CASE m >= Exact
  BY <1>0, <1>1, <1>3, <1>5, <1>6, BoundsAreRound
<1>4. CASE -Exact < m /\ m < Exact
  BY <1>0, <1>4, <1>5, <1>6, BoundsAreRound
<1> QED
  BY <1>2, <1>3, <1>4, BoundsAreRound

\* The wei of an amount make the same amount again: what was rounded once stays as it is
\* however often it is made into an amount (CurrencyAmount, as_wei).
THEOREM RoundedOnce == \A n \in Int : IsExact(Rounded(n))
<1> SUFFICES ASSUME NEW n \in Int PROVE Rounded(Rounded(n)) = Rounded(n)
  BY DEF IsExact
<1>1. CASE -Exact < n /\ n < Exact
  BY <1>1, RoundedRange
<1>2. CASE n >= Exact \/ n <= -Exact
  <2>0. n \div Grain \in Int
    BY BoundsAreRound, Division
  <2>1. PICK k \in Int : RoundTo(n, Grain) = Grain * k
    <3>1. \E k \in {n \div Grain, (n \div Grain) + 1} : RoundTo(n, Grain) = Grain * k
      BY BoundsAreRound, RoundToMultiple
    <3>2. {n \div Grain, (n \div Grain) + 1} \subseteq Int
      BY <2>0
    <3> QED
      BY <3>1, <3>2
  <2>2. RoundTo(Grain * k, Grain) = Grain * k /\ Grain * k \in Int
    BY BoundsAreRound, Multiples
  <2>3. Rounded(n) = Grain * k
    BY <1>2, <2>1, RoundedRange
  <2> QED
    BY <2>2, <2>3 DEF Rounded
<1> QED
  BY <1>1, <1>2, BoundsAreRound

\* Comparing two balances of one currency as amounts never contradicts the chain: what is
\* found less is less, what is found enough lacks no more than the digit that is lost.
THEOREM ComparisonsOfAmounts ==
  \A m, n \in Int : \A c :
    /\ Lt(Amount(m, c), Amount(n, c)) => m < n
    /\ Gt(Amount(m, c), Amount(n, c)) => m > n
    /\ Ge(Amount(m, c), Amount(n, c)) => m + Grain >= n
    /\ Le(Amount(m, c), Amount(n, c)) => m <= n + Grain
<1> SUFFICES ASSUME NEW m \in Int, NEW n \in Int, NEW c
             PROVE  /\ Rounded(m) < Rounded(n) => m < n
                    /\ Rounded(m) > Rounded(n) => m > n
                    /\ Rounded(m) >= Rounded(n) => m + Grain >= n
                    /\ Rounded(m) <= Rounded(n) => m <= n + Grain
  BY DEF Lt, Gt, Ge, Le, Checked, Amount
<1>1. Rounded(m) \in Int /\ Rounded(n) \in Int
  BY RoundedRange
<1>2. (m <= n => Rounded(m) <= Rounded(n)) /\ (n <= m => Rounded(n) <= Rounded(m))
  BY RoundedMonotone
<1>3. /\ 2 * Rounded(m) <= 2 * m + Grain /\ 2 * m <= 2 * Rounded(m) + Grain
      /\ 2 * Rounded(n) <= 2 * n + Grain /\ 2 * n <= 2 * Rounded(n) + Grain
  BY RoundedRange
<1> QED
  BY <1>1, <1>2, <1>3, BoundsAreRound

\* But amounts that differ on the chain may be equal: with one wei less than the smallest
\* amount that does not fit the precision a balance is not found short of it.
THEOREM ShortBalancePasses ==
  Grain > 2 => \A c : Ge(Amount(Exact, c), Amount(Exact + 1, c))
                      /\ Eq(Amount(Exact, c), Amount(Exact + 1, c))
<1> SUFFICES ASSUME Grain > 2, NEW c PROVE Rounded(Exact) = Exact /\ Rounded(Exact + 1) = Exact
  BY BoundsAreRound DEF Ge, Eq, Checked, Amount
<1>1. Rounded(Exact) = Exact
  BY RoundedRange, BoundsAreRound
<1>2. (Exact + 1) % Grain = 1
  <2> DEFINE e == Exact \div Grain
  <2>1. e \in Int /\ Exact = Grain * e + (Exact % Grain)
    BY BoundsAreRound, Division
  <2> HIDE DEF e
  <2>2. Grain * e + 1 = Exact + 1
    BY <2>1, PrecisionAssumption
  <2>3. (Grain * e + 1) % Grain = 1
    BY <2>1, BoundsAreRound, OneRest
  <2> QED
    BY <2>2, <2>3
<1>3. Rounded(Exact + 1) = RoundTo(Exact + 1, Grain)
  BY RoundedRange, BoundsAreRound
<1>4. RoundTo(Exact + 1, Grain) = Exact
  BY <1>2, BoundsAreRound DEF RoundTo
<1> QED
  BY <1>1, <1>3, <1>4

\* A sum or a difference of amounts is off by three halves of the digit at most.
THEOREM SumsOfAmounts ==
  \A m, n \in Int : \A c :
    /\ Plus(Amount(m, c), Amount(n, c)).currency = c
    /\ 2 * Plus(Amount(m, c), Amount(n, c)).wei <= 2 * (m + n) + 3 * Grain
    /\ 2 * (m + n) <= 2 * Plus(Amount(m, c), Amount(n, c)).wei + 3 * Grain
    /\ 2 * Minus(Amount(m, c), Amount(n, c)).wei <= 2 * (m - n) + 3 * Grain
    /\ 2 * (m - n) <= 2 * Minus(Amount(m, c), Amount(n, c)).wei + 3 * Grain
<1> SUFFICES ASSUME NEW m \in Int, NEW n \in Int
             PROVE  /\ 2 * Rounded(Rounded(m) + Rounded(n)) <= 2 * (m + n) + 3 * Grain
                    /\ 2 * (m + n) <= 2 * Rounded(Rounded(m) + Rounded(n)) + 3 * Grain
                    /\ 2 * Rounded(Rounded(m) - Rounded(n)) <= 2 * (m - n) + 3 * Grain
                    /\ 2 * (m - n) <= 2 * Rounded(Rounded(m) - Rounded(n)) + 3 * Grain
  BY DEF Plus, Minus, Checked, Amount
<1>1. \A k \in Int : Rounded(k) \in Int
                     /\ 2 * Rounded(k) <= 2 * k + Grain /\ 2 * k <= 2 * Rounded(k) + Grain
  BY RoundedRange
<1>2. Rounded(m) + Rounded(n) \in Int /\ Rounded(m) - Rounded(n) \in Int
  BY <1>1
<1>3. /\ 2 * Rounded(Rounded(m) + Rounded(n)) <= 2 * (m + n) + 3 * Grain
      /\ 2 * (m + n) <= 2 * Rounded(Rounded(m) + Rounded(n)) + 3 * Grain
  <2> DEFINE k == Rounded(m) + Rounded(n)
  <2>1. Rounded(k) \in Int /\ 2 * Rounded(k) <= 2 * k + Grain /\ 2 * k <= 2 * Rounded(k) + Grain
    BY <1>1, <1>2
  <2> QED
    BY <1>1, <2>1, BoundsAreRound, SMTT(30)
<1>4. /\ 2 * Rounded(Rounded(m) - Rounded(n)) <= 2 * (m - n) + 3 * Grain
      /\ 2 * (m - n) <= 2 * Rounded(Rounded(m) - Rounded(n)) + 3 * Grain
  <2> DEFINE k == Rounded(m) - Rounded(n)
  <2>1. Rounded(k) \in Int /\ 2 * Rounded(k) <= 2 * k + Grain /\ 2 * k <= 2 * Rounded(k) + Grain
    BY <1>1, <1>2
  <2> QED
    BY <1>1, <2>1, BoundsAreRound, SMTT(30)
<1> QED
  BY <1>3, <1>4

-----------------------------------------------------------------------------
(* Exchanges *)

\* Products grow with their factors, and a factor may be taken out.
LEMMA Products ==
  ASSUME NEW k \in Nat, NEW x \in Int, NEW y \in Int
  PROVE  /\ k * x \in Int /\ k * y \in Int
         /\ x <= y => k * x <= k * y
         /\ k > 0 /\ k * x <= k * y => x <= y
<1>1. ASSUME NEW u \in Int, NEW v \in Int, u <= v PROVE k * u <= k * v
  <2>1. v - u \in Nat /\ k * (v - u) \in Nat
    BY <1>1
  <2>2. k * v = k * u + k * (v - u)
    OBVIOUS
  <2> QED
    BY <2>1, <2>2
<1>2. ASSUME k > 0, k * x <= k * y, x > y PROVE FALSE
  <2>1. k * (y + 1) <= k * x
    BY <1>1, <1>2
  <2>2. k * (y + 1) = k * y + k
    OBVIOUS
  <2> QED
    BY <1>2, <2>1, <2>2
<1> QED
  BY <1>1, <1>2

\* Amounts that are not negative stay so, and none is rounded to nothing.
LEMMA RoundedNat == \A n \in Nat : Rounded(n) \in Nat /\ (n > 0 => Rounded(n) > 0)
<1> SUFFICES ASSUME NEW n \in Nat PROVE Rounded(n) \in Nat /\ (n > 0 => Rounded(n) > 0)
  OBVIOUS
<1>1. Rounded(n) \in Int /\ Rounded(0) = 0 /\ Rounded(0) <= Rounded(n)
  <2>1. Rounded(0) = 0
    BY BoundsAreRound DEF Rounded
  <2> QED
    BY <2>1, RoundedRange, RoundedMonotone
<1>2. n < Exact => Rounded(n) = n
  BY RoundedRange, BoundsAreRound
<1>3. n >= Exact => Rounded(n) >= Exact
  BY RoundedRange
<1> QED
  BY <1>1, <1>2, <1>3, BoundsAreRound

\* What the costs of a swap are.
LEMMA CostsOfSwap ==
  ASSUME NEW exchange, NEW amount \in Int, NEW m \in Markets,
         NEW c \in Costs(exchange, amount, m)
  PROVE  /\ amount > 0 /\ HasRate(exchange, m)
         /\ c.gas = Gas(m) /\ c.gas_price = GasPrice(exchange, m)
         /\ c.exchange_rate = KyberRate(m)
         /\ c.eth_sold \in EthSold(Price(exchange, amount, m))
         /\ c.total \in Totals(c.gas, c.gas_price, c.eth_sold)
         /\ c.gas \in Nat /\ c.gas_price \in Nat /\ c.eth_sold \in Nat
<1>1. amount > 0 /\ HasRate(exchange, m)
  BY DEF Costs
<1>2. PICK s \in EthSold(Price(exchange, amount, m)) :
        \E t \in Totals(Gas(m), GasPrice(exchange, m), s) :
          c = [gas_price |-> GasPrice(exchange, m), gas |-> Gas(m), eth_sold |-> s,
               total |-> t, exchange_rate |-> KyberRate(m)]
  BY DEF Costs
<1>3. /\ m.estimate \in Nat /\ m.blockGas \in Nat /\ m.gasPrice \in Nat
      /\ m.maxGasPrice \in Nat
  BY DEF Markets
<1>4. Gas(m) \in Nat
  BY <1>3 DEF Gas, MinOf
<1>5. GasPrice(exchange, m) \in Nat
  <2>1. MinOf(m.gasPrice, m.maxGasPrice) \in Nat
    BY <1>3 DEF MinOf
  <2> QED
    BY <1>3, <2>1, RoundedNat DEF GasPrice
<1>6. EthSold(Price(exchange, amount, m)) \subseteq Nat
  BY DEF EthSold
<1> QED
  BY <1>1, <1>2, <1>4, <1>5, <1>6

\* The gas with its margin covers what was estimated unless that is more than nine tenths
\* of a block, to which it is cut; it never exceeds the block (calculate_transaction_costs).
THEOREM GasCoversEstimate ==
  \A m \in Markets :
    /\ Gas(m) >= m.estimate <=> 10 * m.estimate <= 9 * m.blockGas
    /\ Gas(m) <= m.blockGas
<1> SUFFICES ASSUME NEW m \in Markets
             PROVE  /\ Gas(m) >= m.estimate <=> 10 * m.estimate <= 9 * m.blockGas
                    /\ Gas(m) <= m.blockGas
  OBVIOUS
<1>1. m.estimate \in Nat /\ m.blockGas \in Nat
  BY DEF Markets
<1> QED
  BY <1>1, SMTT(30) DEF Gas, MinOf

\* A swap that _run_swap finds affordable can be paid for, exactly as long as the balance
\* fits the precision, and but for three halves of the digit lost if not; and one that it
\* refuses could at most just be paid for.
THEOREM AffordableIsPayable ==
  \A exchange : \A amount \in Int, m \in Markets, balance \in Nat :
    \A c \in Costs(exchange, amount, m) :
      /\ Affordable(c, balance) =>
           /\ balance < Exact => Needs(c) <= balance
           /\ 2 * Needs(c) <= 2 * balance + 3 * Grain
      /\ ~Affordable(c, balance) => 2 * balance < 2 * Needs(c) + 2 + 3 * Grain
<1> SUFFICES ASSUME NEW exchange, NEW amount \in Int, NEW m \in Markets,
                    NEW balance \in Nat, NEW c \in Costs(exchange, amount, m)
             PROVE  /\ Affordable(c, balance) =>
                         /\ balance < Exact => Needs(c) <= balance
                         /\ 2 * Needs(c) <= 2 * balance + 3 * Grain
                    /\ ~Affordable(c, balance) => 2 * balance < 2 * Needs(c) + 2 + 3 * Grain
  OBVIOUS
<1> DEFINE g == c.gas * c.gas_price
           s == c.eth_sold
           x == Rounded(g) + s
<1>1. g \in Nat /\ s \in Nat
  BY CostsOfSwap
<1>2. c.total \in {Rounded(x), Rounded(x + 1)}
  BY CostsOfSwap DEF Totals
<1>3. Needs(c) = g + s
  BY DEF Needs
<1> HIDE DEF g, s
<1>4. x \in Nat /\ Rounded(g) \in Nat
  BY <1>1, RoundedNat
<1>5. /\ 2 * Rounded(g) <= 2 * g + Grain /\ 2 * g <= 2 * Rounded(g) + Grain
      /\ 2 * Rounded(x) <= 2 * x + Grain /\ 2 * x <= 2 * Rounded(x) + Grain
      /\ 2 * Rounded(x + 1) <= 2 * (x + 1) + Grain
      /\ 2 * Rounded(balance) <= 2 * balance + Grain /\ 2 * balance <= 2 * Rounded(balance) + Grain
  BY <1>1, <1>4, RoundedRange
<1>6. Rounded(x) \in Nat /\ Rounded(x + 1) \in Nat /\ Rounded(balance) \in Nat
      /\ Rounded(x) <= Rounded(x + 1)
  BY <1>4, RoundedNat, RoundedMonotone
<1>7. ASSUME Affordable(c, balance) PROVE Rounded(x) <= Rounded(balance)
  BY <1>2, <1>6, <1>7 DEF Affordable
<1>8. ASSUME Affordable(c, balance), balance < Exact PROVE g + s <= balance
  <2>1. Rounded(balance) = balance
    BY <1>8, RoundedRange, BoundsAreRound
  <2>2. x < Exact
    <3>1. x >= Exact => Rounded(x) >= Exact
      BY <1>4, RoundedRange
    <3> QED
      BY <1>4, <1>6, <1>7, <1>8, <2>1, <3>1, BoundsAreRound
  <2>3. Rounded(x) = x
    BY <1>4, <2>2, RoundedRange, BoundsAreRound
  <2>4. g < Exact
    <3>1. g >= Exact => Rounded(g) >= Exact
      BY <1>1, RoundedRange
    <3> QED
      BY <1>1, <1>4, <2>2, <3>1, BoundsAreRound
  <2>5. Rounded(g) = g
    BY <1>1, <2>4, RoundedRange, BoundsAreRound
  <2> QED
    BY <1>7, <1>8, <2>1, <2>3, <2>5
<1>9. ASSUME Affordable(c, balance) PROVE 2 * (g + s) <= 2 * balance + 3 * Grain
  <2> HIDE DEF x
  <2>1. x = Rounded(g) + s
    BY DEF x
  <2> QED
    BY <1>1, <1>4, <1>5, <1>6, <1>7, <1>9, <2>1, BoundsAreRound
<1>10. ASSUME ~Affordable(c, balance) PROVE 2 * balance < 2 * (g + s) + 2 + 3 * Grain
  <2>1. Rounded(x + 1) > Rounded(balance)
    BY <1>2, <1>6, <1>10 DEF Affordable
  <2> HIDE DEF x
  <2>2. x = Rounded(g) + s
    BY DEF x
  <2> QED
    BY <1>1, <1>4, <1>5, <1>6, <2>1, <2>2, BoundsAreRound
<1> QED
  BY <1>3, <1>8, <1>9, <1>10

\* Uniswap: in time the swap brings all of the amount if the price has risen by less than
\* the margin, and nothing if by more (_buy_tokens, swapETHForExactTokens).
THEOREM UniswapWithinMargin ==
  \A amount \in Int, m \in Markets, read, mined, price \in Nat :
    \A c \in Costs("Uniswap", amount, m) :
      LET bought == UniswapBought(UniswapSwap(c, amount, read), mined, price)
          quoted == Rounded(m.amountsIn) IN
      /\ mined <= read + WEB3_TIMEOUT /\ 5 * price * Exact <= 6 * quoted * (Exact - Slack)
           => bought = amount
      /\ 5 * price > 6 * quoted => bought = 0
<1> SUFFICES ASSUME NEW amount \in Int, NEW m \in Markets, NEW read \in Nat,
                    NEW mined \in Nat, NEW price \in Nat,
                    NEW c \in Costs("Uniswap", amount, m)
             PROVE  LET bought == UniswapBought(UniswapSwap(c, amount, read), mined, price)
                        quoted == Rounded(m.amountsIn) IN
                    /\ mined <= read + WEB3_TIMEOUT /\ 5 * price * Exact <= 6 * quoted * (Exact - Slack)
                         => bought = amount
                    /\ 5 * price > 6 * quoted => bought = 0
  OBVIOUS
<1> DEFINE quoted == Rounded(m.amountsIn)
           s == c.eth_sold
           bought == UniswapBought(UniswapSwap(c, amount, read), mined, price)
<1>1. quoted \in Nat
  <2>1. m.amountsIn \in Nat
    BY DEF Markets
  <2> QED
    BY <2>1, RoundedNat
<1>2. Price("Uniswap", amount, m) = [num |-> quoted, den |-> 1]
  BY DEF Price
<1>3. s \in EthSold([num |-> quoted, den |-> 1]) /\ s \in Nat
  BY <1>2, CostsOfSwap
<1>4. s \in 0 .. (6 * quoted) \div (5 * 1) /\ 5 * (s + 1) * 1 * Exact > 6 * quoted * (Exact - Slack)
  BY <1>3 DEF EthSold
<1>5. bought = IF mined <= read + WEB3_TIMEOUT /\ price <= s THEN amount ELSE 0
  BY DEF UniswapBought, UniswapSwap
<1> HIDE DEF quoted, s, bought
<1>6. 5 * s <= 6 * quoted
  BY <1>1, <1>3, <1>4
<1>7. ASSUME 5 * price * Exact <= 6 * quoted * (Exact - Slack) PROVE price <= s
  <2>1. Exact * (5 * price) <= Exact * (5 * (s + 1)) /\ Exact * (5 * price) # Exact * (5 * (s + 1))
    BY <1>1, <1>3, <1>4, <1>7, BoundsAreRound DEF Slack
  <2>2. 5 * price <= 5 * (s + 1)
    BY <1>3, <2>1, Products, BoundsAreRound
  <2> QED
    BY <1>3, <2>1, <2>2
<1>8. ASSUME 5 * price > 6 * quoted PROVE ~(price <= s)
  BY <1>1, <1>3, <1>6, <1>8
<1>9. mined <= read + WEB3_TIMEOUT /\ 5 * price * Exact <= 6 * quoted * (Exact - Slack)
        => bought = amount
  BY <1>5, <1>7
<1>10. 5 * price > 6 * quoted => bought = 0
  BY <1>5, <1>8
<1> QED
  BY <1>9, <1>10 DEF quoted, bought

\* Kyber: the rate asked for is that of ETH for a token where the trade has the one of
\* tokens for ETH.  For tokens worth less than half an ETH it asks for nothing: after the
\* price has doubled the trade is made and brings three fifths of the amount at most.
THEOREM KyberDoublePrice ==
  \A amount \in Int, m \in Markets, rate \in Nat :
    \A c \in Costs("Kyber", amount, m) :
      LET price == KyberRate(m) IN
      2 * price <= Exact =>
        /\ 2 * price * (rate + 1) > Exact * Exact => rate >= KyberTrade(c, amount).minConversionRate
        /\ 2 * price * rate <= Exact * Exact => 5 * KyberBought(KyberTrade(c, amount), rate) <= 3 * amount
<1> SUFFICES ASSUME NEW amount \in Int, NEW m \in Markets, NEW rate \in Nat,
                    NEW c \in Costs("Kyber", amount, m), 2 * KyberRate(m) <= Exact
             PROVE  /\ 2 * KyberRate(m) * (rate + 1) > Exact * Exact
                         => rate >= KyberTrade(c, amount).minConversionRate
                    /\ 2 * KyberRate(m) * rate <= Exact * Exact
                         => 5 * KyberBought(KyberTrade(c, amount), rate) <= 3 * amount
  OBVIOUS
<1> DEFINE p == KyberRate(m)
           s == c.eth_sold
<1>1. p \in Nat /\ p > 0 /\ 2 * p <= Exact
  <2>1. m.expected \in Nat /\ m.slippage \in Nat /\ m.expected # 0
    BY CostsOfSwap DEF Markets, HasRate
  <2>2. MaxOf(m.expected, m.slippage) \in Nat /\ MaxOf(m.expected, m.slippage) > 0
    BY <2>1 DEF MaxOf
  <2> QED
    BY <2>2, RoundedNat DEF KyberRate
<1>2. amount \in Nat /\ s \in Nat /\ KyberTrade(c, amount).minConversionRate = p
      /\ KyberTrade(c, amount).value = s /\ KyberTrade(c, amount).maxDestAmount = amount
  BY CostsOfSwap DEF KyberTrade
<1>3. s \in EthSold([num |-> amount * p, den |-> Exact])
  BY CostsOfSwap DEF Price
<1>4. s \in 0 .. (6 * (amount * p)) \div (5 * Exact)
  BY <1>3 DEF EthSold
<1> HIDE DEF p, s
<1>5. (5 * Exact) * s <= 6 * (amount * p)
  <2> DEFINE n == 6 * (amount * p)
             d == 5 * Exact
             q == n \div d
  <2>1. n \in Nat /\ d \in Nat \ {0}
    <3>1. amount * p \in Nat
      BY <1>1, <1>2
    <3> QED
      BY <3>1, BoundsAreRound
  <2>2. n % d \in 0 .. d - 1 /\ q \in Int /\ n = d * q + (n % d)
    <3> HIDE DEF n, d
    <3> QED
      BY <2>1, Division
  <2>3. s <= q
    BY <1>4, <2>2
  <2> HIDE DEF n, d, q
  <2>4. d * s <= d * q
    BY <1>2, <2>1, <2>2, <2>3, Products
  <2>5. d * s \in Int /\ d * q \in Int
    BY <1>2, <2>1, <2>2
  <2>6. d * s <= n
    BY <2>1, <2>2, <2>4, <2>5
  <2> QED
    BY <2>6 DEF n, d
<1>6. ASSUME 2 * p * (rate + 1) > Exact * Exact PROVE rate >= p
  <2>1. SUFFICES ASSUME rate + 1 <= p PROVE FALSE
    BY <1>1
  <2>2. (2 * p) * (rate + 1) <= (2 * p) * p
    BY <1>1, <2>1, Products
  <2>3. (2 * p) * p <= (2 * p) * Exact
    <3>1. p <= Exact
      BY <1>1, BoundsAreRound
    <3> QED
      BY <1>1, <3>1, Products, BoundsAreRound
  <2>4. Exact * (2 * p) <= Exact * Exact
    BY <1>1, Products, BoundsAreRound
  <2>5. Exact * (2 * p) = (2 * p) * Exact
    BY <1>1, BoundsAreRound
  <2> DEFINE a == (2 * p) * (rate + 1)
             b == (2 * p) * p
             d == (2 * p) * Exact
             e == Exact * Exact
  <2>6. a \in Int /\ b \in Int /\ d \in Int /\ e \in Int
    BY <1>1, BoundsAreRound
  <2>7. a <= b /\ b <= d /\ d <= e
    BY <2>2, <2>3, <2>4, <2>5
  <2>8. a > e
    BY <1>6
  <2> HIDE DEF a, b, d, e
  <2> QED
    BY <2>6, <2>7, <2>8
<1>7. ASSUME 2 * p * rate <= Exact * Exact PROVE 5 * ((s * rate) \div Exact) <= 3 * amount
  <2> DEFINE d == (s * rate) \div Exact
  <2>1. s * rate \in Nat
    BY <1>2
  <2>2. d \in Int /\ Exact * d <= s * rate
    <3> DEFINE n == s * rate
    <3>1. n \in Int /\ Exact \in Nat \ {0}
      BY <2>1, BoundsAreRound
    <3>2. n % Exact \in 0 .. Exact - 1 /\ d \in Int /\ n = Exact * d + (n % Exact)
      <4> HIDE DEF n
      <4> QED
        BY <3>1, Division DEF n
    <3>3. Exact * d \in Int
      BY <3>1, <3>2
    <3> HIDE DEF d, n
    <3>4. Exact * d <= n
      BY <3>1, <3>2, <3>3
    <3> QED
      BY <3>2, <3>4 DEF n
  <2> HIDE DEF d
  <2>3. (2 * rate) * ((5 * Exact) * s) <= (2 * rate) * (6 * (amount * p))
    <3>1. (5 * Exact) * s \in Int /\ 6 * (amount * p) \in Int /\ 2 * rate \in Nat
      BY <1>1, <1>2, BoundsAreRound
    <3> QED
      BY <1>5, <3>1, Products
  <2>4. (6 * amount) * (2 * p * rate) <= (6 * amount) * (Exact * Exact)
    <3>1. 2 * p * rate \in Int /\ Exact * Exact \in Int /\ 6 * amount \in Nat
      BY <1>1, <1>2, BoundsAreRound
    <3> QED
      BY <1>7, <3>1, Products
  <2>5. Exact * (10 * (s * rate)) <= Exact * (6 * amount * Exact)
    <3>1. (2 * rate) * ((5 * Exact) * s) = Exact * (10 * (s * rate))
      BY <1>2, BoundsAreRound
    <3>2. (2 * rate) * (6 * (amount * p)) = (6 * amount) * (2 * p * rate)
      BY <1>1, <1>2
    <3>3. (6 * amount) * (Exact * Exact) = Exact * (6 * amount * Exact)
      BY <1>2, BoundsAreRound
    <3> DEFINE a == (2 * rate) * ((5 * Exact) * s)
               b == (2 * rate) * (6 * (amount * p))
               e == (6 * amount) * (Exact * Exact)
    <3>4. a \in Int /\ b \in Int /\ e \in Int
      BY <1>1, <1>2, BoundsAreRound
    <3>5. a <= b /\ b <= e
      BY <2>3, <2>4, <3>2
    <3>6. a <= e
      <4> HIDE DEF a, b, e
      <4> QED
        BY <3>4, <3>5
    <3> QED
      BY <3>1, <3>3, <3>6
  <2>6. 10 * (s * rate) <= 6 * amount * Exact
    <3>1. 10 * (s * rate) \in Int /\ 6 * amount * Exact \in Int
      BY <1>2, <2>1, BoundsAreRound
    <3> QED
      BY <2>5, <3>1, Products, BoundsAreRound
  <2>7. Exact * (10 * d) <= Exact * (6 * amount)
    <3>1. Exact * (10 * d) = 10 * (Exact * d) /\ Exact * (6 * amount) = 6 * amount * Exact
          /\ Exact * d \in Int /\ 6 * amount * Exact \in Int
      BY <1>2, <2>2, BoundsAreRound
    <3> QED
      BY <2>1, <2>2, <2>6, <3>1
  <2>8. 10 * d <= 6 * amount
    BY <1>2, <2>2, <2>7, Products, BoundsAreRound
  <2>9. 5 * d <= 3 * amount
    BY <1>2, <2>2, <2>8
  <2> QED
    BY <2>9 DEF d
<1>8. ASSUME 2 * p * rate <= Exact * Exact
      PROVE  5 * KyberBought(KyberTrade(c, amount), rate) <= 3 * amount
  <2>1. KyberBought(KyberTrade(c, amount), rate) \in {MinOf(amount, (s * rate) \div Exact), 0}
    BY <1>2 DEF KyberBought
  <2>2. (s * rate) \div Exact \in Int
    <3>1. s * rate \in Int
      BY <1>2
    <3> QED
      BY <3>1, BoundsAreRound
  <2>3. 5 * MinOf(amount, (s * rate) \div Exact) <= 3 * amount
    <3> DEFINE d == (s * rate) \div Exact
    <3>1. d \in Int /\ 5 * d <= 3 * amount
      BY <1>7, <1>8, <2>2
    <3> HIDE DEF d
    <3>2. MinOf(amount, d) \in Int /\ MinOf(amount, d) <= d
      BY <1>2, <3>1 DEF MinOf
    <3>3. 5 * MinOf(amount, d) <= 3 * amount
      BY <1>2, <3>1, <3>2
    <3> QED
      BY <3>3 DEF d
  <2> QED
    BY <1>2, <2>1, <2>3
<1> QED
  BY <1>2, <1>6, <1>8 DEF p

-----------------------------------------------------------------------------
(* Amounts as shown *)

\* The powers of ten are numbers, those from 100 on hundreds.
LEMMA PowersAreNumbers ==
  /\ Powers \subseteq Nat \ {0} /\ Exa \in Nat \ {0}
  /\ Mega \in Nat /\ Mega = 1000 * 1000
  /\ \A p \in Powers : p >= 100 => p \div 100 \in Nat \ {0} /\ 100 * (p \div 100) = p
<1> USE DEF Mega, Giga, Tera, Peta, Exa
<1>1. {1, 1000, Mega, Giga, Tera, Peta} \subseteq Nat \ {0} /\ Exa \in Nat \ {0}
  BY SMT
<1>2. QED
  BY SMTT(60) DEF Powers

\* Every number of at most 18 digits has a first one.
LEMMA LeadExists ==
  ASSUME NEW f \in Nat, f > 0, f < Exa
  PROVE  Lead(f) \in Powers /\ Lead(f) \in Nat \ {0} /\ Lead(f) <= f /\ f < 10 * Lead(f)
<1>1. ASSUME NEW b \in {1, 1000, Mega, Giga, Tera, Peta}, f >= b, f < 1000 * b
      PROVE  \E p \in Powers : p <= f /\ f < 10 * p
  <2>0. b \in Nat
    BY SMT DEF Mega, Giga, Tera, Peta
  <2>1. 1 * b \in Powers /\ 10 * b \in Powers /\ 100 * b \in Powers
    BY DEF Powers
  <2>2. CASE f < 10 * b
    BY <1>1, <2>0, <2>1, <2>2
  <2>3. CASE f >= 10 * b /\ f < 100 * b
    BY <1>1, <2>0, <2>1, <2>3
  <2>4. CASE f >= 100 * b
    BY <1>1, <2>0, <2>1, <2>4
  <2> QED
    BY <2>0, <2>2, <2>3, <2>4
<1>2. \E b \in {1, 1000, Mega, Giga, Tera, Peta} : f >= b /\ f < 1000 * b
  BY SMT DEF Mega, Giga, Tera, Peta, Exa
<1>3. Lead(f) \in Powers /\ Lead(f) <= f /\ f < 10 * Lead(f)
  BY <1>1, <1>2, SMTT(30) DEF Lead
<1>4. Powers \subseteq Nat \ {0}
  BY PowersAreNumbers
<1>5. Lead(f) \in Nat \ {0}
  BY <1>3, <1>4
<1> QED
  BY <1>3, <1>5

\* Three digits are off by a 200th at most, and something stays.
LEMMA ThreeDigitsBound ==
  ASSUME NEW f \in Nat, f < Exa
  PROVE  /\ ThreeDigits(f) \in Nat
         /\ 200 * ThreeDigits(f) <= 201 * f /\ 199 * f <= 200 * ThreeDigits(f)
<1>1. CASE f < 100
  BY <1>1 DEF ThreeDigits
<1>2. CASE f >= 100
  <2> DEFINE p == Lead(f)
             g == p \div 100
  <2>1. p \in Powers /\ p \in Nat \ {0} /\ p <= f /\ f < 10 * p
    BY <1>2, LeadExists
  <2>2. g \in Nat \ {0} /\ 100 * g = p
    <3>1. p >= 100
      <4> HIDE DEF p
      <4>1. \A q \in Powers : 10 * q > 100 => q >= 100
        BY SMT DEF Powers, Mega, Giga, Tera, Peta
      <4> QED
        BY <1>2, <2>1, <4>1
    <3> HIDE DEF p
    <3> QED
      BY <2>1, <3>1, PowersAreNumbers
  <2>3. /\ RoundTo(f, g) \in Int
        /\ 2 * RoundTo(f, g) <= 2 * f + g /\ 2 * f <= 2 * RoundTo(f, g) + g
    <3> HIDE DEF g, p
    <3>1. f \in Int /\ g \in Nat \ {0}
      BY <2>2
    <3> QED
      BY <3>1, RoundToMultiple
  <2>4. ThreeDigits(f) = RoundTo(f, g)
    BY <1>2 DEF ThreeDigits
  <2> HIDE DEF g, p
  <2> QED
    BY <1>2, <2>1, <2>2, <2>3, <2>4
<1> QED
  BY <1>1, <1>2

\* An amount in its unit.
LEMMA InUnits ==
  ASSUME NEW n \in Nat
  PROVE  /\ Unit(n) \in Nat \ {0} /\ Unit(n) <= Exa
         /\ Integral(n) \in Nat /\ Frac(n) \in Nat /\ Frac(n) < Unit(n)
         /\ Integral(n) * Unit(n) \in Nat /\ n = Integral(n) * Unit(n) + Frac(n)
         /\ Integral(n) = 0 => 1000 * Frac(n) >= Unit(n) \/ n = 0
<1> DEFINE u == Unit(n)
<1>1. u \in Nat \ {0} /\ u <= Exa /\ (1000 * n >= u \/ n = 0)
  BY SMT DEF Unit, Mega, Giga, Tera, Peta, Exa
<1> HIDE DEF u
<1>2. n % u \in 0 .. u - 1 /\ n \div u \in Int /\ n = u * (n \div u) + (n % u)
  BY <1>1, Division
<1> DEFINE i == n \div u
           f == n % u
<1>3. i \in Nat
  <2> HIDE DEF i, f
  <2>1. SUFFICES ASSUME i <= -1 PROVE FALSE
    BY <1>2 DEF i
  <2>2. u * i = -(u * (-i)) /\ u * (-i) = u + u * (-i - 1) /\ u * (-i - 1) \in Nat
    BY <1>1, <1>2, <2>1 DEF i
  <2> QED
    BY <1>1, <1>2, <2>2 DEF i, f
<1>4. i * u = u * i /\ i * u \in Nat
  <2> HIDE DEF i
  <2> QED
    BY <1>1, <1>3
<1>5. i = 0 => n = f
  <2> HIDE DEF i
  <2>1. i = 0 => u * i = 0
    BY <1>1
  <2> QED
    BY <1>2, <2>1 DEF i
<1> HIDE DEF i, f
<1>6. n = i * u + f /\ f \in Nat /\ f < u /\ (i = 0 => 1000 * f >= u \/ n = 0)
  BY <1>1, <1>2, <1>4, <1>5 DEF i, f
<1> QED
  BY <1>1, <1>3, <1>4, <1>6 DEF Integral, Frac, u, i, f

\* An amount is shown to three digits of its fraction, unless these round up to one or are
\* written with an exponent (format_value).
THEOREM ShownToThreeDigits ==
  \A n \in Nat :
    LET f == Frac(n)
        r == ThreeDigits(f) IN
    r # Unit(n) /\ (Mega * r >= Unit(n) \/ f = 0)
      => 200 * Shown(n) <= 200 * n + f /\ 200 * n <= 200 * Shown(n) + f
<1> SUFFICES ASSUME NEW n \in Nat, ThreeDigits(Frac(n)) # Unit(n),
                    Mega * ThreeDigits(Frac(n)) >= Unit(n) \/ Frac(n) = 0
             PROVE  /\ 200 * Shown(n) <= 200 * n + Frac(n)
                    /\ 200 * n <= 200 * Shown(n) + Frac(n)
  OBVIOUS
<1> DEFINE u == Unit(n)
           i == Integral(n)
           f == Frac(n)
           r == ThreeDigits(f)
           w == i * u
<1>1. u \in Nat \ {0} /\ f \in Nat /\ f < u /\ w \in Nat /\ n = w + f
      /\ u <= Exa
  BY InUnits
<1>2. r \in Nat /\ 200 * r <= 201 * f /\ 199 * f <= 200 * r
  <2>1. f \in Nat /\ f < Exa
    <3> HIDE DEF u, f
    <3> QED
      BY <1>1, PowersAreNumbers
  <2> HIDE DEF f
  <2> QED
    BY <2>1, ThreeDigitsBound DEF r
<1>3. Shown(n) = IF r = 0 \/ r = u THEN w ELSE IF Mega * r >= u THEN w + r
                 ELSE i * Lead(r) + (r % Lead(r))
  BY DEF Shown
<1> HIDE DEF u, f, r, w
<1>4. r # u /\ (Mega * r >= u \/ f = 0)
  BY DEF u, f, r
<1>5. Shown(n) = w + r
  BY <1>1, <1>2, <1>3, <1>4
<1>6. 200 * (w + r) <= 200 * n + f /\ 200 * n <= 200 * (w + r) + f
  BY <1>1, <1>2
<1> QED
  BY <1>5, <1>6 DEF f

\* The carry is lost: a fraction that is rounded up to one is left out, and the amount is
\* shown by nearly a whole unit too small (1.9996 ETH as 1.00 ETH).
THEOREM ShownWithoutCarry ==
  \A n \in Nat :
    Frac(n) # 0 /\ ThreeDigits(Frac(n)) = Unit(n)
      => Shown(n) = n - Frac(n) /\ 201 * Frac(n) >= 200 * Unit(n)
<1> SUFFICES ASSUME NEW n \in Nat, Frac(n) # 0, ThreeDigits(Frac(n)) = Unit(n)
             PROVE  Shown(n) = n - Frac(n) /\ 201 * Frac(n) >= 200 * Unit(n)
  OBVIOUS
<1>1. /\ Unit(n) \in Nat \ {0} /\ Frac(n) \in Nat /\ Frac(n) < Unit(n)
      /\ Integral(n) * Unit(n) \in Nat /\ n = Integral(n) * Unit(n) + Frac(n)
      /\ Unit(n) <= Exa
  BY InUnits
<1>2. 200 * ThreeDigits(Frac(n)) <= 201 * Frac(n)
  <2>1. Frac(n) \in Nat /\ Frac(n) < Exa
    BY <1>1, PowersAreNumbers
  <2> QED
    BY <2>1, ThreeDigitsBound
<1>3. Shown(n) = Integral(n) * Unit(n)
  BY DEF Shown
<1> DEFINE w == Integral(n) * Unit(n)
<1> HIDE DEF w
<1>4. n = w + Frac(n) /\ w \in Nat /\ Shown(n) = w
  BY <1>1, <1>3 DEF w
<1> QED
  BY <1>1, <1>2, <1>4

\* The first digit of an exponent's number is lost, and the exponent is read for all of the
\* amount: with a fraction below 10^-6 less than 1/500000 of it is shown (1.0000001 ETH as
\* 1e-7 ETH).
THEOREM ShownWithExponent ==
  \A n \in Nat :
    LET r == ThreeDigits(Frac(n)) IN
    r > 0 /\ Mega * r < Unit(n) => Mega * Shown(n) < 2 * n
<1> SUFFICES ASSUME NEW n \in Nat, ThreeDigits(Frac(n)) > 0,
                    Mega * ThreeDigits(Frac(n)) < Unit(n)
             PROVE  Mega * Shown(n) < 2 * n
  OBVIOUS
<1> DEFINE u == Unit(n)
           i == Integral(n)
           f == Frac(n)
           r == ThreeDigits(f)
           p == Lead(r)
           w == i * u
<1>1. u \in Nat \ {0} /\ f \in Nat /\ f < u /\ w \in Nat /\ n = w + f /\ i \in Nat
      /\ u <= Exa /\ (i = 0 => 1000 * f >= u \/ n = 0)
  BY InUnits
<1>2. r \in Nat /\ 200 * r <= 201 * f /\ 199 * f <= 200 * r
  <2>1. f \in Nat /\ f < Exa
    <3> HIDE DEF u, f
    <3> QED
      BY <1>1, PowersAreNumbers
  <2> HIDE DEF f
  <2> QED
    BY <2>1, ThreeDigitsBound DEF r
<1>3. Shown(n) = IF r = 0 \/ r = u THEN w ELSE IF Mega * r >= u THEN w + r
                 ELSE i * p + (r % p)
  BY DEF Shown
<1>4. r > 0 /\ Mega * r < u
  OBVIOUS
<1>5. p \in Nat \ {0} /\ p <= r
  <2>1. r < Exa
    <3> HIDE DEF r, u, f
    <3>1. r <= Mega * r
      BY <1>2, PowersAreNumbers
    <3>2. Mega * r \in Nat
      BY <1>2, PowersAreNumbers
    <3> QED
      BY <1>1, <1>2, <1>4, <3>1, <3>2, PowersAreNumbers
  <2> HIDE DEF r
  <2> QED
    BY <1>2, <1>4, <2>1, LeadExists
<1> HIDE DEF u, f, r, w, p, i
<1>6. Shown(n) = i * p + (r % p)
  <2>1. r <= Mega * r /\ Mega * r \in Nat
    BY <1>2, PowersAreNumbers
  <2>2. r # 0 /\ r # u /\ ~(Mega * r >= u)
    BY <1>1, <1>2, <1>4, <2>1
  <2> QED
    BY <1>3, <2>2
<1>7. i >= 1
  <2>1. 1000 * r <= Mega * r
    BY <1>2, PowersAreNumbers
  <2> QED
    BY <1>1, <1>2, <1>4, <2>1, PowersAreNumbers
<1>8. r % p \in Nat /\ r % p < p
  BY <1>2, <1>5
<1>9. i * (Mega * p) <= w /\ i * (Mega * p) \in Int
  <2>1. Mega * p <= u /\ Mega * p \in Int
    BY <1>1, <1>2, <1>4, <1>5, PowersAreNumbers
  <2>2. i * (Mega * p) <= i * u
    BY <1>1, <2>1, Products
  <2> QED
    BY <1>1, <2>1, <2>2 DEF w
<1>10. p <= i * p /\ i * p \in Nat /\ i * (Mega * p) = Mega * (i * p)
  <2>1. i * p = p + (i - 1) * p /\ (i - 1) * p \in Nat
    BY <1>1, <1>5, <1>7
  <2> QED
    BY <1>1, <1>5, <2>1, PowersAreNumbers
<1> DEFINE y == i * p
           t == r % p
<1>11. Mega * y <= w /\ y \in Nat /\ p <= y
  BY <1>9, <1>10
<1>12. t \in Nat /\ t < p /\ Shown(n) = y + t
  BY <1>6, <1>8
<1> HIDE DEF y, t
<1> QED
  BY <1>1, <1>5, <1>11, <1>12, PowersAreNumbers

-----------------------------------------------------------------------------
(* Tables of tokens and networks *)

\* A table has an entry for a key if a pair starts with it.
LEMMA InTable ==
  \A table, key : Entry(table, key) # {} <=> \E e \in table : e[1] = key
BY DEF Entry

\* Each network has one chain id and each chain id one network (get_by_chain_id takes the
\* last name of those with the id).
THEOREM ChainIdsAreUnique ==
  \A c \in ChainIds : ChainId(c[1]) = {c[2]} /\ Names(c[2]) = {c[1]}
BY DEF ChainIds, ChainId, Names, Entry

\* What the tables say of the tokens on each network, over all versions.
Known ==
  {<<"RDN", MainnetRDN>>} \cup ({"DAI"} \X DAI) \cup ({"WIZ"} \X WIZ) \cup ({"SVT"} \X SVT)
    \cup ({"RDN"} \X {<<"goerli", "0x70911812">>, <<"goerli", "0x3a989d97">>,
                      <<"goerli", "0x4074fd4d">>, <<"ropsten", "0x5422ef69">>,
                      <<"rinkeby", "0x51892e7e">>, <<"kovan", "0x3a031556">>})

\* Every entry of a table of any version is one of the known ones.
LEMMA TablesAreKnown ==
  ASSUME NEW t \in {Unversioned} \cup {v[2] : v \in Versioned}, NEW e \in t, NEW d \in e[2]
  PROVE  <<e[1], d>> \in Known
<1>1. ASSUME NEW x \in Unversioned, NEW y \in x[2] PROVE <<x[1], y>> \in Known
  BY <1>1 DEF Unversioned, Known
<1>2. ASSUME NEW v \in Versioned, NEW x \in v[2], NEW y \in x[2] PROVE <<x[1], y>> \in Known
  <2>1. \/ x[1] = "RDN" /\ x[2] \in {{MainnetRDN, <<"goerli", "0x3a989d97">>},
                                    {MainnetRDN, <<"goerli", "0x70911812">>},
                                    {<<"goerli", "0x4074fd4d">>}, {MainnetRDN}}
        \/ x = <<"DAI", DAI>> \/ x = <<"WIZ", WIZ>> \/ x = <<"SVT", SVT>>
    <3> DEFINE V25 == {<<"RDN", {MainnetRDN, <<"goerli", "0x3a989d97">>}>>}
               V33 == {<<"RDN", {MainnetRDN, <<"goerli", "0x70911812">>}>>,
                       <<"DAI", DAI>>, <<"WIZ", WIZ>>}
               V36 == {<<"RDN", {<<"goerli", "0x4074fd4d">>}>>, <<"DAI", DAI>>, <<"WIZ", WIZ>>}
               V37 == {<<"RDN", {MainnetRDN}>>, <<"SVT", SVT>>, <<"DAI", DAI>>, <<"WIZ", WIZ>>}
    <3>1. v[2] \in {V25, V33, V36, V37}
      <4>1. \/ v = <<"0.25", V25>> \/ v = <<"0.33", V33>> \/ v = <<"0.36", V36>>
            \/ v = <<"0.37", V37>>
        BY Zenon DEF Versioned
      <4> HIDE DEF V25, V33, V36, V37
      <4> QED
        BY <4>1
    <3>2. \/ x \in {<<"RDN", {MainnetRDN, <<"goerli", "0x3a989d97">>}>>,
                    <<"RDN", {MainnetRDN, <<"goerli", "0x70911812">>}>>,
                    <<"RDN", {<<"goerli", "0x4074fd4d">>}>>, <<"RDN", {MainnetRDN}>>}
          \/ x \in {<<"DAI", DAI>>, <<"WIZ", WIZ>>, <<"SVT", SVT>>}
      BY <3>1, Zenon
    <3> QED
      BY <3>2
  <2>2. CASE x[1] = "RDN"
    BY <2>1, <2>2 DEF Known
  <2>3. CASE x = <<"DAI", DAI>> \/ x = <<"WIZ", WIZ>> \/ x = <<"SVT", SVT>>
    <3>1. /\ {"DAI"} \X DAI \subseteq Known /\ {"WIZ"} \X WIZ \subseteq Known
          /\ {"SVT"} \X SVT \subseteq Known
      BY DEF Known
    <3> QED
      BY <2>3, <3>1
  <2> QED
    BY <2>1, <2>2, <2>3
<1> QED
  BY <1>1, <1>2

\* What find_by_ticker finds is one of the known entries.
LEMMA FoundIsKnown ==
  ASSUME NEW version, NEW ticker, NEW network, NEW a \in Find(version, ticker, network)
  PROVE  <<ticker, <<network, a>>>> \in Known
<1>1. PICK t \in {Unversioned} \cup {v[2] : v \in Versioned} :
        \E e \in t : e[1] = ticker /\ (\E d \in e[2] : d[1] = network /\ d[2] = a)
  BY DEF Find, Entry
<1>e. PICK e \in t : e[1] = ticker /\ (\E d \in e[2] : d[1] = network /\ d[2] = a)
  BY <1>1
<1>d. PICK d \in e[2] : d[1] = network /\ d[2] = a
  BY <1>e
<1>2. <<e[1], d>> \in Known
  BY TablesAreKnown
<1>3. d = <<d[1], d[2]>>
  BY <1>2 DEF Known, MainnetRDN, DAI, WIZ, SVT
<1> QED
  BY <1>e, <1>d, <1>2, <1>3

\* The wizard and Kyber never take different contracts for a token of the same name on the
\* same network, whatever the version of Raiden's contracts.
THEOREM KyberAgrees ==
  ASSUME NEW version, NEW ticker, NEW c \in ChainIds,
         NEW a \in Find(version, ticker, c[1]), NEW b \in KyberAddress(c[2], ticker)
  PROVE  a = b
<1>1. <<ticker, <<c[1], a>>>> \in Known
  BY FoundIsKnown
<1>k. PICK k \in Kyber : k[1] = c[2] /\ (\E e \in k[2] : e[1] = ticker /\ e[2] = b)
  BY DEF KyberAddress, Entry
<1>2. PICK e \in k[2] : k[1] = c[2] /\ e[1] = ticker /\ e[2] = b
  BY <1>k
<1>3. CASE c[2] = 1
  <2>1. c[1] = "mainnet" /\ k[2] = KyberMainnet
    BY <1>2, <1>3 DEF ChainIds, Kyber
  <2> QED
    BY <1>1, <1>2, <2>1 DEF Known, MainnetRDN, DAI, WIZ, SVT, KyberMainnet, Ether
<1>4. CASE c[2] = 3
  <2>1. c[1] = "ropsten" /\ k[2] = KyberRopsten
    BY <1>2, <1>4 DEF ChainIds, Kyber
  <2> QED
    BY <1>1, <1>2, <2>1 DEF Known, MainnetRDN, DAI, WIZ, SVT, KyberRopsten, Ether
<1>5. CASE c[2] = 4
  <2>1. c[1] = "rinkeby" /\ k[2] = KyberRinkeby
    BY <1>2, <1>5 DEF ChainIds, Kyber
  <2> QED
    BY <1>1, <1>2, <2>1 DEF Known, MainnetRDN, DAI, WIZ, SVT, KyberRinkeby, Ether
<1>6. CASE c[2] = 42
  <2>1. c[1] = "kovan" /\ k[2] = KyberKovan
    BY <1>2, <1>6 DEF ChainIds, Kyber
  <2> QED
    BY <1>1, <1>2, <2>1 DEF Known, MainnetRDN, DAI, WIZ, SVT, KyberKovan, Ether
<1> QED
  BY <1>2, <1>3, <1>4, <1>5, <1>6 DEF Kyber

\* With the contracts the wizard is built for, its wizards for mainnet and goerli find both
\* of their tokens; those for kovan and ropsten raise TokenError before the first page.
THEOREM WizardsFindTheirTokens ==
  /\ \A s \in {"mainnet", "nightly", "demo_env", "goerli"} : Usable("0.37", Settings[s])
  /\ \A s \in {"kovan", "ropsten"} : ~Usable("0.37", Settings[s])
<1> DEFINE V37 == {<<"RDN", {MainnetRDN}>>, <<"SVT", SVT>>, <<"DAI", DAI>>, <<"WIZ", WIZ>>}
<1>1. Entry(Versioned, "0.37") = {V37}
  <2>1. \A v \in Versioned : v[1] = "0.37" <=> v = <<"0.37", V37>>
    BY DEF Versioned
  <2>2. <<"0.37", V37>> \in Versioned
    BY DEF Versioned
  <2> HIDE DEF V37
  <2> QED
    BY <2>1, <2>2 DEF Entry
<1>2. ASSUME NEW ticker, NEW network
      PROVE  Find("0.37", ticker, network)
               = UNION {Entry(data, network) : data \in Entry(V37, ticker)}
  <2> HIDE DEF V37
  <2>1. Entry(Versioned, "0.37") # {}
    BY <1>1
  <2>2. UNION {Entry(t, ticker) : t \in {V37}} = Entry(V37, ticker)
    OBVIOUS
  <2> QED
    BY <1>1, <2>1, <2>2 DEF Find
<1>3. /\ Entry(V37, "RDN") = {{MainnetRDN}} /\ Entry(V37, "SVT") = {SVT}
      /\ Entry(V37, "DAI") = {DAI} /\ Entry(V37, "WIZ") = {WIZ}
  <2>1. /\ \A e \in V37 : e[1] = "RDN" <=> e = <<"RDN", {MainnetRDN}>>
        /\ \A e \in V37 : e[1] = "SVT" <=> e = <<"SVT", SVT>>
        /\ \A e \in V37 : e[1] = "DAI" <=> e = <<"DAI", DAI>>
        /\ \A e \in V37 : e[1] = "WIZ" <=> e = <<"WIZ", WIZ>>
    OBVIOUS
  <2>2. /\ <<"RDN", {MainnetRDN}>> \in V37 /\ <<"SVT", SVT>> \in V37
        /\ <<"DAI", DAI>> \in V37 /\ <<"WIZ", WIZ>> \in V37
    OBVIOUS
  <2> HIDE DEF V37
  <2> QED
    BY <2>1, <2>2 DEF Entry
<1> HIDE DEF V37
<1>4. ASSUME NEW network
      PROVE  /\ Find("0.37", "RDN", network) = Entry({MainnetRDN}, network)
             /\ Find("0.37", "SVT", network) = Entry(SVT, network)
             /\ Find("0.37", "DAI", network) = Entry(DAI, network)
             /\ Find("0.37", "WIZ", network) = Entry(WIZ, network)
  <2>1. ASSUME NEW data PROVE UNION {Entry(d, network) : d \in {data}} = Entry(data, network)
    OBVIOUS
  <2>2. /\ Find("0.37", "RDN", network) = UNION {Entry(d, network) : d \in {{MainnetRDN}}}
        /\ Find("0.37", "SVT", network) = UNION {Entry(d, network) : d \in {SVT}}
        /\ Find("0.37", "DAI", network) = UNION {Entry(d, network) : d \in {DAI}}
        /\ Find("0.37", "WIZ", network) = UNION {Entry(d, network) : d \in {WIZ}}
    <3>1. \A t, data :
            Entry(V37, t) = data
              => Find("0.37", t, network) = UNION {Entry(d, network) : d \in data}
      BY <1>2, Zenon
    <3> QED
      BY <1>3, <3>1, Zenon
  <2> QED
    BY <2>1, <2>2
<1>5. /\ Entry({MainnetRDN}, "mainnet") # {}
      /\ Entry({MainnetRDN}, "kovan") = {} /\ Entry({MainnetRDN}, "ropsten") = {}
  <2>1. MainnetRDN[1] = "mainnet"
    BY DEF MainnetRDN
  <2> QED
    BY <2>1, InTable
<1>6. Entry(DAI, "mainnet") # {} /\ Entry(SVT, "goerli") # {} /\ Entry(WIZ, "goerli") # {}
  <2>1. /\ \E e \in DAI : e[1] = "mainnet"
        /\ \E e \in SVT : e[1] = "goerli"
        /\ \E e \in WIZ : e[1] = "goerli"
    BY DEF DAI, SVT, WIZ
  <2> QED
    BY <2>1, InTable
<1> QED
  BY <1>4, <1>5, <1>6 DEF Usable, Settings, Setting

-----------------------------------------------------------------------------
(* Releases *)

\* A set of numbers up to n that is not empty has a greatest one: a p above which
\* there are no more of them than above any other, as sets that grow smaller come to
\* an end.
LEMMA GreatestExists ==
  ASSUME NEW n \in Nat, NEW S \in SUBSET (1 .. n), S # {}
  PROVE  \E p \in S : \A q \in S : q <= p
<1> DEFINE Above(p) == {q \in S : q > p}
           T == {Above(p) : p \in S}
<1>0. S \subseteq Int /\ IsFiniteSet(1 .. n)
  BY FS_Interval
<1>1. IsFiniteSet(S)
  BY <1>0, FS_Subset
<1>2. T \subseteq FiniteSubsetsOf(S)
  BY <1>1, FS_Subset DEF FiniteSubsetsOf
<1>3. T # {}
  OBVIOUS
<1>4. PICK x \in T : \A y \in T : <<y, x>> \notin StrictSubsetOrdering(S)
  <2> HIDE DEF T
  <2> QED
    BY <1>2, <1>3, FS_StrictSubsetOrderingWellFounded, WFMin
<1>5. PICK p \in S : x = Above(p)
  BY <1>4
<1>6. ASSUME NEW q \in S, q > p PROVE FALSE
  <2>1. \A r \in S : r > q => r > p
    BY <1>0, <1>6
  <2>2. Above(q) \subseteq Above(p)
    BY <2>1
  <2>3. q \in Above(p) /\ q \notin Above(q)
    <3>1. q \in Above(p)
      BY <1>6
    <3>2. ~(q > q)
      BY <1>0
    <3> QED
      BY <3>1, <3>2
  <2>4. <<Above(q), Above(p)>> \in StrictSubsetOrdering(S)
    BY <2>2, <2>3 DEF StrictSubsetOrdering
  <2> QED
    BY <1>4, <1>5, <2>4
<1> QED
  BY <1>0, <1>6

\* The last digit of a number and what is before it.
LEMMA LastDigit ==
  \A n \in 0 .. 999 :
    n % 10 \in 0 .. 9 /\ n \div 10 \in 0 .. 99 /\ n = 10 * (n \div 10) + (n % 10)
  BY SMTT(30)

\* The place of a number of one, two or three digits.
One(n) == n \in 0 .. 9 /\ Place(n) = 111 * n
Two(n, d, e) ==
  d \in 1 .. 9 /\ e \in 0 .. 9 /\ n = 10 * d + e /\ Place(n) = 111 * d + 11 * e + 1
Three(n, f, d, e) ==
  /\ f \in 1 .. 9 /\ d \in 0 .. 9 /\ e \in 0 .. 9
  /\ n = 100 * f + 10 * d + e /\ Place(n) = 111 * f + 11 * d + e + 2

\* Every number has one, two or three digits, and its place is made of them.
LEMMA PlaceOfDigits ==
  ASSUME NEW n \in Numbers
  PROVE  One(n) \/ (\E d, e : Two(n, d, e)) \/ (\E f, d, e : Three(n, f, d, e))
<1> DEFINE tens == n \div 10
           e == n % 10
<1>1. n \in Nat /\ n < 1000
  BY DEF Numbers
<1>2. e \in 0 .. 9 /\ tens \in 0 .. 99 /\ n = 10 * tens + e
  BY LastDigit DEF Numbers
<1>3. CASE n < 10
  BY <1>1, <1>3 DEF Place, One
<1>4. CASE n >= 10 /\ n < 100
  <2>1. Place(n) = 111 * tens + 11 * e + 1
    BY <1>1, <1>4 DEF Place
  <2>2. tens \in 1 .. 9
    <3> HIDE DEF tens, e
    <3> QED
      BY <1>1, <1>2, <1>4
  <2>3. Two(n, tens, e)
    <3> HIDE DEF tens, e
    <3> QED
      BY <1>2, <2>1, <2>2 DEF Two
  <2> QED
    BY <2>3
<1>5. CASE n >= 100
  <2> DEFINE f == n \div 100
             d == tens % 10
  <2>1. Place(n) = 111 * f + 11 * d + e + 2
    BY <1>1, <1>5 DEF Place
  <2>2. f = tens \div 10
    BY <1>1, SMTT(30)
  <2>3. d \in 0 .. 9 /\ tens = 10 * f + d /\ f \in Nat
    <3>1. tens \in 0 .. 999
      BY <1>2
    <3>2. d \in 0 .. 9 /\ tens \div 10 \in 0 .. 99 /\ tens = 10 * (tens \div 10) + d
      BY <3>1, LastDigit
    <3> HIDE DEF tens, f, d
    <3> QED
      BY <2>2, <3>2
  <2>4. f \in 1 .. 9 /\ n = 100 * f + 10 * d + e
    <3> HIDE DEF tens, e, f, d
    <3> QED
      BY <1>1, <1>2, <1>5, <2>3
  <2>5. Three(n, f, d, e)
    <3> HIDE DEF tens, e, f, d
    <3> QED
      BY <1>2, <2>1, <2>3, <2>4 DEF Three
  <2> QED
    BY <2>5
<1> QED
  BY <1>1, <1>3, <1>4, <1>5

\* Different numbers have different strings, at different places.
LEMMA PlaceIsInjective == \A m, n \in Numbers : Place(m) = Place(n) => m = n
<1> SUFFICES ASSUME NEW m \in Numbers, NEW n \in Numbers, Place(m) = Place(n)
             PROVE  m = n
  OBVIOUS
<1>1. ASSUME One(m), One(n) PROVE m = n
  <2>1. m \in Int /\ n \in Int
    BY DEF Numbers
  <2>2. 111 * m = 111 * n
    BY <1>1, Zenon DEF One
  <2> QED
    BY <2>1, <2>2
<1>2. ASSUME NEW d, NEW e PROVE ~(One(m) /\ Two(n, d, e)) /\ ~(One(n) /\ Two(m, d, e))
  BY DEF One, Two
<1>3. ASSUME NEW f, NEW d, NEW e
      PROVE  ~(One(m) /\ Three(n, f, d, e)) /\ ~(One(n) /\ Three(m, f, d, e))
  BY DEF One, Three
<1>4. ASSUME NEW a, NEW b, NEW d, NEW e, Two(m, a, b), Two(n, d, e) PROVE m = n
  BY <1>4 DEF Two
<1>5. ASSUME NEW a, NEW b, NEW f, NEW d, NEW e
      PROVE  /\ ~(Two(m, a, b) /\ Three(n, f, d, e))
             /\ ~(Two(n, a, b) /\ Three(m, f, d, e))
  BY SMTT(30) DEF Two, Three
<1>6. ASSUME NEW a, NEW b, NEW c, NEW f, NEW d, NEW e,
             Three(m, a, b, c), Three(n, f, d, e)
      PROVE  m = n
  BY <1>6 DEF Three
<1>7. /\ One(m) \/ (\E d, e : Two(m, d, e)) \/ (\E f, d, e : Three(m, f, d, e))
      /\ One(n) \/ (\E d, e : Two(n, d, e)) \/ (\E f, d, e : Three(n, f, d, e))
  BY PlaceOfDigits
<1> QED
  BY <1>1, <1>2, <1>3, <1>4, <1>5, <1>6, <1>7

\* A place is a number.
LEMMA PlaceIsInt == \A n \in Numbers : Place(n) \in Int
  BY DEF Place, Numbers

\* Versions of releases are compared lexicographically: a strict total order.
LEMMA VersionsAreOrdered ==
  /\ \A r, s \in Releases : VersionBefore(r, s) => ~VersionBefore(s, r) /\ ~SameVersion(r, s)
  /\ \A r, s, t \in Releases :
       VersionBefore(r, s) /\ VersionBefore(s, t) => VersionBefore(r, t)
  /\ \A r, s \in Releases : VersionBefore(r, s) \/ VersionBefore(s, r) \/ SameVersion(r, s)
<1>1. \A r \in Releases : r.major \in Numbers /\ r.minor \in Numbers /\ r.revision \in Numbers
  BY DEF Releases
<1>2. ASSUME NEW m \in Numbers, NEW n \in Numbers
      PROVE  Before(m, n) \/ Before(n, m) \/ m = n
  <2>1. Place(m) < Place(n) \/ Place(n) < Place(m) \/ Place(m) = Place(n)
    BY PlaceIsInt
  <2> QED
    BY <2>1, PlaceIsInjective DEF Before
<1>3. \A m, n \in Numbers : Before(m, n) => ~Before(n, m) /\ m # n
  BY PlaceIsInt DEF Before
<1>4. \A k, m, n \in Numbers : Before(k, m) /\ Before(m, n) => Before(k, n)
  BY PlaceIsInt DEF Before
<1>5. \A r, s \in Releases : VersionBefore(r, s) => ~VersionBefore(s, r) /\ ~SameVersion(r, s)
  BY <1>1, <1>3 DEF VersionBefore, SameVersion
<1>6. \A r, s, t \in Releases :
        VersionBefore(r, s) /\ VersionBefore(s, t) => VersionBefore(r, t)
  BY <1>1, <1>4 DEF VersionBefore
<1>7. \A r, s \in Releases : VersionBefore(r, s) \/ VersionBefore(s, r) \/ SameVersion(r, s)
  BY <1>1, <1>2 DEF VersionBefore, SameVersion
<1> QED
  BY <1>5, <1>6, <1>7

\* The modifiers and the place order_version_modifier gives them.
LEMMA ModifierTypes ==
  \A r \in Releases :
    /\ Modifier(r) \in {NoModifier, "alpha", "beta", "rc"}
    /\ r.number \in Numbers /\ Place(r.number) \in Int
  BY PlaceIsInt DEF Modifier, Modifiers, Releases

\* Releases of one version are ordered by modifier and number.
ModifierBefore(r, s) ==
  \/ Modifier(r) # Modifier(s) /\ Order(Modifier(r)) < Order(Modifier(s))
  \/ NumberBefore(r, s)

\* Within a version modifiers and their numbers are a strict total order.
LEMMA ModifiersAreOrdered ==
  /\ \A r, s \in Releases : ModifierBefore(r, s) => ~ModifierBefore(s, r) /\ ~Equal(r, s)
  /\ \A r, s, t \in Releases :
       ModifierBefore(r, s) /\ ModifierBefore(s, t) => ModifierBefore(r, t)
  /\ \A r, s \in Releases :
       SameVersion(r, s) => ModifierBefore(r, s) \/ ModifierBefore(s, r) \/ Equal(r, s)
<1> USE DEF ModifierBefore, NumberBefore, Before, Order, NotAType, NoModifier
<1>1. \A r, s \in Releases : ModifierBefore(r, s) => ~ModifierBefore(s, r) /\ ~Equal(r, s)
  BY ModifierTypes DEF Equal
<1>2. \A r, s, t \in Releases :
        ModifierBefore(r, s) /\ ModifierBefore(s, t) => ModifierBefore(r, t)
  BY ModifierTypes
<1>3. ASSUME NEW r \in Releases, NEW s \in Releases, SameVersion(r, s)
      PROVE  ModifierBefore(r, s) \/ ModifierBefore(s, r) \/ Equal(r, s)
  <2>1. CASE Modifier(r) # Modifier(s)
    BY <2>1, ModifierTypes
  <2>2. CASE Modifier(r) = Modifier(s)
    <3>1. \/ Place(r.number) < Place(s.number) \/ Place(s.number) < Place(r.number)
          \/ r.number = s.number
      BY ModifierTypes, PlaceIsInjective
    <3> QED
      BY <1>3, <2>2, <3>1 DEF Equal
  <2> QED
    BY <2>1, <2>2
<1> QED
  BY <1>1, <1>2, <1>3

\* __gt__ compares the version first.
LEMMA GreaterIsLexicographic ==
  \A r, s \in Releases :
    Greater(s, r) <=> VersionBefore(r, s) \/ (SameVersion(r, s) /\ ModifierBefore(r, s))
  BY ModifierTypes DEF Greater, ModifierBefore, SameVersion, Order, NumberBefore, NotAType

\* __gt__ is a strict total order whose equality is __eq__: of two releases exactly one
\* is greater, or they are equal.
THEOREM GreaterIsTotalOrder ==
  /\ \A r, s \in Releases : Greater(r, s) => ~Greater(s, r) /\ ~Equal(r, s)
  /\ \A r, s, t \in Releases : Greater(r, s) /\ Greater(s, t) => Greater(r, t)
  /\ \A r, s \in Releases : Greater(r, s) \/ Greater(s, r) \/ Equal(r, s)
<1>0. /\ \A r, s, t \in Releases :
           VersionBefore(r, s) /\ SameVersion(s, t) => VersionBefore(r, t)
      /\ \A r, s, t \in Releases :
           SameVersion(r, s) /\ VersionBefore(s, t) => VersionBefore(r, t)
      /\ \A r, s, t \in Releases :
           SameVersion(r, s) /\ SameVersion(s, t) => SameVersion(r, t)
      /\ \A r, s \in Releases : SameVersion(r, s) => SameVersion(s, r)
      /\ \A r, s \in Releases : Equal(r, s) => SameVersion(r, s) /\ Equal(s, r)
  BY DEF VersionBefore, SameVersion, Equal
<1>1. \A r, s \in Releases : Greater(r, s) => ~Greater(s, r) /\ ~Equal(r, s)
  BY <1>0, GreaterIsLexicographic, VersionsAreOrdered, ModifiersAreOrdered
<1>2. ASSUME NEW r \in Releases, NEW s \in Releases, NEW t \in Releases,
             Greater(r, s), Greater(s, t)
      PROVE  Greater(r, t)
  BY <1>0, <1>2, GreaterIsLexicographic, VersionsAreOrdered, ModifiersAreOrdered
<1>3. \A r, s \in Releases : Greater(r, s) \/ Greater(s, r) \/ Equal(r, s)
  BY <1>0, GreaterIsLexicographic, VersionsAreOrdered, ModifiersAreOrdered
<1> QED
  BY <1>1, <1>2, <1>3

\* __lt__, by which sorted compares, never contradicts __gt__.
THEOREM LessIsNeverWrong == \A r, s \in Releases : Less(r, s) => Greater(s, r)
<1> SUFFICES ASSUME NEW r \in Releases, NEW s \in Releases, Less(r, s)
             PROVE  Greater(s, r)
  OBVIOUS
<1>1. ~(Order(Modifier(r)) < NotAType)
  BY ModifierTypes DEF Order, NotAType, NoModifier
<1> QED
  BY <1>1 DEF Less, Greater, SameVersion, NumberBefore

\* __lt__ misses what __gt__ sees: with the modifiers of one version it puts neither
\* before the other, because it looks for the number of the other among the modifiers.
THEOREM LessMissesModifiers ==
  \A r, s \in Releases :
    SameVersion(r, s) /\ Modifier(r) # Modifier(s)
      => /\ ~Less(r, s) /\ ~Less(s, r)
         /\ Greater(r, s) \/ Greater(s, r)
<1> SUFFICES ASSUME NEW r \in Releases, NEW s \in Releases,
                    SameVersion(r, s), Modifier(r) # Modifier(s)
             PROVE  ~Less(r, s) /\ ~Less(s, r) /\ (Greater(r, s) \/ Greater(s, r))
  OBVIOUS
<1>1. ~(Order(Modifier(r)) < NotAType) /\ ~(Order(Modifier(s)) < NotAType)
  BY ModifierTypes DEF Order, NotAType, NoModifier
<1>2. SameVersion(s, r)
  BY DEF SameVersion
<1>3. ~VersionBefore(r, s) /\ ~VersionBefore(s, r)
  BY <1>2, VersionsAreOrdered
<1>4. ~Less(r, s) /\ ~Less(s, r)
  BY <1>1, <1>3 DEF Less, NumberBefore
<1>5. ~Equal(r, s)
  BY DEF Equal
<1> QED
  BY <1>4, <1>5, GreaterIsTotalOrder

\* What sorted needs of __lt__ fails: three releases of one version, the middle one not
\* told apart from the other two, which are.  The result depends on the order of the
\* index.
THEOREM SortedIsNotDetermined ==
  \E r, s, t \in Releases :
    /\ ~Less(r, s) /\ ~Less(s, r) /\ ~Less(s, t) /\ ~Less(t, s)
    /\ Less(r, t)
<1> DEFINE R(w, n) == [major |-> 1, minor |-> 1, revision |-> 1, word |-> w, number |-> n]
<1>1. R("a", 1) \in Releases /\ R("b", 1) \in Releases /\ R("a", 2) \in Releases
  BY DEF Releases, Numbers, Modifiers
<1>2. /\ Modifier(R("a", 1)) = "alpha" /\ Modifier(R("a", 2)) = "alpha"
      /\ Modifier(R("b", 1)) = "beta"
  BY DEF Modifier, Modifiers
<1>3. SameVersion(R("a", 1), R("b", 1)) /\ SameVersion(R("b", 1), R("a", 2))
      /\ SameVersion(R("a", 1), R("a", 2))
  BY DEF SameVersion
<1>4. /\ ~Less(R("a", 1), R("b", 1)) /\ ~Less(R("b", 1), R("a", 1))
      /\ ~Less(R("b", 1), R("a", 2)) /\ ~Less(R("a", 2), R("b", 1))
  <2> HIDE DEF R
  <2> QED
    BY <1>1, <1>2, <1>3, LessMissesModifiers
<1>5. Before(1, 2)
  BY DEF Before, Place
<1>6. Less(R("a", 1), R("a", 2))
  BY <1>2, <1>3, <1>5 DEF Less, NumberBefore, NoModifier
<1> QED
  BY <1>1, <1>4, <1>6

\* A release is put below its own candidates: __gt__ gives what has no modifier the
\* lowest place (order_version_modifier).
THEOREM FinalIsSmallest ==
  \A r, s \in Releases :
    SameVersion(r, s) /\ Modifier(r) = NoModifier /\ Modifier(s) # NoModifier
      => Greater(s, r)
  BY ModifierTypes DEF Greater, SameVersion, Order, NotAType, NoModifier

\* The parts of a version are compared as strings, the numbers of one digit by their value
\* but 10 below 9 (VersionData).
THEOREM TenIsBeforeNine == Before(10, 9) /\ \A m, n \in 0 .. 9 : Before(m, n) <=> m < n
  BY DEF Before, Place

\* The nightly a tag names is the oldest of its day: the later ones of that day cannot
\* be had.
THEOREM TagNamesOldest ==
  ASSUME NEW s \in Seq(Nightlies), NewestFirst(s), NEW i \in DOMAIN s
  PROVE  /\ Tag(ByTag(s, Tag(s[i]))) = Tag(s[i])
         /\ ByTag(s, Tag(s[i])).time <= s[i].time
<1> DEFINE tag == Tag(s[i])
           same == {j \in DOMAIN s : Tag(s[j]) = tag}
           k == CHOOSE j \in DOMAIN s : Tag(s[j]) = tag
                                        /\ \A l \in DOMAIN s : Tag(s[l]) = tag => l <= j
<1>1. same \subseteq 1 .. Len(s) /\ i \in same /\ Len(s) \in Nat
  OBVIOUS
<1>2. \E j \in same : \A l \in same : l <= j
  <2> HIDE DEF same
  <2> QED
    BY <1>1, GreatestExists
<1>3. k \in DOMAIN s /\ Tag(s[k]) = tag /\ i <= k
  <2>1. \E j \in DOMAIN s : Tag(s[j]) = tag
                            /\ \A l \in DOMAIN s : Tag(s[l]) = tag => l <= j
    BY <1>2
  <2>2. k \in DOMAIN s /\ Tag(s[k]) = tag
        /\ \A l \in DOMAIN s : Tag(s[l]) = tag => l <= k
    <3> HIDE DEF tag
    <3> QED
      BY <2>1
  <2> QED
    BY <2>2
<1>4. ByTag(s, tag) = s[k]
  BY DEF ByTag
<1>5. s[k].time <= s[i].time
  <2> HIDE DEF k
  <2>1. s[i].time \in Nat /\ i \in Int /\ k \in Int
    <3>1. DOMAIN s = 1 .. Len(s) /\ s[i] \in Nightlies
      OBVIOUS
    <3>2. s[i].time \in Nat
      BY <3>1 DEF Nightlies
    <3>3. i \in Int /\ k \in Int
      BY <1>1, <1>3, <3>1
    <3> QED
      BY <3>2, <3>3
  <2> QED
    BY <1>3, <2>1 DEF NewestFirst
<1> QED
  BY <1>3, <1>4, <1>5
=============================================================================
