------------------------- MODULE UdcDepositProofs -------------------------
(***************************************************************************)
(* Proofs about UdcDeposit, for every amount, precision and bound.         *)
(***************************************************************************)
EXTENDS UdcDeposit, SequenceTheorems, TLAPS

-----------------------------------------------------------------------------
(***************************************************************************)
(* Lemmas on rounding and on the pool                                      *)
(***************************************************************************)

\* Rounding yields an amount, off by at most half of the last digit kept
\* (CurrencyAmount).
LEMMA RoundedBound ==
  ASSUME NEW n \in Nat
  PROVE  Rounded(n) \in Nat /\ 2 * Rounded(n) <= 2 * n + Grain
<1>1. n % Grain \in 0 .. Grain - 1
  BY PrecisionAssumption
<1>2. n % Grain \in Nat /\ (n < Exact \/ n % Grain <= n)
  BY <1>1, PrecisionAssumption
<1> QED
  BY <1>1, <1>2, PrecisionAssumption DEF Rounded, RoundTo

\* What is rounded is not much more than the amount it yields.
LEMMA RoundedBelow ==
  ASSUME NEW n \in Nat
  PROVE  2 * n <= 2 * Rounded(n) + Grain
<1>1. n % Grain \in 0 .. Grain - 1
  BY PrecisionAssumption
<1> QED
  BY <1>1, PrecisionAssumption DEF Rounded, RoundTo

\* A bound relative to the total survives when the total grows.
LEMMA BoundGrows ==
  ASSUME NEW t \in Nat, NEW u \in Nat, NEW a \in Nat, NEW v \in Nat,
         v <= t + a + Grain, t <= u
  PROVE  v <= u + a + Grain
BY PrecisionAssumption

\* Sums grow with their parts.
LEMMA SumGrows ==
  ASSUME NEW w \in Nat, NEW x \in Nat, NEW t \in Nat, NEW u \in Nat,
         (x >= w /\ u >= t) \/ x + u = w + t
  PROVE  x + u >= w + t
OBVIOUS

\* What reaches the account adds to its wallet.
LEMMA GetAdds ==
  ASSUME wallet \in Nat, NEW n \in Deliveries \cup Transfers, Get(n)
  PROVE  wallet' \in Nat /\ wallet' > wallet
<1>1. n \in Nat /\ n > 0
  BY AmountsAssumption
<1> QED
  BY <1>1 DEF Get

\* A purchase takes nothing out of the wallet.
LEMMA AcquireAdds ==
  ASSUME wallet \in Nat, MineAcquire
  PROVE  wallet' \in Nat /\ wallet' >= wallet
<1>1. CASE wallet' = wallet
  BY <1>1
<1>2. CASE \E n \in Deliveries : Get(n)
  <2>1. PICK n \in Deliveries : Get(n)
    BY <1>2
  <2> QED
    BY <2>1, GetAdds
<1> QED
  BY <1>1, <1>2 DEF MineAcquire

\* Sending adds one transaction at the end of the pool and moves no others.
LEMMA SendPool ==
  ASSUME TypeOK, NEW op \in {"acquire", "approve", "deposit"}, NEW n \in Nat,
         NEW a \in Nat, Send(op, n, a)
  PROVE  /\ pool' \in Seq(Tx)
         /\ Len(pool) \in Nat /\ Len(pool') = Len(pool) + 1
         /\ \A i \in 1 .. Len(pool) : pool'[i] = pool[i]
         /\ pool'[Len(pool) + 1] =
              [op |-> op, amount |-> n, asked |-> a, kind |-> kind, clean |-> clean]
<1>1. [op |-> op, amount |-> n, asked |-> a, kind |-> kind, clean |-> clean] \in Tx
  BY DEF TypeOK, Tx
<1> QED
  BY <1>1 DEF TypeOK, Send

\* Mining takes the first transaction and moves the others one place up.
LEMMA MinePool ==
  ASSUME TypeOK, pool # << >>, pool' = Tail(pool)
  PROVE  /\ Head(pool) = pool[1] /\ pool[1] \in Tx /\ pool' \in Seq(Tx)
         /\ Len(pool) \in Nat /\ Len(pool) > 0 /\ Len(pool') = Len(pool) - 1
         /\ \A i \in 1 .. Len(pool') : pool'[i] = pool[i + 1]
BY DEF TypeOK

-----------------------------------------------------------------------------
(***************************************************************************)
(* Types                                                                   *)
(***************************************************************************)

\* Every step keeps the types; only reading and mining have to be looked at.
LEMMA TypeStep == TypeOK /\ [Next]_vars => TypeOK'
<1> SUFFICES ASSUME TypeOK, [Next]_vars PROVE TypeOK'
  OBVIOUS
<1> USE AmountsAssumption, PrecisionAssumption, BoundsAssumption
<1>1. Rounded(wallet) \in Nat /\ Rounded(Effective) \in Nat /\ Rounded(total) \in Nat
  <2>1. Effective \in Nat
    BY DEF TypeOK, Effective
  <2> QED
    BY <2>1, RoundedBound DEF TypeOK
<1>2. \A m, n \in Nat : Rounded(m + n) \in Nat
  BY RoundedBound
<1>3. ASSUME NEW op \in {"acquire", "approve", "deposit"}, NEW n \in Nat,
             NEW a \in Nat, Send(op, n, a), pc' \in Steps
      PROVE  TypeOK'
  BY <1>3, SendPool DEF TypeOK, Send, chain, locals
<1>4. ASSUME Forget, UNCHANGED <<chain, pool>>, faults' \in 0 .. MaxFaults
      PROVE  TypeOK'
  BY <1>4 DEF TypeOK, Forget, chain, Steps, Kinds
<1>5. ASSUME pool # << >>, pool' = Tail(pool)
      PROVE  pool' \in Seq(Tx) /\ Head(pool) \in Tx
  BY <1>5, MinePool
<1>6. ASSUME NEW k \in Kinds, NEW first \in {"acquire", "balance"}, Start(k, first)
      PROVE  TypeOK'
  BY <1>6 DEF TypeOK, Start, chain, Steps, Kinds
<1>7. ASSUME Work PROVE TypeOK'
  <2>1. CASE Acquire
    BY <2>1, <1>3 DEF Acquire, Steps, Waiting
  <2>2. CASE Confirmed("acquired", "balance") \/ Confirmed("approved", "deposit")
             \/ Confirmed("done", "redirect")
    BY <2>2 DEF TypeOK, Confirmed, chain, locals, Steps
  <2>3. CASE ReadBalance
    <3>1. clean' \in BOOLEAN /\ exact' \in BOOLEAN
      BY <2>3, Zenon DEF ReadBalance, IsExact
    <3> QED
      BY <2>3, <3>1, <1>1 DEF TypeOK, ReadBalance, chain, Steps
  <2>4. CASE ReadOwned \/ ReadEffective
    <3>1. owned' \in Nat /\ amount' \in Nat /\ pc' \in Steps
      BY <2>4, <1>1 DEF TypeOK, ReadOwned, ReadEffective, Steps
    <3>2. UNCHANGED <<chain, pool, kind, balance, target, clean, exact, faults>>
      BY <2>4 DEF ReadOwned, ReadEffective
    <3> QED
      BY <3>1, <3>2 DEF TypeOK, chain
  <2>5. CASE ReadDeposited
    <3>1. amount' \in Nat
      <4>1. CASE Rounded(Effective) < Required /\ balance >= SwapAmount
        <5>1. SwapAmount - Rounded(Effective) \in Nat
          BY <4>1, <1>1
        <5> QED
          BY <2>5, <4>1, <5>1, <1>1, RoundedBound DEF TypeOK, ReadDeposited
      <4> QED
        BY <2>5, <4>1, <1>1 DEF TypeOK, ReadDeposited
    <3> QED
      BY <2>5, <3>1 DEF TypeOK, ReadDeposited, chain, Steps, IsExact
  <2>6. CASE ReadTotal
    BY <2>6, <1>1, <1>2 DEF TypeOK, ReadTotal, chain, Steps
  <2>7. CASE ReadAllowance
    BY <2>7 DEF TypeOK, ReadAllowance, chain, locals, Steps
  <2>8. CASE SendReset
    BY <2>8, <1>3 DEF SendReset, Steps
  <2>9. CASE SendApprove
    BY <2>9, <1>3 DEF SendApprove, TypeOK, Steps, Waiting
  <2>10. CASE SendDeposit
    BY <2>10, <1>3 DEF SendDeposit, TypeOK, Steps, Waiting
  <2>11. CASE Answer
    BY <2>11, <1>4 DEF Answer, TypeOK
  <2> QED
    BY <1>7, <2>1, <2>2, <2>3, <2>4, <2>5, <2>6, <2>7, <2>8, <2>9, <2>10, <2>11
    DEF Work
<1>8. ASSUME Interrupt PROVE TypeOK'
  BY <1>8, <1>4 DEF Interrupt, TypeOK
<1>9. ASSUME Mine PROVE TypeOK'
  <2>1. CASE MineAcquire
    BY <2>1, <1>5 DEF TypeOK, MineAcquire, Get, locals
  <2>2. CASE MineApprove
    BY <2>2, <1>5 DEF TypeOK, MineApprove, locals, Tx
  <2>3. CASE MineDeposit
    <3>1. pool' \in Seq(Tx) /\ Head(pool).amount \in Nat
      BY <2>3, <1>5 DEF MineDeposit, Tx
    <3> QED
      BY <2>3, <3>1 DEF TypeOK, MineDeposit, CanDeposit, locals
  <2> QED
    BY <1>9, <2>1, <2>2, <2>3 DEF Mine
<1>10. ASSUME Claim \/ Receive PROVE TypeOK'
  <2>1. CASE Claim
    BY <2>1 DEF TypeOK, Claim, Min2, locals
  <2>2. CASE Receive
    BY <2>2, GetAdds DEF TypeOK, Receive, locals
  <2> QED
    BY <1>10, <2>1, <2>2
<1>11. ASSUME UNCHANGED vars PROVE TypeOK'
  BY <1>11 DEF TypeOK, vars, chain, locals
<1> QED
  BY <1>6, <1>7, <1>8, <1>9, <1>10, <1>11 DEF Next

\* The types of UdcDeposit hold in every state.
THEOREM TypeCorrect == Spec => []TypeOK
<1>1. Init => TypeOK
  BY BoundsAssumption DEF Init, TypeOK, Steps, Kinds
<1> QED
  BY <1>1, TypeStep, PTL DEF Spec

-----------------------------------------------------------------------------
(***************************************************************************)
(* The inductive invariants                                                *)
(***************************************************************************)

\* Between reading total_deposit and sending the deposit.
Approving == {"allowance", "reset", "approve", "approved", "deposit"}

\* A deposit is sent only when its approval is mined and nothing else is pending,
\* so it is always the first transaction of the pool, and what it is to reach is
\* at most what the request asked for above a total that has not fallen since.
DepositFirst ==
  /\ \A i \in 1 .. Len(pool) : pool[i].op = "deposit" =>
        /\ i = 1
        /\ allowance = pool[1].amount
        /\ pool[1].amount <= total + pool[1].asked + Grain
  /\ pc \in Approving => target <= total + amount + Grain
  /\ pc = "approved" =>
        IF pool = << >> THEN allowance = target
        ELSE pool[Len(pool)].op = "approve" /\ pool[Len(pool)].amount = target
  /\ pc = "deposit" => pool = << >> /\ allowance = target

\* A request that began with nothing pending has nothing pending but the
\* approvals it sent, and its approval follows a zero.
ZeroFirst ==
  /\ \A i \in 1 .. Len(pool) :
        pool[i].op = "approve" /\ pool[i].amount > 0 /\ pool[i].clean =>
          \/ i = 1 /\ allowance = 0
          \/ i = 2 /\ pool[1].op = "approve" /\ pool[1].amount = 0
  /\ clean /\ pc \in {"owned", "effective", "deposited", "total", "allowance", "reset"} =>
        pool = << >>
  /\ clean /\ pc = "approve" =>
        \/ pool = << >> /\ allowance = 0
        \/ Len(pool) = 1 /\ pool[1].op = "approve" /\ pool[1].amount = 0

\* The amount a clean and exact request decides on stays in the wallet until its
\* own deposit takes it.
Settling ==
  /\ pc \in {"idle", "acquire", "acquired", "balance", "owned", "effective",
            "deposited", "total"} => target = 0
  /\ clean /\ exact =>
       /\ pc \in {"owned", "effective", "deposited"} => balance <= wallet
       /\ pc = "total" => amount <= wallet
       /\ pc \in Approving =>
            /\ target = total + amount /\ amount <= wallet
            /\ \A i \in 1 .. Len(pool) : pool[i].op = "approve"
       /\ pc = "done" =>
            \/ pool = << >> /\ total >= target
            \/ /\ Len(pool) = 1 /\ pool[1].op = "deposit"
               /\ pool[1].amount = target
               /\ target = total + amount /\ amount <= wallet
       /\ pc = "redirect" => total >= target

\* What a request of _run_udc_deposit that began with nothing pending decided to
\* deposit stays needed until it is mined: no other deposit is pending.
StillNeeded ==
  /\ pc \in {"owned", "effective"} => kind = "swap"
  /\ kind = "udc_deposit" /\ clean /\ pc \in Approving \cup {"total"} =>
       /\ Effective < Required + Grain
       /\ \A i \in 1 .. Len(pool) : pool[i].op = "approve"
  /\ \A i \in 1 .. Len(pool) :
       pool[i].op = "deposit" /\ pool[i].kind = "udc_deposit" /\ pool[i].clean
         => Effective < Required + Grain

Inv == TypeOK /\ DepositFirst /\ ZeroFirst /\ Settling /\ StillNeeded

\* DepositFirst is inductive given the types: the interesting steps are reading
\* total_deposit, sending, and mining.
LEMMA DepositFirstStep ==
  TypeOK /\ DepositFirst /\ [Next]_vars => DepositFirst'
<1> SUFFICES ASSUME TypeOK, DepositFirst, [Next]_vars PROVE DepositFirst'
  OBVIOUS
<1> USE PrecisionAssumption
<1> DEFINE Pending(i) ==
      pool[i].op = "deposit" =>
        /\ i = 1
        /\ allowance = pool[1].amount
        /\ pool[1].amount <= total + pool[1].asked + Grain
<1>1. ASSUME UNCHANGED <<chain, pool>>, pc' \notin Approving
      PROVE  DepositFirst'
  BY <1>1 DEF DepositFirst, chain, Approving
<1>3. ASSUME NEW op \in {"acquire", "approve"}, NEW n \in Nat, Send(op, n, 0)
      PROVE  /\ \A i \in 1 .. Len(pool') : Pending(i)'
             /\ pool' # << >> /\ pool'[Len(pool')].op = op
             /\ pool'[Len(pool')].amount = n
  <2>1. /\ Len(pool) \in Nat /\ Len(pool') = Len(pool) + 1
        /\ \A i \in 1 .. Len(pool) : pool'[i] = pool[i]
        /\ pool'[Len(pool) + 1] =
             [op |-> op, amount |-> n, asked |-> 0, kind |-> kind, clean |-> clean]
    BY <1>3, SendPool
  <2>2. pool'[Len(pool')].op = op /\ pool'[Len(pool')].amount = n
    BY <2>1
  <2>3. pool' # << >>
    BY <1>3 DEF Send, TypeOK
  <2>4. ASSUME NEW i \in 1 .. Len(pool') PROVE Pending(i)'
    <3>1. CASE i = Len(pool')
      BY <3>1, <2>2
    <3>2. CASE i \in 1 .. Len(pool)
      BY <3>2, <2>1, <1>3 DEF DepositFirst, Send, chain
    <3> QED
      BY <2>1, <3>1, <3>2
  <2> QED
    BY <2>2, <2>3, <2>4
<1>4. ASSUME NEW k \in Kinds, NEW first \in {"acquire", "balance"}, Start(k, first)
      PROVE  DepositFirst'
  BY <1>4, <1>1 DEF Start, Approving
<1>5. ASSUME Work PROVE DepositFirst'
  <2>1. CASE Acquire
    BY <2>1, <1>3 DEF Acquire, DepositFirst, Approving
  <2>2. CASE Confirmed("acquired", "balance") \/ Confirmed("done", "redirect")
             \/ ReadBalance \/ ReadOwned \/ ReadEffective \/ ReadDeposited \/ Answer
    BY <2>2, <1>1
    DEF Confirmed, ReadBalance, ReadOwned, ReadEffective, ReadDeposited, Answer, Forget, Approving
  <2>3. CASE Confirmed("approved", "deposit")
    BY <2>3 DEF Confirmed, DepositFirst, chain, locals, Approving
  <2>4. CASE ReadTotal
    <3>1. target' <= total + amount + Grain
      <4>1. 2 * Rounded(total) <= 2 * total + Grain /\ Rounded(total) \in Nat
        BY RoundedBound DEF TypeOK
      <4>2. Rounded(total) + amount \in Nat
        BY <4>1 DEF TypeOK
      <4>3. 2 * target' <= 2 * (Rounded(total) + amount) + Grain /\ target' \in Nat
        BY <2>4, <4>2, RoundedBound DEF ReadTotal
      <4> QED
        BY <4>1, <4>3 DEF TypeOK
    <3> QED
      BY <2>4, <3>1 DEF ReadTotal, DepositFirst, chain, Approving
  <2>5. CASE ReadAllowance
    BY <2>5 DEF ReadAllowance, DepositFirst, chain, locals, Approving
  <2>6. CASE SendReset
    BY <2>6, <1>3 DEF SendReset, Send, DepositFirst, chain, locals, Approving
  <2>7. CASE SendApprove
    BY <2>7, <1>3 DEF SendApprove, Send, DepositFirst, chain, locals, Approving, TypeOK
  <2>8. CASE SendDeposit
    <3>1. Len(pool') = 1
          /\ pool'[1] = [op |-> "deposit", amount |-> target, asked |-> amount,
                         kind |-> kind, clean |-> clean]
      BY <2>8, SendPool DEF SendDeposit, DepositFirst, TypeOK
    <3> QED
      BY <2>8, <3>1 DEF SendDeposit, Send, DepositFirst, chain, Approving
  <2> QED
    BY <1>5, <2>1, <2>2, <2>3, <2>4, <2>5, <2>6, <2>7, <2>8 DEF Work
<1>6. ASSUME Interrupt PROVE DepositFirst'
  BY <1>6, <1>1 DEF Interrupt, Forget, Approving
<1>7. ASSUME Mine PROVE DepositFirst'
  <2>1. pool # << >> /\ pool' = Tail(pool)
    BY <1>7 DEF Mine, MineAcquire, MineApprove, MineDeposit
  <2>2. /\ Head(pool) = pool[1] /\ pool[1] \in Tx /\ pool' \in Seq(Tx)
        /\ Len(pool) \in Nat /\ Len(pool) > 0 /\ Len(pool') = Len(pool) - 1
        /\ \A i \in 1 .. Len(pool') : pool'[i] = pool[i + 1]
    BY <2>1, MinePool
  <2>3. \A i \in 1 .. Len(pool') : pool'[i].op # "deposit"
    <3>1. \A i \in 1 .. Len(pool) : pool[i].op = "deposit" => i = 1
      BY DEF DepositFirst
    <3>2. \A i \in 1 .. Len(pool') : i + 1 \in 1 .. Len(pool) /\ i + 1 # 1
      BY <2>2
    <3> QED
      BY <2>2, <3>1, <3>2
  <2>4. pc' = pc /\ amount' = amount /\ target' = target /\ total <= total'
    BY <1>7, <2>2
    DEF Mine, MineAcquire, MineApprove, MineDeposit, CanDeposit, locals, TypeOK, Tx
  <2>5. pc # "deposit"
    BY <2>1 DEF DepositFirst
  <2>6. ASSUME pc \in Approving PROVE target <= total' + amount + Grain
    <3>1. total' \in Nat /\ total \in Nat /\ amount \in Nat /\ target \in Nat
      BY TypeStep DEF TypeOK
    <3>2. target <= total + amount + Grain
      BY <2>6 DEF DepositFirst
    <3> QED
      BY <2>4, <3>1, <3>2, BoundGrows
  <2>7. ASSUME pc = "approved"
        PROVE  IF pool' = << >> THEN allowance' = target
               ELSE pool'[Len(pool')].op = "approve"
                    /\ pool'[Len(pool')].amount = target
    <3>1. pool[Len(pool)].op = "approve" /\ pool[Len(pool)].amount = target
      BY <2>1, <2>7 DEF DepositFirst
    <3>2. CASE pool' = << >>
      <4>1. Len(pool) = 1
        BY <3>2, <2>2
      <4>2. MineApprove
        BY <4>1, <3>1, <2>2, <1>7 DEF Mine, MineAcquire, MineDeposit
      <4> QED
        BY <4>1, <4>2, <3>1, <3>2, <2>2 DEF MineApprove
    <3>3. CASE pool' # << >>
      <4>1. Len(pool') \in 1 .. Len(pool') /\ Len(pool') + 1 = Len(pool)
        BY <3>3, <2>2
      <4> QED
        BY <4>1, <3>1, <3>3, <2>2
    <3> QED
      BY <3>2, <3>3
  <2> QED
    BY <2>3, <2>4, <2>5, <2>6, <2>7 DEF DepositFirst
<1>8. ASSUME Claim \/ Receive \/ UNCHANGED vars PROVE DepositFirst'
  BY <1>8 DEF Claim, Receive, DepositFirst, vars, chain, locals
<1> QED
  BY <1>4, <1>5, <1>6, <1>7, <1>8 DEF Next

\* ZeroFirst is inductive given the types: an approval enters the pool right
\* behind a zero, or an empty pool and no allowance.
LEMMA ZeroFirstStep ==
  TypeOK /\ ZeroFirst /\ [Next]_vars => ZeroFirst'
<1> SUFFICES ASSUME TypeOK, ZeroFirst, [Next]_vars PROVE ZeroFirst'
  OBVIOUS
<1> DEFINE Quiet == {"owned", "effective", "deposited", "total", "allowance", "reset"}
           Zeroed(i) ==
             pool[i].op = "approve" /\ pool[i].amount > 0 /\ pool[i].clean =>
               \/ i = 1 /\ allowance = 0
               \/ i = 2 /\ pool[1].op = "approve" /\ pool[1].amount = 0
<1>1. \A i \in 1 .. Len(pool) : Zeroed(i)
  BY DEF ZeroFirst
<1>2. ASSUME UNCHANGED <<chain, pool>>, pc' \notin Quiet \cup {"approve"}
      PROVE  ZeroFirst'
  BY <1>2 DEF ZeroFirst, chain
<1>3. ASSUME UNCHANGED <<chain, pool, clean>>, pc \in Quiet, pc' \in Quiet
      PROVE  ZeroFirst'
  BY <1>3 DEF ZeroFirst, chain
<1>4. ASSUME NEW op \in {"acquire", "approve", "deposit"}, NEW n \in Nat,
             NEW a \in Nat, Send(op, n, a),
             op = "approve" /\ n > 0 /\ clean =>
               \/ pool = << >> /\ allowance = 0
               \/ Len(pool) = 1 /\ pool[1].op = "approve" /\ pool[1].amount = 0
      PROVE  \A i \in 1 .. Len(pool') : Zeroed(i)'
  <2>1. /\ Len(pool) \in Nat /\ Len(pool') = Len(pool) + 1
        /\ \A i \in 1 .. Len(pool) : pool'[i] = pool[i]
        /\ pool'[Len(pool) + 1] =
             [op |-> op, amount |-> n, asked |-> a, kind |-> kind, clean |-> clean]
        /\ allowance' = allowance
    BY <1>4, SendPool DEF Send, chain
  <2>2. ASSUME NEW i \in 1 .. Len(pool') PROVE Zeroed(i)'
    <3>1. CASE i \in 1 .. Len(pool)
      <4>1. 1 \in 1 .. Len(pool) /\ pool'[i] = pool[i] /\ pool'[1] = pool[1]
        BY <3>1, <2>1
      <4> QED
        BY <4>1, <3>1, <1>1, <2>1
    <3>2. CASE i = Len(pool) + 1
      <4>1. CASE pool = << >>
        BY <4>1, <3>2, <2>1, <1>4
      <4>2. CASE pool # << >>
        BY <4>2, <3>2, <2>1, <1>4
      <4> QED
        BY <4>1, <4>2
    <3> QED
      BY <2>1, <3>1, <3>2
  <2> QED
    BY <2>2
<1>5. ASSUME NEW k \in Kinds, NEW first \in {"acquire", "balance"}, Start(k, first)
      PROVE  ZeroFirst'
  BY <1>5, <1>2 DEF Start
<1>6. ASSUME Work PROVE ZeroFirst'
  <2>1. CASE Acquire
    BY <2>1, <1>4 DEF Acquire, ZeroFirst
  <2>2. CASE Confirmed("acquired", "balance") \/ Confirmed("done", "redirect")
             \/ Confirmed("approved", "deposit") \/ Answer
    BY <2>2, <1>2 DEF Confirmed, Answer, Forget
  <2>3. CASE ReadBalance
    <3>1. clean' => pool' = << >>
      BY <2>3, Zenon DEF ReadBalance
    <3> QED
      BY <2>3, <3>1 DEF ReadBalance, ZeroFirst, chain
  <2>4. CASE ReadOwned \/ ReadEffective \/ ReadDeposited
    <3>1. CASE pc' \in {"effective", "total"}
      BY <2>4, <3>1, <1>3 DEF ReadOwned, ReadEffective, ReadDeposited
    <3>2. CASE pc' \notin {"effective", "total"}
      BY <2>4, <3>2, <1>2 DEF ReadOwned, ReadEffective, ReadDeposited
    <3> QED
      BY <3>1, <3>2
  <2>5. CASE ReadTotal
    BY <2>5, <1>3 DEF ReadTotal
  <2>6. CASE ReadAllowance
    BY <2>6 DEF ReadAllowance, ZeroFirst, chain, locals, TypeOK
  <2>7. CASE SendReset
    <3>1. clean => pool = << >>
      BY <2>7 DEF SendReset, ZeroFirst
    <3>2. clean => /\ Len(pool') = 1
                  /\ pool'[1].op = "approve" /\ pool'[1].amount = 0
      <4>1. /\ Len(pool') = Len(pool) + 1
            /\ pool'[Len(pool) + 1] = [op |-> "approve", amount |-> 0,
                                       asked |-> 0, kind |-> kind, clean |-> clean]
        BY <2>7, SendPool DEF SendReset
      <4>2. clean => Len(pool) = 0
        BY <3>1
      <4> QED
        BY <4>1, <4>2
    <3>3. \A i \in 1 .. Len(pool') : Zeroed(i)'
      BY <2>7, <1>4 DEF SendReset
    <3> QED
      BY <2>7, <3>2, <3>3 DEF SendReset, Send, locals, ZeroFirst
  <2>8. CASE SendApprove
    BY <2>8, <1>4 DEF SendApprove, TypeOK, ZeroFirst
  <2>9. CASE SendDeposit
    BY <2>9, <1>4 DEF SendDeposit, TypeOK, ZeroFirst
  <2> QED
    BY <1>6, <2>1, <2>2, <2>3, <2>4, <2>5, <2>6, <2>7, <2>8, <2>9 DEF Work
<1>7. ASSUME Interrupt PROVE ZeroFirst'
  BY <1>7, <1>2 DEF Interrupt, Forget
<1>8. ASSUME Mine PROVE ZeroFirst'
  <2>1. pool # << >> /\ pool' = Tail(pool)
    BY <1>8 DEF Mine, MineAcquire, MineApprove, MineDeposit
  <2>2. /\ Head(pool) = pool[1] /\ pool[1] \in Tx /\ pool' \in Seq(Tx)
        /\ Len(pool) \in Nat /\ Len(pool) > 0 /\ Len(pool') = Len(pool) - 1
        /\ \A i \in 1 .. Len(pool') : pool'[i] = pool[i + 1]
    BY <2>1, MinePool
  <2>3. pc' = pc /\ clean' = clean
    BY <1>8 DEF Mine, MineAcquire, MineApprove, MineDeposit, locals
  <2>4. pool[1].op = "approve" => allowance' = pool[1].amount
    BY <1>8, <2>2 DEF Mine, MineAcquire, MineApprove, MineDeposit
  <2>5. ASSUME NEW i \in 1 .. Len(pool') PROVE Zeroed(i)'
    <3>1. i + 1 \in 1 .. Len(pool) /\ pool'[i] = pool[i + 1] /\ i + 1 # 1
      BY <2>2
    <3>2. Zeroed(i + 1)
      BY <3>1, <1>1
    <3> QED
      BY <3>1, <3>2, <2>4
  <2>6. clean /\ pc = "approve" => pool' = << >> /\ allowance' = 0
    BY <2>1, <2>2, <2>4 DEF ZeroFirst
  <2> QED
    BY <2>1, <2>3, <2>5, <2>6 DEF ZeroFirst
<1>9. ASSUME Claim \/ Receive \/ UNCHANGED vars PROVE ZeroFirst'
  BY <1>9 DEF Claim, Receive, ZeroFirst, vars, chain, locals
<1> QED
  BY <1>5, <1>6, <1>7, <1>8, <1>9 DEF Next

\* Settling is inductive given the other invariants: only the request's own
\* approvals and deposit are mined while it runs, and they take nothing from the
\* wallet before the deposit does.
LEMMA SettlingStep == Inv /\ [Next]_vars => Settling'
<1> SUFFICES ASSUME TypeOK, DepositFirst, ZeroFirst, Settling, [Next]_vars
             PROVE  Settling'
  BY DEF Inv
<1> DEFINE Early == {"idle", "acquire", "acquired", "balance", "owned",
                     "effective", "deposited", "total"}
<1> USE PrecisionAssumption, AmountsAssumption
<1>1. ASSUME pc' \in {"idle", "acquire", "acquired", "balance"}, target' = 0
      PROVE  Settling'
  BY <1>1 DEF Settling, Approving
<1>2. ASSUME pc' = "redirect", target' = 0, TypeOK'
      PROVE  Settling'
  BY <1>2 DEF Settling, Approving, TypeOK
<1>3. ASSUME NEW k \in Kinds, NEW first \in {"acquire", "balance"}, Start(k, first)
      PROVE  Settling'
  BY <1>3, <1>1 DEF Start, Settling
<1>4. ASSUME Work, TypeOK' PROVE Settling'
  <2>1. CASE Acquire
    BY <2>1, <1>1 DEF Acquire, Send, locals, Settling
  <2>2. CASE Confirmed("acquired", "balance")
    BY <2>2, <1>1 DEF Confirmed, locals, Settling
  <2>3. CASE Confirmed("approved", "deposit")
    BY <2>3 DEF Confirmed, locals, chain, Settling, Approving
  <2>4. CASE Confirmed("done", "redirect")
    <3>1. clean /\ exact => total >= target
      BY <2>4 DEF Confirmed, Settling
    <3> QED
      BY <2>4, <3>1 DEF Confirmed, locals, chain, Settling, Approving
  <2>5. CASE ReadBalance
    <3>1. exact' => balance' <= wallet
      <4>1. exact' => Rounded(wallet) = wallet
        BY <2>5, Zenon DEF ReadBalance, IsExact
      <4> QED
        BY <2>5, <4>1 DEF ReadBalance, TypeOK
    <3> QED
      BY <2>5, <3>1, <1>2, <1>4
      DEF ReadBalance, Settling, Approving, TypeOK, chain
  <2>6. CASE ReadOwned \/ ReadEffective
    BY <2>6, <1>2, <1>4 DEF ReadOwned, ReadEffective, Settling, Approving, TypeOK, chain
  <2>7. CASE ReadDeposited
    <3>1. CASE pc' = "redirect"
      BY <2>7, <3>1, <1>2, <1>4 DEF ReadDeposited, Settling
    <3>2. CASE pc' = "total"
      <4>1. Effective \in Nat /\ Rounded(Effective) \in Nat
        <5>1. Effective \in Nat
          BY DEF TypeOK, Effective
        <5> QED
          BY <5>1, RoundedBound
      <4>2. clean /\ exact' => amount' <= wallet
        <5>1. clean /\ exact' => balance <= wallet /\ IsExact(SwapAmount - Rounded(Effective))
          BY <2>7, <3>2, Zenon DEF ReadDeposited, Settling
        <5>2. balance >= SwapAmount =>
                amount' = Rounded(SwapAmount - Rounded(Effective))
          BY <2>7, <3>2 DEF ReadDeposited
        <5>3. ~(balance >= SwapAmount) => amount' = balance
          BY <2>7, <3>2 DEF ReadDeposited
        <5>4. Rounded(Effective) < Required
          BY <2>7, <3>2 DEF ReadDeposited
        <5> QED
          BY <4>1, <5>1, <5>2, <5>3, <5>4 DEF IsExact, TypeOK
      <4> QED
        BY <2>7, <3>2, <4>2 DEF ReadDeposited, Settling, Approving, chain
    <3> QED
      BY <2>7, <3>1, <3>2 DEF ReadDeposited
  <2>8. CASE ReadTotal
    <3>1. clean /\ exact' => exact /\ target' = total + amount
      BY <2>8 DEF ReadTotal, IsExact, TypeOK
    <3>2. clean => pool = << >>
      BY <2>8 DEF ReadTotal, ZeroFirst
    <3>3. pc = "total" /\ pc' = "allowance" /\ clean' = clean
          /\ UNCHANGED <<chain, pool, amount>>
      BY <2>8 DEF ReadTotal
    <3>4. clean /\ exact' => amount <= wallet
      BY <3>1, <3>3 DEF Settling
    <3>5. clean => Len(pool') = 0
      BY <3>2, <3>3
    <3> QED
      BY <3>1, <3>3, <3>4, <3>5 DEF Settling, Approving, chain
  <2>9. CASE ReadAllowance
    BY <2>9 DEF ReadAllowance, locals, chain, Settling, Approving
  <2>10. CASE SendReset \/ SendApprove
    <3>1. PICK n \in Nat : Send("approve", n, 0)
      BY <2>10 DEF SendReset, SendApprove, TypeOK
    <3>2. /\ Len(pool) \in Nat /\ Len(pool') = Len(pool) + 1
          /\ \A i \in 1 .. Len(pool) : pool'[i] = pool[i]
          /\ pool'[Len(pool) + 1] = [op |-> "approve", amount |-> n,
                                     asked |-> 0, kind |-> kind, clean |-> clean]
      BY <3>1, SendPool
    <3>3. pc \in Approving /\ pc' \in {"approve", "approved"}
      BY <2>10 DEF SendReset, SendApprove, Approving
    <3>4. clean /\ exact => \A i \in 1 .. Len(pool') : pool'[i].op = "approve"
      BY <3>2, <3>3 DEF Settling
    <3> QED
      BY <3>1, <3>3, <3>4 DEF Settling, Approving, Send, chain, locals
  <2>11. CASE SendDeposit
    <3>1. Len(pool') = 1 /\ pool'[1].op = "deposit" /\ pool'[1].amount = target
      <4>1. Len(pool) = 0
        BY <2>11 DEF SendDeposit, DepositFirst
      <4>2. /\ Len(pool') = Len(pool) + 1
            /\ pool'[Len(pool) + 1] = [op |-> "deposit", amount |-> target,
                                       asked |-> amount, kind |-> kind, clean |-> clean]
        BY <2>11, SendPool DEF SendDeposit, TypeOK
      <4> QED
        BY <4>1, <4>2
    <3> QED
      BY <2>11, <3>1 DEF SendDeposit, Send, chain, locals, Settling, Approving
  <2>12. CASE Answer
    BY <2>12, <1>1 DEF Answer, Forget
  <2> QED
    BY <1>4, <2>1, <2>2, <2>3, <2>4, <2>5, <2>6, <2>7, <2>8, <2>9, <2>10, <2>11,
       <2>12 DEF Work
<1>5. ASSUME Interrupt PROVE Settling'
  BY <1>5, <1>1 DEF Interrupt, Forget
<1>6. ASSUME Mine, TypeOK' PROVE Settling'
  <2>1. pool # << >> /\ pool' = Tail(pool)
    BY <1>6 DEF Mine, MineAcquire, MineApprove, MineDeposit
  <2>2. /\ Head(pool) = pool[1] /\ pool[1] \in Tx /\ pool' \in Seq(Tx)
        /\ Len(pool) \in Nat /\ Len(pool) > 0 /\ Len(pool') = Len(pool) - 1
        /\ \A i \in 1 .. Len(pool') : pool'[i] = pool[i + 1]
    BY <2>1, MinePool
  <2>3. UNCHANGED <<pc, balance, amount, target, clean, exact>>
    BY <1>6 DEF Mine, MineAcquire, MineApprove, MineDeposit, locals
  <2>4. CASE ~(clean /\ exact)
    BY <2>3, <2>4 DEF Settling
  <2>5. CASE clean /\ exact
    <3>1. pc \notin {"owned", "effective", "deposited", "total"}
      BY <2>1, <2>5 DEF ZeroFirst
    <3>2. CASE pc \in Approving
      <4>1. MineApprove
        BY <1>6, <2>2, <2>5, <3>2 DEF Settling, Mine, MineAcquire, MineDeposit
      <4>2. \A i \in 1 .. Len(pool') : pool'[i].op = "approve"
        <5>1. \A i \in 1 .. Len(pool') : i + 1 \in 1 .. Len(pool)
          BY <2>2
        <5> QED
          BY <2>2, <2>5, <3>2, <5>1 DEF Settling
      <4> QED
        BY <2>3, <3>2, <4>1, <4>2 DEF Settling, Approving, MineApprove
    <3>3. CASE pc = "done"
      <4>1. /\ Len(pool) = 1 /\ pool[1].op = "deposit" /\ pool[1].amount = target
            /\ target = total + amount /\ amount <= wallet
        BY <2>1, <2>5, <3>3 DEF Settling
      <4>2. MineDeposit
        BY <1>6, <2>2, <4>1 DEF Mine, MineAcquire, MineApprove
      <4>3. allowance = target
        BY <4>1 DEF DepositFirst
      <4>4. pool' = << >>
        BY <2>2, <4>1
      <4>5. total' >= target
        <5>1. CASE CanDeposit(target)
          BY <2>2, <4>1, <4>2, <5>1 DEF MineDeposit, TypeOK
        <5>2. CASE ~CanDeposit(target)
          BY <2>2, <4>1, <4>2, <4>3, <5>2 DEF MineDeposit, CanDeposit, TypeOK
        <5> QED
          BY <5>1, <5>2
      <4> QED
        BY <2>3, <3>3, <4>4, <4>5 DEF Settling, Approving
    <3>4. CASE pc = "redirect"
      <4>1. total' >= total
        <5>1. total \in Nat /\ pool[1].amount \in Nat
          BY <2>2 DEF TypeOK, Tx
        <5>2. CASE MineAcquire \/ MineApprove
          BY <5>1, <5>2 DEF MineAcquire, MineApprove
        <5>3. CASE MineDeposit
          BY <2>2, <5>1, <5>3 DEF MineDeposit, CanDeposit
        <5> QED
          BY <1>6, <5>2, <5>3 DEF Mine
      <4> QED
        BY <1>6, <2>3, <2>5, <3>4, <4>1 DEF Settling, Approving, TypeOK
    <3> QED
      BY <2>3, <3>1, <3>2, <3>3, <3>4 DEF Settling, Approving
  <2> QED
    BY <2>4, <2>5
<1>7. ASSUME Claim \/ Receive PROVE Settling'
  <2>1. wallet \in Nat /\ wallet' \in Nat /\ wallet' >= wallet
    BY <1>7 DEF Claim, Receive, Get, TypeOK
  <2>2. UNCHANGED <<total, pool, pc, balance, amount, target, clean, exact>>
    BY <1>7 DEF Claim, Receive, locals
  <2>3. balance \in Nat /\ amount \in Nat
    BY DEF TypeOK
  <2> QED
    BY <2>1, <2>2, <2>3 DEF Settling, Approving
<1>8. ASSUME UNCHANGED vars PROVE Settling'
  BY <1>8 DEF vars, chain, locals, Settling
<1> QED
  BY <1>3, <1>4, <1>5, <1>6, <1>7, <1>8, TypeStep DEF Next

\* StillNeeded is inductive given the other invariants: deposits enter an empty
\* pool, and services only take from what is deposited.
LEMMA StillNeededStep == Inv /\ [Next]_vars => StillNeeded'
<1> SUFFICES ASSUME TypeOK, DepositFirst, ZeroFirst, StillNeeded, [Next]_vars
             PROVE  StillNeeded'
  BY DEF Inv
<1> USE PrecisionAssumption, AmountsAssumption
<1> DEFINE Deciding == {"owned", "effective", "total"} \cup Approving
           Needed == Effective < Required + Grain
           Held(i) == pool[i].op = "deposit" /\ pool[i].kind = "udc_deposit" /\ pool[i].clean
                        => Needed
<1>1. ASSUME UNCHANGED <<chain, pool>>, pc' \notin Deciding
      PROVE  StillNeeded'
  BY <1>1 DEF StillNeeded, chain, Effective
<1>2. ASSUME UNCHANGED <<chain, pool, kind, clean>>, pc \in Approving, pc' \in Approving
      PROVE  StillNeeded'
  BY <1>2 DEF StillNeeded, chain, Effective, Approving
<1>3. ASSUME NEW op \in {"acquire", "approve", "deposit"}, NEW n \in Nat,
             NEW a \in Nat, Send(op, n, a),
             op = "deposit" /\ kind = "udc_deposit" /\ clean => Needed
      PROVE  /\ \A i \in 1 .. Len(pool') : Held(i)'
             /\ (\A i \in 1 .. Len(pool) : pool[i].op = "approve") /\ op = "approve"
                  => \A i \in 1 .. Len(pool') : pool'[i].op = "approve"
             /\ UNCHANGED <<chain, kind, clean>> /\ (Needed' <=> Needed)
  <2>1. /\ Len(pool) \in Nat /\ Len(pool') = Len(pool) + 1
        /\ \A i \in 1 .. Len(pool) : pool'[i] = pool[i]
        /\ pool'[Len(pool) + 1] =
             [op |-> op, amount |-> n, asked |-> a, kind |-> kind, clean |-> clean]
    BY <1>3, SendPool
  <2>2. UNCHANGED <<chain, kind, clean>> /\ (Needed' <=> Needed)
    BY <1>3 DEF Send, chain, locals, Effective
  <2>3. ASSUME NEW i \in 1 .. Len(pool') PROVE Held(i)'
    <3>1. CASE i \in 1 .. Len(pool)
      BY <2>1, <2>2, <3>1 DEF StillNeeded
    <3>2. CASE i = Len(pool) + 1
      BY <1>3, <2>1, <2>2, <3>2
    <3> QED
      BY <2>1, <3>1, <3>2
  <2> QED
    BY <2>1, <2>2, <2>3
<1>4. ASSUME NEW k \in Kinds, NEW first \in {"acquire", "balance"}, Start(k, first)
      PROVE  StillNeeded'
  BY <1>4, <1>1 DEF Start, Approving
<1>5. ASSUME Work PROVE StillNeeded'
  <2>1. CASE Acquire
    <3>1. \A i \in 1 .. Len(pool') : Held(i)'
      BY <2>1, <1>3 DEF Acquire
    <3> QED
      BY <2>1, <3>1 DEF Acquire, StillNeeded, Approving
  <2>2. CASE Confirmed("acquired", "balance") \/ Confirmed("done", "redirect") \/ Answer
    BY <2>2, <1>1 DEF Confirmed, Answer, Forget, Approving
  <2>3. CASE Confirmed("approved", "deposit")
    BY <2>3, <1>2 DEF Confirmed, locals, Approving
  <2>4. CASE ReadBalance
    BY <2>4 DEF ReadBalance, StillNeeded, Approving, chain, Effective
  <2>5. CASE ReadOwned \/ ReadEffective
    BY <2>5 DEF ReadOwned, ReadEffective, StillNeeded, Approving, chain, Effective
  <2>6. CASE ReadDeposited
    <3>1. CASE pc' = "redirect"
      BY <2>6, <3>1, <1>1 DEF ReadDeposited, Approving
    <3>2. CASE pc' = "total"
      <4>1. Effective \in Nat /\ Rounded(Effective) \in Nat
        <5>1. Effective \in Nat
          BY DEF TypeOK, Effective
        <5> QED
          BY <5>1, RoundedBound
      <4>2. Rounded(Effective) < Required
        BY <2>6, <3>2 DEF ReadDeposited
      <4>3. 2 * Effective <= 2 * Rounded(Effective) + Grain
        BY <4>1, RoundedBelow
      <4>4. Needed
        BY <4>1, <4>2, <4>3
      <4>5. clean => pool = << >>
        BY <2>6 DEF ReadDeposited, ZeroFirst
      <4>6. Len(pool) = 0 => \A i \in 1 .. Len(pool) : pool[i].op = "approve"
        OBVIOUS
      <4>7. UNCHANGED <<chain, pool, kind, clean>> /\ (Needed' <=> Needed)
        BY <2>6 DEF ReadDeposited, chain, Effective
      <4> QED
        BY <3>2, <4>4, <4>5, <4>6, <4>7 DEF StillNeeded
    <3> QED
      BY <2>6, <3>1, <3>2 DEF ReadDeposited
  <2>7. CASE ReadTotal
    BY <2>7 DEF ReadTotal, StillNeeded, Approving, chain, Effective
  <2>8. CASE ReadAllowance
    BY <2>8, <1>2 DEF ReadAllowance, locals, Approving
  <2>9. CASE SendReset \/ SendApprove
    <3>1. PICK n \in Nat : Send("approve", n, 0)
      BY <2>9 DEF SendReset, SendApprove, TypeOK
    <3>2. /\ \A i \in 1 .. Len(pool') : Held(i)'
          /\ (\A i \in 1 .. Len(pool) : pool[i].op = "approve")
               => \A i \in 1 .. Len(pool') : pool'[i].op = "approve"
          /\ UNCHANGED <<chain, kind, clean>> /\ (Needed' <=> Needed)
      BY <3>1, <1>3
    <3>3. pc \in Approving /\ pc' \in {"approve", "approved"}
      BY <2>9 DEF SendReset, SendApprove, Approving
    <3> QED
      BY <3>2, <3>3 DEF StillNeeded
  <2>10. CASE SendDeposit
    <3>1. kind = "udc_deposit" /\ clean => Needed
      BY <2>10 DEF SendDeposit, StillNeeded, Approving
    <3>2. \A i \in 1 .. Len(pool') : Held(i)'
      BY <2>10, <3>1, <1>3 DEF SendDeposit, TypeOK
    <3> QED
      BY <2>10, <3>2 DEF SendDeposit, StillNeeded, Approving
  <2> QED
    BY <1>5, <2>1, <2>2, <2>3, <2>4, <2>5, <2>6, <2>7, <2>8, <2>9, <2>10 DEF Work
<1>6. ASSUME Interrupt PROVE StillNeeded'
  BY <1>6, <1>1 DEF Interrupt, Forget, Approving
<1>7. ASSUME Mine PROVE StillNeeded'
  <2>1. pool # << >> /\ pool' = Tail(pool) /\ UNCHANGED <<pc, kind, clean, claimed>>
    BY <1>7 DEF Mine, MineAcquire, MineApprove, MineDeposit, locals
  <2>2. /\ Head(pool) = pool[1] /\ pool[1] \in Tx
        /\ Len(pool) \in Nat /\ Len(pool) > 0 /\ Len(pool') = Len(pool) - 1
        /\ \A i \in 1 .. Len(pool') : pool'[i] = pool[i + 1]
    BY <2>1, MinePool
  <2>3. \A i \in 1 .. Len(pool') : i + 1 \in 1 .. Len(pool) /\ i + 1 # 1
    BY <2>2
  <2>4. CASE pool[1].op = "deposit"
    <3>1. \A i \in 1 .. Len(pool') : pool'[i].op # "deposit"
      BY <2>2, <2>3 DEF DepositFirst
    <3>2. 1 \in 1 .. Len(pool)
      BY <2>2
    <3> QED
      BY <2>1, <2>4, <3>1, <3>2 DEF StillNeeded
  <2>5. CASE pool[1].op # "deposit"
    <3>1. UNCHANGED total
      BY <1>7, <2>2, <2>5 DEF Mine, MineAcquire, MineApprove, MineDeposit
    <3>2. Needed' <=> Needed
      BY <2>1, <3>1 DEF Effective
    <3> QED
      BY <2>1, <2>2, <2>3, <3>2 DEF StillNeeded
  <2> QED
    BY <2>4, <2>5
<1>8. ASSUME Claim \/ Receive \/ UNCHANGED vars PROVE StillNeeded'
  <2>1. claimed \in Nat /\ total \in Nat
    BY DEF TypeOK
  <2>2. UNCHANGED <<pool, pc, kind, clean, total>> /\ (claimed' = claimed \/ claimed' = claimed + 1)
    BY <1>8 DEF Claim, Receive, vars, chain, locals
  <2>3. Needed => Needed'
    BY <2>1, <2>2 DEF Effective
  <2> QED
    BY <2>2, <2>3 DEF StillNeeded
<1> QED
  BY <1>4, <1>5, <1>6, <1>7, <1>8 DEF Next

-----------------------------------------------------------------------------
(***************************************************************************)
(* The theorems                                                            *)
(***************************************************************************)

\* The inductive invariant holds in every state.
THEOREM Invariance == Spec => []Inv
<1>1. Init => Inv
  <2>1. Init => TypeOK
    BY BoundsAssumption DEF Init, TypeOK, Steps, Kinds
  <2>2. Init => DepositFirst /\ ZeroFirst /\ Settling /\ StillNeeded
    BY DEF Init, DepositFirst, ZeroFirst, Settling, StillNeeded, Approving
  <2> QED
    BY <2>1, <2>2 DEF Inv
<1>2. Inv /\ [Next]_vars => Inv'
  BY TypeStep, DepositFirstStep, ZeroFirstStep, SettlingStep, StillNeededStep DEF Inv
<1> QED
  BY <1>1, <1>2, PTL DEF Spec

\* Every deposit is approved when its turn comes (deposit_service_tokens).
THEOREM AlwaysCovered == Spec => []DepositCovered
<1>1. Inv => DepositCovered
  <2> SUFFICES ASSUME Inv, pool # << >>, Head(pool).op = "deposit"
               PROVE  Head(pool).amount <= total + allowance
    BY DEF DepositCovered
  <2>1. Head(pool) = pool[1] /\ 1 \in 1 .. Len(pool) /\ pool[1] \in Tx
    BY DEF Inv, TypeOK
  <2>2. allowance = pool[1].amount
    BY <2>1 DEF Inv, DepositFirst
  <2> QED
    BY <2>1, <2>2 DEF Inv, TypeOK
<1> QED
  BY <1>1, Invariance, PTL

\* An allowance is never changed from one amount to another (approve).
THEOREM AlwaysFromZero == Spec => []ApprovesFromZero
<1>1. Inv => ApprovesFromZero
  <2> SUFFICES ASSUME Inv, pool # << >>, Head(pool).op = "approve",
                      Head(pool).amount > 0, Head(pool).clean
               PROVE  allowance = 0
    BY DEF ApprovesFromZero
  <2>1. Head(pool) = pool[1] /\ 1 \in 1 .. Len(pool)
    BY DEF Inv, TypeOK
  <2> QED
    BY <2>1 DEF Inv, ZeroFirst
<1> QED
  BY <1>1, Invariance, PTL

\* A request that began with nothing pending, and lost no digit, reaches the
\* deposit it decided on (_run_swap, _run_udc_deposit, _run_funding).
THEOREM AlwaysSettles == Spec => []CleanRequestSettles
<1>1. Inv => CleanRequestSettles
  BY DEF Inv, Settling, CleanRequestSettles
<1> QED
  BY <1>1, Invariance, PTL

\* The first transaction of the pool, when it is mined as a deposit, adds to the
\* total at most what it offers, and takes as much from the wallet.
LEMMA DepositStep ==
  ASSUME Inv, MineDeposit
  PROVE  /\ Head(pool).op = "deposit" /\ Head(pool) \in Tx
         /\ total' \in total .. total + (Head(pool).asked + Grain)
         /\ wallet' \in Nat /\ wallet' + total' = wallet + total
<1>1. Head(pool) = pool[1] /\ 1 \in 1 .. Len(pool) /\ pool[1] \in Tx
      /\ Head(pool).op = "deposit"
  BY DEF Inv, TypeOK, MineDeposit
<1>2. Head(pool).amount <= total + Head(pool).asked + Grain
  BY <1>1 DEF Inv, DepositFirst
<1>3. Head(pool).amount \in Nat /\ Head(pool).asked \in Nat
  BY <1>1 DEF Tx
<1>4. total \in Nat /\ wallet \in Nat /\ Grain \in Nat
  BY PrecisionAssumption DEF Inv, TypeOK
<1>5. CASE CanDeposit(Head(pool).amount)
  BY <1>1, <1>2, <1>3, <1>4, <1>5 DEF MineDeposit, CanDeposit
<1>6. CASE ~CanDeposit(Head(pool).amount)
  BY <1>1, <1>3, <1>4, <1>6 DEF MineDeposit
<1> QED
  BY <1>5, <1>6

\* A deposit adds no more than its request asked for (deposit_service_tokens reads
\* total_deposit, and the contract takes the new total), and what a request that
\* began with nothing pending decided on is still needed (_run_udc_deposit).
THEOREM NeverDouble == Spec => NoDoubleDeposit
<1>1. Inv /\ [Next]_vars =>
        [total' # total =>
           /\ pool # << >> /\ Head(pool).op = "deposit"
           /\ total' \in total .. total + Head(pool).asked + Grain
           /\ Head(pool).kind = "udc_deposit" /\ Head(pool).clean
                => Effective < Required + Grain]_vars
  <2> SUFFICES ASSUME Inv, [Next]_vars, total' # total
               PROVE  /\ pool # << >> /\ Head(pool).op = "deposit"
                      /\ total' \in total .. total + Head(pool).asked + Grain
                      /\ Head(pool).kind = "udc_deposit" /\ Head(pool).clean
                           => Effective < Required + Grain
    OBVIOUS
  <2>1. MineDeposit
    BY DEF Next, vars, chain, locals, Start, Work, Acquire, Send, Confirmed,
           ReadBalance, ReadOwned, ReadEffective, ReadDeposited, ReadTotal, ReadAllowance,
           SendReset, SendApprove, SendDeposit, Answer, Interrupt, Mine,
           MineAcquire, MineApprove, Claim, Receive
  <2>2. total + (Head(pool).asked + Grain) = total + Head(pool).asked + Grain
    BY <2>1, DepositStep, PrecisionAssumption DEF Inv, TypeOK, Tx
  <2>3. /\ pool # << >> /\ Head(pool).op = "deposit"
        /\ total' \in total .. total + Head(pool).asked + Grain
    BY <2>1, <2>2, DepositStep DEF MineDeposit
  <2>4. Head(pool) = pool[1] /\ 1 \in 1 .. Len(pool)
    BY <2>3 DEF Inv, TypeOK
  <2> QED
    BY <2>3, <2>4 DEF Inv, StillNeeded
<1> QED
  BY <1>1, Invariance, PTL DEF Spec, NoDoubleDeposit

\* A sequence one longer than another that agrees with it is the other with one
\* element appended.
LEMMA AppendLast ==
  ASSUME NEW S, NEW s \in Seq(S), NEW t \in Seq(S), Len(t) = Len(s) + 1,
         \A i \in 1 .. Len(s) : t[i] = s[i]
  PROVE  t = Append(s, t[Len(t)])
<1>1. t[Len(t)] \in S
  OBVIOUS
<1>2. Append(s, t[Len(t)]) \in Seq(S) /\ Len(Append(s, t[Len(t)])) = Len(t)
  BY <1>1
<1>3. \A i \in 1 .. Len(t) : Append(s, t[Len(t)])[i] = t[i]
  BY <1>1
<1> QED
  BY <1>2, <1>3, SeqEqual

\* UdcDeposit implements TokenEscrow: sending is an offer, mining settles it, and
\* everything else stutters or brings tokens.
THEOREM Refinement == Spec => ImplementsEscrow
<1> DEFINE offers == [i \in 1 .. Len(pool) |-> Offer(pool[i])]
<1>1. Init => Escrow!Init
  BY DEF Init, Escrow!Init
<1>2. Inv /\ Inv' /\ [Next]_vars => [Escrow!Next]_(Escrow!vars)
  <2> SUFFICES ASSUME Inv, Inv', [Next]_vars
               PROVE  Escrow!Next \/ UNCHANGED Escrow!vars
    OBVIOUS
  <2> USE PrecisionAssumption, AmountsAssumption
  <2>1. ASSUME UNCHANGED <<wallet, total, pool>> PROVE UNCHANGED Escrow!vars
    BY <2>1 DEF Escrow!vars
  <2>2. \A tx \in Tx : Offer(tx) \in Nat
    BY DEF Offer, Tx
  <2>3. /\ pool \in Seq(Tx) /\ pool' \in Seq(Tx)
        /\ wallet \in Nat /\ wallet' \in Nat /\ total \in Nat /\ total' \in Nat
    BY DEF Inv, TypeOK
  <2>4. offers \in Seq(Nat) /\ Len(offers) = Len(pool)
    BY <2>2, <2>3
  <2>5. offers' \in Seq(Nat) /\ Len(offers') = Len(pool')
    BY <2>2, <2>3
  <2>6. ASSUME NEW op \in {"acquire", "approve", "deposit"}, NEW n \in Nat,
               NEW a \in Nat, Send(op, n, a)
        PROVE  Escrow!Offer
    <3>1. /\ Len(pool) \in Nat /\ Len(pool') = Len(pool) + 1
          /\ \A i \in 1 .. Len(pool) : pool'[i] = pool[i]
      BY <2>6, SendPool DEF Inv
    <3>2. Len(offers') = Len(offers) + 1 /\ offers'[Len(offers')] \in Nat
      BY <3>1, <2>4, <2>5
    <3>3. \A i \in 1 .. Len(offers) : offers'[i] = offers[i]
      BY <3>1, <2>4, <2>5
    <3>4. offers' = Append(offers, offers'[Len(offers')])
      BY <3>2, <3>3, <2>4, <2>5, AppendLast
    <3>5. UNCHANGED <<wallet, total>>
      BY <2>6 DEF Send, chain
    <3> QED
      BY <3>2, <3>4, <3>5 DEF Escrow!Offer
  <2>7. ASSUME Mine PROVE Escrow!Settle
    <3>1. pool # << >> /\ pool' = Tail(pool)
      BY <2>7 DEF Mine, MineAcquire, MineApprove, MineDeposit
    <3>2. /\ Head(pool) = pool[1] /\ pool[1] \in Tx
          /\ Len(pool) \in Nat /\ Len(pool) > 0 /\ Len(pool') = Len(pool) - 1
          /\ \A i \in 1 .. Len(pool') : pool'[i] = pool[i + 1]
      BY <3>1, MinePool DEF Inv
    <3>3. offers # << >> /\ Head(offers) = Offer(pool[1])
      BY <3>2, <2>4
    <3>4. offers' = Tail(offers)
      BY <3>2, <2>4, <2>5
    <3>5. total' \in total .. total + Offer(pool[1])
          /\ wallet' + total' >= wallet + total
      <4>1. CASE MineAcquire
        <5>1. Offer(pool[1]) \in Nat /\ total' = total
          BY <4>1, <2>2, <3>2 DEF MineAcquire
        <5>2. total' \in total .. total + Offer(pool[1])
          BY <5>1, <2>3
        <5>3. wallet' >= wallet
          BY <4>1, <2>3, AcquireAdds
        <5>4. total' >= total
          BY <5>2, <2>3
        <5>5. wallet' + total' >= wallet + total
          BY <5>3, <5>4, <2>3, SumGrows
        <5> QED
          BY <5>2, <5>5
      <4>2. CASE MineApprove
        <5>1. Offer(pool[1]) \in Nat /\ total' = total /\ wallet' = wallet
          BY <4>2, <2>2, <3>2 DEF MineApprove
        <5>2. total' \in total .. total + Offer(pool[1])
          BY <5>1, <2>3
        <5>3. wallet' + total' >= wallet + total
          BY <5>1, <2>3, SumGrows
        <5> QED
          BY <5>2, <5>3
      <4>3. CASE MineDeposit
        <5>1. /\ pool[1].op = "deposit"
              /\ total' \in total .. total + (pool[1].asked + Grain)
              /\ wallet' + total' = wallet + total
          BY <4>3, <3>2, DepositStep
        <5>2. Offer(pool[1]) = pool[1].asked + Grain
          BY <5>1 DEF Offer
        <5>3. wallet' + total' >= wallet + total
          BY <5>1, <2>3, SumGrows
        <5> QED
          BY <5>1, <5>2, <5>3
      <4> QED
        BY <2>7, <4>1, <4>2, <4>3 DEF Mine
    <3> QED
      BY <2>3, <3>3, <3>4, <3>5 DEF Escrow!Settle
  <2>8. ASSUME Receive PROVE Escrow!Receive
    BY <2>8, <2>3, GetAdds DEF Receive, Escrow!Receive
  <2>9. ASSUME Work PROVE Escrow!Offer \/ UNCHANGED Escrow!vars
    <3>1. CASE Acquire \/ SendReset \/ SendApprove \/ SendDeposit
      <4>1. target \in Nat /\ amount \in Nat
        BY DEF Inv, TypeOK
      <4> QED
        BY <3>1, <4>1, <2>6 DEF Acquire, SendReset, SendApprove, SendDeposit
    <3>2. CASE ~(Acquire \/ SendReset \/ SendApprove \/ SendDeposit)
      BY <2>9, <3>2, <2>1
      DEF Work, Confirmed, ReadBalance, ReadOwned, ReadEffective, ReadDeposited, ReadTotal,
          ReadAllowance, Answer, chain
    <3> QED
      BY <3>1, <3>2
  <2>10. ASSUME (\E k \in Kinds, first \in {"acquire", "balance"} : Start(k, first))
                  \/ Interrupt \/ Claim \/ UNCHANGED vars
         PROVE  UNCHANGED Escrow!vars
    BY <2>10, <2>1 DEF Start, Interrupt, Claim, vars, chain
  <2> QED
    BY <2>7, <2>8, <2>9, <2>10 DEF Next, Escrow!Next
<1> QED
  BY <1>1, <1>2, Invariance, PTL DEF Spec, ImplementsEscrow, Escrow!Spec
=============================================================================
