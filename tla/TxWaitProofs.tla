---------------------------- MODULE TxWaitProofs ----------------------------
(***************************************************************************)
(* Proofs about TxWait, for every depth of confirmation, time limit and    *)
(* chain.                                                                  *)
(***************************************************************************)
EXTENDS TxWait, TLAPS

\* What the call remembers of the chain is true of it: the receipt's block, as
\* long as the chain has not reorganised since, and, if reorganisations keep the
\* transaction, that it is mined at all.
Remembered ==
  /\ seen # None /\ ~Drops => block # None
  /\ seen # None /\ ~reorgs => seen = block

Inv == TypeOK /\ Remembered

\* The initial state has the types.
LEMMA InitTypes == Init => TypeOK
<1> SUFFICES ASSUME Init PROVE TypeOK
  OBVIOUS
<1>1. reorgs \in BOOLEAN
  BY Zenon DEF Init
<1>2. /\ height = 0 /\ block = 0 /\ pc = "start" /\ current = 0 /\ seen = 0
      /\ elapsed = 0
  BY DEF Init, None
<1> QED
  BY <1>1, <1>2, WaitAssumption DEF TypeOK

\* Every step of the call keeps the types.
LEMMA CallTypes == TypeOK /\ Call => TypeOK'
<1> SUFFICES ASSUME TypeOK, Call PROVE TypeOK'
  OBVIOUS
<1> USE DEF TypeOK, Returned
<1>1. ASSUME UNCHANGED chainVars
      PROVE  /\ UNCHANGED <<height, block, reorgs>>
             /\ height' \in 0 .. MaxHeight /\ block' \in 0 .. height'
             /\ reorgs' \in BOOLEAN
  BY <1>1 DEF chainVars
<1>2. CASE ReadStart
  BY <1>1, <1>2 DEF ReadStart
<1>3. CASE Test
  BY <1>1, <1>3 DEF Test
<1>4. CASE ReadReceipt
  <2>1. reorgs' \in BOOLEAN
    BY <1>4, Zenon DEF ReadReceipt
  <2>2. /\ pc' = "height" /\ seen' \in {seen, block}
        /\ UNCHANGED <<height, block, current, elapsed>>
    BY <1>4 DEF ReadReceipt
  <2> QED
    BY <2>1, <2>2
<1>5. CASE ReadHeight
  BY <1>1, <1>5 DEF ReadHeight
<1>6. CASE Sleep
  BY <1>1, <1>6, WaitAssumption DEF Sleep
<1> QED
  BY <1>2, <1>3, <1>4, <1>5, <1>6 DEF Call

\* Every step keeps the types.
LEMMA TypeStep == TypeOK /\ [Next]_vars => TypeOK'
<1> SUFFICES ASSUME TypeOK, [Next]_vars PROVE TypeOK'
  OBVIOUS
<1> USE WaitAssumption DEF TypeOK, Returned
<1>1. CASE Call
  BY <1>1, CallTypes
<1>2. CASE NewBlock
  BY <1>2 DEF NewBlock, None
<1>3. ASSUME NEW d \in 1 .. MaxDepth, Reorganise(d) PROVE TypeOK'
  BY <1>3 DEF Reorganise, None
<1>4. CASE Slow
  BY <1>4 DEF Slow, chainVars
<1>5. CASE UNCHANGED vars
  BY <1>5 DEF vars, chainVars
<1> QED
  BY <1>1, <1>2, <1>3, <1>4, <1>5 DEF Next

\* Every step keeps what the call remembers.
LEMMA RememberedStep == Inv /\ [Next]_vars => Remembered'
<1> SUFFICES ASSUME TypeOK, Remembered, [Next]_vars PROVE Remembered'
  BY DEF Inv
<1> USE DEF Remembered
<1>1. ASSUME UNCHANGED <<block, reorgs, seen>> PROVE Remembered'
  BY <1>1
<1>2. CASE ReadReceipt
  BY <1>2 DEF ReadReceipt
<1>3. CASE ReadStart \/ Test \/ ReadHeight \/ Sleep
  BY <1>1, <1>3 DEF ReadStart, Test, ReadHeight, Sleep, chainVars
<1>4. CASE NewBlock
  BY <1>4 DEF NewBlock, TypeOK, None
<1>5. ASSUME NEW d \in 1 .. MaxDepth, Reorganise(d) PROVE Remembered'
  BY <1>5 DEF Reorganise
<1>6. CASE Slow \/ UNCHANGED vars
  BY <1>1, <1>6 DEF Slow, vars, chainVars
<1> QED
  BY <1>2, <1>3, <1>4, <1>5, <1>6 DEF Next, Call

-----------------------------------------------------------------------------

\* Every variable keeps its type (TypeOK of TxWait): the block the call knows is
\* never above the chain's height.
THEOREM TypeCorrect == Spec => []TypeOK
<1>1. Init => TypeOK
  BY InitTypes
<1> QED
  BY <1>1, TypeStep, PTL DEF Spec

\* What the call remembers is true of the chain.
THEOREM Invariance == Spec => []Inv
<1>1. Init => Inv
  BY InitTypes DEF Init, Inv, Remembered
<1>2. Inv /\ [Next]_vars => Inv'
  BY TypeStep, RememberedStep DEF Inv
<1> QED
  BY <1>1, <1>2, PTL DEF Spec

\* Only the test ends in "confirmed".
LEMMA ConfirmedByTest ==
  ASSUME TypeOK, [Next]_vars, pc' = "confirmed", pc # pc'
  PROVE  Test /\ Deep
<1>1. CASE Call
  BY <1>1 DEF Call, ReadStart, Test, ReadReceipt, ReadHeight, Sleep
<1>2. CASE NewBlock \/ Slow \/ UNCHANGED vars
  BY <1>2 DEF NewBlock, Slow, vars
<1>3. ASSUME NEW d \in 1 .. MaxDepth, Reorganise(d) PROVE FALSE
  BY <1>3 DEF Reorganise
<1> QED
  BY <1>1, <1>2, <1>3 DEF Next

\* When reorganisations keep the transaction, it is in the chain whenever the call
\* says so (ConfirmedIsMined of TxWait): the hypothesis is what the code needs of
\* the chain, and MCTxWaitDrops shows that it is needed.
THEOREM Mined == ~Drops /\ Spec => ConfirmedIsMined
<1> DEFINE Step == pc' = "confirmed" /\ pc # pc' => block # None
<1>1. ASSUME ~Drops, Inv, [Next]_vars PROVE [Step]_vars
  BY <1>1, ConfirmedByTest DEF Inv, Remembered, Deep
<1>2. ~Drops => (Spec => [][Step]_vars)
  <2> SUFFICES ASSUME ~Drops PROVE Spec => [][Step]_vars
    OBVIOUS
  <2> HIDE DEF Step
  <2>1. Inv /\ [Next]_vars => [Step]_vars
    BY <1>1
  <2> QED
    BY <2>1, Invariance, PTL DEF Spec
<1> QED
  BY <1>2 DEF ConfirmedIsMined

\* As long as the chain has not reorganised since the last receipt, a confirmed
\* transaction is as deep as the code requires (ConfirmedIsDeep of TxWait).
THEOREM DeepEnough == Spec => ConfirmedIsDeep
<1> DEFINE Step ==
      pc' = "confirmed" /\ pc # pc' /\ ~reorgs
        => block # None /\ height >= block + Confirmations
<1>1. ASSUME Inv, [Next]_vars, pc' = "confirmed", pc # pc', ~reorgs
      PROVE  block # None /\ height >= block + Confirmations
  <2>1. seen # None /\ current >= seen + Confirmations /\ seen = block
    BY <1>1, ConfirmedByTest DEF Inv, Remembered, Deep
  <2>2. /\ height \in Nat /\ block \in Nat /\ current \in Nat
        /\ current <= height
    BY <1>1, WaitAssumption DEF Inv, TypeOK
  <2> QED
    BY <2>1, <2>2, WaitAssumption
<1>2. Inv /\ [Next]_vars => [Step]_vars
  BY <1>1
<1> HIDE DEF Step
<1>3. Spec => [][Step]_vars
  BY <1>2, Invariance, PTL DEF Spec
<1> QED
  BY <1>3 DEF ConfirmedIsDeep, Step
=============================================================================
