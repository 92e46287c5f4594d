------------------------ MODULE AccountDrainerProofs ------------------------
(***************************************************************************)
(* Proofs about AccountDrainer, for any accounts, receiver, holdings and   *)
(* number of failures.                                                     *)
(*                                                                         *)
(* The drainer sends what it read before.  That nothing is left when the   *)
(* ETH goes is a matter of what a visit has behind it, and of what is      *)
(* still on its way from visits that an exception ended.  Pending says     *)
(* that a transfer on its way is of the balance read, so that the account  *)
(* comes no further in a visit before it is mined; Known, that tokens are  *)
(* either all there or all gone.                                           *)
(***************************************************************************)
EXTENDS AccountDrainer, FiniteSetTheorems, SequenceTheorems, TLAPS

Balances == [eth: Nat, rdn: Nat, dai: Nat, udc: Nat]
Kinds == {"rdn", "dai", "eth", "plan", "withdraw"}
Transactions == [kind: Kinds, amount: Nat]
Steps == {"check", "next", "rdn", "dai", "eth", "udc", "collect", "deposit", "poll", "done"}

\* The visit takes, or polls for, one of these steps.
At(steps) == pc \in steps \/ (pc = "poll" /\ tx.kind \in steps)
AtOf(a, steps) == a = address /\ At(steps)

ChainTypes ==
  /\ eth \in [Owners -> Nat] /\ rdn \in [Owners -> Nat]
  /\ dai \in [Owners -> Nat] /\ udc \in [Owners -> Nat]
  /\ plan \in [Owners -> [amount: Nat, ripe: BOOLEAN]]
DrainerTypes ==
  /\ balances \in [Accounts -> Balances] /\ seen \in Balances
  /\ address \in Owners /\ aliased \in BOOLEAN /\ pc \in Steps
  /\ tx \in [kind: Kinds \cup {"none", "lost"}, amount: Nat]
PoolTypes ==
  /\ txs \in [Accounts -> Seq(Transactions)]
  /\ unseen \subseteq Accounts /\ others \in 0 .. MaxOthers /\ faults \in 0 .. MaxFaults
ListTypes == accounts \in Seq(Accounts) /\ rest \in Seq(Accounts)
Types == ChainTypes /\ DrainerTypes /\ PoolTypes /\ ListTypes

\* What a visit does is for its account; what is polled for is the last that it sent.
Visiting ==
  /\ pc = "poll" <=> tx.kind # "none"
  /\ pc \notin {"check", "next", "done"} => address \in Accounts
  /\ tx.kind \in {"rdn", "dai", "eth"} => address # Receiver
  /\ At({"rdn", "dai", "eth"}) => UdcEmpty(address)
  /\ At({"udc", "plan", "withdraw"}) => ~UdcEmpty(address)
  /\ pc = "poll" /\ tx.kind # "lost" /\ txs[address] # <<>> => txs[address][Len(txs[address])] = tx
  /\ tx.kind = "lost" => txs[address] = <<>>
  /\ pc = "deposit" /\ address # Receiver => seen.dai = dai[address]

\* One transaction of an account is on its way, and one for each exception.
Few == \A a \in Accounts : Len(txs[a]) <= faults + (IF pc = "poll" /\ a = address THEN 1 ELSE 0)

\* A transfer on its way is of the balance read, and the visit is not beyond it.
Pending ==
  \A a \in Accounts : \A t \in ToSet(txs[a]) :
    /\ t.kind = "rdn" =>
         /\ a # Receiver /\ UdcEmpty(a) /\ t.amount = balances[a].rdn /\ t.amount > 0
         /\ ~AtOf(a, {"dai", "eth", "collect", "deposit"})
    /\ t.kind = "dai" =>
         /\ a # Receiver /\ UdcEmpty(a) /\ t.amount = balances[a].dai /\ t.amount > 0
         /\ ~AtOf(a, {"eth", "collect", "deposit"})

\* The transfer of this kind was mined.
Forwarded(a, kind) == a = address /\ pc = "poll" /\ tx.kind = kind /\ txs[a] = <<>>

\* The deposit was no smaller when it was read; tokens are all there or all gone.
UdcKnown(a) == udc[a] <= balances[a].udc
RdnKnown(a) ==
  a # Receiver /\ a \notin unseen /\ UdcEmpty(a) =>
    /\ rdn[a] \in {0, balances[a].rdn}
    /\ AtOf(a, {"dai", "eth"}) \/ Forwarded(a, "rdn") => rdn[a] = 0
DaiKnown(a) ==
  a # Receiver =>
    /\ dai[a] \in {0, balances[a].dai}
    /\ AtOf(a, {"eth"}) \/ Forwarded(a, "dai") => dai[a] = 0

Known == \A a \in Accounts : UdcKnown(a) /\ RdnKnown(a) /\ DaiKnown(a)

Inv == Types /\ Visiting /\ Few /\ Pending /\ Known

-----------------------------------------------------------------------------
(* Lists *)

\* The members of a list are of its type.
LEMMA ToSetOf ==
  ASSUME NEW S, NEW s \in Seq(S)
  PROVE  ToSet(s) \subseteq S
  BY DEF ToSet

\* A list made of a set of accounts is a list of accounts.
LEMMA ListOf ==
  ASSUME NEW S \in SUBSET Accounts, NEW s \in SetToSeqs(S)
  PROVE  s \in Seq(Accounts)
<1>1. Cardinality(S) \in Nat
  BY BoundsAssumption, FS_Subset, FS_CardinalityType
<1>2. s \in [1 .. Cardinality(S) -> S]
  BY DEF SetToSeqs
<1> QED
  BY <1>1, <1>2

\* An empty list holds nothing.
LEMMA EmptyOf == ToSet(<<>>) = {} /\ Len(<<>>) = 0
  BY DEF ToSet

\* What is sent is the last of its account.
LEMMA Sent ==
  ASSUME NEW S, NEW s \in Seq(S), NEW t \in S
  PROVE  /\ Append(s, t) \in Seq(S) /\ Len(Append(s, t)) = Len(s) + 1 /\ Len(s) \in Nat
         /\ Append(s, t)[Len(s) + 1] = t /\ Append(s, t) # <<>>
         /\ ToSet(Append(s, t)) \subseteq ToSet(s) \cup {t}
<1> DEFINE r == Append(s, t)
<1>1. r \in Seq(S) /\ Len(r) = Len(s) + 1 /\ Len(s) \in Nat /\ r # <<>>
  BY EmptySeq
<1>2. \A k \in 1 .. Len(s) + 1 : r[k] = IF k = Len(s) + 1 THEN t ELSE s[k]
  OBVIOUS
<1>3. DOMAIN r = 1 .. Len(s) + 1 /\ DOMAIN s = 1 .. Len(s)
  BY <1>1
<1>4. \A k \in DOMAIN r : r[k] \in ToSet(s) \cup {t}
  BY <1>1, <1>2, <1>3 DEF ToSet
<1> QED
  BY <1>1, <1>2, <1>4 DEF ToSet

\* The first of a list goes; the others, and the last of them, remain.
LEMMA Taken ==
  ASSUME NEW S, NEW s \in Seq(S), s # <<>>
  PROVE  /\ Head(s) \in ToSet(s) /\ Head(s) \in S /\ Tail(s) \in Seq(S)
         /\ Len(s) \in Nat \ {0} /\ Len(Tail(s)) = Len(s) - 1 /\ ToSet(Tail(s)) \subseteq ToSet(s)
         /\ IF Tail(s) = <<>> THEN Head(s) = s[Len(s)] ELSE Tail(s)[Len(Tail(s))] = s[Len(s)]
<1>1. Len(s) \in Nat \ {0} /\ DOMAIN s = 1 .. Len(s)
  BY EmptySeq
<1>2. Tail(s) \in Seq(S) /\ Len(Tail(s)) = Len(s) - 1
      /\ \A k \in 1 .. Len(s) - 1 : Tail(s)[k] = s[k + 1]
  BY <1>1
<1>3. DOMAIN Tail(s) = 1 .. Len(s) - 1
  BY <1>2
<1>4. \A k \in DOMAIN Tail(s) : k + 1 \in DOMAIN s /\ Tail(s)[k] = s[k + 1]
  BY <1>1, <1>2, <1>3
<1>5. Head(s) = s[1] /\ 1 \in DOMAIN s /\ s[1] \in S
  BY <1>1
<1>6. ASSUME Tail(s) = <<>> PROVE Len(s) = 1
  <2>1. Len(Tail(s)) = 0
    BY <1>6, EmptyOf, Zenon
  <2>2. \A n \in Nat \ {0} : 0 = n - 1 => n = 1
    OBVIOUS
  <2>3. Len(Tail(s)) = Len(s) - 1
    BY <1>2
  <2> QED
    BY <1>1, <2>1, <2>2, <2>3, Zenon
<1>7. ASSUME Tail(s) # <<>> PROVE Len(s) - 1 \in 1 .. Len(s) - 1
  BY <1>1, <1>2, <1>7, EmptySeq
<1> QED
  BY <1>1, <1>2, <1>4, <1>5, <1>6, <1>7 DEF ToSet

-----------------------------------------------------------------------------
(* The types *)

\* The types of the parts, and few transactions, are the type invariant.
LEMMA TypeParts ==
  ASSUME Types, Few
  PROVE  TypeOK
<1>1. ToSet(accounts) \subseteq Accounts /\ ToSet(rest) \subseteq Accounts
  BY ToSetOf DEF Types, ListTypes
<1>2. ASSUME NEW a \in Accounts
      PROVE  ToSet(txs[a]) \subseteq [kind: {"rdn", "dai", "eth", "plan", "withdraw"}, amount: Nat]
             /\ Len(txs[a]) <= faults + 1
  <2>1. txs[a] \in Seq(Transactions) /\ Len(txs[a]) \in Nat /\ faults \in Nat
    BY BoundsAssumption DEF Types, PoolTypes
  <2>2. ToSet(txs[a]) \subseteq Transactions
    BY <2>1, ToSetOf
  <2>3. Len(txs[a]) <= faults + 1
    BY <2>1 DEF Few
  <2> QED
    BY <2>2, <2>3 DEF Transactions, Kinds
<1>3. Kinds \cup {"none", "lost"} = {"none", "rdn", "dai", "eth", "plan", "withdraw", "lost"}
  BY DEF Kinds
<1>4. aliased \in BOOLEAN
  BY Zenon DEF Types, DrainerTypes
<1> QED
  BY <1>1, <1>2, <1>3, <1>4 DEF TypeOK, Types, ChainTypes, DrainerTypes, PoolTypes, Balances, Steps

\* Balances that are read are balances.
LEMMA ReadType ==
  ASSUME ChainTypes, NEW a \in Accounts
  PROVE  Read(a) \in Balances
  BY DEF ChainTypes, Read, Balances, Owners

\* The tool starts with well-typed variables.
LEMMA InitTypes ==
  ASSUME Init
  PROVE  Types
<1>1. PICK S \in SUBSET Accounts : accounts \in SetToSeqs(S)
  BY Zenon DEF Init
<1>2. ListTypes
  BY <1>1, ListOf DEF Init, ListTypes
<1>3. ChainTypes
  <2>1. PICK H \in [Accounts -> Holdings] :
          /\ eth = [a \in Owners |-> IF a \in Accounts THEN H[a].eth ELSE 0]
          /\ rdn = [a \in Owners |-> IF a \in Accounts THEN H[a].rdn ELSE 0]
          /\ dai = [a \in Owners |-> IF a \in Accounts THEN H[a].dai ELSE 0]
          /\ udc = [a \in Owners |-> IF a \in Accounts THEN H[a].udc ELSE 0]
          /\ plan = [a \in Owners |-> IF a \in Accounts THEN H[a].plan ELSE NoPlan]
    BY DEF Init
  <2>2. \A a \in Accounts :
          H[a] \in [eth: Nat, rdn: Nat, dai: Nat, udc: Nat, plan: [amount: Nat, ripe: BOOLEAN]]
    BY HoldingsAssumption
  <2>3. NoPlan \in [amount: Nat, ripe: BOOLEAN]
    BY DEF NoPlan
  <2> QED
    BY <2>1, <2>2, <2>3 DEF ChainTypes
<1>4. DrainerTypes
  <2>1. \A a \in Accounts : Read(a) \in Balances
    BY <1>3, ReadType
  <2>2. Nothing \in Balances /\ NoTx \in [kind: Kinds \cup {"none", "lost"}, amount: Nat]
    BY DEF Nothing, Balances, NoTx
  <2> QED
    BY <2>1, <2>2 DEF Init, DrainerTypes, Steps, Owners
<1>5. PoolTypes
  BY BoundsAssumption DEF Init, PoolTypes
<1> QED
  BY <1>2, <1>3, <1>4, <1>5 DEF Types

\* What is read when the tool starts (__init__) is what the accounts have.
LEMMA InitInv == Init => Inv
<1> SUFFICES ASSUME Init PROVE Inv
  OBVIOUS
<1>1. Types
  BY InitTypes
<1>2. Visiting
  BY DEF Init, Visiting, At, NoTx
<1>3. Few /\ Pending
  BY EmptyOf DEF Init, Few, Pending
<1>4. Known
  <2> SUFFICES ASSUME NEW a \in Accounts PROVE UdcKnown(a) /\ RdnKnown(a) /\ DaiKnown(a)
    BY DEF Known
  <2>1. balances[a].rdn = rdn[a] /\ balances[a].dai = dai[a] /\ balances[a].udc = udc[a]
    BY DEF Init, Read
  <2>2. udc[a] \in Nat
    BY <1>1 DEF Types, ChainTypes, Owners
  <2> QED
    BY <2>1, <2>2 DEF Init, UdcKnown, RdnKnown, DaiKnown, AtOf, At, Forwarded, NoTx
<1> QED
  BY <1>1, <1>2, <1>3, <1>4 DEF Inv

-----------------------------------------------------------------------------
(* Steps that leave the chain and the balances alone *)

\* The visit leaves the step of a token: there was none to send, or it has been mined.
Left(kind) ==
  \/ pc = kind /\ (address = Receiver \/ balances[address][kind] = 0)
  \/ pc = "poll" /\ tx.kind = kind /\ txs[address] = <<>>

\* A visit gets to these steps from one of them, from that of the token before them, or
\* (if they are not of the tokens) from the deposit's.
Leads(steps, kind) ==
  At(steps)' =>
    /\ UNCHANGED address
    /\ At(steps) \/ Left(kind) \/ At({"udc", "plan", "withdraw"})
    /\ At({"dai", "eth"})' => ~At({"udc", "plan", "withdraw", "collect", "deposit"})

\* A step of the tool that sends nothing: what is on its way and what is known remain, if
\* the visit goes beyond a transfer only once it is mined or there is nothing to send.
LEMMA QuietStep ==
  ASSUME Inv, Types', Visiting', UNCHANGED <<chain, balances, txs, unseen>>, faults' >= faults,
         pc' = "poll" => pc = "poll" /\ UNCHANGED <<address, tx>>,
         pc = "poll" /\ pc' # "poll" => txs[address] = <<>> \/ faults' >= faults + 1,
         Leads({"dai", "eth", "collect", "deposit"}, "rdn"), Leads({"eth", "collect", "deposit"}, "dai"),
         Leads({"dai", "eth"}, "rdn"), Leads({"eth"}, "dai")
  PROVE  Inv'
<1> USE DEF Inv
<1>0. ASSUME NEW a \in Accounts
      PROVE  /\ balances[a].rdn \in Nat /\ balances[a].dai \in Nat /\ Len(txs[a]) \in Nat
             /\ rdn[a] \in Nat /\ dai[a] \in Nat /\ faults \in Nat /\ faults' \in Nat
  <2>1. balances[a] \in Balances /\ a \in Owners
    BY DEF Types, DrainerTypes, Owners
  <2>2. txs[a] \in Seq(Transactions)
    BY DEF Types, PoolTypes
  <2>3. faults \in Nat /\ faults' \in Nat
    BY BoundsAssumption DEF Types, PoolTypes
  <2>4. balances[a].rdn \in Nat /\ balances[a].dai \in Nat
    BY <2>1 DEF Balances
  <2>5. rdn[a] \in Nat /\ dai[a] \in Nat
    BY <2>1 DEF Types, ChainTypes
  <2>6. Len(txs[a]) \in Nat
    BY <2>2
  <2> QED
    BY <2>3, <2>4, <2>5, <2>6
<1>1. Few'
  <2> SUFFICES ASSUME NEW a \in Accounts
               PROVE  Len(txs[a]) <= faults' + (IF pc' = "poll" /\ a = address' THEN 1 ELSE 0)
    BY DEF Few
  <2>1. Len(txs[a]) <= faults + (IF pc = "poll" /\ a = address THEN 1 ELSE 0)
    BY DEF Few
  <2>2. CASE pc = "poll" /\ a = address /\ pc' # "poll"
    <3>1. CASE txs[address] = <<>>
      BY <1>0, <2>2, <3>1, EmptyOf
    <3>2. CASE faults' >= faults + 1
      BY <1>0, <2>1, <2>2, <3>2
    <3> QED
      BY <2>2, <3>1, <3>2
  <2>3. CASE ~(pc = "poll" /\ a = address /\ pc' # "poll")
    BY <1>0, <2>1, <2>3
  <2> QED
    BY <2>2, <2>3
<1>2. Pending'
  <2> SUFFICES ASSUME NEW a \in Accounts, NEW t \in ToSet(txs[a])
               PROVE  /\ t.kind = "rdn" => ~AtOf(a, {"dai", "eth", "collect", "deposit"})'
                      /\ t.kind = "dai" => ~AtOf(a, {"eth", "collect", "deposit"})'
    BY DEF Pending, UdcEmpty
  <2>1. txs[a] # <<>>
    BY EmptyOf
  <2>2. ASSUME t.kind = "rdn" PROVE ~AtOf(a, {"dai", "eth", "collect", "deposit"})'
    BY <1>0, <2>1, <2>2 DEF Pending, AtOf, Visiting, Leads, Left
  <2>3. ASSUME t.kind = "dai" PROVE ~AtOf(a, {"eth", "collect", "deposit"})'
    BY <1>0, <2>1, <2>3 DEF Pending, AtOf, Visiting, Leads, Left
  <2> QED
    BY <2>2, <2>3
<1>3. Known'
  <2> SUFFICES ASSUME NEW a \in Accounts PROVE UdcKnown(a)' /\ RdnKnown(a)' /\ DaiKnown(a)'
    BY DEF Known
  <2>1. UdcKnown(a) /\ RdnKnown(a) /\ DaiKnown(a)
    BY DEF Known
  <2>2. UdcKnown(a)'
    BY <2>1 DEF UdcKnown, chain
  <2>3. Forwarded(a, "rdn")' => Forwarded(a, "rdn")
    BY DEF Forwarded
  <2>4. Forwarded(a, "dai")' => Forwarded(a, "dai")
    BY DEF Forwarded
  <2>5. a # Receiver /\ UdcEmpty(a) /\ AtOf(a, {"dai", "eth"})' =>
          AtOf(a, {"dai", "eth"}) \/ Forwarded(a, "rdn") \/ balances[a].rdn = 0
    BY DEF AtOf, At, Forwarded, Visiting, Leads, Left
  <2>6. a # Receiver /\ AtOf(a, {"eth"})' => AtOf(a, {"eth"}) \/ Forwarded(a, "dai") \/ balances[a].dai = 0
    BY DEF AtOf, At, Forwarded, Visiting, Leads, Left
  <2>7. RdnKnown(a)'
    BY <2>1, <2>3, <2>5 DEF RdnKnown, UdcEmpty, chain
  <2>8. DaiKnown(a)'
    BY <2>1, <2>4, <2>6 DEF DaiKnown, chain
  <2> QED
    BY <2>2, <2>7, <2>8
<1> QED
  BY <1>1, <1>2, <1>3

\* sweep starts a pass over the accounts, or ends.
LEMMA SweepStep ==
  ASSUME Inv, Sweep
  PROVE  Inv'
<1> USE DEF Inv, Sweep, Goto
<1>1. Types'
  BY Zenon DEF Types, ChainTypes, DrainerTypes, PoolTypes, ListTypes, Steps, chain
<1>2. Visiting'
  BY DEF Visiting, At, UdcEmpty, chain
<1>3. faults' >= faults
  BY BoundsAssumption DEF Types, PoolTypes
<1> QED
  BY <1>1, <1>2, <1>3, QuietStep DEF Leads, At, Visiting

\* The next account of a pass: its deposit, or what is beside it.
LEMMA VisitStep ==
  ASSUME Inv, Visit
  PROVE  Inv'
<1> USE DEF Inv, Visit, Goto
<1>1. rest # <<>> => Head(rest) \in Accounts /\ Tail(rest) \in Seq(Accounts)
  BY DEF Types, ListTypes
<1>2. Types'
  BY <1>1, Zenon DEF Types, ChainTypes, DrainerTypes, PoolTypes, ListTypes, Steps, chain, Owners
<1>3. Visiting'
  BY <1>1 DEF Visiting, At, UdcEmpty, chain
<1>4. faults' >= faults
  BY BoundsAssumption DEF Types, PoolTypes
<1> QED
  BY <1>2, <1>3, <1>4, QuietStep DEF Leads, At, Visiting

\* The step of a visit after one that a transaction is for.
LEMMA AfterType == \A k \in Kinds : After[k] \in {"dai", "eth", "collect"}
  BY DEF After, Kinds

\* poll has seen the transaction mined.
LEMMA PolledStep ==
  ASSUME Inv, Polled
  PROVE  Inv'
<1> USE DEF Inv, Polled, Goto
<1>1. tx.kind \in Kinds /\ tx' = NoTx /\ NoTx \in [kind: Kinds \cup {"none", "lost"}, amount: Nat]
  BY DEF Visiting, NoTx, Types, DrainerTypes
<1>2. After[tx.kind] \in {"dai", "eth", "collect"}
  BY <1>1, AfterType
<1>3. Types'
  BY <1>1, <1>2 DEF Types, ChainTypes, DrainerTypes, PoolTypes, ListTypes, Steps, chain
<1>4. tx.kind \in {"rdn", "dai", "eth", "plan", "withdraw"}
  BY <1>1 DEF Kinds
<1>5. Visiting'
  BY <1>1, <1>2, <1>4 DEF Visiting, At, UdcEmpty, chain, NoTx, After
<1>6. faults' >= faults
  BY BoundsAssumption DEF Types, PoolTypes
<1> QED
  BY <1>2, <1>3, <1>4, <1>5, <1>6, QuietStep DEF Leads, Left, At, Visiting, NoTx, After

\* collect_balances reads the tokens.
LEMMA CollectTokensStep ==
  ASSUME Inv, CollectTokens
  PROVE  Inv'
<1> USE DEF Inv, CollectTokens
<1>1. address \in Accounts /\ Read(address) \in Balances
  BY ReadType DEF Visiting, Types
<1>2. Types'
  BY <1>1, Zenon DEF Types, ChainTypes, DrainerTypes, PoolTypes, ListTypes, Steps, chain
<1>3. Visiting'
  BY DEF Visiting, At, UdcEmpty, chain, Read
<1>4. faults' >= faults
  BY BoundsAssumption DEF Types, PoolTypes
<1> QED
  BY <1>2, <1>3, <1>4, QuietStep DEF Leads, At, Visiting

\* A request fails: the visit ends, and one transaction more may be on its way.
LEMMA FailStep ==
  ASSUME Inv, Fail
  PROVE  Inv'
<1> USE DEF Inv, Fail
<1>1. NoTx \in [kind: Kinds \cup {"none", "lost"}, amount: Nat] /\ Nothing \in Balances
      /\ faults \in Nat /\ faults' \in 0 .. MaxFaults
  BY BoundsAssumption DEF NoTx, Nothing, Balances, Types, PoolTypes
<1>2. Types'
  BY <1>1, Zenon DEF Types, ChainTypes, DrainerTypes, PoolTypes, ListTypes, Steps, chain
<1>3. Visiting'
  BY DEF Visiting, At, NoTx
<1>4. faults' >= faults + 1 /\ faults' >= faults
  BY <1>1
<1> QED
  BY <1>2, <1>3, <1>4, QuietStep DEF Leads, At, NoTx

\* The contract or the node raises: no transaction is sent.
LEMMA RaisedStep ==
  ASSUME Inv, Raised, pc \in {"rdn", "dai", "eth", "udc"}, UNCHANGED <<chain, unseen, others, faults>>
  PROVE  Inv'
<1> USE DEF Inv, Raised, Goto
<1>1. NoTx \in [kind: Kinds \cup {"none", "lost"}, amount: Nat]
  BY DEF NoTx
<1>2. Types'
  BY <1>1, Zenon DEF Types, ChainTypes, DrainerTypes, PoolTypes, ListTypes, Steps, chain
<1>3. Visiting'
  BY DEF Visiting, At, NoTx
<1>4. faults' >= faults
  BY BoundsAssumption DEF Types, PoolTypes
<1> QED
  BY <1>2, <1>3, <1>4, QuietStep DEF Leads, At, NoTx

\* There is nothing to send, or not yet: the visit goes on.
LEMMA SkipStep ==
  ASSUME Inv, pc \in {"rdn", "dai", "eth", "udc"}, UNCHANGED <<chain, unseen, others, faults, tx, txs>>,
         Goto(IF pc = "udc" THEN "collect" ELSE After[pc]),
         pc = "rdn" => Keeps \/ balances[address].rdn = 0, pc = "dai" => Keeps \/ balances[address].dai = 0
  PROVE  Inv'
<1> USE DEF Inv
<1>0. pc' = (IF pc = "udc" THEN "collect" ELSE After[pc]) /\ pc' \in Steps
      /\ UNCHANGED <<balances, accounts, rest, aliased, address, seen>>
  BY DEF Goto, After, Steps
<1> USE DEF After
<1>1. Types'
  BY <1>0, Zenon DEF Types, ChainTypes, DrainerTypes, PoolTypes, ListTypes, chain
<1>2. Visiting'
  BY <1>0 DEF Visiting, At, UdcEmpty, chain
<1>3. faults' >= faults
  BY BoundsAssumption DEF Types, PoolTypes
<1> QED
  BY <1>0, <1>1, <1>2, <1>3, QuietStep DEF Leads, Left, At, Visiting, Keeps

-----------------------------------------------------------------------------
(* Steps that send a transaction *)

\* A transfer that is sent is of the balance read, and the last of its account.
LEMMA SendStep ==
  ASSUME Inv, NEW kind \in Kinds, NEW amount \in Nat, UNCHANGED <<chain, unseen, others, faults>>,
         pc = (IF kind \in {"plan", "withdraw"} THEN "udc" ELSE kind),
         kind \in {"rdn", "dai", "eth"} => ~Keeps,
         kind = "rdn" => amount = balances[address].rdn /\ amount > 0,
         kind = "dai" => amount = balances[address].dai /\ amount > 0,
         tx' = [kind |-> kind, amount |-> amount],
         txs' = [txs EXCEPT ![address] = Append(@, [kind |-> kind, amount |-> amount])], Goto("poll")
  PROVE  Inv'
<1> USE DEF Inv
<1> DEFINE t == [kind |-> kind, amount |-> amount]
<1>1. /\ address \in Accounts /\ pc \in {"rdn", "dai", "eth", "udc"} /\ pc' = "poll"
      /\ UNCHANGED <<balances, accounts, rest, aliased, address, seen>>
  BY DEF Kinds, Visiting, Goto
<1>2. /\ txs[address] \in Seq(Transactions) /\ t \in Transactions /\ tx' = t
      /\ t.kind = kind /\ t.amount = amount
      /\ txs \in [Accounts -> Seq(Transactions)]
  BY <1>1 DEF Types, PoolTypes, Transactions
<1>3. txs' = [txs EXCEPT ![address] = Append(txs[address], t)]
  OBVIOUS
<1> DEFINE s == Append(txs[address], t)
<1>4. /\ s \in Seq(Transactions) /\ Len(s) = Len(txs[address]) + 1 /\ Len(txs[address]) \in Nat
      /\ s[Len(txs[address]) + 1] = t /\ s # <<>> /\ ToSet(s) \subseteq ToSet(txs[address]) \cup {t}
  BY <1>2, Sent
<1>5. txs'[address] = s /\ (\A a \in Accounts \ {address} : txs'[a] = txs[a])
      /\ txs' \in [Accounts -> Seq(Transactions)]
  BY <1>1, <1>2, <1>3, <1>4
<1> HIDE DEF t, s
<1>6. Types'
  <2>1. tx' \in [kind: Kinds \cup {"none", "lost"}, amount: Nat]
    BY DEF t
  <2> QED
    BY <1>1, <1>5, <2>1, Zenon DEF Types, ChainTypes, DrainerTypes, PoolTypes, ListTypes, Steps, chain
<1>7. Visiting'
  <2>1. tx'.kind = kind /\ kind \in {"rdn", "dai", "eth", "plan", "withdraw"}
    BY <1>2 DEF Kinds
  <2>2. txs'[address'][Len(txs'[address'])] = tx' /\ txs'[address'] # <<>>
    BY <1>1, <1>2, <1>4, <1>5
  <2> QED
    BY <1>1, <2>1, <2>2 DEF Visiting, At, UdcEmpty, Keeps
<1>8. Few'
  <2> SUFFICES ASSUME NEW a \in Accounts
               PROVE  Len(txs'[a]) <= faults + (IF a = address THEN 1 ELSE 0)
    BY <1>1 DEF Few
  <2>1. Len(txs[a]) <= faults + 0 /\ faults \in Nat
    BY <1>1, BoundsAssumption DEF Few, Types, PoolTypes
  <2>2. CASE a = address
    BY <1>4, <1>5, <2>1, <2>2
  <2>3. CASE a # address
    BY <1>5, <2>1, <2>3
  <2> QED
    BY <2>2, <2>3
<1>9. Pending'
  <2> SUFFICES ASSUME NEW a \in Accounts, NEW u \in ToSet(txs'[a])
               PROVE  /\ u.kind = "rdn" =>
                           /\ a # Receiver /\ UdcEmpty(a) /\ u.amount = balances[a].rdn /\ u.amount > 0
                           /\ ~AtOf(a, {"dai", "eth", "collect", "deposit"})'
                      /\ u.kind = "dai" =>
                           /\ a # Receiver /\ UdcEmpty(a) /\ u.amount = balances[a].dai /\ u.amount > 0
                           /\ ~AtOf(a, {"eth", "collect", "deposit"})'
    BY <1>1 DEF Pending, UdcEmpty
  <2>1. tx'.kind = kind
    BY <1>2
  <2>2. CASE u \in ToSet(txs[a])
    BY <1>1, <2>1, <2>2 DEF Pending, AtOf, At, Visiting, Kinds
  <2>3. CASE u \notin ToSet(txs[a])
    <3>1. a = address /\ u = t
      BY <1>4, <1>5, <2>3
    <3> QED
      BY <1>1, <1>2, <2>1, <3>1 DEF AtOf, At, Visiting, Keeps
  <2> QED
    BY <2>2, <2>3
<1>10. Known'
  <2> SUFFICES ASSUME NEW a \in Accounts PROVE UdcKnown(a)' /\ RdnKnown(a)' /\ DaiKnown(a)'
    BY DEF Known
  <2>1. UdcKnown(a) /\ RdnKnown(a) /\ DaiKnown(a)
    BY DEF Known
  <2>2. tx'.kind = kind
    BY <1>2
  <2>3. ~Forwarded(a, "rdn")' /\ ~Forwarded(a, "dai")'
    BY <1>1, <1>4, <1>5 DEF Forwarded
  <2>4. (AtOf(a, {"dai", "eth"})' => AtOf(a, {"dai", "eth"})) /\ (AtOf(a, {"eth"})' => AtOf(a, {"eth"}))
    BY <1>1, <2>2 DEF AtOf, At
  <2> QED
    BY <1>1, <2>1, <2>3, <2>4 DEF UdcKnown, RdnKnown, DaiKnown, UdcEmpty, chain
<1> QED
  BY <1>6, <1>7, <1>8, <1>9, <1>10

\* sign_and_poll sends, or raises.
LEMMA TransactStep ==
  ASSUME Inv, NEW kind \in Kinds, NEW amount \in Nat, NEW estimated, Transact(kind, amount, estimated),
         UNCHANGED <<chain, unseen, others, faults>>,
         pc = (IF kind \in {"plan", "withdraw"} THEN "udc" ELSE kind),
         kind \in {"rdn", "dai", "eth"} => ~Keeps,
         kind = "rdn" => amount = balances[address].rdn /\ amount > 0,
         kind = "dai" => amount = balances[address].dai /\ amount > 0
  PROVE  Inv'
<1>1. CASE Raised
  BY <1>1, RaisedStep DEF Kinds
<1>2. CASE /\ tx' = [kind |-> kind, amount |-> amount]
           /\ txs' = [txs EXCEPT ![address] = Append(@, [kind |-> kind, amount |-> amount])]
           /\ Goto("poll")
  BY <1>2, SendStep
<1> QED
  BY <1>1, <1>2, Zenon DEF Transact

\* forward_rdn sends what was read.
LEMMA ForwardRdnStep ==
  ASSUME Inv, ForwardRdn
  PROVE  Inv'
<1>1. pc = "rdn" /\ "rdn" \in Kinds /\ After[pc] = "dai" /\ UNCHANGED <<chain, unseen, others, faults>>
  BY DEF ForwardRdn, Forward, Kinds, After
<1>2. balances[address].rdn \in Nat
  BY <1>1 DEF Inv, Visiting, Types, DrainerTypes, Balances
<1>3. CASE Keeps \/ balances[address].rdn = 0
  BY <1>1, <1>3, SkipStep DEF ForwardRdn, Forward, Skip
<1>4. CASE ~(Keeps \/ balances[address].rdn = 0)
  <2>1. Transact("rdn", balances[address].rdn, balances[address].rdn <= rdn[address])
    BY <1>4 DEF ForwardRdn, Forward
  <2> QED
    BY <1>1, <1>2, <1>4, <2>1, TransactStep
<1> QED
  BY <1>3, <1>4

\* forward_dai sends what was read, after the RDN have gone.
LEMMA ForwardDaiStep ==
  ASSUME Inv, ForwardDai
  PROVE  Inv'
<1>1. pc = "dai" /\ "dai" \in Kinds /\ After[pc] = "eth" /\ UNCHANGED <<chain, unseen, others, faults>>
  BY DEF ForwardDai, Forward, Kinds, After
<1>2. balances[address].dai \in Nat
  BY <1>1 DEF Inv, Visiting, Types, DrainerTypes, Balances
<1>3. CASE Keeps \/ balances[address].dai = 0
  BY <1>1, <1>3, SkipStep DEF ForwardDai, Forward, Skip
<1>4. CASE ~(Keeps \/ balances[address].dai = 0)
  <2>1. Transact("dai", balances[address].dai, balances[address].dai <= dai[address])
    BY <1>4 DEF ForwardDai, Forward
  <2> QED
    BY <1>1, <1>2, <1>4, <2>1, TransactStep
<1> QED
  BY <1>3, <1>4

\* forward_eth sends what is left without the fee, after the tokens have gone.
LEMMA ForwardEthStep ==
  ASSUME Inv, ForwardEth
  PROVE  Inv'
<1>1. pc = "eth" /\ "eth" \in Kinds /\ After[pc] = "collect" /\ UNCHANGED <<chain, unseen, others, faults>>
  BY DEF ForwardEth, Kinds, After
<1>2. eth[address] \in Nat
  BY <1>1 DEF Inv, Visiting, Types, ChainTypes, Owners
<1>3. CASE Keeps \/ Value <= 0
  BY <1>1, <1>3, SkipStep DEF ForwardEth, Skip
<1>4. CASE ~(Keeps \/ Value <= 0)
  <2>1. Transact("eth", Value, TRUE)
    BY <1>4 DEF ForwardEth
  <2>2. Value \in Nat
    BY <1>2, <1>4, FeesAssumption DEF Value
  <2> QED
    BY <1>1, <1>4, <2>1, <2>2, TransactStep
<1> QED
  BY <1>3, <1>4

\* empty_udc plans or makes a withdrawal, or waits.
LEMMA EmptyUdcStep ==
  ASSUME Inv, EmptyUdc
  PROVE  Inv'
<1>1. pc = "udc" /\ {"plan", "withdraw"} \subseteq Kinds /\ UNCHANGED <<chain, unseen, others, faults>>
  BY DEF EmptyUdc, Kinds
<1>2. balances[address].udc \in Nat /\ plan[address].amount \in Nat
  BY <1>1 DEF Inv, Visiting, Types, ChainTypes, DrainerTypes, Balances, Owners
<1>3. CASE Transact("plan", balances[address].udc, balances[address].udc <= udc[address])
  BY <1>1, <1>2, <1>3, TransactStep
<1>4. CASE Transact("withdraw", plan[address].amount, TRUE)
  BY <1>1, <1>2, <1>4, TransactStep
<1>5. CASE UNCHANGED <<tx, txs>> /\ Goto("collect")
  BY <1>1, <1>5, SkipStep
<1> QED
  BY <1>3, <1>4, <1>5, Zenon DEF EmptyUdc

-----------------------------------------------------------------------------
(* Reading the balances, and what others do *)

\* collect_balances: what it read takes the place of the balances.
LEMMA CollectBalancesStep ==
  ASSUME Inv, CollectBalances
  PROVE  Inv'
<1> USE DEF Inv
<1> DEFINE read == [seen EXCEPT !.udc = udc[address]]
<1>1. /\ pc = "deposit" /\ pc' = "next" /\ address \in Accounts /\ address \in Owners /\ seen' = Nothing
      /\ UNCHANGED <<chain, address, tx, txs, others, faults>> /\ tx.kind = "none"
      /\ unseen' = (IF seen.rdn = rdn[address] THEN unseen \ {address} ELSE unseen \cup {address})
      /\ balances' = [balances EXCEPT ![address] = read]
  BY DEF CollectBalances, Visiting, Owners
<1>2. read \in Balances /\ read.rdn = seen.rdn /\ read.dai = seen.dai /\ read.udc = udc[address]
  BY <1>1 DEF Types, ChainTypes, DrainerTypes, Balances
<1>3. ListTypes' /\ aliased' \in BOOLEAN
  <2>1. \A s \in SetToSeqs(ToSet(accounts)) : s \in Seq(Accounts)
    BY ListOf, ToSetOf DEF Types, ListTypes
  <2>2. Append(rest, address) \in Seq(Accounts)
    BY <1>1 DEF Types, ListTypes
  <2>3. CASE read = Nothing
    BY <2>3, Zenon DEF CollectBalances, Types, ListTypes, DrainerTypes
  <2>4. CASE read # Nothing
    <3>1. /\ rest' = (IF aliased THEN Append(rest, address) ELSE rest) /\ aliased' = FALSE
          /\ accounts' \in SetToSeqs(ToSet(accounts))
      BY <2>4, Zenon DEF CollectBalances
    <3> QED
      BY <2>1, <2>2, <3>1, Zenon DEF Types, ListTypes
  <2> QED
    BY <2>3, <2>4
<1> HIDE DEF read
<1>4. balances'[address] = read /\ (\A a \in Accounts \ {address} : balances'[a] = balances[a])
      /\ balances' \in [Accounts -> Balances]
  BY <1>1, <1>2 DEF Types, DrainerTypes
<1>5. Types'
  <2>1. unseen' \subseteq Accounts
    BY <1>1 DEF Types, PoolTypes
  <2>2. Nothing \in Balances
    BY DEF Nothing, Balances
  <2> QED
    BY <1>1, <1>3, <1>4, <2>1, <2>2, Zenon DEF Types, ChainTypes, DrainerTypes, PoolTypes, Steps, chain
<1>6. Visiting'
  BY <1>1 DEF Visiting, At
<1>7. Few'
  BY <1>1 DEF Few
<1>8. Pending'
  <2> SUFFICES ASSUME NEW a \in Accounts, NEW u \in ToSet(txs[a])
               PROVE  /\ u.kind = "rdn" =>
                           /\ a # Receiver /\ UdcEmpty(a)' /\ u.amount = balances'[a].rdn /\ u.amount > 0
                           /\ ~AtOf(a, {"dai", "eth", "collect", "deposit"})'
                      /\ u.kind = "dai" =>
                           /\ a # Receiver /\ UdcEmpty(a)' /\ u.amount = balances'[a].dai /\ u.amount > 0
                           /\ ~AtOf(a, {"eth", "collect", "deposit"})'
    BY <1>1 DEF Pending
  <2>1. ~AtOf(a, {"dai", "eth", "collect", "deposit"})' /\ ~AtOf(a, {"eth", "collect", "deposit"})'
    BY <1>1 DEF AtOf, At
  <2>2. CASE a = address
    BY <1>1, <2>2 DEF Pending, AtOf, At
  <2>3. CASE a # address
    <3>1. UdcEmpty(a)' = UdcEmpty(a) /\ balances'[a] = balances[a]
      BY <1>4, <2>3 DEF UdcEmpty
    <3> QED
      BY <2>1, <3>1 DEF Pending
  <2> QED
    BY <2>2, <2>3
<1>9. Known'
  <2> SUFFICES ASSUME NEW a \in Accounts PROVE UdcKnown(a)' /\ RdnKnown(a)' /\ DaiKnown(a)'
    BY DEF Known
  <2>1. ~AtOf(a, {"dai", "eth"})' /\ ~AtOf(a, {"eth"})' /\ ~Forwarded(a, "rdn")' /\ ~Forwarded(a, "dai")'
    BY <1>1 DEF AtOf, At, Forwarded
  <2>2. UNCHANGED <<udc, rdn, dai>>
    BY <1>1 DEF chain
  <2>3. CASE a = address
    <3>1. udc[a] \in Nat
      BY <1>1, <2>3 DEF Types, ChainTypes
    <3>2. UdcKnown(a)'
      BY <1>2, <1>4, <2>2, <2>3, <3>1 DEF UdcKnown
    <3>3. a \notin unseen' => rdn[a] = seen.rdn
      BY <1>1, <2>3
    <3>4. a # Receiver => dai[a] = seen.dai
      BY <1>1, <2>3 DEF Visiting
    <3> QED
      BY <1>2, <1>4, <2>1, <2>2, <2>3, <3>2, <3>3, <3>4 DEF RdnKnown, DaiKnown
  <2>4. CASE a # address
    <3>1. balances'[a] = balances[a] /\ (a \notin unseen' => a \notin unseen)
      BY <1>1, <1>4, <2>4
    <3>2. UdcKnown(a) /\ RdnKnown(a) /\ DaiKnown(a)
      BY DEF Known
    <3> QED
      BY <2>1, <2>2, <3>1, <3>2 DEF UdcKnown, RdnKnown, DaiKnown, UdcEmpty
  <2> QED
    BY <2>3, <2>4
<1> QED
  BY <1>5, <1>6, <1>7, <1>8, <1>9

\* Time makes a plan ripe and changes no balance.
LEMMA RipenStep ==
  ASSUME Inv, NEW a \in Accounts, Ripen(a)
  PROVE  Inv'
<1> USE DEF Inv, Ripen
<1>1. Types'
  BY DEF Types, ChainTypes, DrainerTypes, PoolTypes, ListTypes, drainer, Owners
<1>2. Visiting' /\ Few' /\ Pending' /\ Known'
  BY DEF Visiting, Few, Pending, Known, UdcKnown, RdnKnown, DaiKnown, Forwarded, AtOf, At, UdcEmpty, drainer
<1> QED
  BY <1>1, <1>2

\* What others do to an account is not seen until it is read.
LEMMA OtherStep ==
  ASSUME Inv, NEW a \in Accounts, Other(a)
  PROVE  Inv'
<1> USE DEF Inv
<1>0. /\ a \in Owners /\ UNCHANGED <<eth, dai, plan, drainer, txs, faults>>
      /\ others < MaxOthers /\ others' = others + 1
      /\ \/ rdn' = [rdn EXCEPT ![a] = @ + 1] /\ unseen' = unseen \cup {a} /\ UNCHANGED udc
         \/ udc[a] > 0 /\ udc' = [udc EXCEPT ![a] = @ - 1] /\ UNCHANGED <<rdn, unseen>>
  BY DEF Other, Owners
<1>1. /\ rdn' \in [Owners -> Nat] /\ udc' \in [Owners -> Nat] /\ unseen \subseteq unseen' /\ unseen' \subseteq Accounts
      /\ \A b \in Accounts : udc'[b] <= udc[b] /\ (b \notin unseen' => rdn'[b] = rdn[b])
  <2>1. /\ \A b \in Accounts : b \in Owners /\ udc[b] \in Nat
        /\ rdn \in [Owners -> Nat] /\ udc \in [Owners -> Nat] /\ unseen \subseteq Accounts
    BY DEF Types, ChainTypes, PoolTypes, Owners
  <2>2. CASE rdn' = [rdn EXCEPT ![a] = @ + 1] /\ unseen' = unseen \cup {a} /\ UNCHANGED udc
    BY <1>0, <2>1, <2>2
  <2>3. CASE udc[a] > 0 /\ udc' = [udc EXCEPT ![a] = @ - 1] /\ UNCHANGED <<rdn, unseen>>
    BY <1>0, <2>1, <2>3
  <2> QED
    BY <1>0, <2>2, <2>3
<1>2. Types'
  <2>1. others' \in 0 .. MaxOthers
    BY <1>0, BoundsAssumption DEF Types, PoolTypes
  <2> QED
    BY <1>0, <1>1, <2>1, Zenon DEF Types, ChainTypes, DrainerTypes, PoolTypes, ListTypes, drainer
<1>3. Visiting' /\ Few' /\ Pending'
  BY <1>0 DEF Visiting, Few, Pending, AtOf, At, UdcEmpty, drainer
<1>4. Known'
  <2> SUFFICES ASSUME NEW b \in Accounts PROVE UdcKnown(b)' /\ RdnKnown(b)' /\ DaiKnown(b)'
    BY DEF Known
  <2>1. balances[b].udc \in Nat /\ udc[b] \in Nat /\ udc'[b] \in Nat
    BY <1>1 DEF Types, ChainTypes, DrainerTypes, Owners, Balances
  <2>2. UdcKnown(b)'
    BY <1>0, <1>1, <2>1 DEF Known, UdcKnown, drainer
  <2>3. RdnKnown(b)' /\ DaiKnown(b)'
    BY <1>0, <1>1 DEF Known, RdnKnown, DaiKnown, Forwarded, AtOf, At, UdcEmpty, drainer
  <2> QED
    BY <2>2, <2>3
<1> QED
  BY <1>2, <1>3, <1>4

-----------------------------------------------------------------------------
(* Steps of the chain *)

\* The first transaction of an account is no longer on its way: one less of them, and the
\* last is the same if there is one.
LEMMA PoolStep ==
  ASSUME Inv, NEW a \in Accounts, txs[a] # <<>>, txs' = [txs EXCEPT ![a] = Tail(@)],
         UNCHANGED <<balances, accounts, rest, aliased, address, pc, seen, unseen, others, faults>>,
         tx' = tx \/ tx'.kind = "lost"
  PROVE  /\ PoolTypes' /\ ListTypes' /\ Few' /\ Pending'
         /\ Head(txs[a]) \in Transactions /\ Head(txs[a]) \in ToSet(txs[a])
         /\ \A b \in Accounts \ {a} : txs'[b] = txs[b]
         /\ txs'[a] = Tail(txs[a])
         /\ IF txs'[a] = <<>> THEN Head(txs[a]) = txs[a][Len(txs[a])]
            ELSE txs'[a][Len(txs'[a])] = txs[a][Len(txs[a])]
<1> USE DEF Inv
<1>1. txs \in [Accounts -> Seq(Transactions)] /\ txs[a] \in Seq(Transactions)
  BY DEF Types, PoolTypes
<1> DEFINE s == txs[a]
<1>2. /\ Head(s) \in ToSet(s) /\ Head(s) \in Transactions /\ Tail(s) \in Seq(Transactions)
      /\ Len(s) \in Nat \ {0} /\ Len(Tail(s)) = Len(s) - 1 /\ ToSet(Tail(s)) \subseteq ToSet(s)
      /\ IF Tail(s) = <<>> THEN Head(s) = s[Len(s)] ELSE Tail(s)[Len(Tail(s))] = s[Len(s)]
  BY <1>1, Taken
<1>3. txs'[a] = Tail(s) /\ (\A b \in Accounts \ {a} : txs'[b] = txs[b])
      /\ txs' \in [Accounts -> Seq(Transactions)]
  BY <1>1, <1>2
<1> HIDE DEF s
<1>4. PoolTypes' /\ ListTypes'
  BY <1>3, Zenon DEF Types, PoolTypes, ListTypes
<1>5. Few'
  <2> SUFFICES ASSUME NEW b \in Accounts
               PROVE  Len(txs'[b]) <= faults + (IF pc = "poll" /\ b = address THEN 1 ELSE 0)
    BY DEF Few
  <2>1. Len(txs[b]) <= faults + (IF pc = "poll" /\ b = address THEN 1 ELSE 0) /\ faults \in Nat
    BY BoundsAssumption DEF Few, Types, PoolTypes
  <2>2. CASE b = a
    BY <1>2, <1>3, <2>1, <2>2 DEF s
  <2>3. CASE b # a
    BY <1>3, <2>1, <2>3
  <2> QED
    BY <2>2, <2>3
<1>6. Pending'
  <2>1. \A b \in Accounts : ToSet(txs'[b]) \subseteq ToSet(txs[b])
    BY <1>2, <1>3 DEF s
  <2>2. \A b, S : "lost" \notin S /\ AtOf(b, S)' => AtOf(b, S)
    BY DEF AtOf, At
  <2> QED
    BY <2>1, <2>2 DEF Pending, UdcEmpty
<1> QED
  BY <1>2, <1>3, <1>4, <1>5, <1>6 DEF s

\* Units that move from an account to the receiver.
LEMMA MovedType ==
  ASSUME NEW f \in [Owners -> Nat], NEW a \in Accounts, NEW n \in Nat, n <= f[a]
  PROVE  /\ Moved(f, a, n) \in [Owners -> Nat]
         /\ \A b \in Owners : b # a /\ b # Receiver => Moved(f, a, n)[b] = f[b]
         /\ a # Receiver => Moved(f, a, n)[a] = f[a] - n
         /\ Moved(f, a, n)[a] >= f[a] - n
<1>1. a \in Owners /\ Receiver \in Owners /\ f[a] - n \in Nat
  BY DEF Owners
<1> QED
  BY <1>1 DEF Moved

\* What a transaction does to the tokens and the deposit of an account: a transfer leaves
\* none if there was all that it sends, or none; a withdrawal brings what there was.
LEMMA ExecuteStep ==
  ASSUME Inv, NEW a \in Accounts, NEW t \in ToSet(txs[a]), t \in Transactions, Execute(a, t)
  PROVE  /\ rdn' \in [Owners -> Nat] /\ dai' \in [Owners -> Nat] /\ udc' \in [Owners -> Nat]
         /\ plan' \in [Owners -> [amount: Nat, ripe: BOOLEAN]]
         /\ \A b \in Accounts : udc'[b] <= udc[b]
         /\ \A b \in Accounts : b # a /\ b # Receiver => rdn'[b] = rdn[b] /\ dai'[b] = dai[b]
         /\ a # Receiver /\ UdcEmpty(a) /\ a \notin unseen =>
              rdn'[a] = rdn[a] \/ rdn'[a] = 0
         /\ a # Receiver => dai'[a] = dai[a] \/ dai'[a] = 0
         /\ a # Receiver /\ UdcEmpty(a) /\ a \notin unseen /\ t.kind = "rdn" => rdn'[a] = 0
         /\ a # Receiver /\ t.kind = "dai" => dai'[a] = 0
<1> USE DEF Inv
<1>1. /\ t.amount \in Nat /\ t.kind \in {"rdn", "dai", "eth", "plan", "withdraw"}
      /\ a \in Owners /\ Receiver \in Owners
      /\ rdn \in [Owners -> Nat] /\ dai \in [Owners -> Nat] /\ udc \in [Owners -> Nat]
      /\ plan \in [Owners -> [amount: Nat, ripe: BOOLEAN]] /\ Accounts \subseteq Owners
  BY DEF Transactions, Kinds, Owners, Types, ChainTypes
<1>2. rdn[a] \in Nat /\ dai[a] \in Nat /\ udc[a] \in Nat
  BY <1>1
<1>3. t.kind = "rdn" => t.amount = balances[a].rdn /\ t.amount > 0
  BY DEF Pending
<1>4. t.kind = "dai" => t.amount = balances[a].dai /\ t.amount > 0
  BY DEF Pending
<1>5. a # Receiver /\ UdcEmpty(a) /\ a \notin unseen => rdn[a] \in {0, balances[a].rdn}
  BY DEF Known, RdnKnown
<1>6. a # Receiver => dai[a] \in {0, balances[a].dai}
  BY DEF Known, DaiKnown
<1>7. UdcEmpty(a) => udc[a] = 0
  BY <1>2 DEF Known, UdcKnown, UdcEmpty
<1>8. \A b \in Accounts : udc[b] \in Nat
  BY <1>1
<1>10. CASE t.amount > Bearable(a, t)
  <2>1. UNCHANGED <<rdn, dai, udc, plan>>
    BY <1>10 DEF Execute
  <2>2. t.kind = "rdn" => t.amount > rdn[a]
    BY <1>10 DEF Bearable
  <2>3. t.kind = "dai" => t.amount > dai[a]
    BY <1>10 DEF Bearable
  <2>4. a # Receiver /\ UdcEmpty(a) /\ a \notin unseen /\ t.kind = "rdn" => rdn[a] = 0
    BY <1>2, <1>3, <1>5, <2>2
  <2>5. a # Receiver /\ t.kind = "dai" => dai[a] = 0
    BY <1>2, <1>4, <1>6, <2>3
  <2> QED
    BY <1>1, <1>8, <2>1, <2>4, <2>5
<1>11. CASE ~(t.amount > Bearable(a, t)) /\ t.kind = "rdn"
  <2>1. rdn' = Moved(rdn, a, t.amount) /\ UNCHANGED <<dai, udc, plan>> /\ t.amount <= rdn[a]
    BY <1>1, <1>2, <1>11 DEF Execute, Bearable
  <2>2. /\ rdn' \in [Owners -> Nat] /\ (\A b \in Owners : b # a /\ b # Receiver => rdn'[b] = rdn[b])
        /\ a # Receiver => rdn'[a] = rdn[a] - t.amount
    BY <1>1, <2>1, MovedType
  <2>3. t.amount > 0 /\ t.amount = balances[a].rdn
    BY <1>3, <1>11
  <2>4. ASSUME a # Receiver, UdcEmpty(a), a \notin unseen PROVE rdn'[a] = 0
    <3>1. rdn[a] = 0 \/ rdn[a] = t.amount
      BY <1>5, <2>3, <2>4
    <3> QED
      BY <1>1, <1>2, <2>1, <2>2, <2>3, <2>4, <3>1
  <2> QED
    BY <1>1, <1>8, <1>11, <2>1, <2>2, <2>4
<1>12. CASE ~(t.amount > Bearable(a, t)) /\ t.kind = "dai"
  <2>1. dai' = Moved(dai, a, t.amount) /\ UNCHANGED <<rdn, udc, plan>> /\ t.amount <= dai[a]
    BY <1>1, <1>2, <1>12 DEF Execute, Bearable
  <2>2. /\ dai' \in [Owners -> Nat] /\ (\A b \in Owners : b # a /\ b # Receiver => dai'[b] = dai[b])
        /\ a # Receiver => dai'[a] = dai[a] - t.amount
    BY <1>1, <2>1, MovedType
  <2>3. t.amount > 0 /\ t.amount = balances[a].dai
    BY <1>4, <1>12
  <2>4. ASSUME a # Receiver PROVE dai'[a] = 0
    <3>1. dai[a] = 0 \/ dai[a] = t.amount
      BY <1>6, <2>3, <2>4
    <3> QED
      BY <1>1, <1>2, <2>1, <2>2, <2>3, <2>4, <3>1
  <2> QED
    BY <1>1, <1>8, <1>12, <2>1, <2>2, <2>4
<1>13. CASE ~(t.amount > Bearable(a, t)) /\ t.kind = "eth"
  <2>1. UNCHANGED <<rdn, dai, udc, plan>>
    BY <1>13 DEF Execute
  <2> QED
    BY <1>1, <1>8, <1>13, <2>1
<1>14. CASE ~(t.amount > Bearable(a, t)) /\ t.kind = "plan"
  <2>1. UNCHANGED <<rdn, dai, udc>> /\ plan' = [plan EXCEPT ![a] = [amount |-> t.amount, ripe |-> FALSE]]
    BY <1>14 DEF Execute
  <2>2. plan' \in [Owners -> [amount: Nat, ripe: BOOLEAN]]
    BY <1>1, <2>1
  <2> QED
    BY <1>1, <1>8, <1>14, <2>1, <2>2
<1>15. CASE ~(t.amount > Bearable(a, t)) /\ t.kind = "withdraw"
  <2> DEFINE n == Least(a, t)
  <2>1. /\ plan' = [plan EXCEPT ![a] = NoPlan] /\ UNCHANGED dai
        /\ udc' = [udc EXCEPT ![a] = @ - n] /\ rdn' = [rdn EXCEPT ![a] = @ + n]
    BY <1>15 DEF Execute
  <2>2. n \in Nat /\ n <= udc[a]
    BY <1>1, <1>2 DEF Least
  <2> HIDE DEF n
  <2>3. plan' \in [Owners -> [amount: Nat, ripe: BOOLEAN]]
    BY <1>1, <2>1 DEF NoPlan
  <2>4. /\ udc' \in [Owners -> Nat] /\ rdn' \in [Owners -> Nat]
        /\ \A b \in Accounts : udc'[b] <= udc[b]
        /\ \A b \in Accounts : b # a => rdn'[b] = rdn[b]
        /\ rdn'[a] = rdn[a] + n
    BY <1>1, <1>2, <1>8, <2>1, <2>2
  <2>5. UdcEmpty(a) => rdn'[a] = rdn[a]
    BY <1>2, <1>7, <2>2, <2>4
  <2> QED
    BY <1>1, <1>15, <2>1, <2>3, <2>4, <2>5
<1> QED
  BY <1>1, <1>10, <1>11, <1>12, <1>13, <1>14, <1>15

\* The next transaction of an account is mined.
LEMMA MineStep ==
  ASSUME Inv, NEW a \in Accounts, Mine(a)
  PROVE  Inv'
<1> USE DEF Inv
<1> DEFINE t == Head(txs[a])
<1>1. /\ txs[a] # <<>> /\ txs' = [txs EXCEPT ![a] = Tail(@)]
      /\ Cost(t) <= eth[a] /\ Execute(a, t)
      /\ eth' = (IF t.kind = "eth" THEN [Moved(eth, a, t.amount) EXCEPT ![a] = @ - EthFee]
                 ELSE [eth EXCEPT ![a] = @ - CallFee])
      /\ UNCHANGED <<drainer, unseen, others, faults>>
  BY DEF Mine
<1>2. /\ PoolTypes' /\ ListTypes' /\ Few' /\ Pending'
      /\ t \in Transactions /\ t \in ToSet(txs[a])
      /\ \A b \in Accounts \ {a} : txs'[b] = txs[b]
      /\ txs'[a] = Tail(txs[a])
      /\ IF txs'[a] = <<>> THEN t = txs[a][Len(txs[a])]
         ELSE txs'[a][Len(txs'[a])] = txs[a][Len(txs[a])]
  BY <1>1, PoolStep DEF drainer
<1> HIDE DEF t
<1>3. /\ rdn' \in [Owners -> Nat] /\ dai' \in [Owners -> Nat] /\ udc' \in [Owners -> Nat]
      /\ plan' \in [Owners -> [amount: Nat, ripe: BOOLEAN]]
      /\ \A b \in Accounts : udc'[b] <= udc[b]
      /\ \A b \in Accounts : b # a /\ b # Receiver => rdn'[b] = rdn[b] /\ dai'[b] = dai[b]
      /\ a # Receiver /\ UdcEmpty(a) /\ a \notin unseen =>
           rdn'[a] = rdn[a] \/ rdn'[a] = 0
      /\ a # Receiver => dai'[a] = dai[a] \/ dai'[a] = 0
      /\ a # Receiver /\ UdcEmpty(a) /\ a \notin unseen /\ t.kind = "rdn" => rdn'[a] = 0
      /\ a # Receiver /\ t.kind = "dai" => dai'[a] = 0
  BY <1>1, <1>2, ExecuteStep
<1>4. eth' \in [Owners -> Nat]
  <2>1. /\ a \in Owners /\ eth \in [Owners -> Nat] /\ t.amount \in Nat
        /\ EthFee \in Nat /\ CallFee \in Nat /\ eth[a] \in Nat
    BY <1>2, FeesAssumption DEF Transactions, Owners, Types, ChainTypes
  <2>2. CASE t.kind = "eth"
    <3>1. t.amount + EthFee <= eth[a] /\ t.amount <= eth[a]
      BY <1>1, <2>1, <2>2 DEF Cost
    <3>2. Moved(eth, a, t.amount) \in [Owners -> Nat] /\ Moved(eth, a, t.amount)[a] >= eth[a] - t.amount
      BY <2>1, <3>1, MovedType
    <3>3. eth' = [Moved(eth, a, t.amount) EXCEPT ![a] = @ - EthFee]
      BY <1>1, <2>2
    <3> DEFINE f == Moved(eth, a, t.amount)
    <3>4. f \in [Owners -> Nat] /\ f[a] >= eth[a] - t.amount /\ eth' = [f EXCEPT ![a] = @ - EthFee]
      BY <3>2, <3>3
    <3> HIDE DEF f
    <3>5. f[a] - EthFee \in Nat
      BY <2>1, <3>1, <3>4
    <3> QED
      BY <2>1, <3>4, <3>5
  <2>3. CASE t.kind # "eth"
    <3>1. eth' = [eth EXCEPT ![a] = @ - CallFee] /\ CallFee <= eth[a]
      BY <1>1, <2>3 DEF Cost
    <3> QED
      BY <2>1, <3>1
  <2> QED
    BY <2>2, <2>3
<1>5. Types'
  <2>1. DrainerTypes'
    BY <1>1, Zenon DEF Types, DrainerTypes, drainer
  <2>2. ChainTypes'
    BY <1>3, <1>4 DEF ChainTypes
  <2> QED
    BY <1>2, <2>1, <2>2 DEF Types
<1>6. Visiting'
  <2>1. UNCHANGED <<balances, address, pc, tx, seen>> /\ \A S : At(S)' = At(S)
    BY <1>1 DEF drainer, At
  <2>2. UdcEmpty(address)' <=> UdcEmpty(address)
    BY <2>1 DEF UdcEmpty
  <2>3. pc = "poll" /\ tx.kind # "lost" /\ txs'[address] # <<>> => txs'[address][Len(txs'[address])] = tx
    BY <1>1, <1>2 DEF Visiting
  <2>4. tx.kind = "lost" => txs'[address] = <<>>
    BY <1>1, <1>2 DEF Visiting
  <2>5. pc = "deposit" /\ address # Receiver => seen.dai = dai'[address]
    <3> SUFFICES ASSUME pc = "deposit", address # Receiver PROVE dai'[address] = dai[address]
      BY DEF Visiting
    <3>1. address \in Accounts
      BY DEF Visiting
    <3>2. CASE a # address
      BY <1>3, <3>1, <3>2
    <3>3. CASE a = address
      <4>1. t.kind # "dai"
        BY <1>2, <3>3 DEF Pending, AtOf, At
      <4>2. t.kind \in Kinds /\ t.kind # "dai" => UNCHANGED dai
        BY <1>1, <4>1, Zenon DEF Execute, Kinds
      <4> QED
        BY <1>2, <4>1, <4>2 DEF Transactions
    <3> QED
      BY <3>2, <3>3
  <2> QED
    BY <2>1, <2>2, <2>3, <2>4, <2>5 DEF Visiting
<1>7. Known'
  <2> SUFFICES ASSUME NEW b \in Accounts PROVE UdcKnown(b)' /\ RdnKnown(b)' /\ DaiKnown(b)'
    BY DEF Known
  <2>1. UNCHANGED <<balances, address, pc, tx, unseen>> /\ \A S : AtOf(b, S)' = AtOf(b, S)
    BY <1>1 DEF drainer, AtOf, At
  <2>2. UdcKnown(b) /\ RdnKnown(b) /\ DaiKnown(b)
    BY DEF Known
  <2>3. UdcKnown(b)'
    <3>1. udc[b] \in Nat /\ udc'[b] \in Nat /\ balances[b].udc \in Nat
      BY <1>3 DEF Types, ChainTypes, DrainerTypes, Balances, Owners
    <3> QED
      BY <1>3, <2>1, <2>2, <3>1 DEF UdcKnown
  <2>4. CASE b # a
    <3>1. txs'[b] = txs[b] /\ (b # Receiver => rdn'[b] = rdn[b] /\ dai'[b] = dai[b])
      BY <1>2, <1>3, <2>4
    <3> QED
      BY <2>1, <2>2, <2>3, <3>1 DEF RdnKnown, DaiKnown, UdcEmpty, Forwarded
  <2>5. CASE b = a
    <3>1. Forwarded(b, "rdn")' => Forwarded(b, "rdn") \/ t.kind = "rdn"
      BY <1>1, <1>2, <2>1, <2>5 DEF Forwarded, Visiting
    <3>2. Forwarded(b, "dai")' => Forwarded(b, "dai") \/ t.kind = "dai"
      BY <1>1, <1>2, <2>1, <2>5 DEF Forwarded, Visiting
    <3>3. RdnKnown(b)'
      BY <1>3, <2>1, <2>2, <2>5, <3>1 DEF RdnKnown, UdcEmpty
    <3>4. DaiKnown(b)'
      BY <1>3, <2>1, <2>2, <2>5, <3>2 DEF DaiKnown
    <3> QED
      BY <2>3, <3>3, <3>4
  <2> QED
    BY <2>4, <2>5
<1> QED
  BY <1>2, <1>5, <1>6, <1>7

\* The node forgets a transaction that the account cannot pay.
LEMMA ForgetStep ==
  ASSUME Inv, NEW a \in Accounts, Forget(a)
  PROVE  Inv'
<1> USE DEF Inv
<1>1. /\ txs[a] # <<>> /\ txs' = [txs EXCEPT ![a] = Tail(@)]
      /\ UNCHANGED <<chain, balances, accounts, rest, aliased, address, pc, seen, unseen, others, faults>>
      /\ tx' = (IF pc = "poll" /\ a = address /\ Tail(txs[a]) = <<>> THEN [tx EXCEPT !.kind = "lost"] ELSE tx)
  BY DEF Forget
<1>2. tx \in [kind: Kinds \cup {"none", "lost"}, amount: Nat]
  BY DEF Types, DrainerTypes
<1>3. tx' \in [kind: Kinds \cup {"none", "lost"}, amount: Nat]
      /\ IF pc = "poll" /\ a = address /\ Tail(txs[a]) = <<>> THEN tx'.kind = "lost" ELSE tx' = tx
  BY <1>1, <1>2
<1>4. tx' = tx \/ tx'.kind = "lost"
  BY <1>3
<1>5. /\ PoolTypes' /\ ListTypes' /\ Few' /\ Pending'
      /\ \A b \in Accounts \ {a} : txs'[b] = txs[b]
      /\ txs'[a] = Tail(txs[a])
      /\ txs'[a] # <<>> => txs'[a][Len(txs'[a])] = txs[a][Len(txs[a])]
  BY <1>1, <1>4, PoolStep
<1>6. Types'
  BY <1>1, <1>3, <1>5, Zenon DEF Types, ChainTypes, DrainerTypes, chain
<1>7. Visiting'
  <2>1. CASE pc = "poll" /\ a = address /\ Tail(txs[a]) = <<>>
    BY <1>1, <1>3, <1>5, <2>1 DEF Visiting, At, UdcEmpty, chain
  <2>2. CASE ~(pc = "poll" /\ a = address /\ Tail(txs[a]) = <<>>)
    BY <1>1, <1>3, <1>5, <2>2 DEF Visiting, At, UdcEmpty, chain
  <2> QED
    BY <2>1, <2>2
<1>8. Known'
  <2> SUFFICES ASSUME NEW b \in Accounts PROVE UdcKnown(b)' /\ RdnKnown(b)' /\ DaiKnown(b)'
    BY DEF Known
  <2>1. Forwarded(b, "rdn")' => Forwarded(b, "rdn")
    BY <1>1, <1>3, <1>5 DEF Forwarded
  <2>2. Forwarded(b, "dai")' => Forwarded(b, "dai")
    BY <1>1, <1>3, <1>5 DEF Forwarded
  <2>3. (AtOf(b, {"dai", "eth"})' => AtOf(b, {"dai", "eth"})) /\ (AtOf(b, {"eth"})' => AtOf(b, {"eth"}))
    BY <1>1, <1>4 DEF AtOf, At
  <2> QED
    BY <1>1, <2>1, <2>2, <2>3 DEF Known, UdcKnown, RdnKnown, DaiKnown, UdcEmpty, chain
<1> QED
  BY <1>5, <1>6, <1>7, <1>8

-----------------------------------------------------------------------------
(* The theorems *)

\* Every step keeps the invariant.
LEMMA InvStep == Inv /\ [Next]_vars => Inv'
<1> SUFFICES ASSUME Inv, [Next]_vars PROVE Inv'
  OBVIOUS
<1>1. CASE Drain
  BY <1>1, SweepStep, VisitStep, ForwardRdnStep, ForwardDaiStep, ForwardEthStep, EmptyUdcStep,
     PolledStep, CollectTokensStep, CollectBalancesStep DEF Drain
<1>2. CASE Fail
  BY <1>2, FailStep
<1>3. ASSUME NEW a \in Accounts, Pool(a) \/ Ripen(a) \/ Other(a) PROVE Inv'
  BY <1>3, MineStep, ForgetStep, RipenStep, OtherStep DEF Pool
<1>4. CASE UNCHANGED vars
  <2>1. UNCHANGED <<chain, drainer, txs, unseen, others, faults>>
    BY <1>4 DEF vars
  <2>2. Types'
    BY <2>1 DEF chain, drainer, Inv, Types, ChainTypes, DrainerTypes, PoolTypes, ListTypes
  <2> QED
    BY <2>1, <2>2 DEF chain, drainer, Inv, Visiting, Few, Pending, Known, At, AtOf, UdcEmpty,
                      UdcKnown, RdnKnown, DaiKnown, Forwarded
<1> QED
  BY <1>1, <1>2, <1>3, <1>4 DEF Next

\* What the drainer read is worth what Known says at every step of every pass, with
\* whatever requests fail on the way.
THEOREM Invariant == Spec => []Inv
  BY InitInv, InvStep, PTL DEF Spec

\* TypeOK: the state is well-formed - no account ever has less than nothing, although the
\* drainer sends what it read before - and of each account no more transactions are on
\* their way than one and one for every failed request.
THEOREM Typing == Spec => []TypeOK
<1>1. Inv => TypeOK
  BY TypeParts DEF Inv
<1> QED
  BY <1>1, Invariant, PTL

\* EthLast: when the ETH of an account is sent (forward_eth), its DAI are gone and its
\* deposit is empty, and so are its RDN unless some came after they were read.
THEOREM EthIsLast == Spec => []EthLast
<1>1. Inv => EthLast
  <2> SUFFICES ASSUME Inv, tx.kind = "eth"
               PROVE  /\ dai[address] = 0 /\ udc[address] = 0
                      /\ address \notin unseen => rdn[address] = 0
    BY DEF EthLast
  <2>1. pc = "poll" /\ address \in Accounts /\ address # Receiver /\ UdcEmpty(address)
    BY DEF Inv, Visiting, At
  <2>2. AtOf(address, {"eth"}) /\ AtOf(address, {"dai", "eth"})
    BY <2>1 DEF AtOf, At
  <2>3. udc[address] \in Nat
    BY <2>1 DEF Inv, Types, ChainTypes, Owners
  <2> QED
    BY <2>1, <2>2, <2>3 DEF Inv, Known, UdcKnown, RdnKnown, DaiKnown, UdcEmpty
<1> QED
  BY <1>1, Invariant, PTL
=============================================================================
