--------------------------- MODULE AccountDrainer ---------------------------
(***************************************************************************)
(* tools/empty_wizard_accounts.py: everything that the wallets of the      *)
(* wizard own - ETH, RDN, DAI, and RDN in the UserDeposit contract - goes  *)
(* to a receiver.                                                          *)
(*                                                                         *)
(* The drainer works from balances it read before; it polls for each       *)
(* transaction of one account until it is mined, and a visit ends with     *)
(* reading the balances again.  An exception - of the contract, of the     *)
(* node, or of the request that polls - ends the pass over the accounts,   *)
(* and the next begins with the balances of before.                        *)
(*                                                                         *)
(* The contract and the node are modelled from how the tool uses them.     *)
(***************************************************************************)
EXTENDS Integers, Sequences, SequencesExt

CONSTANTS
  Accounts,   \* accounts with a keystore
  Receiver,   \* one of them, or a stranger
  Holdings,   \* what an account may have in the beginning
  EthFee,     \* ETH that sending ETH costs
  CallFee,    \* ETH that calling a contract costs
  MaxOthers,  \* bound: tokens that arrive or are claimed meanwhile
  MaxFaults   \* bound: requests that the node fails to answer

ASSUME HoldingsAssumption ==
  Holdings \subseteq [eth: Nat, rdn: Nat, dai: Nat, udc: Nat, plan: [amount: Nat, ripe: BOOLEAN]]

ASSUME BoundsAssumption == IsFiniteSet(Accounts) /\ MaxOthers \in Nat /\ MaxFaults \in Nat
ASSUME FeesAssumption == EthFee \in Nat \ {0} /\ CallFee \in Nat \ {0}

VARIABLES
  eth, rdn, dai, udc,   \* of each account on the chain
  plan,                 \* withdraw_plans of the contract
  balances,             \* accounts_dict[address]["Balances"]
  accounts,             \* accounts_with_balance
  rest,                 \* what the pass has still to visit
  aliased,              \* is the list that the pass iterates over still accounts_with_balance?
  address,              \* visited now
  pc,
  seen,                 \* collect_balances: what it has read
  tx,                   \* the transaction polled for
  txs,                  \* sent and not mined, of each account, in the order of their nonces
  unseen,               \* history: accounts whose RDN came after theirs were read
  others, faults

chain == <<eth, rdn, dai, udc, plan>>
drainer == <<balances, accounts, rest, aliased, address, pc, seen, tx>>
vars == <<chain, drainer, txs, unseen, others, faults>>

Owners == Accounts \cup {Receiver}
NoPlan == [amount |-> 0, ripe |-> FALSE]
NoTx == [kind |-> "none", amount |-> 0]
Nothing == [eth |-> 0, rdn |-> 0, dai |-> 0, udc |-> 0]

\* What the account must have for a transaction.
Cost(t) == IF t.kind = "eth" THEN t.amount + EthFee ELSE CallFee

Read(a) == [eth |-> eth[a], rdn |-> rdn[a], dai |-> dai[a], udc |-> udc[a]]

\* __init__: the balances are read, and the accounts that have any unlocked, as far as
\* the user knows their passwords.
Init ==
  /\ \E H \in [Accounts -> Holdings] :
       LET Of(f(_), none) == [a \in Owners |-> IF a \in Accounts THEN f(H[a]) ELSE none]
       IN  /\ eth = Of(LAMBDA h : h.eth, 0) /\ rdn = Of(LAMBDA h : h.rdn, 0)
           /\ dai = Of(LAMBDA h : h.dai, 0) /\ udc = Of(LAMBDA h : h.udc, 0)
           /\ plan = Of(LAMBDA h : h.plan, NoPlan)
  /\ balances = [a \in Accounts |-> Read(a)]
  /\ \E S \in SUBSET {a \in Accounts : eth[a] + rdn[a] + dai[a] + udc[a] > 0} :
       accounts \in SetToSeqs(S)
  /\ rest = <<>> /\ aliased = FALSE /\ address = Receiver /\ pc = "check"
  /\ seen = Nothing /\ tx = NoTx /\ txs = [a \in Accounts |-> <<>>]
  /\ unseen = {} /\ others = 0 /\ faults = 0

-----------------------------------------------------------------------------

UdcEmpty(a) == balances[a].udc = 0
HasAny(a) == balances[a].rdn > 0 \/ balances[a].dai > 0 \/ balances[a].eth > 0

\* Slip: what the receiver has counts as work.
SlipWorkLeft == \E a \in ToSet(accounts) : ~UdcEmpty(a) \/ HasAny(a)

WorkLeft ==
  \/ \E a \in ToSet(accounts) : ~UdcEmpty(a)
  \/ \E a \in ToSet(accounts) \ {Receiver} : HasAny(a)

Goto(step) == pc' = step /\ UNCHANGED <<balances, accounts, rest, aliased, address, seen>>

\* The loop of sweep: another pass, over the list as it is now.
Sweep ==
  /\ pc = "check"
  /\ IF WorkLeft
     THEN /\ pc' = "next" /\ rest' = accounts /\ aliased' = TRUE
          /\ UNCHANGED <<balances, accounts, address, seen>>
     ELSE Goto("done")
  /\ UNCHANGED <<chain, tx, txs, unseen, others, faults>>

\* Slip: an account whose deposit is waiting is drained of the rest meanwhile.
SlipVisit ==
  /\ pc = "next"
  /\ IF rest = <<>> THEN Goto("check")
     ELSE /\ address' = Head(rest) /\ rest' = Tail(rest)
          /\ pc' = (IF UdcEmpty(Head(rest)) \/ plan[Head(rest)] # NoPlan THEN "rdn" ELSE "udc")
          /\ UNCHANGED <<balances, accounts, aliased, seen>>
  /\ UNCHANGED <<chain, tx, txs, unseen, others, faults>>

\* The next account: its tokens and ETH once its deposit is empty, or the deposit.
Visit ==
  /\ pc = "next"
  /\ IF rest = <<>> THEN Goto("check")
     ELSE /\ address' = Head(rest) /\ rest' = Tail(rest)
          /\ pc' = (IF UdcEmpty(Head(rest)) THEN "rdn" ELSE "udc")
          /\ UNCHANGED <<balances, accounts, aliased, seen>>
  /\ UNCHANGED <<chain, tx, txs, unseen, others, faults>>

\* What comes after a step of the visit.
After == [rdn |-> "dai", dai |-> "eth", eth |-> "collect", plan |-> "collect", withdraw |-> "collect"]

\* The pass is over: pdb, then another pass, with the balances of before.
Raised == Goto("check") /\ tx' = NoTx /\ UNCHANGED txs

\* sign_and_poll: the gas is estimated on the chain as it is, and the node refuses what
\* the account cannot pay; both raise.  (forward_eth sends with fixed gas.)
Transact(kind, amount, estimated) ==
  LET t == [kind |-> kind, amount |-> amount]
  IN  IF estimated /\ Cost(t) <= eth[address]
      THEN tx' = t /\ txs' = [txs EXCEPT ![address] = Append(@, t)] /\ Goto("poll")
      ELSE Raised

Skip == Goto(After[pc]) /\ UNCHANGED <<tx, txs>>

\* The receiver keeps what it has.
Keeps == address = Receiver

\* forward_rdn and forward_dai: the amounts read before.
Forward(kind, amount, there) ==
  /\ pc = kind
  /\ IF Keeps \/ amount = 0 THEN Skip ELSE Transact(kind, amount, amount <= there)
  /\ UNCHANGED <<chain, unseen, others, faults>>

ForwardRdn == Forward("rdn", balances[address].rdn, rdn[address])
ForwardDai == Forward("dai", balances[address].dai, dai[address])

Value == eth[address] - EthFee

\* forward_eth: what there is now, less the fee; not worth it when nothing remains.
ForwardEth ==
  /\ pc = "eth"
  /\ IF Keeps \/ Value <= 0 THEN Skip ELSE Transact("eth", Value, TRUE)
  /\ UNCHANGED <<chain, unseen, others, faults>>

\* empty_udc: plan the withdrawal of the balance read before, or withdraw what is planned,
\* or wait.
EmptyUdc ==
  /\ pc = "udc"
  /\ IF plan[address] = NoPlan
     THEN Transact("plan", balances[address].udc, balances[address].udc <= udc[address])
     ELSE IF plan[address].ripe
     THEN Transact("withdraw", plan[address].amount, TRUE)
     ELSE UNCHANGED <<tx, txs>> /\ Goto("collect")
  /\ UNCHANGED <<chain, unseen, others, faults>>

\* Slip: the transaction is not waited for.
SlipPolled ==
  /\ pc = "poll" /\ tx.kind # "lost" /\ tx' = NoTx /\ Goto(After[tx.kind])
  /\ UNCHANGED <<chain, txs, unseen, others, faults>>

\* poll returns once the transaction, the last one of the account, is mined; one that the
\* node no longer knows is polled for without end.
Polled ==
  /\ pc = "poll" /\ txs[address] = <<>> /\ tx.kind # "lost" /\ tx' = NoTx
  /\ Goto(After[tx.kind])
  /\ UNCHANGED <<chain, txs, unseen, others, faults>>

\* collect_balances reads ETH and tokens,
CollectTokens ==
  /\ pc = "collect" /\ pc' = "deposit"
  /\ seen' = Read(address)
  /\ UNCHANGED <<chain, balances, accounts, rest, aliased, address, tx, txs, unseen, others, faults>>

\* then the deposit.  An account with a balance is appended to the list - the one that
\* the pass iterates over, the first time - and a list without duplicates takes its place.
CollectBalances ==
  /\ pc = "deposit" /\ pc' = "next"
  /\ LET read == [seen EXCEPT !.udc = udc[address]]
     IN  /\ balances' = [balances EXCEPT ![address] = read]
         /\ IF read = Nothing
            THEN UNCHANGED <<accounts, rest, aliased>>
            ELSE /\ rest' = (IF aliased THEN Append(rest, address) ELSE rest)
                 /\ accounts' \in SetToSeqs(ToSet(accounts))
                 /\ aliased' = FALSE
  /\ seen' = Nothing
  /\ unseen' = (IF seen.rdn = rdn[address] THEN unseen \ {address} ELSE unseen \cup {address})
  /\ UNCHANGED <<chain, address, tx, txs, others, faults>>

\* A request fails, of whatever the tool is at: the transaction it polled for stays on its
\* way, and what it read of the balances is forgotten.
Fail ==
  /\ pc \in {"rdn", "dai", "eth", "udc", "poll", "collect", "deposit"}
  /\ faults < MaxFaults /\ faults' = faults + 1
  /\ pc' = "check" /\ seen' = Nothing /\ tx' = NoTx
  /\ UNCHANGED <<chain, balances, accounts, rest, aliased, address, txs, unseen, others>>

-----------------------------------------------------------------------------
(* The chain *)

Moved(f, a, amount) == [f EXCEPT ![a] = @ - amount, ![Receiver] = @ + amount]

\* The most that a transaction can move when it is mined.
Bearable(a, t) ==
  CASE t.kind = "rdn" -> rdn[a]
    [] t.kind = "dai" -> dai[a]
    [] t.kind = "eth" -> eth[a] - EthFee
    [] t.kind = "plan" -> udc[a]
    [] t.kind = "withdraw" -> IF plan[a].ripe THEN plan[a].amount ELSE 0

\* The contract's withdraw pays out no more than there is.
Least(a, t) == IF t.amount < udc[a] THEN t.amount ELSE udc[a]

\* The tokens or the deposit may have gone since the gas was estimated: then a transaction
\* only costs its fee.
Execute(a, t) ==
  IF t.amount > Bearable(a, t) THEN UNCHANGED <<rdn, dai, udc, plan>>
  ELSE CASE t.kind = "rdn" -> rdn' = Moved(rdn, a, t.amount) /\ UNCHANGED <<dai, udc, plan>>
         [] t.kind = "dai" -> dai' = Moved(dai, a, t.amount) /\ UNCHANGED <<rdn, udc, plan>>
         [] t.kind = "eth" -> UNCHANGED <<rdn, dai, udc, plan>>
         [] t.kind = "plan" -> /\ plan' = [plan EXCEPT ![a] = [amount |-> t.amount, ripe |-> FALSE]]
                               /\ UNCHANGED <<rdn, dai, udc>>
         [] t.kind = "withdraw" -> /\ plan' = [plan EXCEPT ![a] = NoPlan]
                                   /\ udc' = [udc EXCEPT ![a] = @ - Least(a, t)]
                                   /\ rdn' = [rdn EXCEPT ![a] = @ + Least(a, t)]
                                   /\ UNCHANGED dai

\* The next transaction of an account is mined.
Mine(a) ==
  /\ txs[a] # <<>> /\ txs' = [txs EXCEPT ![a] = Tail(@)]
  /\ LET t == Head(txs[a])
     IN  /\ Cost(t) <= eth[a] /\ Execute(a, t)
         /\ eth' = (IF t.kind = "eth" THEN [Moved(eth, a, t.amount) EXCEPT ![a] = @ - EthFee]
                    ELSE [eth EXCEPT ![a] = @ - CallFee])
  /\ UNCHANGED <<drainer, unseen, others, faults>>

\* One that the account can no longer pay is forgotten by the node.
Forget(a) ==
  /\ txs[a] # <<>> /\ Cost(Head(txs[a])) > eth[a] /\ txs' = [txs EXCEPT ![a] = Tail(@)]
  /\ tx' = (IF pc = "poll" /\ a = address /\ Tail(txs[a]) = <<>> THEN [tx EXCEPT !.kind = "lost"] ELSE tx)
  /\ UNCHANGED <<chain, balances, accounts, rest, aliased, address, pc, seen, unseen, others, faults>>

\* The delay of the contract passes.
Ripen(a) ==
  /\ plan[a] # NoPlan /\ ~plan[a].ripe /\ plan' = [plan EXCEPT ![a].ripe = TRUE]
  /\ UNCHANGED <<eth, rdn, dai, udc, drainer, txs, unseen, others, faults>>

\* Somebody sends RDN, or a service is paid out of the deposit.
Other(a) ==
  /\ others < MaxOthers /\ others' = others + 1
  /\ \/ rdn' = [rdn EXCEPT ![a] = @ + 1] /\ unseen' = unseen \cup {a} /\ UNCHANGED udc
     \/ udc[a] > 0 /\ udc' = [udc EXCEPT ![a] = @ - 1] /\ UNCHANGED <<rdn, unseen>>
  /\ UNCHANGED <<eth, dai, plan, drainer, txs, faults>>

Drain ==
  \/ Sweep \/ Visit \/ ForwardRdn \/ ForwardDai \/ ForwardEth \/ EmptyUdc
  \/ Polled \/ CollectTokens \/ CollectBalances

Pool(a) == Mine(a) \/ Forget(a)

Next ==
  \/ Drain \/ Fail
  \/ \E a \in Accounts : Pool(a) \/ Ripen(a) \/ Other(a)

Spec == Init /\ [][Next]_vars

\* The tool runs on (the user leaves the debugger), every transaction that can be paid is
\* mined and every plan ripens.
FairSpec ==
  /\ Spec /\ WF_vars(Drain)
  /\ \A a \in Accounts : WF_vars(Pool(a)) /\ WF_vars(Ripen(a))

-----------------------------------------------------------------------------

\* The state is well-formed.  Of each account one transaction is on its way, and one more
\* for every exception that ended a poll.
TypeOK ==
  /\ \A f \in {eth, rdn, dai, udc} : f \in [Owners -> Nat]
  /\ plan \in [Owners -> [amount: Nat, ripe: BOOLEAN]]
  /\ balances \in [Accounts -> [eth: Nat, rdn: Nat, dai: Nat, udc: Nat]]
  /\ seen \in [eth: Nat, rdn: Nat, dai: Nat, udc: Nat]
  /\ ToSet(accounts) \cup ToSet(rest) \cup unseen \subseteq Accounts
  /\ address \in Owners /\ aliased \in BOOLEAN /\ others \in 0 .. MaxOthers /\ faults \in 0 .. MaxFaults
  /\ pc \in {"check", "next", "rdn", "dai", "eth", "udc", "collect", "deposit", "poll", "done"}
  /\ tx \in [kind: {"none", "rdn", "dai", "eth", "plan", "withdraw", "lost"}, amount: Nat]
  /\ \A a \in Accounts :
       /\ ToSet(txs[a]) \subseteq [kind: {"rdn", "dai", "eth", "plan", "withdraw"}, amount: Nat]
       /\ Len(txs[a]) <= faults + 1

\* An account's ETH leaves last: not before its deposit and its tokens, which cost ETH to
\* move, over exceptions, passes begun again and transactions sent twice - but for RDN
\* that come after the account's were read.
EthLast ==
  tx.kind = "eth" =>
    dai[address] = 0 /\ udc[address] = 0 /\ (address \notin unseen => rdn[address] = 0)

\* The contract calls an account has still to pay for.
Needed(a) ==
  (IF udc[a] = 0 THEN 0 ELSE IF plan[a] = NoPlan THEN 2 ELSE IF plan[a].amount >= udc[a] THEN 1 ELSE 3)
  + (IF a # Receiver /\ rdn[a] + udc[a] > 0 THEN 1 ELSE 0)
  + (IF a # Receiver /\ dai[a] > 0 THEN 1 ELSE 0)

\* An account can be drained: it pays for its calls, and then has no ETH or more than
\* sending it costs.  (What is left otherwise is not worth sending, and counts as work
\* for ever.)
Solvent(a) ==
  LET left == eth[a] - Needed(a) * CallFee
  IN  left >= 0 /\ (a = Receiver \/ left = 0 \/ left > EthFee)

\* A pass begins with more in the balances than there is: the estimate of that account's
\* call raises, in this pass and in all that follow.
Overtaken(a) ==
  /\ pc = "check"
  /\ balances[a].udc > udc[a] \/ balances[a].rdn > rdn[a] \/ balances[a].dai > dai[a]

\* The tool ends once every account is solvent.  What keeps it going for ever, and the
\* accounts after it in the list waiting, is an account that is not; one whose deposit
\* was claimed after it was read; one whose balances could not be read again after a
\* transaction, because a request failed; and a transaction sent again after such an
\* exception, which the first one leaves no ETH for, so that the node forgets it.
Ends ==
  (\A a \in ToSet(accounts) : Solvent(a)) ~>
    \/ pc = "done"
    \/ \E a \in ToSet(accounts) : ~Solvent(a) \/ Overtaken(a)
    \/ tx.kind = "lost"
=============================================================================
