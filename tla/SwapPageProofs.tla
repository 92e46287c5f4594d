--------------------------- MODULE SwapPageProofs ---------------------------
(***************************************************************************)
(* Proofs about SwapPage, for any amounts, exchanges and bounds.           *)
(*                                                                         *)
(* The view has to be counted: every request, and every timeout, toggles   *)
(* it once more.  Counted says so; FundsOK and WaitOK say what a page, a   *)
(* request and an answer still on its way know of the balances, and what a *)
(* request that waits knows of the chain.                                  *)
(***************************************************************************)
EXTENDS SwapPage, FiniteSetTheorems, SequenceTheorems, TLAPS

Requests == Swaps \cup {"deposit"}
Messages == [what: Requests, mine: BOOLEAN]
Sent == [token: Swaps, own: BOOLEAN]

SeqOK == inbox \in Seq(Messages) /\ pending \in Seq(Sent) /\ toggles <= faults

\* A page, a request or an answer that stands for enough tokens found them; what an
\* account has does not get less.
Funded == EnoughServiceToken /\ EnoughTransferToken
Claims(p) ==
  /\ p = "launch" => Funded
  /\ p = "dai" => EnoughServiceToken

FundsOK ==
  /\ Claims(page) /\ Claims(goTo) /\ Claims(job.to)
  /\ leave => page = "dai" /\ EnoughTransferToken
  /\ job.what \in {"dai", "deposit"} \/ job.step = "deposit" => EnoughServiceToken
  /\ \A k \in DOMAIN inbox : inbox[k].what \in {"dai", "deposit"} => EnoughServiceToken
  /\ job.step \in {"deposit", "answer"} => job.to # "none"

\* Until a wait is given up, what is pending is the swap the job waits for.
WaitOK ==
  ~gaveUp => /\ pending = <<>> \/ (Len(pending) = 1 /\ pending[1].own)
             /\ job.step = "wait" <=> pending # <<>>

\* The messages of the page shown are the last ones of the inbox, after `old' others.
Shape(old) ==
  old \in 0 .. Len(inbox) /\ \A k \in 1 .. Len(inbox) : inbox[k].mine <=> k > old

\* What the page waits for: its messages, its job, its timeouts.
Awaited(old) == (Len(inbox) - old) + (IF job.mine THEN 1 ELSE 0) + toggles

\* The view is the tracker when an odd number is awaited, as long as the page waits for
\* that only; without a late answer at most one is.
Counted(old) ==
  /\ Shape(old)
  /\ ~late => Awaited(old) <= 1 /\ (view = "main" => Awaited(old) = 0)
  /\ socket /\ goTo = "none" /\ ~leave => (view = "tracker" <=> Awaited(old) % 2 = 1)

Inv ==
  /\ TypeOK /\ SeqOK /\ FundsOK /\ WaitOK /\ EstimateFailed
  /\ \E old \in Nat : Counted(old)

-----------------------------------------------------------------------------
(* The types *)

\* Steps that touch neither the inbox nor the chain's queue and change a single variable
\* or two are left to the solver; the others are taken apart.
LEMMA ToSetOf ==
  ASSUME NEW S, NEW s \in Seq(S)
  PROVE  ToSet(s) \subseteq S
  BY DEF ToSet

\* The types of the variables that hold no sequence.
PageTypes ==
  /\ page \in Swaps \cup {"launch"} /\ view \in {"main", "tracker"}
  /\ polls \in 0 .. MaxPolls /\ toggles \in 0 .. MaxFaults
  /\ goTo \in Swaps \cup {"launch", "none"}
  /\ estimate \in [Exchanges -> {"asked", "known", "failed"}]
  /\ selected \in Exchanges \cup {NoExchange}
  /\ confirms \in 0 .. MaxSwaps /\ faults \in 0 .. MaxFaults
PageFlags == leave \in BOOLEAN /\ socket \in BOOLEAN /\ late \in BOOLEAN /\ gaveUp \in BOOLEAN
Jobs ==
  [step: {"none", "start", "wait", "check", "deposit", "answer"},
   what: Requests \cup {"none"}, mine: BOOLEAN, to: Swaps \cup {"launch", "none"}]
Amounts == wallet \in Nat /\ deposit \in Nat /\ dai \in Nat

\* The types of the parts are the type invariant.
LEMMA TypeParts ==
  ASSUME SeqOK
  PROVE  TypeOK <=> PageTypes /\ PageFlags /\ job \in Jobs /\ Amounts
<1>1. /\ \A m \in ToSet(inbox) : m.what \in Swaps \cup {"deposit"} /\ m.mine \in BOOLEAN
      /\ \A t \in ToSet(pending) : t.token \in Swaps /\ t.own \in BOOLEAN
  <2>1. ToSet(inbox) \subseteq Messages /\ ToSet(pending) \subseteq Sent
    BY ToSetOf DEF SeqOK
  <2> QED
    BY <2>1 DEF Messages, Sent, Requests
<1> QED
  BY <1>1 DEF TypeOK, PageTypes, PageFlags, Jobs, Amounts, Requests

\* What toggling the view does, while at most MaxPolls polls run.
LEMMA Toggled ==
  ASSUME NEW running \in 0 .. MaxPolls, ToggleView(running), view \in {"main", "tracker"}
  PROVE  /\ polls' \in 0 .. MaxPolls
         /\ view = "main" <=> view' = "tracker"
         /\ view' \in {"main", "tracker"}
  BY BoundsAssumption DEF ToggleView

\* Sending keeps the inbox one of messages.
LEMMA SendTypes ==
  ASSUME SeqOK, NEW what \in Requests, Send(what)
  PROVE  inbox' \in Seq(Messages)
<1>1. [what |-> what, mine |-> TRUE] \in Messages
  BY DEF Messages
<1> QED
  BY <1>1 DEF SeqOK, Send

\* So does leaving the page,
LEMMA AbandonTypes ==
  ASSUME SeqOK, job \in Jobs, Abandon
  PROVE  /\ inbox' \in Seq(Messages) /\ job' \in Jobs /\ Len(inbox') = Len(inbox)
         /\ job' = [job EXCEPT !.mine = FALSE]
         /\ \A k \in 1 .. Len(inbox) : ~inbox'[k].mine /\ inbox'[k].what = inbox[k].what
<1>1. inbox \in [1 .. Len(inbox) -> Messages] /\ Len(inbox) \in Nat
  BY DEF SeqOK
<1>2. inbox' \in [1 .. Len(inbox) -> Messages]
  BY <1>1 DEF Abandon, Messages
<1>3. inbox' \in Seq(Messages) /\ Len(inbox') = Len(inbox)
  BY <1>1, <1>2
<1> QED
  BY <1>1, <1>2, <1>3 DEF Abandon, Messages, Jobs

\* and so does closing a connection.
LEMMA OthersTypes ==
  ASSUME SeqOK, NEW old \in Nat, Shape(old)
  PROVE  /\ OthersInbox = IF job.mine THEN SubSeq(inbox, 1, old)
                                      ELSE SubSeq(inbox, old + 1, Len(inbox))
         /\ OthersInbox \in Seq(Messages)
<1>1. {k \in DOMAIN inbox : ~inbox[k].mine} = 1 .. old
  BY DEF SeqOK, Shape
<1>2. Cardinality(1 .. old) = old
  BY FS_Interval
<1>3. OthersInbox = IF job.mine THEN SubSeq(inbox, 1, old)
                                ELSE SubSeq(inbox, old + 1, Len(inbox))
  BY <1>1, <1>2 DEF OthersInbox
<1>4. \A m, n \in Nat : m >= 1 /\ n <= Len(inbox) => SubSeq(inbox, m, n) \in Seq(Messages)
  BY SubSeqProperties DEF SeqOK
<1> QED
  BY <1>3, <1>4 DEF SeqOK, Shape

\* All types, with the inbox and the queue as sequences.
Types == PageTypes /\ PageFlags /\ job \in Jobs /\ Amounts /\ SeqOK

\* Steps of the page keep them.
LEMMA PageStepTypes ==
  ASSUME Types, Tick \/ SkipSwap \/ Confirm \/ ToggleDue
  PROVE  Types'
<1> USE BoundsAssumption DEF Types
<1>1. CASE Tick
  <2>1. /\ polls \in 0 .. MaxPolls /\ polls' = polls + 1 /\ polls < MaxPolls
        /\ UNCHANGED <<page, view, toggles, goTo, leave, socket, estimate, selected, inbox,
                       job, wallet, deposit, dai, pending, late, gaveUp, confirms, faults>>
    BY <1>1 DEF Tick, wizard, chain, PageTypes
  <2> QED
    BY <2>1 DEF PageTypes, PageFlags, Amounts, SeqOK
<1>2. CASE SkipSwap
  <2>1. /\ UNCHANGED <<page, toggles, goTo, socket, estimate, selected, job, wallet, deposit,
                       dai, pending, gaveUp, confirms, faults>>
        /\ SkipToDeposit \/ SkipToLaunch \/ NoSkip
        /\ polls > 0
    BY <1>2 DEF SkipSwap, chain
  <2>2. late' \in BOOLEAN
    BY <1>2 DEF SkipSwap
  <2>3. leave' \in BOOLEAN
    BY <2>1 DEF SkipToDeposit, SkipToLaunch, NoSkip, PageFlags
  <2>4. polls - 1 \in 0 .. MaxPolls
    BY <2>1 DEF PageTypes
  <2>5. polls' \in 0 .. MaxPolls /\ view' \in {"main", "tracker"}
    BY <2>1, <2>4, Toggled DEF SkipToDeposit, SkipToLaunch, NoSkip, PageTypes
  <2>6. inbox' \in Seq(Messages)
    BY <2>1, SendTypes DEF SkipToDeposit, SkipToLaunch, NoSkip, SeqOK, Requests
  <2>7. PageFlags'
    BY <2>1, <2>2, <2>3 DEF PageFlags
  <2> QED
    BY <2>1, <2>5, <2>6, <2>7 DEF PageTypes, Amounts, SeqOK
<1>3. CASE Confirm
  <2>1. /\ UNCHANGED <<page, toggles, goTo, leave, socket, estimate, selected, job, wallet,
                       deposit, dai, pending, late, gaveUp, faults>>
        /\ confirms < MaxSwaps /\ confirms' = confirms + 1
        /\ page \in Swaps /\ Send(page) /\ ToggleView(polls)
    BY <1>3 DEF Confirm, chain
  <2>2. inbox' \in Seq(Messages)
    BY <2>1, SendTypes DEF Requests
  <2>3. polls' \in 0 .. MaxPolls /\ view' \in {"main", "tracker"}
    BY <2>1, Toggled DEF PageTypes
  <2> QED
    BY <2>1, <2>2, <2>3 DEF PageTypes, PageFlags, Amounts, SeqOK
<1>4. CASE ToggleDue
  <2>1. /\ UNCHANGED <<page, goTo, leave, socket, estimate, selected, inbox, job, wallet,
                       deposit, dai, pending, late, gaveUp, confirms, faults>>
        /\ toggles > 0 /\ toggles' = toggles - 1 /\ ToggleView(polls)
    BY <1>4 DEF ToggleDue, wizard, chain
  <2>2. polls' \in 0 .. MaxPolls /\ view' \in {"main", "tracker"}
    BY <2>1, Toggled DEF PageTypes
  <2> QED
    BY <2>1, <2>2 DEF PageTypes, PageFlags, Amounts, SeqOK
<1> QED
  BY <1>1, <1>2, <1>3, <1>4

\* Clicks and estimates keep them.
LEMMA ButtonTypes ==
  ASSUME Types, NEW e \in Exchanges, Estimated(e) \/ SelectExchange(e)
  PROVE  Types' /\ UNCHANGED <<page, view, toggles, goTo, leave, socket, inbox, job, chain,
                               late, gaveUp, confirms, faults>>
<1>1. UNCHANGED <<page, view, polls, toggles, goTo, leave, socket, inbox, job, wallet, deposit,
                  dai, pending, late, gaveUp, confirms, faults>>
  BY DEF Estimated, SelectExchange, wizard, chain
<1>2. estimate' \in [Exchanges -> {"asked", "known", "failed"}]
  BY DEF Estimated, SelectExchange, Types, PageTypes
<1>3. selected' \in Exchanges \cup {NoExchange}
  BY DEF Estimated, SelectExchange, Deselect, Types, PageTypes
<1> QED
  BY <1>1, <1>2, <1>3 DEF Types, PageTypes, PageFlags, Amounts, SeqOK, chain

\* Loading a page keeps them.
LEMMA LoadTypes ==
  ASSUME Types, Navigate \/ Reload
  PROVE  Types'
<1>1. PICK p \in Swaps \cup {"launch"} : Load(p)
  BY DEF Navigate, Reload, Types, PageTypes
<1>2. Abandon /\ UNCHANGED <<wallet, deposit, dai, pending, late, gaveUp, confirms, faults>>
  BY DEF Navigate, Reload, chain
<1>3. inbox' \in Seq(Messages) /\ job' \in Jobs
  BY <1>2, AbandonTypes DEF Types
<1>4. PageTypes'
  BY <1>1, <1>2, BoundsAssumption DEF Types, PageTypes, Load, Unasked
<1>5. PageFlags'
  <2>1. leave' = FALSE /\ socket' = TRUE
    BY <1>1 DEF Load
  <2> QED
    BY <1>2, <2>1 DEF Types, PageFlags
<1>6. SeqOK'
  BY <1>1, <1>2, <1>3 DEF Types, SeqOK, Load, PageTypes
<1> QED
  BY <1>2, <1>3, <1>4, <1>5, <1>6 DEF Types, Amounts

\* Steps of the wizard that only move its job on.
Moves ==
  \/ SwapFails \/ BuyTokens \/ CheckSwap \/ SwapDeposits
  \/ DepositEnough \/ DepositRest

\* A deposit moves what there is from the wallet, or nothing.
LEMMA DepositMoves ==
  ASSUME Amounts, NEW amount \in 0 .. wallet, DepositTo(amount)
  PROVE  /\ Amounts' /\ wallet' + deposit' = wallet + deposit
         /\ UNCHANGED <<dai, pending>>
  BY DEF DepositTo, Amounts

\* Where a job goes, and what becomes of the balances: tokens that leave the wallet are
\* deposited.
LEMMA MovesTo ==
  ASSUME Types, Moves
  PROVE  /\ UNCHANGED <<page, view, polls, toggles, goTo, leave, socket, estimate, selected,
                        inbox, late, gaveUp, confirms, faults>>
         /\ job' \in Jobs /\ job'.mine = job.mine /\ job'.what = job.what
         /\ job.what \in Requests
         /\ Amounts' /\ dai' = dai /\ wallet' + deposit' = wallet + deposit
         /\ \/ BuyTokens
            \/ UNCHANGED pending /\ job.step # "wait" /\ job'.step # "wait"
<1> USE DEF At, GoOn, Working, dom, Jobs, Requests, Swaps, TransferSwap
<1>0. job \in Jobs /\ Amounts
  BY DEF Types
<1>1. CASE SwapFails
  BY <1>0, <1>1 DEF SwapFails, chain, Amounts
<1>2. CASE BuyTokens
  BY <1>0, <1>2 DEF BuyTokens, Amounts
<1>3. CASE CheckSwap
  BY <1>0, <1>3 DEF CheckSwap, chain, Amounts
<1>4. CASE SwapDeposits
  <2>1. UNCHANGED <<dai, pending>> /\ Amounts' /\ wallet' + deposit' = wallet + deposit
    <3>1. DepositTo(wallet) /\ wallet \in 0 .. wallet
      BY <1>0, <1>4 DEF SwapDeposits, Amounts
    <3> QED
      BY <1>0, <3>1, DepositMoves
  <2> QED
    BY <1>0, <1>4, <2>1 DEF SwapDeposits
<1>5. CASE DepositEnough
  BY <1>0, <1>5 DEF DepositEnough, chain, Amounts
<1>6. CASE DepositRest
  <2>1. Missing \in 0 .. wallet
    BY <1>0, <1>6, AmountsAssumption DEF DepositRest, Missing, Amounts
  <2>2. UNCHANGED <<dai, pending>> /\ Amounts' /\ wallet' + deposit' = wallet + deposit
    <3>1. DepositTo(Missing)
      BY <1>6 DEF DepositRest
    <3> QED
      BY <1>0, <2>1, <3>1, DepositMoves
  <2> QED
    BY <1>0, <1>6, <2>2 DEF DepositRest
<1> QED
  BY <1>1, <1>2, <1>3, <1>4, <1>5, <1>6 DEF Moves

\* They keep the types.
LEMMA MovesTypes ==
  ASSUME Types, Moves
  PROVE  Types'
<1>1. pending' \in Seq(Sent)
  <2>1. CASE BuyTokens
    <3>1. [token |-> job.what, own |-> TRUE] \in Sent
      BY <2>1 DEF BuyTokens, At, Sent
    <3> QED
      BY <2>1, <3>1 DEF BuyTokens, Types, SeqOK
  <2> QED
    BY <2>1, MovesTo DEF Types, SeqOK
<1> QED
  BY <1>1, MovesTo DEF Types, PageTypes, PageFlags, SeqOK

\* The oldest transaction is mined, and brings tokens unless it reverts.
LEMMA MineTo ==
  ASSUME Types, Mine
  PROVE  /\ UNCHANGED <<page, view, polls, toggles, goTo, leave, socket, estimate, selected,
                        inbox, late, gaveUp, confirms, faults>>
         /\ Head(pending) \in Sent /\ pending' \in Seq(Sent) /\ pending # <<>>
         /\ pending' = Tail(pending) /\ Len(pending') = Len(pending) - 1
         /\ Amounts' /\ deposit' = deposit /\ wallet' >= wallet /\ dai' >= dai
         /\ job' = IF Head(pending).own THEN [job EXCEPT !.step = "check"] ELSE job
         /\ job' \in Jobs
<1>1. pending # <<>> /\ pending' = Tail(pending)
  BY DEF Mine
<1>2. /\ Head(pending) \in Sent /\ pending' \in Seq(Sent) /\ Len(pending') = Len(pending) - 1
  BY <1>1, HeadTailProperties DEF Types, SeqOK
<1>3. Amounts' /\ deposit' = deposit /\ wallet' >= wallet /\ dai' >= dai
  BY AmountsAssumption DEF Mine, Types, Amounts
<1>4. job' = (IF Head(pending).own THEN [job EXCEPT !.step = "check"] ELSE job)
  BY DEF Mine
<1>5. job' \in Jobs
  BY <1>4 DEF Types, Jobs
<1> QED
  BY <1>1, <1>2, <1>3, <1>4, <1>5 DEF Mine, Working, dom

\* Mined transactions keep the types.
LEMMA MineTypes ==
  ASSUME Types, Mine
  PROVE  Types'
  BY MineTo DEF Types, PageTypes, PageFlags, SeqOK

\* The wizard takes a message, answers, and fails.
LEMMA TakeTypes ==
  ASSUME Types, OnMessage
  PROVE  /\ Types'
         /\ Head(inbox) \in Messages /\ inbox # <<>> /\ inbox' = Tail(inbox) /\ Idle
         /\ job' = [step |-> "start", what |-> Head(inbox).what, mine |-> Head(inbox).mine,
                    to |-> "none"]
         /\ UNCHANGED <<dom, chain, late, gaveUp, confirms, faults>>
<1>1. /\ Idle /\ inbox # <<>> /\ inbox' = Tail(inbox)
      /\ job' = [step |-> "start", what |-> Head(inbox).what, mine |-> Head(inbox).mine,
                 to |-> "none"]
      /\ UNCHANGED <<dom, chain, late, gaveUp, confirms, faults>>
  BY DEF OnMessage
<1>2. Head(inbox) \in Messages /\ inbox' \in Seq(Messages)
  BY <1>1, HeadTailProperties DEF Types, SeqOK
<1>3. job' \in Jobs
  BY <1>1, <1>2 DEF Jobs, Messages
<1> QED
  BY <1>1, <1>2, <1>3 DEF Types, PageTypes, PageFlags, Amounts, SeqOK, dom, chain

\* Having no job is one of the states of the wizard.
LEMMA NoJobType == NoJob \in Jobs
  BY DEF NoJob, Jobs

\* An answer that leads to another page keeps the types.
LEMMA RedirectTypes ==
  ASSUME Types, Redirect
  PROVE  Types'
<1>1. /\ UNCHANGED <<page, view, polls, toggles, leave, socket, estimate, selected, inbox,
                     wallet, deposit, dai, pending, late, gaveUp, confirms, faults>>
      /\ job' = NoJob
  BY DEF Redirect, chain
<1>2. goTo' \in Swaps \cup {"launch", "none"}
  BY DEF Redirect, Types, PageTypes, Jobs
<1> QED
  BY <1>1, <1>2, NoJobType DEF Types, PageTypes, PageFlags, Amounts, SeqOK

\* The answer to an invalid request keeps the types.
LEMMA InvalidTypes ==
  ASSUME Types, InvalidRequest
  PROVE  Types'
<1>1. /\ UNCHANGED <<page, view, polls, goTo, leave, socket, estimate, selected, inbox,
                     wallet, deposit, dai, pending, late, gaveUp, confirms>>
      /\ job' = NoJob /\ faults < MaxFaults /\ faults' = faults + 1
      /\ toggles' = toggles \/ toggles' = toggles + 1
  BY DEF InvalidRequest, Fault, chain
<1> QED
  BY <1>1, NoJobType, BoundsAssumption DEF Types, PageTypes, PageFlags, Amounts, SeqOK

\* So does the answer to a deposit that the node refuses.
LEMMA RefusedTypes ==
  ASSUME Types, Refused
  PROVE  /\ Types' /\ UNCHANGED <<dom, inbox, chain, late, gaveUp, confirms>>
         /\ job'.mine = job.mine /\ job'.what = job.what /\ job'.to = "rdn"
         /\ job'.step = "answer" /\ job.step # "wait"
<1>1. /\ UNCHANGED <<page, view, polls, toggles, goTo, leave, socket, estimate, selected,
                     inbox, wallet, deposit, dai, pending, late, gaveUp, confirms>>
      /\ faults < MaxFaults /\ faults' = faults + 1
      /\ job' = [job EXCEPT !.step = "answer", !.to = "rdn"] /\ job.step # "wait"
  BY DEF Refused, Fault, GoOn, At, dom, chain
<1>2. /\ job' \in Jobs /\ job'.mine = job.mine /\ job'.what = job.what
      /\ job'.to = "rdn" /\ job'.step = "answer"
  BY <1>1 DEF Types, Jobs, Swaps
<1> QED
  BY <1>1, <1>2, BoundsAssumption
  DEF Types, PageTypes, PageFlags, Amounts, SeqOK, dom, chain

\* An exception keeps the types.
LEMMA RaiseTypes ==
  ASSUME Types, NEW old \in Nat, Shape(old), Raise
  PROVE  Types'
<1>1. /\ UNCHANGED <<page, view, polls, toggles, goTo, leave, estimate, selected, wallet,
                     deposit, dai, late, confirms>>
      /\ job' = NoJob /\ faults < MaxFaults /\ faults' = faults + 1
      /\ inbox' = OthersInbox
  BY DEF Raise, Fault
<1>2. inbox' \in Seq(Messages)
  BY <1>1, OthersTypes DEF Types
<1>3. pending' \in Seq(Sent)
  <2>1. pending \in [1 .. Len(pending) -> Sent] /\ Len(pending) \in Nat
    BY DEF Types, SeqOK
  <2>2. pending' \in [1 .. Len(pending) -> Sent]
    BY <2>1 DEF Raise, Sent
  <2> QED
    BY <2>1, <2>2
<1>4. socket' \in BOOLEAN /\ gaveUp' \in BOOLEAN
  BY DEF Raise
<1>5. PageFlags'
  BY <1>1, <1>4 DEF Types, PageFlags
<1> QED
  BY <1>1, <1>2, <1>3, <1>5, NoJobType, BoundsAssumption
  DEF Types, PageTypes, Amounts, SeqOK

\* Every step keeps the types.
LEMMA TypesStep ==
  ASSUME Types, NEW old \in Nat, Shape(old), [Next]_vars
  PROVE  Types'
<1>1. CASE Tick \/ SkipSwap \/ Confirm \/ ToggleDue
  BY <1>1, PageStepTypes
<1>2. CASE Navigate \/ Reload
  BY <1>2, LoadTypes
<1>3. ASSUME NEW e \in Exchanges, Estimated(e) \/ SelectExchange(e) PROVE Types'
  BY <1>3, ButtonTypes
<1>4. CASE Moves
  BY <1>4, MovesTypes
<1>5. CASE Mine
  BY <1>5, MineTypes
<1>6. CASE OnMessage
  BY <1>6, TakeTypes
<1>7. CASE Redirect
  BY <1>7, RedirectTypes
<1>8. CASE InvalidRequest
  BY <1>8, InvalidTypes
<1>9. CASE Raise
  BY <1>9, RaiseTypes
<1>10. CASE Refused
  BY <1>10, RefusedTypes
<1>11. CASE UNCHANGED vars
  BY <1>11 DEF vars, dom, wizard, chain, Types, PageTypes, PageFlags, Amounts, SeqOK
<1> QED
  BY <1>1, <1>2, <1>3, <1>4, <1>5, <1>6, <1>7, <1>8, <1>9, <1>10, <1>11
  DEF Next, Serve, Moves

-----------------------------------------------------------------------------
(* The balances *)

\* What an account has does not get less.
LEMMA BalancesGrow ==
  ASSUME Types, Amounts',
         wallet' + deposit' >= wallet + deposit, dai' >= dai
  PROVE  /\ EnoughServiceToken => EnoughServiceToken'
         /\ EnoughTransferToken => EnoughTransferToken'
         /\ Funded => Funded'
         /\ \A p : Claims(p) => /\ p = "launch" => Funded'
                                /\ p = "dai" => EnoughServiceToken'
<1>0. /\ PageRequired \in Nat
      /\ wallet \in Nat /\ deposit \in Nat /\ dai \in Nat
      /\ wallet' \in Nat /\ deposit' \in Nat /\ dai' \in Nat
  BY AmountsAssumption DEF Types, Amounts
<1>1. EnoughServiceToken => EnoughServiceToken'
  <2>0. wallet + deposit \in Nat /\ wallet' + deposit' \in Nat
    <3>1. \A k, n \in Nat : k + n \in Nat
      OBVIOUS
    <3> QED
      BY <1>0, <3>1, Zenon
  <2>1. wallet' + deposit' >= wallet + deposit
    OBVIOUS
  <2>2. \A k, m, n \in Nat : m >= k /\ n >= m => n >= k
    OBVIOUS
  <2>3. wallet + deposit >= PageRequired => wallet' + deposit' >= PageRequired
    BY <1>0, <2>0, <2>1, <2>2
  <2> QED
    BY <2>3 DEF EnoughServiceToken, Total
<1>2. EnoughTransferToken => EnoughTransferToken'
  BY <1>0 DEF EnoughTransferToken
<1> QED
  BY <1>1, <1>2 DEF Funded, Claims

\* Enough for the wizard is enough for the pages.
LEMMA RequiredIsEnough ==
  ASSUME Amounts
  PROVE  /\ Total >= Required => EnoughServiceToken
         /\ deposit >= Required => EnoughServiceToken
         /\ EnoughServiceToken => Claims(TransferSwap)
         /\ TransferSwap # "none" /\ Claims("rdn") /\ Claims("none")
<1>1. /\ Total >= Required => EnoughServiceToken
      /\ deposit >= Required => EnoughServiceToken
      /\ ~(dai < Required) => EnoughTransferToken
  BY AmountsAssumption DEF Amounts, EnoughServiceToken, EnoughTransferToken, Total
<1> QED
  BY <1>1 DEF TransferSwap, Claims, Funded

\* The page keeps what is known of the balances,
LEMMA PageFunds ==
  ASSUME Types, FundsOK, Tick \/ SkipSwap \/ Confirm \/ ToggleDue
  PROVE  FundsOK'
<1>1. UNCHANGED <<page, goTo, job, wallet, deposit, dai>>
  BY DEF Tick, SkipSwap, Confirm, ToggleDue, wizard, chain
<1>2. UNCHANGED <<EnoughServiceToken, EnoughTransferToken, Funded>>
  BY <1>1 DEF EnoughServiceToken, EnoughTransferToken, Funded, Total
<1>3. leave' => page = "dai" /\ EnoughTransferToken
  BY DEF Tick, SkipSwap, Confirm, ToggleDue, SkipToDeposit, SkipToLaunch, NoSkip, FundsOK
<1>4. \/ inbox' = inbox
      \/ \E what \in Requests :
           /\ inbox' = Append(inbox, [what |-> what, mine |-> TRUE])
           /\ what \in {"dai", "deposit"} => EnoughServiceToken
  <2>1. CASE Confirm
    <3>1. page \in Requests /\ Send(page)
      BY <2>1 DEF Confirm, Requests
    <3>2. page \in {"dai", "deposit"} => EnoughServiceToken
      BY <2>1 DEF Confirm, Swaps, FundsOK, Claims
    <3> QED
      BY <3>1, <3>2 DEF Send
  <2>2. CASE SkipSwap
    BY <2>2 DEF SkipSwap, SkipToDeposit, SkipToLaunch, NoSkip, Send, Requests
  <2>3. CASE Tick \/ ToggleDue
    BY <2>3 DEF Tick, ToggleDue, wizard
  <2> QED
    BY <2>1, <2>2, <2>3
<1>5. \A k \in DOMAIN inbox' : inbox'[k].what \in {"dai", "deposit"} => EnoughServiceToken
  <2>1. CASE inbox' = inbox
    BY <2>1 DEF FundsOK
  <2>2. ASSUME NEW what \in Requests,
               inbox' = Append(inbox, [what |-> what, mine |-> TRUE]),
               what \in {"dai", "deposit"} => EnoughServiceToken
        PROVE  \A k \in DOMAIN inbox' :
                 inbox'[k].what \in {"dai", "deposit"} => EnoughServiceToken
    BY <2>2 DEF FundsOK, Types, SeqOK
  <2> QED
    BY <1>4, <2>1, <2>2
<1> QED
  BY <1>1, <1>2, <1>3, <1>5 DEF FundsOK, Claims

\* and so does another page,
LEMMA LoadFunds ==
  ASSUME Types, FundsOK, Navigate \/ Reload
  PROVE  FundsOK'
<1>1. UNCHANGED <<wallet, deposit, dai>>
  BY DEF Navigate, Reload, chain
<1>2. UNCHANGED <<EnoughServiceToken, EnoughTransferToken, Funded>>
  BY <1>1 DEF EnoughServiceToken, EnoughTransferToken, Funded, Total
<1>3. PICK p : Load(p) /\ Claims(p)
  <2>1. CASE Reload
    BY <2>1 DEF Reload, FundsOK
  <2>2. CASE Navigate
    <3>1. leave => Claims("launch")
      BY DEF FundsOK, Claims, Funded
    <3> QED
      BY <2>2, <3>1 DEF Navigate, FundsOK
  <2> QED
    BY <2>1, <2>2
<1>4. page' = p /\ goTo' = "none" /\ leave' = FALSE
  BY <1>3 DEF Load
<1>5. Abandon
  BY DEF Navigate, Reload
<1>6. /\ job' = [job EXCEPT !.mine = FALSE] /\ job \in Jobs
      /\ DOMAIN inbox' = DOMAIN inbox
      /\ \A k \in DOMAIN inbox : inbox'[k].what = inbox[k].what
  BY <1>5, AbandonTypes DEF Types, SeqOK
<1>7. job'.what = job.what /\ job'.step = job.step /\ job'.to = job.to
  BY <1>6 DEF Jobs
<1> QED
  BY <1>2, <1>3, <1>4, <1>6, <1>7 DEF FundsOK, Claims

\* the steps of a job,
LEMMA MovesFunds ==
  ASSUME Types, FundsOK, Moves
  PROVE  FundsOK'
<1>1. /\ UNCHANGED <<page, goTo, leave, inbox>> /\ job' \in Jobs
      /\ job'.what = job.what /\ job.what \in Requests
      /\ Amounts' /\ dai' = dai /\ wallet' + deposit' = wallet + deposit
  BY MovesTo
<1>2. UNCHANGED <<EnoughServiceToken, EnoughTransferToken, Funded>>
  BY <1>1 DEF Types, Amounts, EnoughServiceToken, EnoughTransferToken, Funded, Total
<1>3. job \in Jobs /\ Amounts
  BY DEF Types
<1>4. /\ Claims(job'.to) /\ (job'.step = "deposit" => EnoughServiceToken)
      /\ job'.step \in {"deposit", "answer"} => job'.to # "none"
  <2> USE <1>3, RequiredIsEnough DEF GoOn, At, Jobs
  <2>1. CASE SwapFails
    BY <2>1 DEF SwapFails, FundsOK, Claims, Swaps
  <2>2. CASE BuyTokens
    BY <2>2 DEF BuyTokens
  <2>3. CASE CheckSwap
    <3>1. Claims(job.what) /\ job.what # "none"
      BY <2>3 DEF CheckSwap, FundsOK, Claims, Swaps
    <3>2. CASE Total < Required
      BY <2>3, <3>1, <3>2 DEF CheckSwap
    <3>3. CASE ~(Total < Required)
      <4>1. EnoughServiceToken
        BY <3>3, AmountsAssumption DEF Amounts, Total, EnoughServiceToken
      <4> QED
        BY <2>3, <3>3, <4>1 DEF CheckSwap
    <3> QED
      BY <3>2, <3>3
  <2>4. CASE SwapDeposits
    <3>1. job.step = "deposit" /\ job' = [job EXCEPT !.step = "answer", !.to = job.to]
      BY <2>4 DEF SwapDeposits
    <3>2. job'.step = "answer" /\ job'.to = job.to
      BY <3>1
    <3> QED
      BY <3>1, <3>2 DEF FundsOK, Claims
  <2>5. CASE DepositEnough
    BY <2>5 DEF DepositEnough
  <2>6. CASE DepositRest
    BY <2>6 DEF DepositRest, FundsOK
  <2> QED
    BY <2>1, <2>2, <2>3, <2>4, <2>5, <2>6 DEF Moves
<1> QED
  BY <1>1, <1>2, <1>4 DEF FundsOK, Claims

\* and every other one.
LEMMA FundsStep ==
  ASSUME Types, FundsOK, NEW old \in Nat, Shape(old), [Next]_vars
  PROVE  FundsOK'
<1>0. UNCHANGED <<wallet, deposit, dai>> =>
        UNCHANGED <<EnoughServiceToken, EnoughTransferToken, Funded>>
  BY DEF EnoughServiceToken, EnoughTransferToken, Funded, Total
<1>1. CASE Tick \/ SkipSwap \/ Confirm \/ ToggleDue
  BY <1>1, PageFunds
<1>2. CASE Navigate \/ Reload
  BY <1>2, LoadFunds
<1>3. ASSUME NEW e \in Exchanges, Estimated(e) \/ SelectExchange(e) PROVE FundsOK'
  BY <1>0, <1>3, ButtonTypes DEF chain, FundsOK, Claims
<1>4. CASE Moves
  BY <1>4, MovesFunds
<1>5. CASE Mine
  <2>1. /\ UNCHANGED <<page, goTo, leave, inbox>> /\ job' \in Jobs
        /\ Amounts' /\ dai' >= dai /\ wallet' + deposit' >= wallet + deposit
        /\ job'.what = job.what /\ job'.to = job.to
        /\ job'.step = job.step \/ job'.step = "check"
    BY <1>5, MineTo DEF Types, Jobs, Amounts
  <2>2. /\ EnoughServiceToken => EnoughServiceToken'
        /\ EnoughTransferToken => EnoughTransferToken'
        /\ Funded => Funded'
    BY <2>1, BalancesGrow
  <2> QED
    BY <2>1, <2>2 DEF FundsOK, Claims
<1>6. CASE OnMessage
  <2>1. /\ inbox # <<>> /\ inbox' = Tail(inbox)
        /\ job' = [step |-> "start", what |-> Head(inbox).what, mine |-> Head(inbox).mine,
                   to |-> "none"]
        /\ UNCHANGED <<page, goTo, leave, wallet, deposit, dai>>
    BY <1>6, TakeTypes DEF dom, chain
  <2>2. Head(inbox) = inbox[1] /\ 1 \in DOMAIN inbox
    BY <2>1 DEF Types, SeqOK
  <2>3. \A k \in DOMAIN inbox' : k + 1 \in DOMAIN inbox /\ inbox'[k] = inbox[k + 1]
    BY <2>1 DEF Types, SeqOK
  <2> QED
    BY <1>0, <2>1, <2>2, <2>3 DEF FundsOK, Claims
<1>7. CASE Redirect
  BY <1>0, <1>7 DEF Redirect, chain, FundsOK, Claims, NoJob
<1>8. CASE InvalidRequest
  BY <1>0, <1>8 DEF InvalidRequest, chain, FundsOK, Claims, NoJob
<1>9. CASE Raise
  <2>1. /\ UNCHANGED <<page, goTo, leave, wallet, deposit, dai>>
        /\ job' = NoJob /\ inbox' = OthersInbox
    BY <1>9 DEF Raise
  <2>2. \A k \in DOMAIN inbox' : \E l \in DOMAIN inbox : inbox'[k] = inbox[l]
    <3>1. CASE job.mine
      <4>1. inbox' = SubSeq(inbox, 1, old)
        BY <2>1, <3>1, OthersTypes DEF Types
      <4>2. old \in 0 .. Len(inbox) /\ inbox \in Seq(Messages)
        BY DEF Types, SeqOK, Shape
      <4>3. /\ inbox' \in Seq(Messages) /\ Len(inbox') = old
            /\ \A k \in 1 .. old : inbox'[k] = inbox[k]
        BY <4>1, <4>2
      <4> QED
        BY <4>2, <4>3
    <3>2. CASE ~job.mine
      <4>1. inbox' = SubSeq(inbox, old + 1, Len(inbox))
        BY <2>1, <3>2, OthersTypes DEF Types
      <4>2. old \in 0 .. Len(inbox) /\ inbox \in Seq(Messages)
        BY DEF Types, SeqOK, Shape
      <4>3. /\ inbox' \in Seq(Messages) /\ Len(inbox') = Len(inbox) - old
            /\ \A k \in 1 .. Len(inbox) - old : inbox'[k] = inbox[old + k]
        BY <4>1, <4>2
      <4> QED
        BY <4>2, <4>3
    <3> QED
      BY <3>1, <3>2
  <2> QED
    BY <1>0, <2>1, <2>2 DEF FundsOK, Claims, NoJob
<1>10. CASE Refused
  BY <1>0, <1>10, RefusedTypes DEF dom, chain, FundsOK, Claims
<1>11. CASE UNCHANGED vars
  BY <1>0, <1>11 DEF vars, dom, wizard, chain, FundsOK, Claims
<1> QED
  BY <1>1, <1>2, <1>3, <1>4, <1>5, <1>6, <1>7, <1>8, <1>9, <1>10, <1>11
  DEF Next, Serve, Moves

-----------------------------------------------------------------------------
(* The chain and the buttons *)

\* Every step keeps what is known of the pending swaps.
LEMMA WaitStep ==
  ASSUME Types, WaitOK, NEW old \in Nat, Shape(old), [Next]_vars
  PROVE  WaitOK'
<1>0. UNCHANGED <<pending, gaveUp>> /\ (job.step = "wait" <=> job'.step = "wait") => WaitOK'
  BY DEF WaitOK
<1>1. CASE Tick \/ SkipSwap \/ Confirm \/ ToggleDue
  BY <1>0, <1>1 DEF Tick, SkipSwap, Confirm, ToggleDue, wizard, chain
<1>2. CASE Navigate \/ Reload
  BY <1>0, <1>2, AbandonTypes DEF Navigate, Reload, chain, Types, Jobs
<1>3. ASSUME NEW e \in Exchanges, Estimated(e) \/ SelectExchange(e) PROVE WaitOK'
  BY <1>0, <1>3, ButtonTypes DEF chain
<1>4. CASE Moves
  <2>1. CASE BuyTokens
    <3>1. /\ job.step = "start" /\ job'.step = "wait" /\ gaveUp' = gaveUp
          /\ pending' = Append(pending, [token |-> job.what, own |-> TRUE])
      BY <2>1 DEF BuyTokens, At, GoOn, Working, Types, Jobs
    <3> QED
      BY <3>1 DEF WaitOK
  <2>2. CASE UNCHANGED pending /\ job.step # "wait" /\ job'.step # "wait"
    BY <1>0, <1>4, <2>2, MovesTo
  <2> QED
    BY <1>4, <2>1, <2>2, MovesTo
<1>5. CASE Mine
  <2>1. /\ pending # <<>> /\ pending' = Tail(pending) /\ gaveUp' = gaveUp
        /\ job' = IF Head(pending).own THEN [job EXCEPT !.step = "check"] ELSE job
    BY <1>5, MineTo
  <2>2. SUFFICES ASSUME ~gaveUp PROVE WaitOK'
    BY <2>1 DEF WaitOK
  <2>3. Len(pending) = 1 /\ Head(pending).own
    BY <2>1, <2>2 DEF WaitOK
  <2>4. pending' = <<>> /\ job'.step = "check"
    BY <2>1, <2>3 DEF Types, SeqOK, Jobs
  <2> QED
    BY <2>4 DEF WaitOK
<1>6. CASE OnMessage
  BY <1>0, <1>6, TakeTypes DEF chain, Idle, NoJob
<1>7. CASE Redirect
  BY <1>0, <1>7 DEF Redirect, chain, NoJob
<1>8. CASE InvalidRequest
  BY <1>0, <1>8 DEF InvalidRequest, chain, NoJob, At
<1>9. CASE Raise
  <2>1. SUFFICES ASSUME ~gaveUp, job.step # "wait" PROVE WaitOK'
    BY <1>9 DEF Raise, WaitOK
  <2>2. pending = <<>>
    BY <2>1 DEF WaitOK
  <2>3. pending' = <<>>
    BY <1>9, <2>2 DEF Raise
  <2>4. job'.step # "wait"
    BY <1>9 DEF Raise, NoJob
  <2> QED
    BY <2>3, <2>4 DEF WaitOK
<1>10. CASE Refused
  BY <1>0, <1>10, RefusedTypes DEF chain
<1>11. CASE UNCHANGED vars
  BY <1>0, <1>11 DEF vars, wizard, chain
<1> QED
  BY <1>1, <1>2, <1>3, <1>4, <1>5, <1>6, <1>7, <1>8, <1>9, <1>10, <1>11
  DEF Next, Serve, Moves

\* Every step keeps a button selected only while it may be.
LEMMA EstimateStep ==
  ASSUME Types, EstimateFailed, [Next]_vars
  PROVE  EstimateFailed'
<1>0. UNCHANGED <<estimate, selected>> => EstimateFailed'
  BY DEF EstimateFailed
<1>1. CASE Tick \/ SkipSwap \/ Confirm \/ ToggleDue
  BY <1>0, <1>1 DEF Tick, SkipSwap, Confirm, ToggleDue
<1>2. CASE Navigate \/ Reload
  BY <1>2 DEF Navigate, Reload, Load, EstimateFailed
<1>3. ASSUME NEW e \in Exchanges, Estimated(e) PROVE EstimateFailed'
  <2>1. selected \in Exchanges \cup {NoExchange}
        /\ estimate \in [Exchanges -> {"asked", "known", "failed"}]
    BY DEF Types, PageTypes
  <2>2. CASE estimate' = [estimate EXCEPT ![e] = "known"] /\ UNCHANGED selected
    BY <2>1, <2>2 DEF EstimateFailed
  <2>3. CASE estimate' = [estimate EXCEPT ![e] = "failed"] /\ Deselect(e)
    BY <2>1, <2>3, ExchangeAssumption DEF EstimateFailed, Deselect
  <2> QED
    BY <1>3, <2>2, <2>3 DEF Estimated
<1>4. ASSUME NEW e \in Exchanges, SelectExchange(e) PROVE EstimateFailed'
  BY <1>4 DEF SelectExchange, EstimateFailed
<1>5. CASE Moves
  BY <1>0, <1>5, MovesTo
<1>6. CASE Mine
  BY <1>0, <1>6, MineTo
<1>7. CASE OnMessage
  BY <1>0, <1>7 DEF OnMessage, dom
<1>8. CASE Redirect \/ InvalidRequest \/ Raise
  BY <1>0, <1>8 DEF Redirect, InvalidRequest, Raise
<1>9. CASE Refused
  BY <1>0, <1>9, RefusedTypes DEF dom
<1>10. CASE UNCHANGED vars
  BY <1>0, <1>10 DEF vars, dom
<1> QED
  BY <1>1, <1>2, <1>3, <1>4, <1>5, <1>6, <1>7, <1>8, <1>9, <1>10 DEF Next, Serve, Moves

-----------------------------------------------------------------------------
(* The count *)

\* What is awaited is a number; one more or less is odd when it was even.
LEMMA AwaitedIsNat ==
  ASSUME Types, NEW old \in Nat, Shape(old)
  PROVE  Awaited(old) \in Nat /\ Len(inbox) \in Nat /\ toggles \in Nat
  BY DEF Types, PageTypes, SeqOK, Shape, Awaited

\* One more of something awaited turns the parity.
LEMMA Parity ==
  /\ \A n \in Nat : (n + 1) % 2 = 1 <=> n % 2 # 1
  /\ \A n \in Nat : n >= 1 => ((n - 1) % 2 = 1 <=> n % 2 # 1)
<1>1. \A n \in Nat : (n + 1) % 2 = 1 <=> n % 2 # 1
  OBVIOUS
<1>2. \A n \in Nat : n >= 1 => ((n - 1) % 2 = 1 <=> n % 2 # 1)
  OBVIOUS
<1> QED
  BY <1>1, <1>2

\* A step keeps the count if it changes neither what is awaited nor the view.
LEMMA CountKept ==
  ASSUME NEW old \in Nat, Counted(old), NEW new \in Nat, Shape(new)',
         Awaited(new)' = Awaited(old), UNCHANGED <<view, late, socket, goTo, leave>>
  PROVE  Counted(new)'
  BY DEF Counted

\* Nothing more or less awaited leaves it.
LEMMA SameCount ==
  ASSUME NEW old \in Nat, Counted(old),
         UNCHANGED <<inbox, toggles, view, late, socket, goTo, leave>>, job'.mine = job.mine
  PROVE  Counted(old)'
<1>1. Shape(old)' /\ Awaited(old)' = Awaited(old)
  BY DEF Counted, Shape, Awaited
<1> QED
  BY <1>1, CountKept

\* A page that sends something and toggles its view awaits one thing more.
LEMMA SendCounts ==
  ASSUME Types, NEW old \in Nat, Counted(old), NEW what \in Requests, Send(what),
         view = "main" <=> view' = "tracker", view' \in {"main", "tracker"},
         UNCHANGED <<job, toggles, socket, goTo, leave>>,
         late' = late \/ (late' = TRUE /\ view = "tracker"),
         view = "tracker" => late'
  PROVE  Counted(old)'
<1>1. Awaited(old) \in Nat /\ Len(inbox) \in Nat /\ Shape(old) /\ inbox \in Seq(Messages)
  BY AwaitedIsNat DEF Counted, Types, SeqOK
<1>2. CASE ~socket
  <2>1. inbox' = inbox
    BY <1>2 DEF Send
  <2>2. Shape(old)' /\ Awaited(old)' = Awaited(old)
    BY <1>1, <2>1 DEF Shape, Awaited
  <2> QED
    BY <1>2, <2>2 DEF Counted, Types, PageTypes
<1>3. CASE socket
  <2>1. inbox' = Append(inbox, [what |-> what, mine |-> TRUE])
    BY <1>3 DEF Send
  <2>2. /\ Len(inbox') = Len(inbox) + 1
        /\ \A k \in 1 .. Len(inbox) : inbox'[k] = inbox[k]
        /\ inbox'[Len(inbox) + 1].mine = TRUE
    BY <1>1, <2>1
  <2>3. Shape(old)'
    BY <1>1, <2>2 DEF Shape
  <2>4. Awaited(old)' = Awaited(old) + 1
    <3>1. Len(inbox') - old = (Len(inbox) - old) + 1
      BY <1>1, <2>2
    <3>2. UNCHANGED <<job, toggles>> /\ toggles \in Nat
      BY AwaitedIsNat DEF Counted
    <3> QED
      BY <1>1, <3>1, <3>2 DEF Awaited
  <2>5. Awaited(old)' % 2 = 1 <=> Awaited(old) % 2 # 1
    BY <1>1, <2>4, Parity
  <2>6. ~late' => Awaited(old)' <= 1 /\ view' = "tracker"
    BY <1>1, <2>4 DEF Counted, Types, PageTypes
  <2>7. socket' /\ goTo' = "none" /\ ~leave'
          => (view' = "tracker" <=> Awaited(old)' % 2 = 1)
    BY <2>5 DEF Counted, Types, PageTypes
  <2> QED
    BY <2>3, <2>6, <2>7 DEF Counted
<1> QED
  BY <1>2, <1>3

\* The steps of the page.
LEMMA PageCounts ==
  ASSUME Types, NEW old \in Nat, Counted(old), Tick \/ SkipSwap \/ Confirm
  PROVE  Counted(old)'
<1>0. view \in {"main", "tracker"}
  BY DEF Types, PageTypes
<1>1. CASE Tick
  BY <1>1, SameCount DEF Tick, wizard
<1>2. CASE Confirm
  <2>1. /\ page \in Requests /\ Send(page) /\ view = "main" /\ ToggleView(polls)
        /\ UNCHANGED <<job, toggles, socket, goTo, leave, late>>
    BY <1>2 DEF Confirm, Requests
  <2>2. view' = "tracker"
    BY <2>1 DEF ToggleView
  <2> QED
    BY <2>1, <2>2, SendCounts
<1>3. CASE SkipSwap
  <2>0. /\ UNCHANGED <<job, toggles, socket, goTo>> /\ late' = (late \/ view = "tracker")
        /\ SkipToDeposit \/ SkipToLaunch \/ NoSkip
    BY <1>3 DEF SkipSwap
  <2>1. CASE SkipToDeposit
    <3>1. Send("deposit") /\ ToggleView(polls - 1) /\ leave' = leave
      BY <2>1 DEF SkipToDeposit
    <3>2. (view = "main" <=> view' = "tracker") /\ view' \in {"main", "tracker"}
      BY <1>0, <3>1 DEF ToggleView
    <3>3. late' = late \/ (late' = TRUE /\ view = "tracker")
      BY <2>0, Zenon DEF Types, PageFlags
    <3>4. view = "tracker" => late'
      BY <2>0
    <3>5. "deposit" \in Requests
      BY DEF Requests
    <3> QED
      BY <2>0, <3>1, <3>2, <3>3, <3>4, <3>5, SendCounts
  <2>2. CASE SkipToLaunch \/ NoSkip
    <3>1. UNCHANGED <<inbox, view>> /\ (leave' \/ leave' = leave)
      BY <2>2 DEF SkipToLaunch, NoSkip
    <3>2. Shape(old)' /\ Awaited(old)' = Awaited(old)
      BY <2>0, <3>1 DEF Counted, Shape, Awaited
    <3> QED
      BY <2>0, <3>1, <3>2 DEF Counted
  <2> QED
    BY <2>0, <2>1, <2>2
<1> QED
  BY <1>1, <1>2, <1>3

\* A timeout fires.
LEMMA ToggleCounts ==
  ASSUME Types, NEW old \in Nat, Counted(old), ToggleDue
  PROVE  Counted(old)'
<1>1. /\ UNCHANGED <<inbox, job, socket, goTo, leave, late>>
      /\ toggles > 0 /\ toggles' = toggles - 1 /\ ToggleView(polls)
  BY DEF ToggleDue, wizard
<1>2. view \in {"main", "tracker"}
  BY DEF Types, PageTypes
<1>3. (view = "main" <=> view' = "tracker") /\ view' \in {"main", "tracker"}
  BY <1>1, <1>2 DEF ToggleView
<1>4. Awaited(old) \in Nat /\ Len(inbox) \in Nat /\ toggles \in Nat /\ Shape(old)
  BY AwaitedIsNat DEF Counted
<1>5. Shape(old)'
  BY <1>1, <1>4 DEF Shape
<1>6. Awaited(old)' = Awaited(old) - 1 /\ Awaited(old) >= 1
  BY <1>1, <1>4 DEF Awaited, Shape
<1>7. Awaited(old)' % 2 = 1 <=> Awaited(old) % 2 # 1
  BY <1>4, <1>6, Parity
<1>8. ~late' => Awaited(old)' = 0
  BY <1>1, <1>4, <1>6 DEF Counted
<1>9. socket' /\ goTo' = "none" /\ ~leave' => (view' = "tracker" <=> Awaited(old)' % 2 = 1)
  BY <1>1, <1>2, <1>3, <1>7 DEF Counted
<1> QED
  BY <1>5, <1>8, <1>9 DEF Counted

\* Another page awaits nothing: all messages are those of pages before it.
LEMMA LoadCounts ==
  ASSUME Types, Navigate \/ Reload
  PROVE  \E new \in Nat : Counted(new)'
<1>1. PICK p : Load(p)
  BY DEF Navigate, Reload
<1>2. view' = "main" /\ toggles' = 0
  BY <1>1 DEF Load
<1>3. /\ Len(inbox') = Len(inbox) /\ job' = [job EXCEPT !.mine = FALSE]
      /\ \A k \in 1 .. Len(inbox) : ~inbox'[k].mine
  BY AbandonTypes DEF Navigate, Reload, Types
<1>4. PICK new \in Nat : new = Len(inbox)
  BY DEF Types, SeqOK
<1>5. Shape(new)'
  BY <1>3, <1>4 DEF Shape
<1>6. Awaited(new)' = 0
  BY <1>2, <1>3, <1>4 DEF Awaited, Types, Jobs
<1>7. 0 % 2 # 1
  OBVIOUS
<1> QED
  BY <1>2, <1>5, <1>6, <1>7 DEF Counted

\* The wizard takes a message: it becomes its job.
LEMMA TakeCounts ==
  ASSUME Types, NEW old \in Nat, Counted(old), OnMessage
  PROVE  \E new \in Nat : Counted(new)'
<1>1. /\ Head(inbox) \in Messages /\ inbox # <<>> /\ inbox' = Tail(inbox) /\ Idle
      /\ job' = [step |-> "start", what |-> Head(inbox).what, mine |-> Head(inbox).mine,
                 to |-> "none"]
      /\ UNCHANGED <<view, late, socket, goTo, leave, toggles>>
  BY TakeTypes DEF dom
<1>2. Shape(old) /\ Len(inbox) \in Nat /\ toggles \in Nat /\ inbox \in Seq(Messages)
  BY AwaitedIsNat DEF Counted, Types, SeqOK
<1>3. /\ Len(inbox) >= 1 /\ Head(inbox) = inbox[1] /\ Len(inbox') = Len(inbox) - 1
      /\ \A k \in 1 .. Len(inbox) - 1 : inbox'[k] = inbox[k + 1]
  BY <1>1, <1>2
<1>4. ~job.mine
  BY <1>1 DEF Idle, NoJob
<1>5. CASE inbox[1].mine
  <2>1. old = 0
    BY <1>2, <1>3, <1>5 DEF Shape
  <2>2. Shape(0)'
    BY <1>2, <1>3, <2>1 DEF Shape
  <2>3. Awaited(0)' = Awaited(old)
    <3>1. job'.mine
      BY <1>1, <1>3, <1>5
    <3> QED
      BY <1>1, <1>2, <1>3, <1>4, <2>1, <3>1 DEF Awaited
  <2>4. Counted(0)'
    BY <1>1, <2>2, <2>3, CountKept
  <2> QED
    BY <2>4
<1>6. CASE ~inbox[1].mine
  <2>1. PICK new \in Nat : old = new + 1
    <3>1. old >= 1
      BY <1>2, <1>3, <1>6 DEF Shape
    <3> QED
      BY <3>1
  <2>2. Shape(new)'
    BY <1>2, <1>3, <2>1 DEF Shape
  <2>3. Awaited(new)' = Awaited(old)
    <3>1. ~job'.mine
      BY <1>1, <1>3, <1>6
    <3>2. Len(inbox') - new = Len(inbox) - old
      BY <1>2, <1>3, <2>1
    <3> QED
      BY <1>1, <1>4, <3>1, <3>2 DEF Awaited
  <2>4. Counted(new)'
    BY <1>1, <2>2, <2>3, CountKept
  <2> QED
    BY <2>4
<1> QED
  BY <1>5, <1>6

\* An answer is one thing less to wait for, and a redirect the page will follow.
LEMMA RedirectCounts ==
  ASSUME Types, FundsOK, NEW old \in Nat, Counted(old), Redirect
  PROVE  Counted(old)'
<1>1. /\ UNCHANGED <<view, late, socket, leave, toggles, inbox>> /\ job' = NoJob
      /\ job.step = "answer" /\ goTo' = IF job.mine /\ goTo = "none" THEN job.to ELSE goTo
  BY DEF Redirect
<1>2. ~job'.mine /\ job.to # "none"
  BY <1>1 DEF NoJob, FundsOK
<1>3. Awaited(old) \in Nat /\ Len(inbox) \in Nat /\ toggles \in Nat /\ Shape(old)
  BY AwaitedIsNat DEF Counted
<1>4. CASE job.mine
  <2>1. goTo' # "none"
    BY <1>1, <1>2, <1>4
  <2>2. Shape(old)'
    BY <1>1, <1>3 DEF Shape
  <2>3. Awaited(old)' = Awaited(old) - 1 /\ Awaited(old)' >= 0
    BY <1>1, <1>2, <1>3, <1>4 DEF Awaited, Shape
  <2> QED
    BY <1>1, <1>3, <2>1, <2>2, <2>3 DEF Counted
<1>5. CASE ~job.mine
  <2>1. Shape(old)' /\ Awaited(old)' = Awaited(old) /\ goTo' = goTo
    BY <1>1, <1>2, <1>3, <1>5 DEF Shape, Awaited
  <2> QED
    BY <1>1, <2>1, CountKept
<1> QED
  BY <1>4, <1>5

\* "Invalid request" turns a job of the page into a timeout.
LEMMA InvalidCounts ==
  ASSUME Types, NEW old \in Nat, Counted(old), InvalidRequest
  PROVE  Counted(old)'
<1>1. /\ UNCHANGED <<view, late, socket, goTo, leave, inbox>> /\ job' = NoJob
      /\ toggles' = IF job.mine THEN toggles + 1 ELSE toggles
  BY DEF InvalidRequest
<1>2. ~job'.mine
  BY <1>1 DEF NoJob
<1>3. Len(inbox) \in Nat /\ toggles \in Nat /\ Shape(old)
  BY AwaitedIsNat DEF Counted
<1>4. Shape(old)'
  BY <1>1, <1>3 DEF Shape
<1>5. Awaited(old)' = Awaited(old)
  BY <1>1, <1>2, <1>3 DEF Awaited, Shape
<1> QED
  BY <1>1, <1>4, <1>5, CountKept

\* An exception closes the socket of the page, or drops the messages of others.
LEMMA RaiseCounts ==
  ASSUME Types, NEW old \in Nat, Counted(old), Raise
  PROVE  \E new \in Nat : Counted(new)'
<1>1. /\ UNCHANGED <<view, late, goTo, leave, toggles>> /\ job' = NoJob
      /\ inbox' = OthersInbox /\ socket' = (socket /\ ~job.mine)
  BY DEF Raise
<1>2. ~job'.mine
  BY <1>1 DEF NoJob
<1>3. /\ Awaited(old) \in Nat /\ Len(inbox) \in Nat /\ toggles \in Nat /\ Shape(old)
      /\ inbox \in Seq(Messages)
  BY AwaitedIsNat DEF Counted, Types, SeqOK
<1>4. CASE job.mine
  <2>1. inbox' = SubSeq(inbox, 1, old)
    BY <1>1, <1>3, <1>4, OthersTypes DEF Types
  <2>2. /\ inbox' \in Seq(Messages) /\ Len(inbox') = old
        /\ \A k \in 1 .. old : inbox'[k] = inbox[k]
    BY <1>3, <2>1 DEF Shape
  <2>3. Shape(old)'
    BY <1>3, <2>2 DEF Shape
  <2>4. Awaited(old)' = toggles
    BY <1>1, <1>2, <1>3, <2>2 DEF Awaited
  <2>5. Awaited(old)' <= Awaited(old)
    BY <1>3, <1>4, <2>4 DEF Awaited, Shape
  <2>6. ~socket'
    BY <1>1, <1>4
  <2> QED
    BY <1>1, <1>3, <2>3, <2>4, <2>5, <2>6 DEF Counted
<1>5. CASE ~job.mine
  <2>1. inbox' = SubSeq(inbox, old + 1, Len(inbox))
    BY <1>1, <1>3, <1>5, OthersTypes DEF Types
  <2>2. /\ inbox' \in Seq(Messages) /\ Len(inbox') = Len(inbox) - old
        /\ \A k \in 1 .. Len(inbox) - old : inbox'[k] = inbox[old + k]
    BY <1>3, <2>1 DEF Shape
  <2>3. Shape(0)'
    BY <1>3, <2>2 DEF Shape
  <2>4. Awaited(0)' = Awaited(old)
    BY <1>1, <1>2, <1>3, <1>5, <2>2 DEF Awaited, Shape
  <2>5. socket' = socket
    BY <1>1, <1>5, Zenon DEF Types, PageFlags
  <2>6. Counted(0)'
    BY <1>1, <2>3, <2>4, <2>5, CountKept
  <2> QED
    BY <2>6
<1> QED
  BY <1>4, <1>5

\* Every step keeps the count.
LEMMA CountStep ==
  ASSUME Types, FundsOK, NEW old \in Nat, Counted(old), [Next]_vars
  PROVE  \E new \in Nat : Counted(new)'
<1>1. CASE Tick \/ SkipSwap \/ Confirm
  BY <1>1, PageCounts
<1>2. CASE ToggleDue
  BY <1>2, ToggleCounts
<1>3. CASE Navigate \/ Reload
  BY <1>3, LoadCounts
<1>4. ASSUME NEW e \in Exchanges, Estimated(e) \/ SelectExchange(e)
      PROVE  \E new \in Nat : Counted(new)'
  <2>1. Counted(old)'
    BY <1>4, ButtonTypes, SameCount
  <2> QED
    BY <2>1
<1>5. CASE Moves
  BY <1>5, MovesTo, SameCount
<1>6. CASE Mine
  <2>1. job'.mine = job.mine
    BY <1>6, MineTo DEF Types, Jobs
  <2> QED
    BY <1>6, <2>1, MineTo, SameCount
<1>7. CASE OnMessage
  BY <1>7, TakeCounts
<1>8. CASE Redirect
  BY <1>8, RedirectCounts
<1>9. CASE InvalidRequest
  BY <1>9, InvalidCounts
<1>10. CASE Raise
  BY <1>10, RaiseCounts
<1>11. CASE Refused
  <2>1. Counted(old)'
    BY <1>11, RefusedTypes, SameCount DEF dom
  <2> QED
    BY <2>1
<1>12. CASE UNCHANGED vars
  <2>1. Counted(old)'
    BY <1>12, SameCount DEF vars, dom, wizard
  <2> QED
    BY <2>1
<1> QED
  BY <1>1, <1>2, <1>3, <1>4, <1>5, <1>6, <1>7, <1>8, <1>9, <1>10, <1>11, <1>12
  DEF Next, Serve, Moves

-----------------------------------------------------------------------------
(* The theorems *)

\* The initial state has the invariant.
LEMMA InitInv == Init => Inv
<1> SUFFICES ASSUME Init PROVE Inv
  OBVIOUS
<1>1. /\ page = "rdn" /\ view = "main" /\ polls = 1 /\ toggles = 0 /\ goTo = "none"
      /\ leave = FALSE /\ socket = TRUE /\ estimate = Unasked /\ selected = NoExchange
      /\ inbox = <<>> /\ job = NoJob
      /\ wallet \in 0 .. Required /\ deposit \in 0 .. Required /\ dai \in 0 .. Required
      /\ pending = <<>> /\ late = FALSE /\ gaveUp = FALSE /\ confirms = 0 /\ faults = 0
  BY DEF Init
<1>2. SeqOK
  BY <1>1 DEF SeqOK
<1>3. PageTypes
  BY <1>1, BoundsAssumption DEF PageTypes, Unasked, Swaps
<1>4. PageFlags
  BY <1>1 DEF PageFlags
<1>5. Amounts
  BY <1>1, AmountsAssumption DEF Amounts
<1>6. TypeOK
  BY <1>1, <1>2, <1>3, <1>4, <1>5, NoJobType, TypeParts
<1>7. FundsOK
  BY <1>1 DEF FundsOK, Claims, NoJob
<1>8. WaitOK /\ EstimateFailed
  BY <1>1 DEF WaitOK, EstimateFailed, NoJob
<1>9. Counted(0)
  <2>1. Shape(0) /\ Awaited(0) = 0
    BY <1>1 DEF Shape, Awaited, NoJob
  <2>2. 0 % 2 # 1
    OBVIOUS
  <2> QED
    BY <1>1, <2>1, <2>2 DEF Counted
<1> QED
  BY <1>2, <1>6, <1>7, <1>8, <1>9 DEF Inv

\* Every step keeps the invariant.
LEMMA InvStep == Inv /\ [Next]_vars => Inv'
<1> SUFFICES ASSUME Inv, [Next]_vars PROVE Inv'
  OBVIOUS
<1>1. Types
  BY TypeParts DEF Inv, Types
<1>2. PICK old \in Nat : Counted(old)
  BY DEF Inv
<1>3. Shape(old)
  BY <1>2 DEF Counted
<1>4. Types'
  BY <1>1, <1>3, TypesStep
<1>5. TypeOK'
  <2>1. SeqOK'
    BY <1>4 DEF Types
  <2>2. ToSet(inbox)' \subseteq Messages /\ ToSet(pending)' \subseteq Sent
    BY <2>1 DEF SeqOK, ToSet
  <2>3. /\ \A m \in ToSet(inbox)' : m.what \in Swaps \cup {"deposit"} /\ m.mine \in BOOLEAN
        /\ \A t \in ToSet(pending)' : t.token \in Swaps /\ t.own \in BOOLEAN
    BY <2>2 DEF Messages, Sent, Requests
  <2> QED
    BY <1>4, <2>3 DEF Types, TypeOK, PageTypes, PageFlags, Jobs, Amounts, Requests
<1>6. FundsOK' /\ WaitOK' /\ EstimateFailed'
  BY <1>1, <1>3, FundsStep, WaitStep, EstimateStep DEF Inv
<1>7. \E new \in Nat : Counted(new)'
  BY <1>1, <1>2, CountStep DEF Inv
<1> QED
  BY <1>4, <1>5, <1>6, <1>7 DEF Inv, Types

\* The invariant holds throughout.
THEOREM Invariance == Spec => []Inv
  BY InitInv, InvStep, PTL DEF Spec

\* Every variable keeps its type.
THEOREM TypeCorrect == Spec => []TypeOK
<1>1. Inv => TypeOK
  BY DEF Inv
<1> QED
  BY <1>1, Invariance, PTL

\* Unless a poll was answered late, the main view shows that nothing is under way.
THEOREM MainAlwaysIdle == Spec => []MainMeansIdle
<1>1. Inv => MainMeansIdle
  <2>1. SUFFICES ASSUME Inv, view = "main", ~late
                 PROVE  MineIn(Swaps \cup {"deposit"}) = {} /\ ~job.mine
    BY DEF MainMeansIdle, Served
  <2>2. PICK old \in Nat : Counted(old)
    BY <2>1 DEF Inv
  <2>3. Types
    BY <2>1, TypeParts DEF Inv, Types
  <2>4. Awaited(old) = 0 /\ Shape(old)
    BY <2>1, <2>2 DEF Counted
  <2>5. Len(inbox) - old = 0 /\ ~job.mine
    BY <2>3, <2>4, AwaitedIsNat DEF Awaited, Shape
  <2>6. \A k \in DOMAIN inbox : ~inbox[k].mine
    BY <2>3, <2>4, <2>5 DEF Shape, Types, SeqOK
  <2> QED
    BY <2>5, <2>6 DEF MineIn
<1> QED
  BY <1>1, Invariance, PTL

\* The spinner turns for something the page awaits, unless its socket is closed: toggled
\* an odd number of times, the view awaits an odd number of things.
THEOREM SpinnerAlwaysWorks == Spec => []SpinnerMeansWork
<1>1. Inv => SpinnerMeansWork
  <2>1. SUFFICES ASSUME Inv, view = "tracker", socket, ~job.mine, ~(toggles > 0),
                        goTo = "none", ~leave
                 PROVE  MineIn(Swaps \cup {"deposit"}) # {}
    BY DEF SpinnerMeansWork
  <2>2. PICK old \in Nat : Counted(old)
    BY <2>1 DEF Inv
  <2>3. Types
    BY <2>1, TypeParts DEF Inv, Types
  <2>4. Shape(old) /\ Awaited(old) % 2 = 1
    BY <2>1, <2>2 DEF Counted
  <2>5. toggles = 0 /\ Len(inbox) \in Nat
    BY <2>1, <2>3, <2>4, AwaitedIsNat
  <2>6. Awaited(old) = Len(inbox) - old
    BY <2>1, <2>4, <2>5 DEF Awaited, Shape
  <2>7. Len(inbox) - old # 0
    BY <2>4, <2>6
  <2>8. Len(inbox) \in 1 .. Len(inbox) /\ Len(inbox) > old
    BY <2>4, <2>5, <2>7 DEF Shape
  <2>9. inbox[Len(inbox)].mine /\ Len(inbox) \in DOMAIN inbox
        /\ inbox[Len(inbox)].what \in Swaps \cup {"deposit"}
    <3>1. inbox[Len(inbox)].mine
      BY <2>4, <2>8 DEF Shape
    <3>2. Len(inbox) \in DOMAIN inbox /\ inbox[Len(inbox)] \in Messages
      BY <2>3, <2>8 DEF Types, SeqOK
    <3> QED
      BY <3>1, <3>2 DEF Messages, Requests
  <2> QED
    BY <2>9 DEF MineIn
<1> QED
  BY <1>1, Invariance, PTL

\* No swap is confirmed at an exchange whose costs could not be estimated.
THEOREM NeverFailedEstimate == Spec => []EstimateFailed
<1>1. Inv => EstimateFailed
  BY DEF Inv
<1> QED
  BY <1>1, Invariance, PTL

\* Two swaps are pending only after a wait was given up.
THEOREM OneSwapUntilTimeout == Spec => []SecondSwapAfterTimeout
<1>1. Inv => SecondSwapAfterTimeout
  <2>1. SUFFICES ASSUME Inv, ~gaveUp PROVE ~(Len(pending) > 1)
    BY DEF SecondSwapAfterTimeout
  <2>2. CASE pending = <<>>
    <3>1. Len(pending) = 0
      BY <2>2
    <3> QED
      BY <3>1
  <2>3. CASE Len(pending) = 1
    BY <2>3
  <2> QED
    BY <2>1, <2>2, <2>3 DEF Inv, WaitOK
<1> QED
  BY <1>1, Invariance, PTL

\* Who gets to the launch page has enough of both tokens for its button.
THEOREM AlwaysLaunchFunded == Spec => []LaunchFunded
<1>1. Inv => LaunchFunded
  BY DEF Inv, FundsOK, Claims, Funded, LaunchFunded
<1> QED
  BY <1>1, Invariance, PTL
=============================================================================
