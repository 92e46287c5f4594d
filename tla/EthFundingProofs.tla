-------------------------- MODULE EthFundingProofs --------------------------
(***************************************************************************)
(* Proofs about EthFunding, for any number of transactions and blocks.     *)
(*                                                                         *)
(* Following says, while the account is empty, where the wizard and the    *)
(* page know a transaction from that is on its way; Waits what the         *)
(* faucet's wait knows of the chain; Known what polls, payments and jobs   *)
(* stand for.                                                              *)
(***************************************************************************)
EXTENDS EthFunding, SequenceTheorems, TLAPS

Messages == Txs \cup {NoTx}
Fresh == [step |-> "balance", seen |-> 0]
PollStates == {Off} \cup [step : {"balance", "config"}, seen : 0 .. Required]
Calls ==
  [step : {"none", "block", "balance", "mark", "returned"},
   block : Nat \cup Txs, since : 0 .. Inf, enough : BOOLEAN, left : 0 .. MaxLeft]

\* The types, part by part.
ChainTypes ==
  /\ faucet \in BOOLEAN /\ web3 \in BOOLEAN /\ eth \in 0 .. Required
  /\ height \in 1 .. MaxHeight /\ fundedAt \in 0 .. height
  /\ txs \in [Txs -> {"none", "pending", "mined", "dropped"}]
JobTypes ==
  /\ hash \in Messages /\ job \in {"none", "track", "fund", "down"}
  /\ queue \in Seq(Messages) /\ wait \in Calls
TabTypes ==
  /\ view \in {"none", "main", "tracker", "next"} /\ offer \in 0 .. Required
  /\ polls \in [Slots -> PollStates] /\ socket \in BOOLEAN /\ leaving \in BOOLEAN
PayTypes ==
  /\ clicks \in 0 .. MaxClicks /\ sent \subseteq Txs
  /\ ramp \in {"off", "widget", "created", "arrived"}
  /\ bought \in 0 .. Required /\ crossed \in BOOLEAN
  /\ lost \subseteq Txs /\ faults \in 0 .. MaxFaults
Types == ChainTypes /\ JobTypes /\ TabTypes /\ PayTypes

\* Nothing of a page is there without it.
NoPage ==
  view \in {"none", "next"} =>
    /\ ~socket /\ ~leaving /\ clicks = 0 /\ sent = {} /\ ramp = "off"
    /\ \A i \in Slots : polls[i] = Off

\* A balance that was seen is there; where a faucet pays nothing is offered, paid or polled,
\* and only there it is asked; a mined transaction has paid.
Known ==
  /\ \A i \in Slots : polls[i].seen <= eth
  /\ faucet => offer = 0 /\ clicks = 0 /\ sent = {} /\ ramp = "off" /\ \A i \in Slots : polls[i] = Off
  /\ NoTx \in ToSet(queue) \/ job = "fund" => faucet
  /\ job = "track" => wait.block \in Txs
  /\ \A t \in Txs : txs[t] = "mined" => eth = Required
  /\ offer > 0 => web3
  /\ ramp # "off" => bought > 0

\* A timer that moves the page on was set for a reason.
Moves ==
  leaving /\ ~faucet => eth >= Required \/ (ramp = "arrived" /\ eth >= bought)

\* The height a wait remembers is past; the block it waits from is not before the one
\* that funded the account.
Waits ==
  /\ wait.step # "none" =>
       /\ wait.block \in 0 .. height
       /\ wait.since # Inf => eth = Required /\ fundedAt <= wait.since
  /\ wait.step \in {"block", "balance", "mark"} => wait.left > 0
  /\ wait.step = "mark" /\ wait.enough => eth = Required

\* Transactions on their way whose hash the page has got and was not lost after.
Underway == {t \in Txs : txs[t] = "pending" /\ t \notin lost \cup sent}

\* While the account is empty, the hash in the file or a message tells the wizard of what is
\* under way.  The page that has offered to pay can show its main view, or go back to it
\* when a purchase fails, only with nothing to be followed - unless its payments crossed.
Following ==
  ~faucet /\ eth = 0 =>
    /\ ~socket => queue = <<>>
    /\ hash = NoTx => Underway \subseteq ToSet(queue)
    /\ offer = 0 => clicks = 0 /\ sent = {} /\ ramp = "off"
    /\ offer = 0 /\ hash = NoTx => queue = <<>>
    /\ offer > 0 /\ ~crossed =>
         /\ ramp \in {"created", "arrived"} => view # "main"
         /\ view = "main" \/ ramp \in {"created", "arrived"} => queue = <<>> /\ hash = NoTx

Inv == Types /\ NoPage /\ Known /\ Moves /\ Waits /\ Following /\ SwapFunded /\ FundsConfirmed

-----------------------------------------------------------------------------
(* Queues and polls *)

\* The types of the parts are the type invariant.
LEMMA TypeParts == Types => TypeOK
<1>1. ASSUME queue \in Seq(Messages) PROVE ToSet(queue) \subseteq Messages
  BY <1>1 DEF ToSet
<1> QED
  BY <1>1 DEF Types, ChainTypes, JobTypes, TabTypes, PayTypes, TypeOK, Messages, PollStates, Calls

\* What is lost is on its way, and was a message.
LEMMA Lost ==
  ASSUME lost \subseteq Txs, NEW messages, messages \subseteq Messages, Lose(messages)
  PROVE  /\ lost' \subseteq Txs /\ lost \subseteq lost' /\ lost' \subseteq lost \cup messages
         /\ \A t \in Txs : t \in messages /\ txs[t] = "pending" => t \in lost'
  BY TxsAssumption DEF Lose, Messages

\* Sending a message puts it into the queue, or loses it.
LEMMA MessageSent ==
  ASSUME queue \in Seq(Messages), lost \subseteq Txs,
         NEW m \in Messages, Message(m)
  PROVE  /\ queue' \in Seq(Messages) /\ lost' \subseteq Txs
         /\ ToSet(queue) \subseteq ToSet(queue') /\ ToSet(queue') \subseteq ToSet(queue) \cup {m}
         /\ lost \subseteq lost' /\ lost' \subseteq lost \cup {m}
         /\ socket => m \in ToSet(queue')
         /\ ~socket => queue' = queue /\ (m \in Txs /\ txs[m] = "pending" => m \in lost')
<1>1. CASE socket
  <2>1. queue' = Append(queue, m) /\ lost' = lost
    BY <1>1 DEF Message
  <2>2. queue' \in Seq(Messages) /\ Len(queue') = Len(queue) + 1 /\ Len(queue) \in Nat
    BY <2>1
  <2>3. ASSUME NEW k \in 1 .. Len(queue) + 1
        PROVE  queue'[k] = IF k = Len(queue) + 1 THEN m ELSE queue[k]
    BY <2>1
  <2>4. DOMAIN queue' = 1 .. Len(queue) + 1 /\ DOMAIN queue = 1 .. Len(queue)
    BY <2>2
  <2>5. \A k \in DOMAIN queue' : queue'[k] \in ToSet(queue) \cup {m}
    BY <2>2, <2>3, <2>4 DEF ToSet
  <2>6. Len(queue) + 1 \in DOMAIN queue' /\ queue'[Len(queue) + 1] = m
    BY <2>2, <2>3, <2>4
  <2>7. \A k \in DOMAIN queue : k \in DOMAIN queue' /\ queue'[k] = queue[k]
    BY <2>2, <2>3, <2>4
  <2> QED
    BY <1>1, <2>1, <2>2, <2>5, <2>6, <2>7 DEF ToSet
<1>2. CASE ~socket
  <2>1. Lose({m}) /\ queue' = queue
    BY <1>2 DEF Message
  <2> QED
    BY <1>2, <2>1, Lost
<1> QED
  BY <1>1, <1>2

\* The first message is one of the queue, and the others remain.
LEMMA QueueRead ==
  ASSUME queue \in Seq(Messages), queue # <<>>, queue' = Tail(queue)
  PROVE  /\ Head(queue) \in Messages /\ Head(queue) \in ToSet(queue)
         /\ queue' \in Seq(Messages) /\ ToSet(queue') \subseteq ToSet(queue)
<1>1. Len(queue) \in Nat \ {0} /\ DOMAIN queue = 1 .. Len(queue)
  BY EmptySeq
<1>2. queue' \in Seq(Messages) /\ Len(queue') = Len(queue) - 1
      /\ \A k \in 1 .. Len(queue) - 1 : queue'[k] = queue[k + 1]
  BY <1>1
<1>3. DOMAIN queue' = 1 .. Len(queue) - 1
  BY <1>2
<1>4. \A k \in DOMAIN queue' : k + 1 \in DOMAIN queue /\ queue'[k] = queue[k + 1]
  BY <1>1, <1>2, <1>3
<1>5. Head(queue) = queue[1] /\ 1 \in DOMAIN queue /\ queue[1] \in Messages
  BY <1>1
<1> QED
  BY <1>2, <1>4, <1>5 DEF ToSet

\* An empty queue holds no message.
LEMMA NothingQueued == ToSet(<<>>) = {} /\ <<>> \in Seq(Messages)
  BY DEF ToSet

\* A poll that is started has seen nothing.
LEMMA StartedPolls ==
  ASSUME NEW now \in [Slots -> PollStates]
  PROVE  /\ Started(now) \in [Slots -> PollStates]
         /\ \A i \in Slots : Started(now)[i] = now[i] \/ Started(now)[i] = Fresh
<1>1. Fresh \in PollStates
  BY FundingAssumption DEF Fresh, PollStates
<1> QED
  BY <1>1 DEF Started, Fresh

\* What switching the views does.
LEMMA Toggled ==
  ASSUME NEW now \in [Slots -> PollStates], ToggleView(now)
  PROVE  /\ view' = (IF view = "main" THEN "tracker" ELSE "main")
         /\ polls' \in [Slots -> PollStates]
         /\ \A i \in Slots : polls'[i] = now[i] \/ polls'[i] = Fresh
         /\ faucet => polls' = now
  BY StartedPolls DEF ToggleView, ShowTracker, RunMain

\* Closing the socket empties the queue and forgets the transactions in it.
LEMMA Aborted ==
  ASSUME Types, Abort
  PROVE  /\ queue' = <<>> /\ queue' \in Seq(Messages) /\ ToSet(queue') = {}
         /\ wait' = NotWaiting /\ socket' = FALSE
         /\ lost \subseteq lost' /\ lost' \subseteq Txs /\ lost' \subseteq lost \cup ToSet(queue)
         /\ \A t \in Txs : t \in ToSet(queue) /\ txs[t] = "pending" => t \in lost'
<1>1. ToSet(queue) \subseteq Messages /\ Lose(ToSet(queue)) /\ lost \subseteq Txs
  BY DEF Types, JobTypes, PayTypes, ToSet, Abort
<1> QED
  BY <1>1, Lost, NothingQueued DEF Abort

\* No block is as late as the one that is never reached.
LEMMA InfIsLater == Inf \in Nat /\ Inf > MaxHeight
  BY FundingAssumption DEF Inf

\* A call with any block, and the calls there are before and at the start of a wait.
LEMMA CallTypes ==
  /\ NotWaiting \in Calls /\ NotWaiting.step = "none"
  /\ \A m \in Txs : [NotWaiting EXCEPT !.block = m] \in Calls
  /\ [NotWaiting EXCEPT !.step = "block", !.since = Inf, !.left = MaxLeft] \in Calls
<1>1. \A step \in {"none", "block"}, block \in Nat \cup Txs, since \in 0 .. Inf, left \in 0 .. MaxLeft :
        [step |-> step, block |-> block, since |-> since, enough |-> FALSE, left |-> left] \in Calls
  BY DEF Calls
<1>2. 0 \in 0 .. Inf /\ Inf \in 0 .. Inf /\ 0 \in 0 .. MaxLeft /\ MaxLeft \in 0 .. MaxLeft
  BY InfIsLater, FundingAssumption
<1>3. NotWaiting \in Calls
  BY <1>1, <1>2 DEF NotWaiting
<1>4. \A m \in Txs : [NotWaiting EXCEPT !.block = m] \in Calls
  BY <1>3 DEF Calls
<1>5. [NotWaiting EXCEPT !.step = "block", !.since = Inf, !.left = MaxLeft] \in Calls
  BY <1>2, <1>3 DEF Calls
<1> QED
  BY <1>3, <1>4, <1>5 DEF NotWaiting

-----------------------------------------------------------------------------
(* Steps of the page *)

\* What the browser does.
Page == Open \/ Tick \/ Poll \/ Leave \/ Payment

\* The page's steps leave the chain and the wizard's job alone.
LEMMA PageFrame ==
  ASSUME Page
  PROVE  UNCHANGED <<faucet, web3, eth, height, fundedAt, job, wait, faults>>
<1>1. CASE Open \/ Tick \/ Poll \/ Leave
  BY <1>1 DEF Open, Tick, Poll, PollBalance, PollConfig, PollRejected, Leave, chain
<1>2. CASE Payment
  BY <1>2 DEF Payment, Click, NotSent, Sign, TrackTransaction, ShowRamp, RampCreated, RampArrived,
       RampClosed, RampFailed, AskFaucet, Paying, chain
<1> QED
  BY <1>1, <1>2 DEF Page

\* A switch of the views for a payment.
LEMMA Switched ==
  ASSUME Types, NEW now \in [Slots -> PollStates], SwitchView(now)
  PROVE  /\ view' = (IF view = "main" THEN "tracker" ELSE "main")
         /\ polls' \in [Slots -> PollStates]
         /\ \A i \in Slots : polls'[i] = now[i] \/ polls'[i] = Fresh
         /\ faucet => polls' = now
         /\ crossed' \in BOOLEAN
         /\ ~crossed' => ~crossed /\ view # "tracker"
<1>1. ToggleView(now)
  BY DEF SwitchView
<1>2. crossed' \in BOOLEAN /\ (~crossed' => ~crossed /\ view # "tracker")
  BY Zenon DEF SwitchView
<1>3. /\ view' = (IF view = "main" THEN "tracker" ELSE "main")
      /\ polls' \in [Slots -> PollStates]
      /\ \A i \in Slots : polls'[i] = now[i] \/ polls'[i] = Fresh
      /\ faucet => polls' = now
  BY <1>1, Toggled
<1> QED
  BY <1>2, <1>3

\* A page that is gone leaves nothing but hashes that are lost.
LEMMA Forgotten ==
  ASSUME Types, Forget
  PROVE  /\ offer' = 0 /\ leaving' = FALSE /\ clicks' = 0 /\ sent' = {} /\ ramp' = "off"
         /\ crossed' = FALSE /\ crossed' \in BOOLEAN /\ leaving' \in BOOLEAN
         /\ lost \subseteq lost' /\ lost' \subseteq Txs /\ lost' \subseteq lost \cup sent
         /\ \A t \in Txs : t \in sent /\ txs[t] = "pending" => t \in lost'
<1>1. sent \subseteq Messages /\ sent \subseteq Txs /\ lost \subseteq Txs /\ Lose(sent)
  BY DEF Types, PayTypes, Messages, Forget
<1>2. /\ lost \subseteq lost' /\ lost' \subseteq Txs /\ lost' \subseteq lost \cup sent
      /\ \A t \in Txs : t \in sent /\ txs[t] = "pending" => t \in lost'
  BY <1>1, Lost
<1>3. crossed' \in BOOLEAN /\ leaving' \in BOOLEAN
  BY Zenon DEF Forget
<1> QED
  BY <1>2, <1>3 DEF Forget

\* What is polled for next.
LEMMA PollTypes ==
  ASSUME Types
  PROVE  /\ Off \in PollStates /\ Fresh \in PollStates /\ Off.seen = 0 /\ Fresh.seen = 0
         /\ Off.step = "off" /\ [step |-> "config", seen |-> eth] \in PollStates
         /\ \A i \in Slots : [polls EXCEPT ![i] = Off] \in [Slots -> PollStates]
         /\ [i \in Slots |-> Off] \in [Slots -> PollStates]
         /\ \A i \in Slots : polls[i].seen \in 0 .. Required
<1>1. Off \in PollStates /\ Fresh \in PollStates /\ [step |-> "config", seen |-> eth] \in PollStates
  BY FundingAssumption DEF PollStates, Fresh, Types, ChainTypes
<1>2. Off.seen = 0 /\ Fresh.seen = 0 /\ Off.step = "off" /\ 0 \in 0 .. Required
  BY FundingAssumption DEF Off, Fresh
<1>3. \A i \in Slots : polls[i].seen \in 0 .. Required
  BY <1>2 DEF Types, TabTypes, PollStates
<1> QED
  BY <1>1, <1>2, <1>3 DEF Types, TabTypes

\* What a poll of the configuration does.
LEMMA ConfigPolled ==
  ASSUME Types, NEW i \in Slots, PollConfig(i)
  PROVE  LET seen == polls[i].seen
             rest == [polls EXCEPT ![i] = Off]
         IN  /\ polls[i] # Off /\ job = "none" /\ rest \in [Slots -> PollStates]
             /\ UNCHANGED <<chain, hash, socket, clicks, sent, ramp, bought>>
             /\ \/ Resumes(seen) /\ Message(hash) /\ SwitchView(rest) /\ UNCHANGED <<offer, leaving>>
                \/ /\ ~Resumes(seen) /\ polls' = rest /\ offer' \in 0 .. Required
                   /\ leaving' \in BOOLEAN /\ (leaving' => leaving \/ seen >= Required)
                   /\ offer' = 0 => ~web3 \/ seen >= Required
                   /\ offer' > 0 => web3
                   /\ UNCHANGED <<view, queue, crossed, lost>>
<1> DEFINE seen == polls[i].seen
           rest == [polls EXCEPT ![i] = Off]
<1>1. /\ polls[i] # Off /\ job = "none" /\ rest \in [Slots -> PollStates]
      /\ UNCHANGED <<chain, hash, socket, clicks, sent, ramp, bought>>
      /\ seen \in 0 .. Required
  BY PollTypes DEF PollConfig, Idle, Off
<1>2. CASE Resumes(seen) /\ Message(hash) /\ SwitchView(rest) /\ UNCHANGED <<offer, leaving>>
  BY <1>1, <1>2
<1>3. CASE /\ ~Resumes(seen) /\ polls' = rest
           /\ leaving' = (leaving \/ (web3 /\ Enough(seen)))
           /\ offer' = (IF web3 /\ ~Enough(seen) THEN Required - seen ELSE 0)
           /\ UNCHANGED <<view, queue, crossed, lost>>
  <2>1. leaving' \in BOOLEAN /\ (leaving' => leaving \/ seen >= Required)
    BY <1>3, Zenon DEF Enough
  <2>2. /\ offer' \in 0 .. Required
        /\ offer' = 0 => ~web3 \/ seen >= Required
        /\ offer' > 0 => web3
    <3>1. CASE web3 /\ ~Enough(seen)
      <4>1. offer' = Required - seen
        BY <1>3, <3>1
      <4> HIDE DEF seen
      <4>2. seen < Required
        BY <1>1, <3>1, FundingAssumption DEF Enough
      <4> QED
        BY <1>1, <3>1, <4>1, <4>2, FundingAssumption
    <3>2. CASE ~(web3 /\ ~Enough(seen))
      <4>1. offer' = 0 /\ (~web3 \/ Enough(seen))
        BY <1>3, <3>2
      <4> QED
        BY <4>1, FundingAssumption DEF Enough
    <3> QED
      BY <3>1, <3>2
  <2> QED
    BY <1>1, <1>3, <2>1, <2>2
<1> QED
  BY <1>1, <1>2, <1>3 DEF PollConfig

-----------------------------------------------------------------------------
(* The types *)

\* The page's steps keep the types.
LEMMA PageTypesStep ==
  ASSUME Types, Page
  PROVE  Types'
<1> USE FundingAssumption DEF Types
<1>0. NoTx \in Messages /\ Txs \subseteq Messages /\ NoTx \notin Txs
  BY TxsAssumption DEF Messages
<1>00. UNCHANGED <<faucet, web3, eth, height, fundedAt, job, wait, faults>>
  BY PageFrame
<1>000. ASSUME UNCHANGED txs, queue' \in Seq(Messages), hash' \in Messages, TabTypes', PayTypes'
        PROVE  Types'
  BY <1>00, <1>000 DEF ChainTypes, JobTypes
<1>1. CASE Open
  <2>1. PayTypes'
    <3>1. /\ clicks' = 0 /\ sent' = {} /\ ramp' = "off" /\ crossed' \in BOOLEAN /\ lost' \subseteq Txs
          /\ bought' = 0
      BY <1>1, Forgotten DEF Open
    <3> QED
      BY <1>00, <3>1 DEF PayTypes
  <2>2. polls' \in [Slots -> PollStates]
    <3>1. \A i \in Slots : polls'[i] = Fresh \/ polls'[i] = Off
      BY <1>1 DEF Open, Fresh
    <3>2. polls' = [i \in Slots |-> polls'[i]]
      BY <1>1 DEF Open
    <3> QED
      BY <3>1, <3>2, PollTypes
  <2>3. TabTypes'
    <3>1. offer' = 0 /\ leaving' \in BOOLEAN /\ view' = "main"
      BY <1>1, Forgotten DEF Open
    <3>2. socket' \in BOOLEAN
      BY <1>1, Zenon DEF Open
    <3> QED
      BY <2>2, <3>1, <3>2 DEF TabTypes
  <2> QED
    BY <1>0, <1>000, <1>1, <2>1, <2>3 DEF Open, chain, JobTypes
<1>2. CASE Tick
  <2>1. polls' \in [Slots -> PollStates]
    BY <1>2, StartedPolls DEF Tick, RunMain, TabTypes
  <2> QED
    BY <1>000, <1>2, <2>1 DEF Tick, RunMain, chain, JobTypes, TabTypes, PayTypes, pays
<1>3. ASSUME NEW i \in Slots, PollBalance(i) \/ PollRejected(i) PROVE Types'
  <2>1. polls' \in [Slots -> PollStates]
    BY <1>3, PollTypes DEF PollBalance, PollRejected, TabTypes
  <2> QED
    BY <1>000, <1>3, <2>1 DEF PollBalance, PollRejected, chain, JobTypes, TabTypes, PayTypes, pays
<1>4. ASSUME NEW i \in Slots, PollConfig(i) PROVE Types'
  <2> DEFINE seen == polls[i].seen
             rest == [polls EXCEPT ![i] = Off]
  <2>1. /\ rest \in [Slots -> PollStates]
        /\ UNCHANGED <<chain, hash, socket, clicks, sent, ramp, bought>>
    BY <1>4, ConfigPolled
  <2>2. CASE /\ Message(hash) /\ SwitchView(rest) /\ UNCHANGED <<offer, leaving>>
    <3>1. queue' \in Seq(Messages) /\ lost' \subseteq Txs
      BY <2>2, MessageSent DEF JobTypes, PayTypes
    <3>2. polls' \in [Slots -> PollStates] /\ view' \in {"main", "tracker"} /\ crossed' \in BOOLEAN
      BY <2>1, <2>2, Switched
    <3> QED
      BY <1>00, <1>000, <2>1, <2>2, <3>1, <3>2 DEF chain, JobTypes, TabTypes, PayTypes
  <2>3. CASE /\ polls' = rest /\ offer' \in 0 .. Required /\ leaving' \in BOOLEAN
             /\ UNCHANGED <<view, queue, crossed, lost>>
    BY <1>00, <1>000, <2>1, <2>3 DEF chain, JobTypes, TabTypes, PayTypes
  <2> QED
    BY <1>4, <2>2, <2>3, ConfigPolled
<1>5. CASE Leave
  <2>1. PayTypes'
    <3>1. /\ clicks' = 0 /\ sent' = {} /\ ramp' = "off" /\ crossed' \in BOOLEAN /\ lost' \subseteq Txs
          /\ bought' = bought
      BY <1>5, Forgotten DEF Leave
    <3> QED
      BY <1>00, <3>1 DEF PayTypes
  <2>2. TabTypes'
    <3>1. offer' = 0 /\ leaving' \in BOOLEAN /\ view' \in {"none", "next"}
          /\ polls' \in [Slots -> PollStates]
      BY <1>5, Forgotten, PollTypes DEF Leave
    <3>2. socket' \in BOOLEAN
      BY <1>5, Zenon DEF Leave
    <3> QED
      BY <3>1, <3>2 DEF TabTypes
  <2> QED
    BY <1>000, <1>5, <2>1, <2>2 DEF Leave, chain, JobTypes
<1>6. CASE Click \/ NotSent
  <2>1. clicks' \in 0 .. MaxClicks
    BY <1>6 DEF Click, NotSent, PayTypes
  <2> QED
    BY <1>000, <1>6, <2>1 DEF Click, NotSent, Paying, chain, JobTypes, TabTypes, PayTypes
<1>7. ASSUME NEW t \in Txs, Sign(t) PROVE Types'
  <2>1. txs' \in [Txs -> {"none", "pending", "mined", "dropped"}] /\ clicks' \in 0 .. MaxClicks
        /\ sent' \subseteq Txs
    BY <1>7 DEF Sign, ChainTypes, PayTypes
  <2> QED
    BY <1>00, <1>7, <2>1 DEF Sign, tab, ChainTypes, JobTypes, TabTypes, PayTypes
<1>8. ASSUME NEW t \in Txs, TrackTransaction(t) PROVE Types'
  <2>1. queue' \in Seq(Messages) /\ lost' \subseteq Txs
    BY <1>0, <1>8, MessageSent DEF TrackTransaction, JobTypes, PayTypes
  <2>2. polls' \in [Slots -> PollStates] /\ view' \in {"main", "tracker"} /\ crossed' \in BOOLEAN
    BY <1>8, Switched DEF TrackTransaction, TabTypes
  <2> QED
    BY <1>000, <1>8, <2>1, <2>2 DEF TrackTransaction, Paying, chain, JobTypes, TabTypes, PayTypes
<1>9. CASE ShowRamp \/ RampClosed
  <2>1. ramp' \in {"off", "widget"} /\ bought' \in 0 .. Required
    BY <1>9 DEF ShowRamp, RampClosed, TabTypes
  <2>2. UNCHANGED <<chain, hash, queue, view, offer, polls, socket, leaving, clicks, sent, crossed, lost>>
    BY <1>9 DEF ShowRamp, RampClosed, Paying
  <2> QED
    BY <1>00, <1>000, <2>1, <2>2 DEF chain, JobTypes, TabTypes, PayTypes
<1>13. CASE RampArrived
  <2>1. leaving' \in BOOLEAN
    BY <1>13, Zenon DEF RampArrived
  <2>2. ramp' = "arrived"
        /\ UNCHANGED <<chain, hash, queue, view, offer, polls, socket, clicks, sent, bought, crossed, lost>>
    BY <1>13 DEF RampArrived
  <2> QED
    BY <1>00, <1>000, <2>1, <2>2 DEF chain, JobTypes, TabTypes, PayTypes
<1>10. CASE RampCreated
  <2>1. polls' \in [Slots -> PollStates] /\ view' \in {"main", "tracker"} /\ crossed' \in BOOLEAN
    BY <1>10, Switched DEF RampCreated, TabTypes
  <2> QED
    BY <1>000, <1>10, <2>1 DEF RampCreated, Paying, chain, JobTypes, TabTypes, PayTypes
<1>11. CASE RampFailed
  <2>1. polls' \in [Slots -> PollStates] /\ view' \in {"main", "tracker"}
    BY <1>11, Toggled DEF RampFailed, TabTypes
  <2> QED
    BY <1>000, <1>11, <2>1 DEF RampFailed, Paying, chain, JobTypes, TabTypes, PayTypes
<1>12. CASE AskFaucet
  <2>1. queue' \in Seq(Messages) /\ lost' \subseteq Txs
    BY <1>0, <1>12, MessageSent DEF AskFaucet, JobTypes, PayTypes
  <2> QED
    BY <1>000, <1>12, <2>1 DEF AskFaucet, ShowTracker, chain, JobTypes, TabTypes, PayTypes, pays
<1> QED
  BY <1>1, <1>2, <1>3, <1>4, <1>5, <1>6, <1>7, <1>8, <1>9, <1>10, <1>11, <1>12,
     <1>13 DEF Page, Poll, Payment

\* The wizard's steps keep the types.
LEMMA WizardTypesStep ==
  ASSUME Types, Known, Waits, Crash \/ Raise \/ Restart \/ Serve
  PROVE  Types'
<1> USE FundingAssumption DEF Types
<1>1. ASSUME UNCHANGED <<chain, hash, view, offer, leaving, pays>>, Abort, faults' \in 0 .. MaxFaults,
             job' \in {"none", "track", "fund", "down"}, polls' \in [Slots -> PollStates]
      PROVE  Types'
  <2>1. wait' \in Calls /\ socket' \in BOOLEAN /\ queue' \in Seq(Messages) /\ lost' \subseteq Txs
    BY <1>1, Aborted, CallTypes
  <2> QED
    BY <1>1, <2>1 DEF chain, pays, ChainTypes, JobTypes, TabTypes, PayTypes
<1>2. CASE Crash \/ Raise \/ TrackTimeout
  <2>1. faults' \in 0 .. MaxFaults
    BY <1>2 DEF Crash, Raise, TrackTimeout, PayTypes
  <2>2. polls' \in [Slots -> PollStates] /\ job' \in {"none", "down"} /\ Abort
        /\ UNCHANGED <<chain, hash, view, offer, leaving, pays>>
    BY <1>2, PollTypes DEF Crash, Raise, TrackTimeout, End, TabTypes
  <2> QED
    BY <1>1, <2>1, <2>2
<1>3. CASE Restart
  BY <1>3 DEF Restart, ChainTypes, JobTypes, TabTypes, PayTypes, chain, tab, pays
<1>4. CASE Track
  <2>1. Head(queue) \in Txs /\ queue' \in Seq(Messages)
    BY <1>4, QueueRead DEF Track, JobTypes, Messages
  <2> QED
    BY <1>4, <2>1, CallTypes DEF Track, ChainTypes, JobTypes, TabTypes, PayTypes, chain, tab, pays, Messages
<1>5. ASSUME Redirect, wait' \in Calls, hash' \in Messages, job' = "none", UNCHANGED <<chain, queue, pays, lost, faults>>
      PROVE  Types'
  <2>1. leaving' \in BOOLEAN
    BY <1>5, Zenon DEF Redirect
  <2> QED
    BY <1>5, <2>1 DEF Redirect, ChainTypes, JobTypes, TabTypes, PayTypes, chain, pays
<1>6. CASE TrackDone \/ Funded
  <2>1. wait' = NotWaiting /\ hash' \in Messages /\ Redirect /\ job' = "none"
        /\ UNCHANGED <<chain, queue, pays, lost, faults>>
    BY <1>6 DEF TrackDone, Funded, JobTypes, Messages
  <2> QED
    BY <1>5, <2>1, CallTypes
<1>7. CASE Fund
  <2>1. queue' \in Seq(Messages)
    BY <1>7, QueueRead DEF Fund, JobTypes
  <2> QED
    BY <1>7, <2>1, CallTypes DEF Fund, ChainTypes, JobTypes, TabTypes, PayTypes, chain, tab, pays
<1>8. ASSUME StillWaiting, wait' \in Calls PROVE Types'
  BY <1>8 DEF StillWaiting, ChainTypes, JobTypes, TabTypes, PayTypes, chain, tab, pays
<1>9. CASE ReadBlock
  <2>1. height \in Nat \cup Txs /\ wait \in Calls
    BY DEF ChainTypes, JobTypes
  <2>2. wait' \in Calls
    BY <1>9, <2>1 DEF ReadBlock, Calls
  <2> QED
    BY <1>8, <1>9, <2>2 DEF ReadBlock
<1>10. CASE ReadBalance
  <2>1. wait \in Calls /\ (eth >= Required) \in BOOLEAN
    BY DEF JobTypes
  <2>2. wait' \in Calls
    BY <1>10, <2>1 DEF ReadBalance, Calls
  <2> QED
    BY <1>8, <1>10, <2>2 DEF ReadBalance
<1>11. CASE Mark
  <2>1. Since \in 0 .. Inf /\ wait.left - 1 \in 0 .. MaxLeft
    BY <1>11, InfIsLater DEF Mark, Waiting, Waits, Since, JobTypes, ChainTypes, Calls
  <2>2. wait' \in Calls
    BY <1>11, <2>1 DEF Mark, JobTypes, Calls
  <2> QED
    BY <1>8, <1>11, <2>2 DEF Mark
<1> QED
  BY <1>2, <1>3, <1>4, <1>6, <1>7, <1>9, <1>10, <1>11 DEF Serve

\* What the chain does leaves wizard and page alone, and ETH only comes.
LEMMA ChainStep ==
  ASSUME Types, Gift \/ NewBlock \/ \E t \in Txs : Mine(t) \/ Drop(t)
  PROVE  /\ Types' /\ UNCHANGED <<faucet, web3, hash, job, queue, wait, tab, pays, faults>>
         /\ eth' >= eth /\ height' >= height
         /\ eth = Required => eth' = Required /\ fundedAt' = fundedAt
         /\ \A t \in Txs : txs'[t] = "mined" => txs[t] = "mined" \/ eth' = Required
         /\ \A t \in Txs : txs'[t] = "pending" => txs[t] = "pending" /\ (t \in lost => t \in lost')
<1> USE FundingAssumption DEF Types, ChainTypes
<1>1. ASSUME NEW n \in 1 .. Required, Receive(n)
      PROVE  /\ eth' \in 1 .. Required /\ eth' >= eth /\ fundedAt' \in 0 .. height
             /\ eth = Required => eth' = Required /\ fundedAt' = fundedAt
             /\ n = Required => eth' = Required
  BY <1>1 DEF Receive
<1>2. CASE Gift
  <2>1. PICK n \in 1 .. Required - eth : Receive(n)
    BY <1>2 DEF Gift
  <2>2. n \in 1 .. Required
    BY <2>1
  <2> QED
    BY <1>1, <1>2, <2>1, <2>2 DEF Gift, JobTypes, TabTypes, PayTypes, tab, pays
<1>3. CASE NewBlock
  BY <1>3 DEF NewBlock, JobTypes, TabTypes, PayTypes, tab, pays
<1>4. ASSUME NEW t \in Txs, Mine(t)
      PROVE  /\ Types' /\ UNCHANGED <<faucet, web3, hash, job, queue, wait, tab, pays, faults, height>>
             /\ eth' >= eth /\ eth' = Required
             /\ eth = Required => fundedAt' = fundedAt
             /\ \A u \in Txs : txs'[u] = "pending" => txs[u] = "pending" /\ (u \in lost => u \in lost')
  <2>1. Required \in 1 .. Required /\ Receive(Required)
    BY <1>4 DEF Mine
  <2>2. /\ eth' \in 1 .. Required /\ eth' >= eth /\ fundedAt' \in 0 .. height
        /\ eth' = Required /\ (eth = Required => fundedAt' = fundedAt)
    BY <1>1, <2>1
  <2>3. UNCHANGED <<faucet, web3, hash, job, queue, wait, tab, pays, faults, height>>
        /\ txs' = [txs EXCEPT ![t] = "mined"] /\ lost' = lost \ {t}
    BY <1>4 DEF Mine
  <2>4. Types'
    BY <2>2, <2>3 DEF JobTypes, TabTypes, PayTypes, tab, pays
  <2> QED
    BY <2>2, <2>3, <2>4
<1>5. ASSUME NEW t \in Txs, Drop(t)
      PROVE  /\ Types' /\ UNCHANGED <<faucet, web3, hash, job, queue, wait, tab, pays, faults, eth, height, fundedAt>>
             /\ \A u \in Txs : /\ txs'[u] = "mined" => txs[u] = "mined"
                               /\ txs'[u] = "pending" => txs[u] = "pending" /\ (u \in lost => u \in lost')
  BY <1>5 DEF Drop, JobTypes, TabTypes, PayTypes, tab, pays
<1>6. CASE \E t \in Txs : Mine(t)
  BY <1>4, <1>6
<1>7. CASE \E t \in Txs : Drop(t)
  BY <1>5, <1>7
<1> QED
  BY <1>2, <1>3, <1>6, <1>7

-----------------------------------------------------------------------------
(* What polls, payments and jobs stand for *)

\* Where a faucet pays, the page polls, offers and pays nothing: these steps are none.
LEMMA OnlyWithoutFaucet ==
  ASSUME Types, Known, Tick \/ Poll \/ (Payment /\ ~AskFaucet)
  PROVE  ~faucet
<1>1. Off.step = "off"
  BY DEF Off
<1>2. CASE Tick
  BY <1>2 DEF Tick
<1>3. CASE Poll
  BY <1>1, <1>3 DEF Poll, PollBalance, PollConfig, PollRejected, Known
<1>4. CASE Click \/ NotSent \/ \E t \in Txs : Sign(t) \/ TrackTransaction(t)
  BY <1>4 DEF Click, NotSent, Sign, TrackTransaction, Known
<1>5. CASE ShowRamp \/ RampCreated \/ RampArrived \/ RampClosed \/ RampFailed
  BY <1>5 DEF ShowRamp, RampCreated, RampArrived, RampClosed, RampFailed, Known
<1> QED
  BY <1>2, <1>3, <1>4, <1>5 DEF Payment

\* Polls saw what is there, over the page's steps.
LEMMA KnownPageStep ==
  ASSUME Types, NoPage, Known, Page
  PROVE  NoPage' /\ Known'
<1> USE FundingAssumption DEF Types, ChainTypes
<1>0. NoTx \notin Txs /\ eth >= 0
  BY TxsAssumption
<1>00. UNCHANGED <<faucet, web3, eth, height, fundedAt, job, wait, faults>>
  BY PageFrame
<1>01. ASSUME UNCHANGED txs, ToSet(queue') \subseteq ToSet(queue) \cup Txs,
              \A i \in Slots : polls'[i].seen <= eth,
              faucet => offer' = 0 /\ clicks' = 0 /\ sent' = {} /\ ramp' = "off" /\ \A i \in Slots : polls'[i] = Off,
              offer' > 0 => web3, ramp' # "off" => bought' > 0
       PROVE  Known'
  BY <1>0, <1>00, <1>01 DEF Known
<1>1. CASE Open
  <2>1. \A i \in Slots : (polls'[i] = Off \/ polls'[i] = Fresh) /\ (faucet => polls'[i] = Off)
    BY <1>1 DEF Open, Fresh
  <2>2. \A i \in Slots : polls'[i].seen <= eth
    BY <1>0, <2>1, PollTypes
  <2>3. /\ offer' = 0 /\ clicks' = 0 /\ sent' = {} /\ ramp' = "off" /\ view' = "main"
        /\ UNCHANGED <<chain, queue>>
    BY <1>1, Forgotten DEF Open
  <2> QED
    BY <1>01, <2>1, <2>2, <2>3 DEF NoPage, chain
<1>2. CASE Tick
  <2>1. \A i \in Slots : polls'[i] = polls[i] \/ polls'[i] = Fresh
    BY <1>2, StartedPolls DEF Tick, RunMain, TabTypes
  <2>2. \A i \in Slots : polls'[i].seen <= eth
    BY <1>0, <2>1, PollTypes DEF Known
  <2>3. view' = "main" /\ ~faucet /\ UNCHANGED <<chain, queue, offer, pays>>
    BY <1>2 DEF Tick, RunMain
  <2> QED
    BY <1>01, <2>2, <2>3 DEF Known, NoPage, chain, pays
<1>3. ASSUME NEW i \in Slots, PollBalance(i) \/ PollRejected(i) PROVE NoPage' /\ Known'
  <2>1. [step |-> "config", seen |-> eth].seen = eth
    OBVIOUS
  <2>2. \A k \in Slots : polls'[k].seen <= eth
    BY <1>0, <1>3, <2>1, PollTypes DEF PollBalance, PollRejected, Known, TabTypes
  <2>3. polls[i] # Off /\ UNCHANGED <<chain, queue, view, offer, socket, leaving, pays>>
    BY <1>3, PollTypes DEF PollBalance, PollRejected
  <2>4. ~faucet
    BY <2>3 DEF Known
  <2>5. view \notin {"none", "next"}
    BY <2>3 DEF NoPage
  <2> QED
    BY <1>01, <2>2, <2>3, <2>4, <2>5 DEF Known, NoPage, chain, pays
<1>4. ASSUME NEW i \in Slots, PollConfig(i) PROVE NoPage' /\ Known'
  <2> DEFINE seen == polls[i].seen
             rest == [polls EXCEPT ![i] = Off]
  <2>1. /\ polls[i] # Off /\ rest \in [Slots -> PollStates]
        /\ UNCHANGED <<chain, hash, socket, clicks, sent, ramp, bought>>
    BY <1>4, ConfigPolled
  <2>2. ~faucet /\ view \notin {"none", "next"} /\ \A k \in Slots : rest[k].seen <= eth
    BY <1>0, <2>1, PollTypes DEF Known, NoPage, TabTypes
  <2>3. CASE Resumes(seen) /\ Message(hash) /\ SwitchView(rest) /\ UNCHANGED <<offer, leaving>>
    <3>1. ToSet(queue') \subseteq ToSet(queue) \cup {hash} /\ hash \in Txs
      BY <2>3, MessageSent DEF Resumes, JobTypes, PayTypes, Messages
    <3>2. view' \in {"main", "tracker"} /\ \A k \in Slots : polls'[k] = rest[k] \/ polls'[k] = Fresh
      BY <2>1, <2>3, Switched
    <3>3. \A k \in Slots : polls'[k].seen <= eth
      BY <1>0, <2>2, <3>2, PollTypes
    <3> QED
      BY <1>01, <2>1, <2>2, <2>3, <3>1, <3>2, <3>3 DEF Known, NoPage, chain
  <2>4. CASE /\ polls' = rest /\ (offer' > 0 => web3) /\ UNCHANGED <<view, queue>>
    BY <1>01, <2>1, <2>2, <2>4 DEF Known, NoPage, chain
  <2> QED
    BY <1>4, <2>3, <2>4, ConfigPolled
<1>5. CASE Leave
  <2>1. /\ offer' = 0 /\ leaving' = FALSE /\ clicks' = 0 /\ sent' = {} /\ ramp' = "off"
        /\ UNCHANGED <<chain, queue>> /\ socket' = FALSE /\ \A i \in Slots : polls'[i] = Off
    BY <1>5, Forgotten DEF Leave
  <2>2. \A i \in Slots : polls'[i].seen <= eth
    BY <1>0, <2>1, PollTypes
  <2> QED
    BY <1>01, <2>1, <2>2 DEF NoPage, chain
<1>6. CASE Payment /\ ~AskFaucet
  <2>1. ~faucet
    BY <1>6, OnlyWithoutFaucet
  <2>2. view \notin {"none", "next"}
    <3>1. view = "main" \/ clicks > 0 \/ sent # {} \/ ramp # "off"
      BY <1>6 DEF Payment, Click, NotSent, Sign, TrackTransaction, ShowRamp, RampCreated,
           RampArrived, RampClosed, RampFailed
    <3> QED
      BY <3>1 DEF NoPage
  <2>3. ASSUME UNCHANGED <<txs, queue, view, polls, offer>>, ramp' # "off" => bought' > 0
        PROVE  NoPage' /\ Known'
    BY <1>01, <2>1, <2>2, <2>3 DEF Known, NoPage
  <2>4. ASSUME UNCHANGED <<txs, offer>>, ToSet(queue') \subseteq ToSet(queue) \cup Txs,
               view' \in {"main", "tracker"},
               \A i \in Slots : polls'[i] = polls[i] \/ polls'[i] = Fresh,
               ramp' # "off" => ramp # "off" /\ bought' = bought
        PROVE  NoPage' /\ Known'
    <3>1. \A i \in Slots : polls'[i].seen <= eth
      BY <1>0, <2>4, PollTypes DEF Known
    <3> QED
      BY <1>01, <2>1, <2>4, <3>1 DEF Known, NoPage
  <2>5. CASE Click \/ NotSent \/ RampClosed
    BY <2>3, <2>5 DEF Click, NotSent, RampClosed, Paying, chain, Known
  <2>6. CASE ShowRamp
    BY <2>3, <2>6 DEF ShowRamp, Paying, chain
  <2>7. CASE RampArrived
    BY <2>3, <2>7 DEF RampArrived, chain, Known
  <2>8. ASSUME NEW t \in Txs, Sign(t) PROVE NoPage' /\ Known'
    <3>1. /\ \A u \in Txs : txs'[u] = "mined" => txs[u] = "mined"
          /\ UNCHANGED <<queue, view, offer, polls, socket, leaving, ramp, bought>>
      BY <2>8 DEF Sign, tab
    <3> QED
      BY <1>00, <2>1, <2>2, <3>1 DEF Known, NoPage
  <2>9. ASSUME NEW t \in Txs, TrackTransaction(t) PROVE NoPage' /\ Known'
    <3>1. /\ UNCHANGED <<txs, offer, ramp, bought>> /\ Message(t) /\ SwitchView(polls)
      BY <2>9 DEF TrackTransaction, Paying, chain
    <3>2. ToSet(queue') \subseteq ToSet(queue) \cup Txs
      BY <3>1, MessageSent DEF JobTypes, PayTypes, Messages
    <3>3. view' \in {"main", "tracker"} /\ \A i \in Slots : polls'[i] = polls[i] \/ polls'[i] = Fresh
      BY <3>1, Switched DEF TabTypes
    <3> QED
      BY <2>4, <3>1, <3>2, <3>3
  <2>10. CASE RampCreated
    <3>1. view' \in {"main", "tracker"} /\ \A i \in Slots : polls'[i] = polls[i] \/ polls'[i] = Fresh
      BY <2>10, Switched DEF RampCreated, TabTypes
    <3> QED
      BY <2>4, <2>10, <3>1 DEF RampCreated, Paying, chain
  <2>11. CASE RampFailed
    <3>1. view' \in {"main", "tracker"} /\ \A i \in Slots : polls'[i] = polls[i] \/ polls'[i] = Fresh
      BY <2>11, Toggled DEF RampFailed, TabTypes
    <3> QED
      BY <2>4, <2>11, <3>1 DEF RampFailed, Paying, chain
  <2> QED
    BY <1>6, <2>5, <2>6, <2>7, <2>8, <2>9, <2>10, <2>11 DEF Payment
<1>7. CASE AskFaucet
  <2>1. ToSet(queue') \subseteq ToSet(queue) \cup {NoTx} /\ faucet /\ view' = "tracker"
        /\ UNCHANGED <<chain, offer, socket, leaving, pays, polls>>
    BY <1>7, MessageSent DEF AskFaucet, ShowTracker, JobTypes, PayTypes, Messages
  <2> QED
    BY <1>00, <2>1 DEF Known, NoPage, chain, pays
<1> QED
  BY <1>1, <1>2, <1>3, <1>4, <1>5, <1>6, <1>7 DEF Page, Poll

\* What the wizard does, leaves the page or takes its socket.
LEMMA WizardFrame ==
  ASSUME Types, Crash \/ Raise \/ Restart \/ Serve
  PROVE  /\ UNCHANGED <<chain, view, offer, pays>>
         /\ \/ UNCHANGED <<polls, socket, lost>> /\ (leaving' => leaving \/ socket)
            \/ /\ Abort /\ UNCHANGED <<hash, leaving>> /\ job' \in {"none", "down"}
               /\ polls' = polls \/ \A i \in Slots : polls'[i] = Off
<1>1. CASE Crash \/ Raise \/ TrackTimeout
  <2>1. UNCHANGED <<chain, hash, view, offer, leaving, pays>> /\ Abort /\ job' \in {"none", "down"}
    BY <1>1 DEF Crash, Raise, TrackTimeout, End
  <2>2. polls' = polls \/ \A i \in Slots : polls'[i] = Off
    BY <1>1 DEF Crash, Raise, TrackTimeout, End
  <2> QED
    BY <2>1, <2>2
<1>2. CASE Restart \/ Track \/ Fund \/ ReadBlock \/ ReadBalance \/ Mark
  <2>1. UNCHANGED <<chain, tab, pays, lost>>
    BY <1>2 DEF Restart, Track, Fund, ReadBlock, ReadBalance, Mark, StillWaiting
  <2> QED
    BY <2>1 DEF tab
<1>3. CASE TrackDone \/ Funded
  <2>1. UNCHANGED <<chain, pays, lost>> /\ Redirect
    BY <1>3 DEF TrackDone, Funded
  <2>2. leaving' => leaving \/ socket
    BY <2>1, Zenon DEF Redirect
  <2> QED
    BY <2>1, <2>2 DEF Redirect
<1> QED
  BY <1>1, <1>2, <1>3 DEF Serve

\* The wizard runs for what was asked of it, over its steps.
LEMMA KnownWizardStep ==
  ASSUME Types, NoPage, Known, Crash \/ Raise \/ Restart \/ Serve
  PROVE  NoPage' /\ Known'
<1>0. NoTx \notin Txs /\ eth \in Nat /\ Off.seen = 0
  BY TxsAssumption, FundingAssumption DEF Types, ChainTypes, Off
<1>1. /\ UNCHANGED <<chain, view, offer, pays>>
      /\ \A i \in Slots : polls'[i] = polls[i] \/ polls'[i] = Off
      /\ socket' => socket
      /\ leaving' => leaving \/ socket
  <2>1. UNCHANGED <<chain, view, offer, pays>>
    BY WizardFrame
  <2>2. CASE UNCHANGED <<polls, socket>> /\ (leaving' => leaving \/ socket)
    BY <2>1, <2>2
  <2>3. CASE /\ Abort /\ UNCHANGED leaving
             /\ polls' = polls \/ \A i \in Slots : polls'[i] = Off
    BY <2>1, <2>3, Aborted
  <2> QED
    BY <2>2, <2>3, WizardFrame
<1>2. NoPage'
  BY <1>1, Zenon DEF NoPage, pays
<1>3. ASSUME ToSet(queue') \subseteq ToSet(queue), job' = "fund" => faucet, job' = "track" => wait'.block \in Txs
      PROVE  Known'
  <2>1. \A i \in Slots : polls'[i].seen <= eth
    BY <1>0, <1>1 DEF Known
  <2> QED
    BY <1>1, <1>3, <2>1 DEF Known, chain, pays
<1>4. CASE Crash \/ Raise \/ TrackTimeout
  <2>1. Abort /\ job' \in {"none", "down"}
    BY <1>4 DEF Crash, Raise, TrackTimeout, End
  <2> QED
    BY <1>2, <1>3, <2>1, Aborted
<1>5. CASE Restart
  BY <1>2, <1>3, <1>5 DEF Restart
<1>6. CASE Track
  <2>1. Head(queue) \in Txs /\ ToSet(queue') \subseteq ToSet(queue)
    BY <1>6, QueueRead DEF Track, Types, JobTypes, Messages
  <2>2. wait'.block = Head(queue) /\ job' = "track"
    BY <1>6 DEF Track, NotWaiting
  <2> QED
    BY <1>2, <1>3, <2>1, <2>2
<1>7. CASE Fund
  <2>1. NoTx \in ToSet(queue) /\ ToSet(queue') \subseteq ToSet(queue) /\ job' = "fund"
    BY <1>7, QueueRead DEF Fund, Types, JobTypes
  <2> QED
    BY <1>2, <1>3, <2>1 DEF Known
<1>8. CASE TrackDone \/ Funded
  BY <1>2, <1>3, <1>8 DEF TrackDone, Funded
<1>9. CASE ReadBlock \/ ReadBalance \/ Mark
  <2>1. UNCHANGED <<queue, job>> /\ job = "fund"
    BY <1>9 DEF ReadBlock, ReadBalance, Mark, StillWaiting, Waiting
  <2> QED
    BY <1>2, <1>3, <2>1 DEF Known
<1> QED
  BY <1>4, <1>5, <1>6, <1>7, <1>8, <1>9 DEF Serve

\* ETH only comes, over the chain's steps.
LEMMA KnownChainStep ==
  ASSUME Types, NoPage, Known, Gift \/ NewBlock \/ \E t \in Txs : Mine(t) \/ Drop(t)
  PROVE  NoPage' /\ Known'
<1>1. /\ UNCHANGED <<faucet, web3, hash, job, queue, wait, tab, pays>> /\ eth' >= eth /\ Types'
      /\ eth = Required => eth' = Required
      /\ \A t \in Txs : txs'[t] = "mined" => txs[t] = "mined" \/ eth' = Required
  BY ChainStep
<1>2. \A i \in Slots : polls'[i].seen <= eth'
  <2>1. \A i \in Slots : polls[i].seen \in Nat
    BY PollTypes, FundingAssumption
  <2> QED
    BY <1>1, <2>1, FundingAssumption DEF Known, tab, Types, ChainTypes
<1> QED
  BY <1>1, <1>2 DEF Known, NoPage, tab, pays

-----------------------------------------------------------------------------
(* The faucet's wait *)

\* What the wait rests on is not disturbed while it is the same, and nothing else has one.
LEMMA SameWait ==
  ASSUME Types, Waits, FundsConfirmed, wait' = wait \/ wait'.step = "none",
         Types', eth' >= eth, height' >= height,
         eth = Required => eth' = Required /\ fundedAt' = fundedAt
  PROVE  Waits' /\ FundsConfirmed'
<1>1. CASE wait'.step = "none"
  BY <1>1 DEF Waits, FundsConfirmed
<1>2. CASE wait' = wait
  <2>1. wait.block \in 0 .. height => wait.block \in 0 .. height'
    BY DEF Types, ChainTypes
  <2> QED
    BY <1>2, <2>1 DEF Waits, FundsConfirmed
<1> QED
  BY <1>1, <1>2

\* What the faucet's wait remembers of the chain stays true.
LEMMA WaitStep ==
  ASSUME Types, Types', Waits, FundsConfirmed, Next
  PROVE  Waits' /\ FundsConfirmed'
<1> USE DEF Types, ChainTypes
<1>1. ASSUME UNCHANGED <<eth, height, fundedAt>>, wait' = wait \/ wait'.step = "none"
      PROVE  Waits' /\ FundsConfirmed'
  BY <1>1, SameWait
<1>2. CASE Page
  BY <1>1, <1>2, PageFrame
<1>3. CASE Crash \/ Raise \/ Restart \/ Track \/ TrackDone \/ TrackTimeout \/ Funded
  <2>1. wait' = wait \/ wait'.step = "none"
    BY <1>3 DEF Crash, Raise, Restart, Track, TrackDone, TrackTimeout, Funded, End, Abort, NotWaiting
  <2>2. UNCHANGED <<eth, height, fundedAt>>
    BY <1>3, WizardFrame DEF Serve, chain
  <2> QED
    BY <1>1, <2>1, <2>2
<1>4. CASE Gift \/ NewBlock \/ \E t \in Txs : Mine(t) \/ Drop(t)
  BY <1>4, ChainStep, SameWait
<1>5. CASE Fund
  <2>1. wait'.step = "block" /\ wait'.block = 0 /\ wait'.since = Inf /\ wait'.left = MaxLeft
    BY <1>5 DEF Fund, NotWaiting
  <2>2. UNCHANGED <<eth, height, fundedAt>>
    BY <1>5 DEF Fund, chain
  <2> QED
    BY <2>1, <2>2, FundingAssumption DEF Waits, FundsConfirmed
<1>6. CASE ReadBlock
  <2>1. wait'.step = "balance" /\ wait'.block = height /\ wait'.since = wait.since
        /\ wait'.left = wait.left /\ wait.step = "block" /\ UNCHANGED <<eth, height, fundedAt>>
    BY <1>6 DEF ReadBlock, Waiting, StillWaiting, chain, JobTypes, Calls
  <2> QED
    BY <2>1 DEF Waits, FundsConfirmed
<1>7. CASE ReadBalance
  <2>1. wait'.step = "mark" /\ wait'.block = wait.block /\ wait'.since = wait.since
        /\ wait'.left = wait.left /\ wait.step = "balance" /\ UNCHANGED <<eth, height, fundedAt>>
    BY <1>7 DEF ReadBalance, Waiting, StillWaiting, chain, JobTypes, Calls
  <2>2. wait'.enough => eth = Required
    <3>1. wait'.enough = (eth >= Required)
      BY <1>7 DEF ReadBalance, JobTypes, Calls
    <3>2. wait'.enough => eth >= Required
      BY <3>1, Zenon
    <3> QED
      BY <3>2, FundingAssumption
  <2> QED
    BY <2>1, <2>2 DEF Waits, FundsConfirmed
<1>8. CASE Mark
  <2> DEFINE left == wait.left - 1
  <2>1. /\ wait'.since = Since /\ wait'.left = left /\ wait'.block = wait.block
        /\ wait'.step = IF Again(Since, left) THEN "block" ELSE "returned"
        /\ wait.step = "mark" /\ UNCHANGED <<eth, height, fundedAt>>
    BY <1>8 DEF Mark, Waiting, StillWaiting, chain, JobTypes, Calls
  <2>2. wait.block \in 0 .. height /\ wait.left \in Nat /\ wait.left > 0
    BY <2>1 DEF Waits, JobTypes, Calls
  <2>3. Since # Inf => eth = Required /\ fundedAt <= Since
    BY <2>1 DEF Since, Waits
  <2>4. ASSUME left > 0, ~Again(Since, left)
        PROVE  eth = Required /\ wait.block >= fundedAt + Confirmations
    <3>1. Since \in Nat
      BY InfIsLater DEF Since, JobTypes, Calls
    <3>2. wait.block >= Since + Confirmations
      BY <2>2, <2>4, <3>1, FundingAssumption DEF Again
    <3>3. Since # Inf
      BY <2>2, <3>2, InfIsLater, FundingAssumption
    <3> QED
      BY <2>2, <2>3, <3>1, <3>2, <3>3, FundingAssumption
  <2>5. Again(Since, left) => left > 0
    BY DEF Again
  <2> QED
    BY <2>1, <2>2, <2>3, <2>4, <2>5 DEF Waits, FundsConfirmed
<1> QED
  BY <1>2, <1>3, <1>4, <1>5, <1>6, <1>7, <1>8 DEF Next, Serve, Page

-----------------------------------------------------------------------------
(* The page after this one *)

\* The page is told to move on by what polls and waits have seen.
LEMMA MovesStep ==
  ASSUME Types, Known, Moves, Next
  PROVE  Moves'
<1> USE FundingAssumption DEF Types, ChainTypes
<1>1. CASE Gift \/ NewBlock \/ \E t \in Txs : Mine(t) \/ Drop(t)
  <2>1. /\ UNCHANGED <<faucet, tab, pays>> /\ eth' >= eth /\ eth' \in Nat
    BY <1>1, ChainStep
  <2> QED
    BY <2>1 DEF Moves, tab, pays, PayTypes
<1>2. ASSUME UNCHANGED <<faucet, eth, leaving, ramp, bought>> PROVE Moves'
  BY <1>2 DEF Moves
<1>3. ASSUME leaving' = FALSE PROVE Moves'
  BY <1>3 DEF Moves
<1>4. CASE Open \/ Leave
  BY <1>3, <1>4 DEF Open, Leave, Forget
<1>5. CASE Tick \/ AskFaucet \/ \E i \in Slots : PollBalance(i) \/ PollRejected(i)
  BY <1>2, <1>5 DEF Tick, AskFaucet, PollBalance, PollRejected, chain, pays
<1>6. ASSUME NEW i \in Slots, PollConfig(i) PROVE Moves'
  <2>1. /\ UNCHANGED <<chain, ramp, bought>>
        /\ leaving' => leaving \/ polls[i].seen >= Required
    BY <1>6, ConfigPolled
  <2>2. polls[i].seen >= Required => eth >= Required
    BY PollTypes DEF Known
  <2> QED
    BY <2>1, <2>2 DEF Moves, chain
<1>7. CASE Click \/ NotSent \/ \E t \in Txs : Sign(t) \/ TrackTransaction(t)
  BY <1>2, <1>7 DEF Click, NotSent, Sign, TrackTransaction, Paying, chain, tab
<1>8. CASE ShowRamp \/ RampCreated \/ RampClosed \/ RampFailed
  BY <1>8 DEF ShowRamp, RampCreated, RampClosed, RampFailed, Paying, chain, Moves
<1>9. CASE RampArrived
  BY <1>9 DEF RampArrived, Moves, chain
<1>10. CASE Crash \/ Raise \/ Restart \/ Track \/ TrackTimeout \/ Fund \/ ReadBlock \/ ReadBalance \/ Mark
  BY <1>2, <1>10 DEF Crash, Raise, Restart, Track, TrackTimeout, Fund, ReadBlock, ReadBalance, Mark,
       End, StillWaiting, chain, tab, pays
<1>11. CASE TrackDone
  <2>1. eth' = Required
    BY <1>11 DEF TrackDone, Known, chain
  <2> QED
    BY <2>1 DEF Moves
<1>12. CASE Funded
  BY <1>12 DEF Funded, Waiting, Known, Moves, chain
<1> QED
  BY <1>1, <1>4, <1>5, <1>6, <1>7, <1>8, <1>9, <1>10, <1>11, <1>12 DEF Next, Poll, Payment, Serve

\* The swap page opens only on a page that was told to move on.
LEMMA FundedStep ==
  ASSUME Types, NoPage, Known, Moves, SwapFunded, Next
  PROVE  SwapFunded'
<1> USE FundingAssumption DEF Types, ChainTypes
<1>1. CASE Gift \/ NewBlock \/ \E t \in Txs : Mine(t) \/ Drop(t)
  <2>1. /\ UNCHANGED <<faucet, tab, pays>> /\ eth' >= eth /\ eth' \in Nat
    BY <1>1, ChainStep
  <2> QED
    BY <2>1 DEF SwapFunded, tab, pays, PayTypes
<1>2. ASSUME UNCHANGED <<faucet, eth, view, bought>> PROVE SwapFunded'
  BY <1>2 DEF SwapFunded
<1>3. ASSUME view' # "next" PROVE SwapFunded'
  BY <1>3 DEF SwapFunded
<1>4. CASE Open \/ Tick \/ AskFaucet
  BY <1>3, <1>4 DEF Open, Tick, RunMain, AskFaucet, ShowTracker
<1>5. ASSUME NEW i \in Slots, PollBalance(i) \/ PollRejected(i) PROVE SwapFunded'
  BY <1>2, <1>5 DEF PollBalance, PollRejected, chain, pays
<1>6. ASSUME NEW i \in Slots, PollConfig(i) PROVE SwapFunded'
  <2> DEFINE rest == [polls EXCEPT ![i] = Off]
  <2>1. rest \in [Slots -> PollStates] /\ UNCHANGED <<chain, bought>>
    BY <1>6, ConfigPolled
  <2>2. CASE SwitchView(rest)
    BY <1>3, <2>1, <2>2, Switched
  <2>3. CASE UNCHANGED view
    BY <1>2, <2>1, <2>3 DEF chain
  <2> QED
    BY <1>6, <2>2, <2>3, ConfigPolled
<1>7. CASE Leave
  <2>1. CASE view' = "next"
    <3>1. ramp # "off" => bought > 0
      BY DEF Known
    <3>2. leaving /\ UNCHANGED <<faucet, eth, bought>>
      BY <1>7 DEF Leave, chain
    <3> QED
      BY <3>1, <3>2 DEF Moves, SwapFunded
  <2> QED
    BY <1>3, <2>1
<1>8. CASE Click \/ NotSent \/ RampArrived \/ \E t \in Txs : Sign(t)
  BY <1>2, <1>8 DEF Click, NotSent, RampArrived, Sign, Paying, chain, tab
<1>9. CASE RampCreated \/ RampFailed \/ \E t \in Txs : TrackTransaction(t)
  <2>1. view' \in {"main", "tracker"}
    BY <1>9, Switched, Toggled DEF RampCreated, RampFailed, TrackTransaction, TabTypes
  <2> QED
    BY <1>3, <2>1
<1>10. CASE ShowRamp \/ RampClosed
  <2>1. view # "next" /\ view' = view
    BY <1>10 DEF ShowRamp, RampClosed, NoPage
  <2> QED
    BY <1>3, <2>1
<1>11. CASE Crash \/ Raise \/ Restart \/ Serve
  BY <1>2, <1>11, WizardFrame DEF chain, pays
<1> QED
  BY <1>1, <1>4, <1>5, <1>6, <1>7, <1>8, <1>9, <1>10, <1>11 DEF Next, Poll, Payment

-----------------------------------------------------------------------------
(* What is followed *)

\* The page's steps keep track of what is on its way.
LEMMA FollowingPageStep ==
  ASSUME Types, NoPage, Known, Moves, Following, ~faucet', eth' = 0, Page
  PROVE  Following'
<1> USE FundingAssumption DEF Types, ChainTypes
<1>0. UNCHANGED <<faucet, eth>> /\ ~faucet /\ eth = 0
  BY PageFrame
<1>00. ~leaving /\ ~RampArrived
  BY <1>0 DEF Moves, Known, RampArrived, PayTypes
<1>01. /\ ~socket => queue = <<>>
       /\ hash = NoTx => Underway \subseteq ToSet(queue)
       /\ offer = 0 => clicks = 0 /\ sent = {} /\ ramp = "off"
       /\ offer = 0 /\ hash = NoTx => queue = <<>>
       /\ offer > 0 /\ ~crossed =>
            /\ ramp \in {"created", "arrived"} => view # "main"
            /\ view = "main" \/ ramp \in {"created", "arrived"} => queue = <<>> /\ hash = NoTx
  BY <1>0 DEF Following
<1>02. offer \in 0 .. Required /\ clicks \in 0 .. MaxClicks /\ sent \subseteq Txs
       /\ view \in {"none", "main", "tracker", "next"}
  BY DEF TabTypes, PayTypes
<1>03. ASSUME UNCHANGED <<hash, queue, offer, socket, crossed>>, Underway' \subseteq Underway, offer > 0,
              ~crossed => /\ ramp' \in {"created", "arrived"} => view' # "main"
                          /\ view' = "main" \/ ramp' \in {"created", "arrived"} => queue = <<>> /\ hash = NoTx
       PROVE  Following'
  BY <1>01, <1>03 DEF Following
<1>1. CASE Open
  <2>1. UNCHANGED <<txs, hash, queue>> /\ ~socket /\ socket' = TRUE
    BY <1>0, <1>1 DEF Open, chain
  <2>2. /\ offer' = 0 /\ clicks' = 0 /\ sent' = {} /\ ramp' = "off"
        /\ lost \subseteq lost' /\ \A t \in Txs : t \in sent /\ txs[t] = "pending" => t \in lost'
    BY <1>1, Forgotten DEF Open
  <2>3. Underway' \subseteq Underway
    BY <2>1, <2>2 DEF Underway
  <2> QED
    BY <1>01, <2>1, <2>2, <2>3 DEF Following
<1>2. CASE Tick \/ \E i \in Slots : PollBalance(i) \/ PollRejected(i)
  <2>1. UNCHANGED <<txs, hash, queue, offer, socket, pays, lost>> /\ view' = view
    BY <1>2 DEF Tick, PollBalance, PollRejected, RunMain, chain
  <2>2. Underway' = Underway
    BY <2>1 DEF Underway, pays
  <2> QED
    BY <1>0, <2>1, <2>2 DEF Following, pays
<1>3. ASSUME NEW i \in Slots, PollConfig(i) PROVE Following'
  <2> DEFINE seen == polls[i].seen
             rest == [polls EXCEPT ![i] = Off]
  <2>1. seen = 0
    BY <1>0, PollTypes DEF Known
  <2>2. /\ polls[i] # Off /\ rest \in [Slots -> PollStates]
        /\ UNCHANGED <<chain, hash, socket, clicks, sent, ramp, bought>>
    BY <1>3, ConfigPolled
  <2>3. view \in {"main", "tracker"}
    BY <1>02, <2>2 DEF NoPage
  <2>4. CASE Resumes(seen) /\ Message(hash) /\ SwitchView(rest) /\ UNCHANGED <<offer, leaving>>
    <3>1. hash # NoTx /\ (~socket => queue' = queue)
      BY <2>4, MessageSent DEF Resumes, JobTypes, PayTypes
    <3>2. crossed' \/ ~(offer > 0)
      BY <1>01, <2>2, <2>3, <2>4, <3>1, Switched
    <3> QED
      BY <1>01, <2>2, <2>4, <3>1, <3>2 DEF Following
  <2>5. CASE /\ ~Resumes(seen) /\ (offer' = 0 => ~web3 \/ seen >= Required)
             /\ UNCHANGED <<view, queue, crossed, lost>>
    <3>1. hash = NoTx /\ (offer' = 0 => offer = 0)
      BY <1>02, <2>1, <2>5 DEF Resumes, Known
    <3>2. Underway' = Underway
      BY <2>2, <2>5 DEF Underway, chain
    <3>3. CASE offer = 0
      BY <1>01, <2>2, <2>5, <3>1, <3>2, <3>3 DEF Following
    <3>4. CASE offer > 0
      <4>1. offer' # 0
        BY <3>1, <3>4
      <4> QED
        BY <1>01, <2>2, <2>5, <3>1, <3>2, <3>4, <4>1 DEF Following
    <3> QED
      BY <1>02, <3>3, <3>4
  <2> QED
    BY <1>3, <2>4, <2>5, ConfigPolled
<1>4. CASE Leave
  BY <1>00, <1>4 DEF Leave
<1>5. CASE Click \/ NotSent
  <2>1. offer > 0 /\ UNCHANGED <<txs, hash, queue, offer, socket, crossed, view, ramp, sent, lost>>
    BY <1>01, <1>02, <1>5 DEF Click, NotSent, Paying, chain
  <2>2. Underway' = Underway
    BY <2>1 DEF Underway
  <2> QED
    BY <1>01, <1>03, <2>1, <2>2
<1>6. ASSUME NEW t \in Txs, Sign(t) PROVE Following'
  <2>1. /\ offer > 0 /\ UNCHANGED <<hash, queue, offer, socket, crossed, view, ramp, lost>>
        /\ txs' = [txs EXCEPT ![t] = "pending"] /\ sent' = sent \cup {t}
    BY <1>01, <1>02, <1>6 DEF Sign, tab
  <2>2. Underway' \subseteq Underway
    BY <2>1 DEF Underway
  <2> QED
    BY <1>01, <1>03, <2>1, <2>2
<1>7. ASSUME NEW t \in Txs, TrackTransaction(t) PROVE Following'
  <2>1. /\ t \in sent /\ sent' = sent \ {t} /\ Message(t) /\ SwitchView(polls)
        /\ UNCHANGED <<txs, hash, offer, socket, ramp>>
    BY <1>7 DEF TrackTransaction, Paying, chain
  <2>2. /\ ToSet(queue) \subseteq ToSet(queue') /\ lost \subseteq lost'
        /\ socket => t \in ToSet(queue')
        /\ ~socket => queue' = queue /\ (txs[t] = "pending" => t \in lost')
    <3>1. t \in Messages
      BY DEF Messages
    <3> QED
      BY <2>1, <3>1, MessageSent DEF JobTypes, PayTypes
  <2>3. offer > 0
    BY <1>01, <1>02, <2>1
  <2>4. ASSUME hash = NoTx, NEW u \in Underway' PROVE u \in ToSet(queue')
    <3>1. u \in Txs /\ txs[u] = "pending" /\ u \notin lost' /\ u \notin sent'
      BY <2>1, <2>4 DEF Underway
    <3>2. CASE u = t
      BY <2>2, <3>1, <3>2
    <3>3. CASE u # t
      BY <1>01, <2>1, <2>2, <2>4, <3>1, <3>3 DEF Underway
    <3> QED
      BY <3>2, <3>3
  <2>5. ~crossed' => view' = "tracker" /\ ramp \notin {"created", "arrived"}
    <3>1. view \in {"main", "tracker"}
      BY <1>02, <2>1 DEF NoPage
    <3>2. ~crossed' => ~crossed /\ view = "main" /\ view' = "tracker"
      BY <2>1, <3>1, Switched DEF TabTypes
    <3> QED
      BY <1>01, <2>3, <3>2
  <2> QED
    BY <1>01, <2>1, <2>2, <2>3, <2>4, <2>5 DEF Following
<1>8. CASE ShowRamp \/ RampClosed
  <2>1. /\ offer > 0 /\ UNCHANGED <<txs, hash, queue, offer, socket, crossed, view, sent, lost>>
        /\ ramp' \in {"off", "widget"}
    BY <1>01, <1>02, <1>8 DEF ShowRamp, RampClosed, Paying, chain
  <2>2. Underway' = Underway
    BY <2>1 DEF Underway
  <2> QED
    BY <1>01, <1>03, <2>1, <2>2
<1>9. CASE RampCreated
  <2>1. /\ offer > 0 /\ UNCHANGED <<txs, hash, queue, offer, socket, sent, lost>>
        /\ SwitchView(polls) /\ ramp = "widget"
    BY <1>01, <1>02, <1>9 DEF RampCreated, Paying, chain
  <2>2. Underway' = Underway
    BY <2>1 DEF Underway
  <2>3. view \in {"main", "tracker"}
    BY <1>02, <2>1 DEF NoPage
  <2>4. ~crossed' => ~crossed /\ view = "main" /\ view' = "tracker"
    BY <2>1, <2>3, Switched DEF TabTypes
  <2> QED
    BY <1>01, <2>1, <2>2, <2>4 DEF Following
<1>10. CASE RampFailed
  <2>1. /\ offer > 0 /\ UNCHANGED <<txs, hash, queue, offer, socket, sent, crossed, lost>>
        /\ ramp = "created" /\ ramp' = "off"
    BY <1>01, <1>02, <1>10 DEF RampFailed, Paying, chain
  <2>2. Underway' = Underway
    BY <2>1 DEF Underway
  <2> QED
    BY <1>01, <1>03, <2>1, <2>2
<1>11. CASE AskFaucet
  BY <1>0, <1>11 DEF AskFaucet
<1> QED
  BY <1>00, <1>1, <1>2, <1>3, <1>4, <1>5, <1>6, <1>7, <1>8, <1>9, <1>10, <1>11 DEF Page, Poll, Payment

\* The wizard's steps lose no transaction on its way that they were told of, but with the socket.
LEMMA FollowingWizardStep ==
  ASSUME Types, Known, Following, ~faucet', eth' = 0, Crash \/ Raise \/ Restart \/ Serve
  PROVE  Following'
<1> USE FundingAssumption DEF Types, ChainTypes
<1>0. UNCHANGED <<chain, view, offer, pays>> /\ ~faucet /\ eth = 0
  BY WizardFrame DEF chain
<1>01. /\ ~socket => queue = <<>>
       /\ hash = NoTx => Underway \subseteq ToSet(queue)
       /\ offer = 0 => clicks = 0 /\ sent = {} /\ ramp = "off"
       /\ offer = 0 /\ hash = NoTx => queue = <<>>
       /\ offer > 0 /\ ~crossed =>
            /\ ramp \in {"created", "arrived"} => view # "main"
            /\ view = "main" \/ ramp \in {"created", "arrived"} => queue = <<>> /\ hash = NoTx
  BY <1>0 DEF Following
<1>02. UNCHANGED <<txs, clicks, sent, ramp, crossed>>
  BY <1>0 DEF chain, pays
<1>1. CASE Crash \/ Raise \/ TrackTimeout
  <2>1. Abort /\ hash' = hash
    BY <1>1 DEF Crash, Raise, TrackTimeout, End
  <2>2. /\ queue' = <<>> /\ ToSet(queue') = {} /\ lost \subseteq lost'
        /\ \A t \in Txs : t \in ToSet(queue) /\ txs[t] = "pending" => t \in lost'
    BY <2>1, Aborted
  <2>3. Underway' \subseteq Underway \ ToSet(queue)
    BY <1>02, <2>2 DEF Underway
  <2> QED
    BY <1>0, <1>01, <1>02, <2>1, <2>2, <2>3 DEF Following
<1>2. CASE Restart
  <2>1. UNCHANGED <<hash, queue, socket, lost>>
    BY <1>2 DEF Restart, tab
  <2>2. Underway' = Underway
    BY <1>02, <2>1 DEF Underway
  <2> QED
    BY <1>0, <1>01, <1>02, <2>1, <2>2 DEF Following
<1>3. CASE Track
  <2>1. queue # <<>> /\ hash' # NoTx /\ UNCHANGED <<socket, lost>>
    BY <1>3 DEF Track, tab
  <2> QED
    BY <1>0, <1>01, <1>02, <2>1 DEF Following
<1>4. CASE TrackDone
  BY <1>0, <1>4 DEF TrackDone, Known
<1>5. CASE Fund
  BY <1>0, <1>5, QueueRead DEF Fund, Known, JobTypes
<1>6. CASE ReadBlock \/ ReadBalance \/ Mark \/ Funded
  BY <1>0, <1>6 DEF ReadBlock, ReadBalance, Mark, Funded, Waiting, Known
<1> QED
  BY <1>1, <1>2, <1>3, <1>4, <1>5, <1>6 DEF Serve

\* A transaction that is mined funds the account, one dropped is not on its way.
LEMMA FollowingChainStep ==
  ASSUME Types, Following, Gift \/ NewBlock \/ \E t \in Txs : Mine(t) \/ Drop(t)
  PROVE  Following'
<1>1. /\ UNCHANGED <<faucet, hash, queue, tab, pays>> /\ eth' >= eth
      /\ \A t \in Txs : txs'[t] = "pending" => txs[t] = "pending" /\ (t \in lost => t \in lost')
  BY ChainStep
<1>2. eth' = 0 => eth = 0
  BY <1>1, FundingAssumption DEF Types, ChainTypes
<1>3. Underway' \subseteq Underway
  BY <1>1 DEF Underway, pays
<1> QED
  BY <1>1, <1>2, <1>3 DEF Following, tab, pays

-----------------------------------------------------------------------------
(* The theorems *)

\* A page is opened on an account with or without ETH.
LEMMA InitInv == Init => Inv
<1> SUFFICES ASSUME Init PROVE Inv
  OBVIOUS
<1> USE FundingAssumption DEF Init
<1>1. Off \in PollStates /\ NoTx \in Messages /\ Off.seen = 0
  BY DEF PollStates, Messages, Off
<1>2. (\A t \in Txs : txs[t] = "none") /\ \A i \in Slots : polls[i] = Off
  OBVIOUS
<1>3. Types
  <2>1. ChainTypes
    <3>1. faucet \in BOOLEAN /\ web3 \in BOOLEAN
      BY Zenon
    <3> QED
      BY <3>1 DEF ChainTypes
  <2>2. JobTypes
    BY <1>1, CallTypes, NothingQueued DEF JobTypes
  <2>3. socket \in BOOLEAN /\ leaving \in BOOLEAN /\ crossed \in BOOLEAN
    BY Zenon
  <2>4. TabTypes
    BY <1>1, <2>3 DEF TabTypes
  <2>5. PayTypes
    BY <2>3 DEF PayTypes
  <2> QED
    BY <2>1, <2>2, <2>4, <2>5 DEF Types
<1>4. NoPage
  BY <1>2 DEF NoPage
<1>5. Known
  BY <1>1, <1>2, NothingQueued DEF Known
<1>6. Moves /\ Waits /\ FundsConfirmed
  BY CallTypes DEF Moves, Waits, FundsConfirmed
<1>7. Following /\ SwapFunded
  BY <1>2, NothingQueued DEF Following, SwapFunded, Underway
<1> QED
  BY <1>3, <1>4, <1>5, <1>6, <1>7 DEF Inv

\* Every step keeps the invariant.
LEMMA InvStep == Inv /\ [Next]_vars => Inv'
<1> SUFFICES ASSUME Inv, [Next]_vars PROVE Inv'
  OBVIOUS
<1>1. CASE UNCHANGED vars
  <2>1. Types'
    BY <1>1 DEF vars, chain, tab, pays, Inv, Types, ChainTypes, JobTypes, TabTypes, PayTypes
  <2>2. NoPage' /\ Known' /\ Moves' /\ Waits'
    BY <1>1 DEF vars, chain, tab, pays, Inv, NoPage, Known, Moves, Waits
  <2>3. Underway' = Underway
    BY <1>1 DEF vars, chain, tab, pays, Underway
  <2>4. Following'
    BY <1>1, <2>3 DEF vars, chain, tab, pays, Inv, Following
  <2>5. SwapFunded' /\ FundsConfirmed'
    BY <1>1 DEF vars, chain, tab, pays, Inv, SwapFunded, FundsConfirmed
  <2> QED
    BY <2>1, <2>2, <2>4, <2>5 DEF Inv
<1>2. CASE Next
  <2>1. \/ Page
        \/ Crash \/ Raise \/ Restart \/ Serve
        \/ Gift \/ NewBlock \/ \E t \in Txs : Mine(t) \/ Drop(t)
    BY <1>2 DEF Next, Page
  <2>2. Types'
    BY <2>1, PageTypesStep, WizardTypesStep, ChainStep DEF Inv
  <2>3. NoPage' /\ Known'
    BY <2>1, KnownPageStep, KnownWizardStep, KnownChainStep DEF Inv
  <2>4. Following'
    <3>1. CASE faucet' \/ eth' # 0
      BY <3>1 DEF Following
    <3>2. CASE ~faucet' /\ eth' = 0
      BY <2>1, <3>2, FollowingPageStep, FollowingWizardStep, FollowingChainStep DEF Inv
    <3> QED
      BY <3>1, <3>2
  <2>5. Moves' /\ SwapFunded'
    BY <1>2, MovesStep, FundedStep DEF Inv
  <2>6. Waits' /\ FundsConfirmed'
    BY <1>2, <2>2, WaitStep DEF Inv
  <2> QED
    BY <2>2, <2>3, <2>4, <2>5, <2>6 DEF Inv
<1> QED
  BY <1>1, <1>2

\* Throughout: the types; that a page that is gone polls and pays nothing; that every poll
\* saw ETH that is there; that a page moves on only for ETH it saw; what the faucet's wait
\* knows; and, while the account is empty, that each transaction on its way is in the file,
\* among the messages, or known to be lost - over every second click and crossing purchase.
THEOREM Invariance == Spec => []Inv
  BY InitInv, InvStep, PTL DEF Spec

\* Every variable keeps its type.
THEOREM TypeCorrect == Spec => []TypeOK
<1>1. Inv => TypeOK
  BY TypeParts DEF Inv
<1> QED
  BY <1>1, Invariance, PTL

\* The swap page opens on a funded account, but for purchases at Ramp.
THEOREM AlwaysFunded == Spec => []SwapFunded
<1>1. Inv => SwapFunded
  BY DEF Inv
<1> QED
  BY <1>1, Invariance, PTL

\* An empty account is offered to pay only if nothing is on its way that the wizard was
\* told of, on a page none of whose payments crossed.
THEOREM NeverSecondOffer == Spec => []NoSecondOffer
<1>1. Inv => NoSecondOffer
  <2>1. SUFFICES ASSUME Inv, view = "main", offer > 0, eth = 0, ~crossed PROVE Underway = {}
    BY <2>1 DEF NoSecondOffer, Underway
  <2>2. ~faucet
    BY <2>1, FundingAssumption DEF Inv, Known
  <2>3. hash = NoTx /\ queue = <<>> /\ Underway \subseteq ToSet(queue)
    BY <2>1, <2>2 DEF Inv, Following
  <2> QED
    BY <2>3, NothingQueued
<1> QED
  BY <1>1, Invariance, PTL

\* The faucet's wait ends in time only with the ETH there and as deep as it waits for.
THEOREM AlwaysConfirmed == Spec => []FundsConfirmed
<1>1. Inv => FundsConfirmed
  BY DEF Inv
<1> QED
  BY <1>1, Invariance, PTL
=============================================================================
