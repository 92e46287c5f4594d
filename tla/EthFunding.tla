---------------------------- MODULE EthFunding ----------------------------
(***************************************************************************)
(* How an account gets its ETH: the account page, the requests it makes    *)
(* and the file that remembers the funding transaction.                    *)
(*                                                                         *)
(* Where tokens can be swapped the page polls balance and configuration,   *)
(* offers to send or buy ETH, and has the wizard track the transaction     *)
(* that is sent; its hash is saved before the wait, and the wizard exits   *)
(* when the wait times out.  Where a faucet pays, the wizard asks it and   *)
(* waits for the balance (wait_for_ethereum_funds).                        *)
(*                                                                         *)
(* The server has one thread: nothing is answered while a request runs.    *)
(* The page does not wait: a click on its button asks the wallet and the   *)
(* wizard several things in turn, while polls, other clicks and a purchase *)
(* go on; what switches the views does so from whichever is shown.         *)
(* Amounts are counted up to Required, of the account's ETH and as the     *)
(* least the page lets the user send.                                      *)
(***************************************************************************)
EXTENDS Naturals, Sequences, SequencesExt

CONSTANTS
  Required,       \* ethereum_amount_required, in units
  Txs,            \* bound: transactions the user's wallet sends
  Confirmations,  \* REQUIRED_BLOCK_CONFIRMATIONS
  MaxLeft,        \* WEB3_TIMEOUT in polls of the faucet's wait
  MaxHeight,      \* bound: blocks
  MaxQueue,       \* bound: messages the server has not read
  MaxClicks,      \* bound: payments begun and not yet signed
  MaxFaults       \* bound: crashes and exceptions of the wizard

ASSUME FundingAssumption ==
  /\ Required \in Nat \ {0} /\ Confirmations \in Nat \ {0} /\ MaxLeft \in Nat \ {0}
  /\ MaxHeight \in Nat \ {0} /\ MaxQueue \in Nat /\ MaxClicks \in Nat /\ MaxFaults \in Nat

VARIABLES
  faucet,     \* FAUCET_AVAILABLE
  web3,       \* does the page find a wallet in the browser?
  eth,        \* the account's ETH
  height,     \* of the chain
  fundedAt,   \* the block that brought all of Required
  txs,        \* the transactions of the user's wallet
  hash,       \* _initial_funding_txhash in the file
  job,        \* what the server runs
  queue,      \* messages the server has not read
  wait,       \* wait_for_ethereum_funds: its call and its variables
  view,       \* of the account page, or the page after it
  offer,      \* the least the main view lets the user pay, 0 while it does not offer it
  polls,      \* polls in flight: the request made next and the balance seen
  socket,     \* is the page's WebSocket open?
  leaving,    \* does a timer run that moves the page on?
  clicks,     \* payments begun and not signed: wallet, wizard and user are asked
  sent,       \* transactions signed whose hash the page has not got
  ramp,       \* the purchase at Ramp
  bought,     \* what the user buys there
  crossed,    \* history: has one of this page's payments found the tracker shown?
  lost,       \* history: transactions on their way of which the server never heard
  faults

chain == <<faucet, web3, eth, height, fundedAt, txs>>
tab == <<view, offer, polls, socket, leaving>>
pays == <<clicks, sent, ramp, bought, crossed>>
vars == <<chain, hash, job, queue, wait, tab, pays, lost, faults>>

NoTx == 0
ASSUME TxsAssumption == Txs \subseteq Nat /\ NoTx \notin Txs

Slots == {1, 2}
Off == [step |-> "off", seen |-> 0]
NotWaiting == [step |-> "none", block |-> 0, since |-> 0, enough |-> FALSE, left |-> 0]

\* block_with_balance is math.inf.
Inf == MaxHeight + Confirmations + 1

Init ==
  /\ faucet \in BOOLEAN /\ web3 \in BOOLEAN /\ (faucet => ~web3)
  /\ eth \in 0 .. Required - 1 /\ height = 1 /\ fundedAt = 0
  /\ txs = [t \in Txs |-> "none"]
  /\ hash = NoTx /\ job = "none" /\ queue = <<>> /\ wait = NotWaiting
  /\ view = "none" /\ offer = 0 /\ polls = [i \in Slots |-> Off]
  /\ socket = FALSE /\ leaving = FALSE
  /\ clicks = 0 /\ sent = {} /\ ramp = "off" /\ bought = 0 /\ crossed = FALSE
  /\ lost = {} /\ faults = 0

Idle == job = "none"

-----------------------------------------------------------------------------
(* The page *)

\* setInterval and runMainView start a poll; one may still be on its way.
Started(now) ==
  IF \E i \in Slots : now[i] = Off
  THEN LET i == CHOOSE i \in Slots : now[i] = Off /\ \A k \in Slots : now[k] = Off => i <= k
       IN  [now EXCEPT ![i] = [step |-> "balance", seen |-> 0]]
  ELSE now

\* runMainView: poll at once, and every ten seconds.
RunMain(now) == view' = "main" /\ polls' = (IF faucet THEN now ELSE Started(now))

\* stopMainView: no more polls are started.
ShowTracker(now) == view' = "tracker" /\ polls' = now

ToggleView(now) == IF view = "main" THEN ShowTracker(now) ELSE RunMain(now)

\* Hashes that the server will not get.
Lose(messages) == lost' = lost \cup {t \in messages : t # NoTx /\ txs[t] = "pending"}

\* A message on a closed socket is dropped without an error.
Message(m) ==
  IF socket
  THEN Len(queue) < MaxQueue /\ queue' = Append(queue, m) /\ UNCHANGED lost
  ELSE Lose({m}) /\ UNCHANGED queue

\* toggleView for a payment: a tracker that is shown is switched away.
SwitchView(now) == ToggleView(now) /\ crossed' = (crossed \/ view = "tracker")

\* The page is gone: hashes on their way to it are lost.  (What the user signs later is
\* ETH from elsewhere.)
Forget ==
  /\ offer' = 0 /\ leaving' = FALSE
  /\ clicks' = 0 /\ sent' = {} /\ ramp' = "off" /\ crossed' = FALSE
  /\ Lose(sent)

\* AccountDetailHandler: the hash is cleared and saved when the account has its ETH.
\* The user loads the page at first, and again when it hears no more of the wizard.
Open ==
  /\ Idle /\ ~socket /\ view # "next" /\ Forget
  /\ hash' = (IF eth >= Required THEN NoTx ELSE hash)
  /\ socket' = TRUE /\ bought' = 0 /\ view' = "main"
  /\ polls' = [i \in Slots |-> IF i = 1 /\ ~faucet THEN [step |-> "balance", seen |-> 0] ELSE Off]
  /\ UNCHANGED <<chain, job, queue, wait, faults>>

Tick ==
  /\ view = "main" /\ ~faucet /\ \E i \in Slots : polls[i] = Off
  /\ RunMain(polls)
  /\ UNCHANGED <<chain, hash, job, queue, wait, offer, socket, leaving, pays, lost, faults>>

\* poll reads the balance,
PollBalance(i) ==
  /\ polls[i].step = "balance" /\ Idle
  /\ polls' = [polls EXCEPT ![i] = [step |-> "config", seen |-> eth]]
  /\ UNCHANGED <<chain, hash, job, queue, wait, view, offer, socket, leaving, pays, lost, faults>>

\* A transaction was sent and nothing has arrived: the page goes on tracking.
Resumes(seen) == seen = 0 /\ hash # NoTx

\* Slip: any ETH will do.
SlipEnough(seen) == seen > 0

\* hasEnoughEthToStartSwaps
Enough(seen) == seen >= Required

\* then the configuration, and acts on both: it goes on tracking, moves on after two
\* seconds, or offers to pay - the last two only in a browser with a wallet.  (An account
\* without ETH is asked once its keystore is downloaded; here the user does that at once.)
PollConfig(i) ==
  /\ polls[i].step = "config" /\ Idle
  /\ LET seen == polls[i].seen
         rest == [polls EXCEPT ![i] = Off]
     IN \/ /\ Resumes(seen) /\ Message(hash) /\ SwitchView(rest)
           /\ UNCHANGED <<offer, leaving>>
        \/ /\ ~Resumes(seen) /\ polls' = rest
           /\ leaving' = (leaving \/ (web3 /\ Enough(seen)))
           /\ offer' = (IF web3 /\ ~Enough(seen) THEN Required - seen ELSE 0)
           /\ UNCHANGED <<view, queue, crossed, lost>>
  /\ UNCHANGED <<chain, hash, job, wait, socket, clicks, sent, ramp, bought, faults>>

\* The wizard is gone: fetch rejects, and so does poll.
PollRejected(i) ==
  /\ polls[i] # Off /\ job = "down"
  /\ polls' = [polls EXCEPT ![i] = Off]
  /\ UNCHANGED <<chain, hash, job, queue, wait, view, offer, socket, leaving, pays, lost, faults>>

\* forceNavigation, when its timer ends: the wizard answers with the swap page, or nobody does.
Leave ==
  /\ leaving /\ Forget /\ socket' = FALSE /\ polls' = [i \in Slots |-> Off]
  /\ (Idle /\ view' = "next") \/ (job = "down" /\ view' = "none")
  /\ UNCHANGED <<chain, hash, job, queue, wait, bought, faults>>

Paying == UNCHANGED <<chain, hash, job, wait, offer, socket, leaving, faults>>

\* sendEthViaWeb3: the page asks the wallet for network and accounts, the wizard for the
\* gas price and the user to sign, each in its time; the button is there for another click.
Click ==
  /\ view = "main" /\ offer > 0 /\ clicks < MaxClicks /\ Paying
  /\ clicks' = clicks + 1
  /\ UNCHANGED <<queue, view, polls, sent, ramp, bought, crossed, lost>>

\* The wrong network, no account, no gas price (whose fallback raises), or the user's no.
NotSent ==
  /\ clicks > 0 /\ clicks' = clicks - 1 /\ Paying
  /\ UNCHANGED <<queue, view, polls, sent, ramp, bought, crossed, lost>>

\* The user signs: the wallet sends the transaction (they are numbered in that order),
Sign(t) ==
  /\ clicks > 0 /\ txs[t] = "none" /\ \A u \in Txs : txs[u] = "none" => t <= u
  /\ clicks' = clicks - 1 /\ txs' = [txs EXCEPT ![t] = "pending"] /\ sent' = sent \cup {t}
  /\ UNCHANGED <<faucet, web3, eth, height, fundedAt, hash, job, queue, wait, tab, ramp, bought,
                 crossed, lost, faults>>

\* and the page has it tracked.
TrackTransaction(t) ==
  /\ t \in sent /\ sent' = sent \ {t} /\ Paying
  /\ Message(t) /\ SwitchView(polls)
  /\ UNCHANGED <<clicks, ramp, bought>>

\* showRamp: the least that the page lets the user buy is what was missing at its last poll.
ShowRamp ==
  /\ view = "main" /\ offer > 0 /\ ramp = "off" /\ Paying
  /\ ramp' = "widget" /\ bought' = offer
  /\ UNCHANGED <<queue, view, polls, clicks, sent, crossed, lost>>

\* purchaseCreatedCallback
RampCreated ==
  /\ ramp = "widget" /\ ramp' = "created" /\ Paying
  /\ SwitchView(polls)
  /\ UNCHANGED <<queue, clicks, sent, bought, lost>>

\* checkBalance: the balance is compared with what was bought.
RampArrived ==
  /\ ramp = "created" /\ Idle /\ eth >= bought
  /\ ramp' = "arrived" /\ leaving' = TRUE
  /\ UNCHANGED <<chain, hash, job, queue, wait, view, offer, polls, socket, clicks, sent,
                 bought, crossed, lost, faults>>

\* The widget is closed, or the purchase fails and the main view is shown.
RampClosed ==
  /\ ramp = "widget" \/ (ramp = "created" /\ view = "main")
  /\ ramp' = "off" /\ bought' = 0 /\ Paying
  /\ UNCHANGED <<queue, view, polls, clicks, sent, crossed, lost>>

\* The purchase fails with the tracker shown, or does not arrive in time, which is not
\* asked about the view: addErrorMessage switches it, five seconds later.
RampFailed ==
  /\ ramp = "created" /\ ramp' = "off" /\ bought' = 0 /\ Paying
  /\ ToggleView(polls)
  /\ UNCHANGED <<queue, clicks, sent, crossed, lost>>

\* runFunding, where there is a faucet.
AskFaucet ==
  /\ view = "main" /\ faucet /\ socket
  /\ Message(NoTx) /\ ShowTracker(polls)
  /\ UNCHANGED <<chain, hash, job, wait, offer, socket, leaving, pays, faults>>

-----------------------------------------------------------------------------
(* The wizard *)

\* The socket is closed: what was sent over it and not read is lost.
Abort ==
  /\ wait' = NotWaiting /\ queue' = <<>> /\ socket' = FALSE
  /\ Lose(ToSet(queue))

\* The process ends, and with it the requests of polls.
End ==
  /\ job' = "down" /\ Abort /\ polls' = [i \in Slots |-> Off]
  /\ UNCHANGED <<chain, hash, view, offer, leaving, pays>>

Crash == job # "down" /\ faults < MaxFaults /\ faults' = faults + 1 /\ End

\* An exception that nobody catches, of the node or the faucet: the server closes the socket.
Raise ==
  /\ job \in {"track", "fund"} /\ faults < MaxFaults /\ faults' = faults + 1
  /\ job' = "none" /\ Abort
  /\ UNCHANGED <<chain, hash, view, offer, polls, leaving, pays>>

Restart ==
  /\ job = "down" /\ job' = "none"
  /\ UNCHANGED <<chain, hash, queue, wait, tab, pays, lost, faults>>

\* Slip: the hash is kept in memory until the transaction is confirmed.
SlipTrack ==
  /\ Idle /\ queue # <<>> /\ Head(queue) # NoTx
  /\ queue' = Tail(queue) /\ job' = "track" /\ UNCHANGED hash
  /\ wait' = [NotWaiting EXCEPT !.block = Head(queue)]
  /\ UNCHANGED <<chain, tab, pays, lost, faults>>

\* _run_track_transaction saves the hash before it waits.  (That a configuration cannot be
\* read, or an account is locked, is WalletSession's subject.)
Track ==
  /\ Idle /\ queue # <<>> /\ Head(queue) # NoTx
  /\ queue' = Tail(queue) /\ job' = "track" /\ hash' = Head(queue)
  /\ wait' = [NotWaiting EXCEPT !.block = Head(queue)]
  /\ UNCHANGED <<chain, tab, pays, lost, faults>>

\* The page moves on two seconds after it is told to.
Redirect == leaving' = (leaving \/ socket) /\ UNCHANGED <<view, offer, polls, socket>>

\* wait_for_transaction returned (TxWait): the hash is cleared, the page goes on.
TrackDone ==
  /\ job = "track" /\ txs[wait.block] = "mined" /\ Redirect
  /\ hash' = NoTx /\ job' = "none" /\ wait' = NotWaiting
  /\ UNCHANGED <<chain, queue, pays, lost, faults>>

\* Slip: the wizard says that it takes long, and waits on.
SlipTrackTimeout == job = "track" /\ UNCHANGED vars

\* sys.exit(1), on a transaction that is not mined or not deep enough: the hash stays.
TrackTimeout == job = "track" /\ End /\ UNCHANGED faults

\* _run_funding asks the faucet, and waits.
Fund ==
  /\ Idle /\ queue # <<>> /\ Head(queue) = NoTx /\ queue' = Tail(queue)
  /\ job' = "fund" /\ wait' = [NotWaiting EXCEPT !.step = "block", !.since = Inf, !.left = MaxLeft]
  /\ UNCHANGED <<chain, hash, tab, pays, lost, faults>>

Waiting(step) == job = "fund" /\ wait.step = step
StillWaiting == UNCHANGED <<chain, hash, job, queue, tab, pays, lost, faults>>

ReadBlock ==
  /\ Waiting("block") /\ StillWaiting
  /\ wait' = [wait EXCEPT !.step = "balance", !.block = height]

ReadBalance ==
  /\ Waiting("balance") /\ StillWaiting
  /\ wait' = [wait EXCEPT !.step = "mark", !.enough = eth >= Required]

\* Slip: the height read before the balance marks the block of the balance.
SlipSince == IF wait.enough THEN IF wait.since = Inf THEN wait.block ELSE wait.since ELSE Inf

\* block_with_balance: another request for the height.
Since == IF wait.enough THEN IF wait.since = Inf THEN height ELSE wait.since ELSE Inf

\* Slip: an unconfirmed balance is waited for however long it takes.
SlipAgain(since, left) == wait.block < since + Confirmations

\* The loop goes on while the height is not deep enough and time remains.
Again(since, left) == wait.block < since + Confirmations /\ left > 0

Mark ==
  /\ Waiting("mark") /\ StillWaiting
  /\ LET left == wait.left - 1
     IN  wait' = [wait EXCEPT !.since = Since, !.left = left,
                    !.step = IF Again(Since, left) THEN "block" ELSE "returned"]

\* "Account funded with": whatever the balance, tokens are minted and deposited
\* (UdcDeposit) and the page is sent to launch, unless one of the transactions raises.
Funded ==
  /\ Waiting("returned") /\ job' = "none" /\ wait' = NotWaiting /\ Redirect
  /\ UNCHANGED <<chain, hash, queue, pays, lost, faults>>

-----------------------------------------------------------------------------
(* The chain *)

Receive(n) ==
  /\ eth' = (IF eth + n > Required THEN Required ELSE eth + n)
  /\ fundedAt' = (IF eth < Required /\ eth' = Required THEN height ELSE fundedAt)

Mine(t) ==
  /\ txs[t] = "pending" /\ txs' = [txs EXCEPT ![t] = "mined"] /\ Receive(Required)
  /\ lost' = lost \ {t}
  /\ UNCHANGED <<faucet, web3, height, hash, job, queue, wait, tab, pays, faults>>

\* Replaced by another transaction of the user, or never taken.
Drop(t) ==
  /\ txs[t] = "pending" /\ txs' = [txs EXCEPT ![t] = "dropped"]
  /\ lost' = lost \ {t}
  /\ UNCHANGED <<faucet, web3, eth, height, fundedAt, hash, job, queue, wait, tab, pays, faults>>

\* ETH from anywhere: the faucet, Ramp, another wallet.
Gift ==
  /\ eth < Required /\ \E n \in 1 .. Required - eth : Receive(n)
  /\ UNCHANGED <<faucet, web3, txs, height, hash, job, queue, wait, tab, pays, lost, faults>>

NewBlock ==
  /\ faucet /\ height < MaxHeight /\ height' = height + 1
  /\ UNCHANGED <<faucet, web3, eth, fundedAt, txs, hash, job, queue, wait, tab, pays, lost, faults>>

Poll == \E i \in Slots : PollBalance(i) \/ PollConfig(i) \/ PollRejected(i)
Serve ==
  \/ Track \/ TrackDone \/ TrackTimeout \/ Fund
  \/ ReadBlock \/ ReadBalance \/ Mark \/ Funded

Payment ==
  \/ Click \/ NotSent \/ \E t \in Txs : Sign(t) \/ TrackTransaction(t)
  \/ ShowRamp \/ RampCreated \/ RampArrived \/ RampClosed \/ RampFailed
  \/ AskFaucet

Next ==
  \/ Open \/ Tick \/ Poll \/ Leave \/ Payment
  \/ Crash \/ Raise \/ Restart \/ Serve
  \/ Gift \/ NewBlock \/ \E t \in Txs : Mine(t) \/ Drop(t)

Spec == Init /\ [][Next]_vars

\* The server and the page go on as long as they run, and the user does what the wizard
\* tells him when it ends ("restart the wizard") and loads a page again that hears no more
\* of it.  Nobody has to pay, and a transaction need not be mined.
FairSpec ==
  /\ Spec
  /\ WF_vars(Serve \/ Restart \/ Open \/ Leave) /\ WF_vars(Tick)
  /\ \A i \in Slots : WF_vars(PollBalance(i) \/ PollConfig(i) \/ PollRejected(i))
  /\ WF_vars(RampArrived \/ RampFailed \/ \E t \in Txs : TrackTransaction(t))

-----------------------------------------------------------------------------

\* The state is well-formed.
TypeOK ==
  /\ faucet \in BOOLEAN /\ web3 \in BOOLEAN /\ eth \in 0 .. Required
  /\ height \in 1 .. MaxHeight /\ fundedAt \in 0 .. height
  /\ txs \in [Txs -> {"none", "pending", "mined", "dropped"}]
  /\ hash \in Txs \cup {NoTx}
  /\ job \in {"none", "track", "fund", "down"}
  /\ ToSet(queue) \subseteq Txs \cup {NoTx}
  /\ wait \in [step: {"none", "block", "balance", "mark", "returned"},
               block: Nat \cup Txs, since: 0 .. Inf, enough: BOOLEAN, left: 0 .. MaxLeft]
  /\ view \in {"none", "main", "tracker", "next"} /\ offer \in 0 .. Required
  /\ polls \in [Slots -> {Off} \cup [step: {"balance", "config"}, seen: 0 .. Required]]
  /\ socket \in BOOLEAN /\ leaving \in BOOLEAN 
  /\ clicks \in 0 .. MaxClicks /\ sent \subseteq Txs
  /\ ramp \in {"off", "widget", "created", "arrived"}
  /\ bought \in 0 .. Required /\ crossed \in BOOLEAN
  /\ lost \subseteq Txs /\ faults \in 0 .. MaxFaults

\* The swap page opens on an account that can pay for the swaps, whatever the polls saw
\* and whatever transaction was tracked - but for a purchase at Ramp, whose page waits
\* for the amount bought and not for the amount required (account.js:70).
SwapFunded ==
  view = "next" /\ ~faucet => eth >= Required \/ (bought > 0 /\ eth >= bought)

\* An account that is still empty is not asked to pay a second time while a transaction
\* is on its way to it, across timeouts, exceptions, crashes and restarts: the hash in the
\* file sees to that, unless the wizard never read it, and however many polls are under
\* way.  It is asked again when two of a page's payments cross - a second click, a purchase
\* begun before, a poll that resumes - since the later one finds the tracker shown and
\* switches it away (base.js:140, account.js:38).
NoSecondOffer ==
  view = "main" /\ offer > 0 /\ eth = 0 /\ ~crossed =>
    \A t \in Txs : txs[t] = "pending" => t \in lost \cup sent

\* wait_for_ethereum_funds that ends with time to spare ends with the ETH there, and with
\* the block that brought it as deep as it waits for, whenever the ETH came between two
\* of its requests.
FundsConfirmed ==
  wait.step = "returned" /\ wait.left > 0 =>
    eth = Required /\ wait.block >= fundedAt + Confirmations

\* Once the account has its ETH the user gets to the swap page, whatever transaction or
\* purchase the page was following: a pending one and the hash of one that never gets
\* mined only cost a restart.  In a browser without a wallet the page stays (account.js:243).
FundedGetsOn == ~faucet /\ eth >= Required /\ web3 ~> view = "next"
=============================================================================
