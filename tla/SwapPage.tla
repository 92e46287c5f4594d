----------------------------- MODULE SwapPage -----------------------------
(***************************************************************************)
(* The pages that get RDN and DAI: the view machine of base.js, swap.js on *)
(* top of it, and the requests the wizard serves for it.                   *)
(*                                                                         *)
(* A page shows its main view or the tracker with the spinner; requests    *)
(* and answers toggle between the two.  In the main view it polls the      *)
(* balances every five seconds, whether or not the poll before has been    *)
(* answered, and acts on each answer in whatever view it finds.            *)
(*                                                                         *)
(* The wizard has one thread and serves messages and polls in turn.  How a *)
(* deposit is made is UdcDeposit's subject, how a transaction is waited    *)
(* for TxWait's; here both are steps.                                      *)
(***************************************************************************)
EXTENDS Naturals, Sequences, SequencesExt, FiniteSets

CONSTANTS
  Exchanges,     \* the exchange buttons
  NoExchange,    \* nothing selected
  PageRequired,  \* 0.9 times what is required: enough for the pages
  Required,      \* amount_required: enough for the wizard, of either token
  SwapAmount,    \* swap_amount, of either token
  MaxPolls,      \* bound: polls on their way
  MaxSwaps,      \* bound: swaps the user confirms
  MaxInbox,      \* bound: messages the wizard has not read
  MaxFaults      \* bound: exceptions, caught or not, and configurations that cannot be read

ASSUME AmountsAssumption ==
  /\ PageRequired \in Nat \ {0} /\ Required \in Nat /\ SwapAmount \in Nat
  /\ PageRequired <= Required /\ Required <= SwapAmount

ASSUME BoundsAssumption ==
  /\ MaxPolls \in Nat \ {0} /\ MaxSwaps \in Nat /\ MaxInbox \in Nat /\ MaxFaults \in Nat

ASSUME ExchangeAssumption == NoExchange \notin Exchanges

VARIABLES
  page,      \* the page shown
  view,      \* of the page
  polls,     \* getBalances calls that have not been answered
  toggles,   \* timeouts that will toggle the view
  goTo,      \* where the first redirect's timeout will go
  leave,     \* has the DAI page seen enough, and will go to launch?
  socket,    \* is the page's WebSocket open?
  estimate,  \* of each exchange button
  selected,  \* selectedExchange
  inbox,     \* messages the wizard has not read
  job,       \* the message it serves
  wallet,    \* RDN in the account
  deposit,   \* RDN in the UserDeposit contract
  dai,       \* DAI in the account
  pending,   \* swaps sent and not mined; is it the job's?
  late,      \* history: an answer to a poll found the tracker
  gaveUp,    \* history: the wait for a swap was given up
  confirms, faults   \* how often the bounded steps were taken

dom == <<page, view, polls, toggles, goTo, leave, socket, estimate, selected>>
wizard == <<inbox, job>>
chain == <<wallet, deposit, dai, pending>>
vars == <<dom, wizard, chain, late, gaveUp, confirms, faults>>

Swaps == {"rdn", "dai"}
NoJob == [step |-> "none", what |-> "none", mine |-> FALSE, to |-> "none"]
Idle == job = NoJob
Total == wallet + deposit

Unasked == [e \in Exchanges |-> "asked"]

\* DOMContentLoaded: costs are asked for, and the main view runs.
Load(p) ==
  /\ page' = p /\ view' = "main" /\ polls' = (IF p = "launch" THEN 0 ELSE 1)
  /\ toggles' = 0 /\ goTo' = "none" /\ leave' = FALSE /\ socket' = TRUE
  /\ estimate' = Unasked /\ selected' = NoExchange

Init ==
  /\ page = "rdn" /\ view = "main" /\ polls = 1 /\ toggles = 0 /\ goTo = "none" /\ leave = FALSE /\ socket = TRUE
  /\ estimate = Unasked /\ selected = NoExchange
  /\ inbox = <<>> /\ job = NoJob
  /\ wallet \in 0 .. Required /\ deposit \in 0 .. Required /\ dai \in 0 .. Required
  /\ pending = <<>> /\ late = FALSE /\ gaveUp = FALSE /\ confirms = 0 /\ faults = 0

-----------------------------------------------------------------------------
(* The page *)

\* toggleView, where `running` polls are on their way: the timer stops with the main
\* view, polls do not; with the main view the next poll starts at once.
ToggleView(running) ==
  IF view = "main"
  THEN view' = "tracker" /\ polls' = running
  ELSE view' = "main" /\ polls' = (IF running < MaxPolls THEN running + 1 ELSE running)

\* send: a message on a closed socket is dropped without an error.
Send(what) ==
  /\ Len(inbox) < MaxInbox
  /\ inbox' = IF socket THEN Append(inbox, [what |-> what, mine |-> TRUE]) ELSE inbox

Tick ==
  /\ page \in Swaps /\ view = "main" /\ polls < MaxPolls /\ polls' = polls + 1
  /\ UNCHANGED <<page, view, toggles, goTo, leave, socket, estimate, selected, wizard, chain,
                 late, gaveUp, confirms, faults>>

\* hasEnoughServiceTokenToLaunchRaiden, hasEnoughTransferTokenToLaunchRaiden
EnoughServiceToken == Total >= PageRequired
EnoughTransferToken == dai >= PageRequired

\* Slip: the message is sent, and the view left as it is.
SlipSkipToDeposit ==
  /\ page = "rdn" /\ EnoughServiceToken /\ Send("deposit")
  /\ polls' = polls - 1 /\ UNCHANGED <<view, leave>>

\* skipSwap with the balance that getBalances brought: ask for the deposit,
SkipToDeposit ==
  /\ page = "rdn" /\ EnoughServiceToken
  /\ ToggleView(polls - 1) /\ Send("deposit") /\ UNCHANGED leave

\* go to launch,
SkipToLaunch ==
  /\ page = "dai" /\ EnoughTransferToken
  /\ leave' = TRUE /\ polls' = polls - 1 /\ UNCHANGED <<view, inbox>>

\* or leave the choice to the user.
NoSkip ==
  /\ page = "rdn" => ~EnoughServiceToken
  /\ page = "dai" => ~EnoughTransferToken
  /\ polls' = polls - 1 /\ UNCHANGED <<view, leave, inbox>>

SkipSwap ==
  /\ polls > 0 /\ Idle
  /\ SkipToDeposit \/ SkipToLaunch \/ NoSkip
  /\ late' = (late \/ view = "tracker")
  /\ UNCHANGED <<page, toggles, goTo, socket, estimate, selected, job, chain, gaveUp, confirms, faults>>

\* Slip: the button is disabled, and stays selected.
SlipDeselect(e) == UNCHANGED selected

Deselect(e) == selected' = IF selected = e THEN NoExchange ELSE selected

\* onload of the cost estimation: the button may turn out useless, selected or not.
Estimated(e) ==
  /\ page \in Swaps /\ estimate[e] = "asked" /\ Idle
  /\ \/ estimate' = [estimate EXCEPT ![e] = "known"] /\ UNCHANGED selected
     \/ estimate' = [estimate EXCEPT ![e] = "failed"] /\ Deselect(e)
  /\ UNCHANGED <<page, view, polls, toggles, goTo, leave, socket, wizard, chain, late, gaveUp, confirms, faults>>

SelectExchange(e) ==
  /\ page \in Swaps /\ view = "main" /\ estimate[e] # "failed"
  /\ selected' = IF selected = e THEN NoExchange ELSE e
  /\ UNCHANGED <<page, view, polls, toggles, goTo, leave, socket, estimate, wizard, chain,
                 late, gaveUp, confirms, faults>>

\* The submit button, enabled while an exchange is selected.
Confirm ==
  /\ page \in Swaps /\ view = "main" /\ selected # NoExchange
  /\ confirms < MaxSwaps /\ confirms' = confirms + 1
  /\ Send(page) /\ ToggleView(polls)
  /\ UNCHANGED <<page, toggles, goTo, leave, socket, estimate, selected, job, chain, late, gaveUp, faults>>

\* The timeout that an error-message sets.
ToggleDue ==
  /\ toggles > 0 /\ toggles' = toggles - 1 /\ ToggleView(polls)
  /\ UNCHANGED <<page, goTo, leave, socket, estimate, selected, wizard, chain, late, gaveUp, confirms, faults>>

\* What a page sent before it was left is still served; the answers reach nobody.
Abandon ==
  /\ inbox' = [k \in DOMAIN inbox |-> [inbox[k] EXCEPT !.mine = FALSE]]
  /\ job' = [job EXCEPT !.mine = FALSE]

\* forceNavigation, answered when the wizard is free.
Navigate ==
  /\ Idle
  /\ \/ goTo # "none" /\ Load(goTo)
     \/ leave /\ Load("launch")
  /\ Abandon /\ UNCHANGED <<chain, late, gaveUp, confirms, faults>>

\* The user reloads a page whose socket is closed.
Reload ==
  /\ Idle /\ ~socket /\ Load(page)
  /\ Abandon /\ UNCHANGED <<chain, late, gaveUp, confirms, faults>>

-----------------------------------------------------------------------------
(* The wizard *)

OnMessage ==
  /\ Idle /\ inbox # <<>> /\ inbox' = Tail(inbox)
  /\ job' = [step |-> "start", what |-> Head(inbox).what, mine |-> Head(inbox).mine, to |-> "none"]
  /\ UNCHANGED <<dom, chain, late, gaveUp, confirms, faults>>

At(what, step) == job.what \in what /\ job.step = step
GoOn(step, to) == job' = [job EXCEPT !.step = step, !.to = to]
Working == UNCHANGED <<dom, inbox, late, gaveUp, confirms, faults>>

\* Slip: the exception is logged, and the page not told.
SlipSwapFails ==
  At(Swaps, "start") /\ job' = NoJob /\ Working /\ UNCHANGED chain

\* _run_swap: no rate, or not enough ETH.
SwapFails ==
  /\ At(Swaps, "start") /\ GoOn("answer", job.what)
  /\ Working /\ UNCHANGED chain

\* Slip: a swap that was sent is taken for done.
SlipBuyTokens ==
  /\ At(Swaps, "start") /\ GoOn("check", "none")
  /\ pending' = Append(pending, [token |-> job.what, own |-> FALSE])
  /\ Working /\ UNCHANGED <<wallet, deposit, dai>>

BuyTokens ==
  /\ At(Swaps, "start") /\ GoOn("wait", "none")
  /\ pending' = Append(pending, [token |-> job.what, own |-> TRUE])
  /\ Working /\ UNCHANGED <<wallet, deposit, dai>>

\* The account's transactions are mined in their order; a swap that reverts is mined, too.
Mine ==
  /\ pending # <<>> /\ pending' = Tail(pending)
  /\ \/ Head(pending).token = "rdn" /\ wallet' = wallet + SwapAmount /\ UNCHANGED dai
     \/ Head(pending).token = "dai" /\ dai' = dai + SwapAmount /\ UNCHANGED wallet
     \/ UNCHANGED <<wallet, dai>>
  /\ job' = IF Head(pending).own THEN [job EXCEPT !.step = "check"] ELSE job
  /\ UNCHANGED deposit /\ Working

\* _redirect_transfer_swap
TransferSwap == IF dai < Required THEN "dai" ELSE "launch"

\* Slip: whatever was bought is enough.
SlipCheckSwap ==
  /\ At(Swaps, "check")
  /\ IF job.what = "rdn" /\ wallet > Required
     THEN GoOn("deposit", TransferSwap) ELSE GoOn("answer", TransferSwap)
  /\ Working /\ UNCHANGED chain

\* After the swap: "Exchange was not successful", deposit all there is, or move on.
CheckSwap ==
  /\ At(Swaps, "check")
  /\ IF Total < Required THEN GoOn("answer", job.what)
     ELSE IF job.what = "rdn" /\ wallet > Required THEN GoOn("deposit", TransferSwap)
     ELSE GoOn("answer", TransferSwap)
  /\ Working /\ UNCHANGED chain

\* The deposit has a fixed gas limit and is waited for until it is mined.  One that the
\* contract refuses - for nothing, or rounded up - reverts, which nobody looks at.
DepositTo(amount) ==
  /\ \/ amount > 0 /\ deposit' = deposit + amount /\ wallet' = wallet - amount
     \/ UNCHANGED <<wallet, deposit>>
  /\ UNCHANGED <<dai, pending>>

SwapDeposits ==
  /\ At(Swaps, "deposit") /\ DepositTo(wallet) /\ GoOn("answer", job.to) /\ Working

\* Slip: the page that asked is shown again.
SlipDepositEnough ==
  /\ At({"deposit"}, "start") /\ deposit >= Required /\ GoOn("answer", "rdn")
  /\ Working /\ UNCHANGED chain

\* _run_udc_deposit: there is enough,
DepositEnough ==
  /\ At({"deposit"}, "start") /\ deposit >= Required /\ GoOn("answer", TransferSwap)
  /\ Working /\ UNCHANGED chain

\* Slip: what the swap should have brought is deposited, whatever it brought.
SlipMissing == SwapAmount - deposit

Missing == IF wallet >= SwapAmount THEN SwapAmount - deposit ELSE wallet

\* or what is missing, or what there is, is deposited; it may be nothing.
DepositRest ==
  /\ At({"deposit"}, "start") /\ deposit < Required
  /\ DepositTo(Missing) /\ GoOn("answer", TransferSwap) /\ Working

\* _send_redirect; the job ends.
Redirect ==
  /\ job.step = "answer" /\ job' = NoJob
  /\ goTo' = IF job.mine /\ goTo = "none" THEN job.to ELSE goTo
  /\ UNCHANGED <<page, view, polls, toggles, leave, socket, estimate, selected, inbox, chain,
                 late, gaveUp, confirms, faults>>

\* The messages of the connection that is not the job's.  Those of the page shown are the
\* last to have been sent.
OthersInbox ==
  LET old == Cardinality({k \in DOMAIN inbox : ~inbox[k].mine})
  IN  IF job.mine THEN SubSeq(inbox, 1, old) ELSE SubSeq(inbox, old + 1, Len(inbox))

Fault == faults < MaxFaults /\ faults' = faults + 1

\* "Invalid request": the configuration cannot be read.
InvalidRequest ==
  /\ Fault /\ At({"deposit"}, "start") /\ job' = NoJob
  /\ toggles' = IF job.mine THEN toggles + 1 ELSE toggles
  /\ UNCHANGED <<page, view, polls, goTo, leave, socket, estimate, selected, inbox, chain, late, gaveUp, confirms>>

\* The node refuses the approval or the deposit, as it does without ETH for the gas: a
\* ValueError, which leads to the page for RDN.
Refused ==
  /\ Fault
  /\ At({"deposit"}, "start") \/ At(Swaps, "deposit")
  /\ GoOn("answer", "rdn")
  /\ UNCHANGED <<dom, inbox, chain, late, gaveUp, confirms>>

\* An exception that on_message does not catch - a timeout, a lost node - closes the
\* socket; the page has no handler for that.
Raise ==
  /\ Fault /\ ~Idle /\ job' = NoJob
  /\ inbox' = OthersInbox
  /\ socket' = (socket /\ ~job.mine)
  /\ gaveUp' = (gaveUp \/ job.step = "wait")
  /\ pending' = [k \in DOMAIN pending |-> [pending[k] EXCEPT !.own = FALSE]]
  /\ UNCHANGED <<page, view, polls, toggles, goTo, leave, estimate, selected, wallet, deposit, dai, late, confirms>>

Serve ==
  \/ OnMessage \/ SwapFails \/ BuyTokens \/ CheckSwap \/ SwapDeposits
  \/ DepositEnough \/ DepositRest \/ Redirect

Next ==
  \/ Tick \/ SkipSwap \/ Confirm \/ ToggleDue \/ Navigate \/ Reload
  \/ \E e \in Exchanges : Estimated(e) \/ SelectExchange(e)
  \/ Serve \/ InvalidRequest \/ Refused \/ Raise \/ Mine

Spec == Init /\ [][Next]_vars

\* Timers fire, polls are answered and the wizard serves while it can; swaps are mined.
\* Nothing is asked of the user but not to confirm swaps for ever.  (Polls and messages share the wizard: a poll's turn
\* comes although the wizard is not always idle.)
FairSpec ==
  /\ Spec /\ WF_vars(Serve) /\ WF_vars(Mine) /\ WF_vars(Tick) /\ WF_vars(ToggleDue)
  /\ SF_vars(SkipSwap) /\ SF_vars(Navigate)

-----------------------------------------------------------------------------

MineIn(what) == {k \in DOMAIN inbox : inbox[k].what \in what /\ inbox[k].mine}
Served(what) == job.what \in what /\ job.mine

\* The state is well-formed.
TypeOK ==
  /\ page \in Swaps \cup {"launch"} /\ view \in {"main", "tracker"}
  /\ polls \in 0 .. MaxPolls /\ toggles \in 0 .. MaxFaults /\ goTo \in Swaps \cup {"launch", "none"}
  /\ leave \in BOOLEAN /\ confirms \in 0 .. MaxSwaps
  /\ socket \in BOOLEAN /\ late \in BOOLEAN /\ gaveUp \in BOOLEAN /\ faults \in 0 .. MaxFaults
  /\ estimate \in [Exchanges -> {"asked", "known", "failed"}]
  /\ selected \in Exchanges \cup {NoExchange}
  /\ \A m \in ToSet(inbox) : m.what \in Swaps \cup {"deposit"} /\ m.mine \in BOOLEAN
  /\ job \in [step: {"none", "start", "wait", "check", "deposit", "answer"},
              what: Swaps \cup {"deposit", "none"}, mine: BOOLEAN,
              to: Swaps \cup {"launch", "none"}]
  /\ wallet \in Nat /\ deposit \in Nat /\ dai \in Nat
  /\ \A t \in ToSet(pending) : t.token \in Swaps /\ t.own \in BOOLEAN

\* The main view means that nothing the page asked for is under way, so that what the
\* user can click there cannot repeat it - unless a poll was answered after the page
\* had gone to the tracker, and toggled it back.
MainMeansIdle ==
  view = "main" /\ ~late =>
    MineIn(Swaps \cup {"deposit"}) = {} /\ (Served(Swaps \cup {"deposit"}) => job.step = "none")

\* The spinner turns for something: a request, an answer about to show - or a socket
\* that an exception closed, which is the one way to wait forever.
SpinnerMeansWork ==
  view = "tracker" /\ socket =>
    MineIn(Swaps \cup {"deposit"}) # {} \/ job.mine \/ toggles > 0 \/ goTo # "none" \/ leave

\* The costs at an exchange that could not be estimated are not paid: whatever the order
\* of clicks and estimates, the swap that is confirmed is at another exchange.
EstimateFailed == selected # NoExchange => estimate[selected] # "failed"

\* A second swap joins one that is still on the chain only after the wait for that one
\* was given up; then nothing stops the user.
SecondSwapAfterTimeout == Len(pending) > 1 => gaveUp

\* Whoever gets to the launch page finds its button enabled, as far as tokens go: what
\* is bought, deposited or refused on the way, neither the wizard nor the page sends
\* anybody there with less than the nine tenths of both tokens that the page asks for.
\* (That the RDN is deposited is not said: a deposit that reverts counts as made.)
LaunchFunded == page = "launch" => EnoughServiceToken /\ EnoughTransferToken

\* With enough RDN the page for RDN is left, or its socket is closed.  Deposits may
\* revert, as one of nothing does, and polls and requests may cross: none of that keeps
\* the page, as long as the node refuses transactions a bounded number of times.
MovesOn == page = "rdn" /\ EnoughServiceToken ~> page # "rdn" \/ ~socket
=============================================================================
