---------------------------- MODULE UdcDeposit ----------------------------
(***************************************************************************)
(* How the wizard brings service tokens into the User Deposit Contract.    *)
(*                                                                         *)
(* One WebSocket handler runs at a time (the server is single-threaded):   *)
(* _run_swap, _run_udc_deposit or, on test nets, _run_funding.  Each is a  *)
(* sequence of reads of the chain and transactions sent to it, and the     *)
(* chain moves between any two of them: transactions of this request or of *)
(* an interrupted earlier one are mined, services claim their fees,        *)
(* tokens arrive.  A handler may end anywhere, by a wait that times out,   *)
(* an RPC error or the end of the process, and leaves its transactions to  *)
(* the node; the user comes back and asks again.                           *)
(*                                                                         *)
(* Reorganisations of the chain are in TxWait: here a transaction that is  *)
(* mined stays mined.  ETH is left out: running out of it is one of the    *)
(* reasons of Interrupt.                                                   *)
(***************************************************************************)
EXTENDS Amounts, Sequences

CONSTANTS
  Required,     \* RequiredAmounts.service_token
  SwapAmount,   \* SwapAmounts.service_token
  Deliveries,   \* what a swap or a mint may bring
  Transfers,    \* what the user may send to the account by hand
  MaxTokens,    \* bound: tokens that ever reach the account
  MaxClaims,    \* bound: tokens the services claim
  MaxPool,      \* bound: transactions of the account waiting at the node
  MaxFaults     \* bound: requests cut short

ASSUME AmountsAssumption ==
  /\ Required \in Nat \ {0} /\ SwapAmount \in Nat /\ SwapAmount >= Required
  /\ Deliveries \subseteq Nat \ {0} /\ Transfers \subseteq Nat \ {0}
ASSUME BoundsAssumption ==
  /\ MaxTokens \in Nat /\ MaxClaims \in Nat
  /\ MaxPool \in Nat /\ MaxFaults \in Nat

VARIABLES
  \* the chain, for this account
  wallet,       \* balanceOf
  allowance,    \* what the UDC may take from the wallet
  total,        \* total_deposit of the UDC, which never falls
  claimed,      \* total_deposit minus effectiveBalance
  pool,         \* transactions sent and not mined, in the order of nonces
  \* the handler
  pc,           \* the call it makes next
  kind,         \* the request it serves
  balance,      \* service_token_balance as read
  owned,        \* get_total_token_owned: the balance that it reads
  amount,       \* deposit amount decided
  target,       \* total_deposit to reach
  \* history
  clean,        \* nothing was pending when it read the wallet
  exact,        \* no amount it read lost a digit
  faults        \* requests cut short so far

chain == <<wallet, allowance, total, claimed>>
locals == <<kind, balance, owned, amount, target, clean, exact>>
vars == <<chain, pool, pc, locals, faults>>

Kinds == {"swap", "udc_deposit", "funding"}

Waiting == {"acquired", "approved", "done"}

Steps == {"idle", "acquire", "balance", "owned", "effective", "deposited", "total",
          "allowance", "reset", "approve", "deposit", "redirect", "retry"}
         \cup Waiting

Tx == [op : {"acquire", "approve", "deposit"},
       amount : Nat, asked : Nat, kind : Kinds, clean : BOOLEAN]

-----------------------------------------------------------------------------

Min2(a, b) == IF a <= b THEN a ELSE b

\* effectiveBalance of the UDC.
Effective == total - claimed

-----------------------------------------------------------------------------

Init ==
  /\ wallet = 0 /\ allowance = 0 /\ total = 0 /\ claimed = 0
  /\ pool = << >>
  /\ pc = "idle" /\ kind = "udc_deposit"
  /\ balance = 0 /\ owned = 0 /\ amount = 0 /\ target = 0
  /\ clean = TRUE /\ exact = TRUE
  /\ faults = 0

(***************************************************************************)
(* The handlers                                                            *)
(***************************************************************************)

\* The handler returns, or is cut short, and forgets its locals.
Forget ==
  /\ pc' = "idle"
  /\ kind' = "udc_deposit" /\ balance' = 0 /\ owned' = 0 /\ amount' = 0 /\ target' = 0
  /\ clean' = TRUE /\ exact' = TRUE

\* send_raw_transaction: the nonce is the next after everything pending.
Send(op, n, a) ==
  /\ Len(pool) < MaxPool
  /\ pool' = Append(pool, [op |-> op, amount |-> n, asked |-> a,
                           kind |-> kind, clean |-> clean])
  /\ UNCHANGED <<chain, locals, faults>>

\* A message arrives.  A token that cannot be minted is not (funding).
Start(k, first) ==
  /\ pc = "idle"
  /\ <<k, first>> \in {<<"swap", "acquire">>, <<"funding", "acquire">>,
                       <<"funding", "balance">>, <<"udc_deposit", "balance">>}
  /\ pc' = first /\ kind' = k
  /\ UNCHANGED <<chain, pool, balance, owned, amount, target, clean, exact,
                 faults>>

\* buy_tokens, or mint_tokens.
Acquire ==
  pc = "acquire" /\ pc' = "acquired" /\ Send("acquire", 0, 0)

\* wait_for_transaction returns.  The transaction waited for is always the
\* last one sent, and they are mined in order.
Confirmed(wait, next) ==
  /\ pc = wait /\ pool = << >> /\ pc' = next
  /\ UNCHANGED <<chain, pool, locals, faults>>

\* get_token_balance.  _run_funding deposits all there is.
ReadBalance ==
  /\ pc = "balance"
  /\ balance' = Rounded(wallet)
  /\ clean' = (pool = << >>)
  /\ exact' = IsExact(wallet)
  /\ \/ /\ kind = "swap" /\ pc' = "owned" /\ UNCHANGED amount
     \/ /\ kind = "udc_deposit" /\ pc' = "deposited" /\ UNCHANGED amount
     \/ /\ kind = "funding" /\ amount' = balance'
        /\ pc' = IF balance' > 0 THEN "total" ELSE "redirect"
  /\ UNCHANGED <<chain, pool, kind, owned, target, faults>>

\* get_total_token_owned reads the balance again,
ReadOwned ==
  /\ pc = "owned" /\ pc' = "effective"
  /\ owned' = Rounded(wallet)
  /\ UNCHANGED <<chain, pool, kind, balance, amount, target, clean, exact,
                 faults>>

\* then the deposit: the tests of _run_swap on their sum and on the balance.
ReadEffective ==
  /\ pc = "effective" /\ owned' = 0
  /\ LET total_owned == Rounded(owned + Rounded(Effective)) IN
     \/ total_owned < Required /\ pc' = "retry" /\ UNCHANGED amount
     \/ /\ total_owned >= Required /\ balance > Required
        /\ pc' = "total" /\ amount' = balance
     \/ /\ total_owned >= Required /\ balance <= Required
        /\ pc' = "redirect" /\ UNCHANGED amount
  /\ UNCHANGED <<chain, pool, kind, balance, target, clean, exact,
                 faults>>

\* Slip: the deposit is topped up even when it is enough.
SlipTopUpAlways ==
  /\ pc = "deposited" /\ pc' = "total"
  /\ amount' = IF balance >= SwapAmount
               THEN SwapAmount - Rounded(Effective) ELSE balance
  /\ UNCHANGED <<chain, pool, kind, balance, owned, target, clean, exact, faults>>

\* Slip: the balance is compared with the required amount, not the swap amount.
SlipTopUpFromRequired ==
  /\ pc = "deposited"
  /\ LET deposited == Rounded(Effective) IN
     \/ deposited >= Required /\ pc' = "redirect" /\ UNCHANGED <<amount, exact>>
     \/ /\ deposited < Required /\ pc' = "total"
        /\ amount' = IF balance >= Required
                     THEN Rounded(SwapAmount - deposited)
                     ELSE balance
        /\ exact' = (exact /\ IsExact(Effective)
                           /\ IsExact(SwapAmount - deposited))
  /\ UNCHANGED <<chain, pool, kind, balance, owned, target, clean, faults>>

\* The branches of _run_udc_deposit on get_token_deposit: top up to the swap
\* amount, or else with all there is.
ReadDeposited ==
  /\ pc = "deposited"
  /\ LET deposited == Rounded(Effective) IN
     \/ deposited >= Required /\ pc' = "redirect" /\ UNCHANGED <<amount, exact>>
     \/ /\ deposited < Required /\ pc' = "total"
        /\ amount' = IF balance >= SwapAmount
                     THEN Rounded(SwapAmount - deposited)
                     ELSE balance
        /\ exact' = (exact /\ IsExact(Effective)
                           /\ IsExact(SwapAmount - deposited))
  /\ UNCHANGED <<chain, pool, kind, balance, owned, target, clean, faults>>

\* Slip: the whole balance is added instead of the amount decided on.
SlipDepositBalance ==
  /\ pc = "total" /\ pc' = "allowance"
  /\ target' = Rounded(Rounded(total) + balance)
  /\ exact' = (exact /\ IsExact(total) /\ IsExact(total + amount))
  /\ UNCHANGED <<chain, pool, kind, balance, owned, amount, clean, faults>>

\* deposit_service_tokens reads total_deposit and adds.
ReadTotal ==
  /\ pc = "total" /\ pc' = "allowance"
  /\ target' = Rounded(Rounded(total) + amount)
  /\ exact' = (exact /\ IsExact(total) /\ IsExact(total + amount))
  /\ UNCHANGED <<chain, pool, kind, balance, owned, amount, clean, faults>>

\* Slip: an allowance left over is taken for enough.
SlipKeepAllowance ==
  /\ pc = "allowance"
  /\ pc' = IF allowance > 0 THEN "deposit" ELSE "approve"
  /\ UNCHANGED <<chain, pool, locals, faults>>

\* Slip: an allowance left over is overwritten.
SlipNoReset ==
  /\ pc = "allowance" /\ pc' = "approve"
  /\ UNCHANGED <<chain, pool, locals, faults>>

\* approve looks at the allowance mined so far.
ReadAllowance ==
  /\ pc = "allowance"
  /\ pc' = IF allowance > 0 THEN "reset" ELSE "approve"
  /\ UNCHANGED <<chain, pool, locals, faults>>

\* approve(0) is sent and not waited for.
SendReset ==
  pc = "reset" /\ pc' = "approve" /\ Send("approve", 0, 0)

SendApprove ==
  pc = "approve" /\ pc' = "approved" /\ Send("approve", target, 0)

SendDeposit ==
  pc = "deposit" /\ pc' = "done" /\ Send("deposit", target, amount)

\* The page is told where to go; "retry" is _redirect_after_swap_error.
Answer ==
  /\ pc \in {"redirect", "retry"} /\ Forget
  /\ UNCHANGED <<chain, pool, faults>>

\* A wait takes longer than WEB3_TIMEOUT, the node answers a call with an
\* error or refuses a transaction, or the process ends.  Nothing is undone.
Interrupt ==
  /\ pc # "idle" /\ faults < MaxFaults
  /\ faults' = faults + 1 /\ Forget
  /\ UNCHANGED <<chain, pool>>

Work ==
  \/ Acquire \/ Confirmed("acquired", "balance") \/ ReadBalance \/ ReadOwned
  \/ ReadEffective \/ ReadDeposited \/ ReadTotal \/ ReadAllowance \/ SendReset \/ SendApprove
  \/ Confirmed("approved", "deposit") \/ SendDeposit
  \/ Confirmed("done", "redirect") \/ Answer

(***************************************************************************)
(* The chain                                                               *)
(***************************************************************************)

\* The account gets n tokens, under the bound.
Get(n) == wallet + total + n <= MaxTokens /\ wallet' = wallet + n

\* A swap or mint is mined and delivers, or fails.
MineAcquire ==
  /\ pool # << >> /\ Head(pool).op = "acquire"
  /\ pool' = Tail(pool)
  /\ wallet' = wallet \/ \E n \in Deliveries : Get(n)
  /\ UNCHANGED <<allowance, total, claimed, pc, locals, faults>>

MineApprove ==
  /\ pool # << >> /\ Head(pool).op = "approve"
  /\ pool' = Tail(pool)
  /\ allowance' = Head(pool).amount
  /\ UNCHANGED <<wallet, total, claimed, pc, locals, faults>>

\* deposit(beneficiary, new_total_deposit) of the UDC takes the difference, or
\* reverts: when the total is reached, or the allowance or the wallet too low.
CanDeposit(new) ==
  new > total /\ new - total <= allowance /\ new - total <= wallet

MineDeposit ==
  /\ pool # << >> /\ Head(pool).op = "deposit"
  /\ pool' = Tail(pool)
  /\ LET new == Head(pool).amount IN
     IF CanDeposit(new)
     THEN /\ total' = new
          /\ wallet' = wallet - (new - total)
          /\ allowance' = allowance - (new - total)
     ELSE UNCHANGED <<total, wallet, allowance>>
  /\ UNCHANGED <<claimed, pc, locals, faults>>

\* Services are paid out of the deposit.
Claim ==
  /\ claimed < Min2(total, MaxClaims) /\ claimed' = claimed + 1
  /\ UNCHANGED <<wallet, allowance, total, pool, pc, locals, faults>>

\* The user sends tokens to the account.
Receive ==
  /\ \E n \in Transfers : Get(n)
  /\ UNCHANGED <<allowance, total, claimed, pool, pc, locals, faults>>

Mine == MineAcquire \/ MineApprove \/ MineDeposit

Next ==
  \/ \E k \in Kinds, first \in {"acquire", "balance"} : Start(k, first)
  \/ Work \/ Interrupt \/ Mine \/ Claim \/ Receive

Spec == Init /\ [][Next]_vars

\* The swap page asks for a deposit as long as it sees enough tokens: skipSwap
\* runs every five seconds, and messages are served in turn.
AutoDeposit ==
  wallet + Effective >= Required /\ Start("udc_deposit", "balance")

FairSpec == Spec /\ WF_vars(Work) /\ WF_vars(Mine) /\ SF_vars(AutoDeposit)

-----------------------------------------------------------------------------
(***************************************************************************)
(* Properties                                                              *)
(***************************************************************************)

\* Every variable keeps its type, and services claim no more than there is.
TypeOK ==
  /\ wallet \in Nat /\ allowance \in Nat /\ total \in Nat
  /\ claimed \in 0 .. total
  /\ pool \in Seq(Tx)
  /\ pc \in Steps /\ kind \in Kinds
  /\ balance \in Nat /\ owned \in Nat /\ amount \in Nat /\ target \in Nat
  /\ clean \in BOOLEAN /\ exact \in BOOLEAN
  /\ faults \in 0 .. MaxFaults

\* No deposit fails for want of an allowance: whatever approvals, resets and
\* deposits of interrupted requests are mined before it, what it takes has been
\* approved when its turn comes (deposit_service_tokens).
DepositCovered ==
  pool # << >> /\ Head(pool).op = "deposit"
    => Head(pool).amount <= total + allowance

\* A deposit adds no more than its own request asked for, give or take the last
\* digit, although other deposits were mined since the request read
\* total_deposit.  And what _run_udc_deposit decides to deposit is still needed
\* when it is mined, if nothing was pending when the request began: no other
\* deposit has filled the need.  (A request that begins while the deposit of one
\* that timed out is on its way may deposit for the same need again, and those of
\* a swap or a funding do not ask whether there is a need.)
NoDoubleDeposit ==
  [][ total' # total =>
        /\ pool # << >> /\ Head(pool).op = "deposit"
        /\ total' \in total .. total + Head(pool).asked + Grain
        /\ Head(pool).kind = "udc_deposit" /\ Head(pool).clean
             => Effective < Required + Grain ]_vars

\* An allowance is never changed from one amount to another: between them it is
\* zero, as `approve' takes care of, provided nothing of an earlier request was
\* still pending when this one began.
ApprovesFromZero ==
  pool # << >> /\ Head(pool).op = "approve" /\ Head(pool).amount > 0
    /\ Head(pool).clean => allowance = 0

\* A request that began with nothing pending and read amounts that lose no digit
\* has reached the deposit it decided on when it sends the page on, whatever the
\* services claimed and whatever arrived meanwhile.
CleanRequestSettles ==
  pc = "redirect" /\ clean /\ exact => total >= target

\* "By clicking confirm the tokens will be bought and deposited instantly on your
\* behalf" (swap.html): a swap that is congratulated on has deposited.
BoughtAndDeposited ==
  pc = "redirect" /\ kind = "swap" => total >= Required


\* A transaction of the account offers what its request asked for, give or take
\* the last digit, if it is a deposit, and nothing else.
Offer(tx) == IF tx.op = "deposit" THEN tx.asked + Grain ELSE 0

\* The deposits implement the abstract promise: an offer is settled when its
\* transaction is mined.
Escrow == INSTANCE TokenEscrow WITH
  wallet <- wallet, escrow <- total,
  offers <- [i \in 1 .. Len(pool) |-> Offer(pool[i])]

ImplementsEscrow == Escrow!Spec

=============================================================================
