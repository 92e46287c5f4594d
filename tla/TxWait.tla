------------------------------- MODULE TxWait -------------------------------
(***************************************************************************)
(* wait_for_transaction: one call of it, against a chain that grows,       *)
(* reorganises and stalls.  The call polls the receipt of one transaction  *)
(* and the height of the chain with separate requests, between which the   *)
(* chain moves, until the receipt's block is deep enough or time is up.    *)
(***************************************************************************)
EXTENDS Naturals

CONSTANTS
  Confirmations,   \* REQUIRED_BLOCK_CONFIRMATIONS
  Timeout,         \* WEB3_TIMEOUT, in turns of the loop
  Drops,           \* may a reorganisation leave the transaction out?
  MaxDepth,        \* bound: blocks a reorganisation replaces
  MaxHeight        \* bound: height of the chain

ASSUME WaitAssumption ==
  /\ Confirmations \in Nat /\ Timeout \in Nat \ {0} /\ Drops \in BOOLEAN
  /\ MaxDepth \in Nat /\ MaxHeight \in Nat

VARIABLES
  \* the chain
  height,     \* eth_blockNumber
  block,      \* the block that holds the transaction, or None
  reorgs,     \* has the chain reorganised since the last receipt?
  \* the call
  pc,
  current,    \* current_block
  seen,       \* block_with_transaction
  elapsed     \* turns since time_start

chainVars == <<height, block, reorgs>>
vars == <<chainVars, pc, current, seen, elapsed>>

\* No block: math.inf in the code.  Blocks are counted from 1.
None == 0

Returned == {"confirmed", "timeout"}

Init ==
  /\ height = 0 /\ block = None /\ reorgs = FALSE
  /\ pc = "start" /\ current = 0 /\ seen = None /\ elapsed = 0

-----------------------------------------------------------------------------
(* The call *)

\* current_block is read before the loop.
ReadStart ==
  /\ pc = "start" /\ pc' = "test" /\ current' = height
  /\ UNCHANGED <<chainVars, seen, elapsed>>

Deep == seen # None /\ current >= seen + Confirmations

\* Slip: one confirmation too few.
SlipShallow ==
  /\ pc = "test"
  /\ \/ seen # None /\ current + 1 >= seen + Confirmations /\ pc' = "confirmed"
     \/ ~Deep /\ elapsed >= Timeout /\ pc' = "timeout"
     \/ ~Deep /\ elapsed < Timeout /\ pc' = "receipt"
  /\ UNCHANGED <<chainVars, current, seen, elapsed>>

\* Slip: a transaction not found yet is as good as in block 0.
SlipNotFound ==
  /\ pc = "test"
  /\ \/ current >= seen + Confirmations /\ pc' = "confirmed"
     \/ current < seen + Confirmations /\ pc' = "receipt"
  /\ UNCHANGED <<chainVars, current, seen, elapsed>>

\* Slip: only a transaction that was not found times out.
SlipTimeout ==
  /\ pc = "test"
  /\ \/ Deep /\ pc' = "confirmed"
     \/ ~Deep /\ elapsed >= Timeout /\ seen = None /\ pc' = "timeout"
     \/ ~Deep /\ (elapsed < Timeout \/ seen # None) /\ pc' = "receipt"
  /\ UNCHANGED <<chainVars, current, seen, elapsed>>

\* The loop condition, and the time: TransactionTimeoutError.
Test ==
  /\ pc = "test"
  /\ \/ Deep /\ pc' = "confirmed"
     \/ ~Deep /\ elapsed >= Timeout /\ pc' = "timeout"
     \/ ~Deep /\ elapsed < Timeout /\ pc' = "receipt"
  /\ UNCHANGED <<chainVars, current, seen, elapsed>>

\* getTransactionReceipt: TransactionNotFound leaves the block of an earlier
\* receipt in place.
ReadReceipt ==
  /\ pc = "receipt" /\ pc' = "height"
  /\ IF block # None
     THEN seen' = block /\ reorgs' = FALSE
     ELSE UNCHANGED <<seen, reorgs>>
  /\ UNCHANGED <<height, block, current, elapsed>>

\* Slip: the pending block is counted as mined.
SlipPending ==
  /\ pc = "height" /\ pc' = "sleep" /\ current' = height + 1
  /\ UNCHANGED <<chainVars, seen, elapsed>>

ReadHeight ==
  /\ pc = "height" /\ pc' = "sleep" /\ current' = height
  /\ UNCHANGED <<chainVars, seen, elapsed>>

\* A turn takes a second.  Time past the timeout is not told apart.
Sleep ==
  /\ pc = "sleep" /\ pc' = "test"
  /\ elapsed' = IF elapsed < Timeout THEN elapsed + 1 ELSE elapsed
  /\ UNCHANGED <<chainVars, current, seen>>

Call == ReadStart \/ Test \/ ReadReceipt \/ ReadHeight \/ Sleep

-----------------------------------------------------------------------------
(* The chain *)

\* A block, with the transaction in it or not.
NewBlock ==
  /\ height < MaxHeight /\ height' = height + 1
  /\ IF block = None THEN block' \in {None, height'} ELSE UNCHANGED block
  /\ UNCHANGED <<reorgs, pc, current, seen, elapsed>>

\* The last d blocks give way to d + 1 others, which may hold the transaction.
\* Without Drops they do if the old ones did.
Reorganise(d) ==
  /\ d <= height /\ height < MaxHeight /\ height' = height + 1
  /\ reorgs' = TRUE
  /\ IF block # None /\ block <= height - d
     THEN UNCHANGED block
     ELSE /\ block' \in {None} \cup (height - d + 1) .. height'
          /\ block' = None => Drops \/ block = None
  /\ UNCHANGED <<pc, current, seen, elapsed>>

\* Requests are slow.
Slow ==
  /\ pc \notin Returned /\ elapsed < Timeout /\ elapsed' = elapsed + 1
  /\ UNCHANGED <<chainVars, pc, current, seen>>

Next ==
  Call \/ NewBlock \/ Slow \/ \E d \in 1 .. MaxDepth : Reorganise(d)

Spec == Init /\ [][Next]_vars

\* The server runs the call to its end; the chain may stall for good.
FairSpec == Spec /\ WF_vars(Call)

-----------------------------------------------------------------------------
(* Properties *)

TypeOK ==
  /\ height \in 0 .. MaxHeight /\ block \in 0 .. height /\ reorgs \in BOOLEAN
  /\ pc \in {"start", "test", "receipt", "height", "sleep"} \cup Returned
  /\ current \in 0 .. height /\ seen \in Nat
  /\ elapsed \in 0 .. Timeout

\* "Transaction confirmed" (web.py): when the call returns, the transaction is in
\* the chain.  It holds as long as a reorganisation keeps the transaction.
ConfirmedIsMined ==
  [][ pc' = "confirmed" /\ pc # pc' => block # None ]_vars

\* When the call returns and the chain has not reorganised since the last
\* receipt, the transaction is as deep as it says, whatever blocks came between
\* the receipt, the height and the test.
ConfirmedIsDeep ==
  [][ pc' = "confirmed" /\ pc # pc' /\ ~reorgs
        => block # None /\ height >= block + Confirmations ]_vars

\* The call never blocks the server for good, even when the chain stalls with the
\* transaction mined and not confirmed.
CallReturns == <>(pc \in Returned)
=============================================================================
