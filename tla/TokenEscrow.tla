---------------------------- MODULE TokenEscrow ----------------------------
(***************************************************************************)
(* What a deposit of service tokens promises, with no word of allowances,  *)
(* nonces, retries or the server: tokens leave the wallet only into the    *)
(* escrow, and an accepted offer brings the escrow at most what it names,  *)
(* at most once and in the order the offers were made.  UdcDeposit         *)
(* implements it: an offer is a transaction of the account, its amount     *)
(* what the request meant to add (nothing for an approval or a purchase).  *)
(***************************************************************************)
EXTENDS Naturals, Sequences

VARIABLES
  wallet,   \* tokens in the account's own hands
  escrow,   \* tokens ever deposited for the account
  offers    \* amounts offered and not settled yet, oldest first

vars == <<wallet, escrow, offers>>

Init == wallet = 0 /\ escrow = 0 /\ offers = << >>

\* An offer is queued.  It moves nothing.
Offer ==
  /\ Len(offers') = Len(offers) + 1
  /\ offers'[Len(offers')] \in Nat
  /\ offers' = Append(offers, offers'[Len(offers')])
  /\ UNCHANGED <<wallet, escrow>>

\* The oldest offer is settled, for its amount or less.  What it takes from
\* the wallet is in the escrow; tokens bought may come in with it.
Settle ==
  /\ offers # << >>
  /\ offers' = Tail(offers)
  /\ escrow' \in escrow .. escrow + Head(offers)
  /\ wallet' \in Nat
  /\ wallet' + escrow' >= wallet + escrow

\* Tokens reach the wallet by themselves.
Receive ==
  /\ wallet' \in Nat /\ wallet' > wallet
  /\ UNCHANGED <<escrow, offers>>

Next == Offer \/ Settle \/ Receive

Spec == Init /\ [][Next]_vars
=============================================================================
