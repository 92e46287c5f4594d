-------------------------- MODULE MCAccountDrainer --------------------------
(***************************************************************************)
(* AccountDrainer for TLC: two accounts, so that one can keep the other    *)
(* waiting, one of them the receiver - who is a stranger to the drainer    *)
(* where the account is not unlocked - one change by others and two        *)
(* requests that fail.  Calls and transfers cost two units of ETH, so that *)
(* less than a fee can be left.                                            *)
(***************************************************************************)
EXTENDS AccountDrainer

Holding(e, r, d, u, p, ripe) ==
  [eth |-> e, rdn |-> r, dai |-> d, udc |-> u, plan |-> [amount |-> p, ripe |-> ripe]]

\* Nothing; everything, and nothing planned, with ETH for a call more; a plan for less than
\* there is; a plan that is not ripe, and ETH for just the calls; tokens and no ETH; the fee
\* of one transaction to spare; ETH for the tokens alone; enough ETH to send; too little.
MCHoldings ==
  { Holding(0, 0, 0, 0, 0, FALSE), Holding(13, 1, 1, 2, 0, FALSE), Holding(11, 0, 0, 2, 1, TRUE),
    Holding(6, 0, 1, 1, 1, FALSE), Holding(0, 1, 0, 0, 0, FALSE), Holding(4, 1, 0, 0, 0, FALSE),
    Holding(2, 0, 1, 0, 0, FALSE), Holding(3, 0, 0, 0, 0, FALSE), Holding(1, 0, 0, 0, 0, FALSE) }
=============================================================================
