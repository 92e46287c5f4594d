---------------------------- MODULE MCEthFunding ----------------------------
(***************************************************************************)
(* EthFunding for TLC: two units of ETH, so that an account can have some  *)
(* and not enough, two transactions, so that one can be paid after another *)
(* and a second click can overtake the first's hash, one payment begun and *)
(* one message unread at a time (beside what is signed and what is         *)
(* tracked), five blocks and two confirmations, so that a balance can      *)
(* arrive between any two requests of the wait, and one fault.             *)
(***************************************************************************)
EXTENDS EthFunding
=============================================================================
