----------------------------- MODULE MCSwapPage -----------------------------
(***************************************************************************)
(* SwapPage for TLC: two units are required, of which the pages take one   *)
(* for enough, so that balances fall between the two; a swap brings three, *)
(* more than is required; two polls, so that one can be answered after     *)
(* another has toggled the view; two swaps, so that one can join another;  *)
(* one exchange button, which can be selected and deselected; one fault.   *)
(***************************************************************************)
EXTENDS SwapPage
=============================================================================
