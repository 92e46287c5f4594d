---------------------------- MODULE MCUdcDeposit ----------------------------
(***************************************************************************)
(* UdcDeposit for TLC.  Amounts are a handful of units.  The interesting   *)
(* ones are: nothing, less than required, exactly the required amount,     *)
(* between it and the swap amount, above the swap amount, and amounts that *)
(* lose a digit, half of which round up.                                   *)
(*                                                                         *)
(* The Slip... operators of UdcDeposit are changes of the code that break  *)
(* a property of the runs.                                                 *)
(***************************************************************************)
EXTENDS UdcDeposit
=============================================================================
