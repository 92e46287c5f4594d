--------------------------- MODULE MCRaidenLaunch ---------------------------
(***************************************************************************)
(* RaidenLaunch for TLC: four processes, of which the user may start one,  *)
(* and two crashes, so that a process of an earlier run, one of this run   *)
(* and a foreign one can meet.                                             *)
(***************************************************************************)
EXTENDS RaidenLaunch
=============================================================================
