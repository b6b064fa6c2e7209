---------------------------- MODULE MCScheduler ----------------------------
(***************************************************************************)
(* The instance of Scheduler for TLC: a few events and minutes, and        *)
(* handlers that advance the clock up to three deep.                       *)
(***************************************************************************)
EXTENDS Scheduler
=============================================================================
