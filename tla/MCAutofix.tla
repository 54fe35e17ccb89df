------------------------------ MODULE MCAutofix -------------------------------
(***************************************************************************)
(* A small instance of Autofix: two faults, a budget of one run per day of *)
(* two units, and a list that shows the newest issue only.                 *)
(***************************************************************************)
EXTENDS Autofix

CONSTANTS s, t
=============================================================================
