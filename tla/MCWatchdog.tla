------------------------------ MODULE MCWatchdog ------------------------------
(***************************************************************************)
(* Small instances of Watchdog: two jobs of the runner, or a job beside a  *)
(* gpu-claim of another user.                                              *)
(***************************************************************************)
EXTENDS Watchdog

CONSTANTS i, j, f
=============================================================================
