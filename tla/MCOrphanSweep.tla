----------------------------- MODULE MCOrphanSweep -----------------------------
(***************************************************************************)
(* A small instance of OrphanSweep: a job, a gpu-claim and a --scope-pid   *)
(* claim in the default directory, and another user's gpu-claim in the     *)
(* configured one; the runner's environment, the default and the           *)
(* configuration all differ.                                               *)
(***************************************************************************)
EXTENDS OrphanSweep

CONSTANTS j, c, s, g

MCDirOf == [k \in Claims |-> IF k = g THEN "config" ELSE "default"]
================================================================================
