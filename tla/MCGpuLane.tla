------------------------------ MODULE MCGpuLane -------------------------------
(***************************************************************************)
(* A small instance of GpuLane: a card of 3 MiB for two holders; a job a   *)
(* that takes 2 of them and a job b behind it that takes 1, or jobs that   *)
(* can never be admitted; a user's gpu-claim g and a stranger s.           *)
(***************************************************************************)
EXTENDS GpuLane

CONSTANTS a, b, g, s

Declared(va, vb) ==
    [c \in Jobs \cup Users |-> CASE c = a -> va [] c = b -> vb [] c = g -> 2]
MCWants == {Declared(2, 1), Declared(4, 0)}
MCRank == [j \in Jobs |-> CASE j = a -> 1 [] j = b -> 2]
=============================================================================
