------------------------------- MODULE MCLedger -------------------------------
(***************************************************************************)
(* Small instances of Ledger: a runner that holds two claims under one     *)
(* pid, a gpu-claim of a person at the shell, a pre-ledger gpu-claim, and  *)
(* one sweep.                                                              *)
(***************************************************************************)
EXTENDS Ledger, TLC

CONSTANTS r1, r2, g, h, o, p1, p2, p3, s1

MCPidOf == [c \in Claims |-> IF c \in {r1, r2} THEN p1
                             ELSE IF c \in {g} THEN p2 ELSE p3]
MCDeclarations == {None, 0, 1, 2, 4}
LiveDeclarations == {1, 3}

\* The two claims of the runner play the same part.
RunnersClaims == Permutations({r1, r2})
=============================================================================
