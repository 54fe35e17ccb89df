------------------------------ MODULE MCJobQueue ------------------------------
(***************************************************************************)
(* Small instances of JobQueue: a CPU job a and a GPU job b, which share a *)
(* dedupe key or not, a job x of a project nobody declared, and one call   *)
(* of each kind per job.                                                   *)
(***************************************************************************)
EXTENDS JobQueue

CONSTANTS a, b, x, k, s1, s2, s3, s4, c1, w1

NoKeys == [j \in Jobs |-> None]
OneKey == [j \in Jobs |-> IF j = x THEN None ELSE k]
MCSubmitOf == [u \in Submits |-> IF u \in {s1, s4} THEN a
                               ELSE IF u = s2 THEN b ELSE x]
MCCancelOf == [c \in Cancels |-> a]
MCWaitOf == [w \in Waits |-> a]
=============================================================================
