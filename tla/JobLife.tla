-------------------------------- MODULE JobLife -------------------------------
(***************************************************************************)
(* What the queue promises about a job, whatever files and crashes it      *)
(* takes: it is in one state at a time, goes back from running to pending  *)
(* only for a retry that was charged to it first, is charged at most       *)
(* MAX_ATTEMPTS times, and stays done or failed once it is.                *)
(***************************************************************************)
EXTENDS Naturals

CONSTANTS Jobs, MAX_ATTEMPTS

VARIABLES
    state,    \* the state of each job, "absent" before it is submitted
    attempts, \* retries charged to it
    charged   \* is it running with a charged retry it has not taken yet?

vars == <<state, attempts, charged>>

Init ==
    /\ state = [j \in Jobs |-> "absent"]
    /\ attempts = [j \in Jobs |-> 0]
    /\ charged = [j \in Jobs |-> FALSE]

Move(j, s, t) == state[j] = s /\ state' = [state EXCEPT ![j] = t]

Submit(j) == Move(j, "absent", "pending") /\ UNCHANGED <<attempts, charged>>

Start(j) == Move(j, "pending", "running") /\ UNCHANGED <<attempts, charged>>

Cancel(j) == Move(j, "pending", "failed") /\ UNCHANGED <<attempts, charged>>

Charge(j) ==
    /\ state[j] = "running" /\ ~charged[j]
    /\ attempts[j] < MAX_ATTEMPTS
    /\ attempts' = [attempts EXCEPT ![j] = @ + 1]
    /\ charged' = [charged EXCEPT ![j] = TRUE]
    /\ UNCHANGED state

Retry(j) ==
    /\ charged[j]
    /\ charged' = [charged EXCEPT ![j] = FALSE]
    /\ Move(j, "running", "pending")
    /\ UNCHANGED attempts

\* The runner died between charging a retry and granting it.
Forfeit(j) ==
    /\ charged[j]
    /\ charged' = [charged EXCEPT ![j] = FALSE]
    /\ UNCHANGED <<state, attempts>>

Settle(j) ==
    /\ ~charged[j]
    /\ \E t \in {"done", "failed"} : Move(j, "running", t)
    /\ UNCHANGED <<attempts, charged>>

Next ==
    \E j \in Jobs : \/ Submit(j) \/ Start(j) \/ Cancel(j)
                    \/ Charge(j) \/ Retry(j) \/ Forfeit(j) \/ Settle(j)

Spec == Init /\ [][Next]_vars
=============================================================================
