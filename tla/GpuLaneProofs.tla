---------------------------- MODULE GpuLaneProofs -----------------------------
(***************************************************************************)
(* GpuLane, for every set of jobs, users and strangers, every capacity and *)
(* every time to live of a verdict: the type invariant, that the runner    *)
(* holds a claim for exactly the jobs it has started or is starting, that  *)
(* no pass overlooks a stray for longer than the time to live, and that    *)
(* jobs are failed for want of a GPU only after that many passes in a row. *)
(***************************************************************************)
EXTENDS GpuLane, TLAPS

\* The record of the last passes stays one (Recorded).
LEMMA RecordedType ==
    ASSUME TypeOK, NEW failed \in BOOLEAN, Recorded(failed)
    PROVE  hist' \in [1 .. GPUID_STRIKES -> BOOLEAN]
<1>1. ASSUME NEW i \in 1 .. GPUID_STRIKES, i # 1
      PROVE  hist[i - 1] \in BOOLEAN
  <2>1. i - 1 \in 1 .. GPUID_STRIKES
    BY <1>1, LaneAssumption
  <2> QED BY <2>1 DEF TypeOK
<1> QED BY <1>1 DEF Recorded

\* Ages stay within the time to live (Older).
LEMMA OlderType == ASSUME NEW age \in 0 .. TTL PROVE Older(age) \in 0 .. TTL
BY LaneAssumption DEF Older

\* What a verdict of preflight leads to (_ready_card).
LEMMA VerdictIs ==
    ASSUME NEW clear, Verdict(clear)
    PROVE  \/ clear /\ phase' = "identify" /\ UNCHANGED <<todo, cur, strikes, hist>>
           \/ ~clear /\ PassEnds /\ strikes' = 0 /\ Recorded(FALSE)
BY Zenon DEF Verdict, NoStrike

\* What a new runner starts from (Restarted).
LEMMA RestartedIs ==
    ASSUME Restarted
    PROVE  /\ crashes < MaxCrashes /\ crashes' = crashes + 1
           /\ Ledger!Depart(Jobs \cap DOMAIN book) /\ PassEnds /\ active' = {}
           /\ usable' = None /\ strikes' = 0 /\ lookAge' = TTL
           /\ UNCHANGED <<old, answering, strangers, want, state, attempts>>
           /\ key' \in BOOLEAN /\ lookClear' \in BOOLEAN /\ ~lookClear'
           /\ hist' \in [1 .. GPUID_STRIKES -> BOOLEAN]
BY Zenon DEF Restarted

\* Every step keeps the state of the lane within its types.
LEMMA TypeStep == TypeOK /\ CurIsJob /\ [Next]_vars => TypeOK' /\ CurIsJob'
<1> SUFFICES ASSUME TypeOK, CurIsJob, [Next]_vars PROVE TypeOK' /\ CurIsJob'
  OBVIOUS
<1> USE LaneAssumption, NoneIsNoNumber
    DEF TypeOK, CurIsJob, Participants, card, queue, runner, cache, history,
        Ledger!Declarable, Ledger!IsDeclaredMB
<1>1. ASSUME Reap PROVE TypeOK' /\ CurIsJob'
  BY <1>1 DEF Reap
<1>2. ASSUME AdmitBegins PROVE TypeOK' /\ CurIsJob'
  <2>1. hist' \in [1 .. GPUID_STRIKES -> BOOLEAN]
    BY <1>2, RecordedType DEF AdmitBegins, NoStrike
  <2>2. CASE Pending # {} /\ Capacity > 0
    BY <1>2, <2>2 DEF AdmitBegins, Pending
  <2>3. CASE ~(Pending # {} /\ Capacity > 0)
    <3>1. PassEnds /\ strikes' = 0
      BY <1>2, <2>3 DEF AdmitBegins, NoStrike
    <3>2. UNCHANGED <<card, queue, active, usable, key, lookAge, lookClear, crashes,
                      unseen>>
      BY <1>2 DEF AdmitBegins
    <3> QED BY <2>1, <3>1, <3>2 DEF PassEnds
  <2> QED BY <2>2, <2>3
<1>3. ASSUME PreflightCached PROVE TypeOK' /\ CurIsJob'
  <2>1. \/ phase' = "identify" /\ UNCHANGED <<todo, cur, strikes, hist>>
        \/ PassEnds /\ strikes' = 0 /\ hist' \in [1 .. GPUID_STRIKES -> BOOLEAN]
    BY RecordedType, <1>3, VerdictIs DEF PreflightCached
  <2> QED BY <1>3, <2>1 DEF PreflightCached, PassEnds
<1>4. ASSUME PreflightLooks PROVE TypeOK' /\ CurIsJob'
  <2>1. \/ phase' = "identify" /\ UNCHANGED <<todo, cur, strikes, hist>>
        \/ PassEnds /\ strikes' = 0 /\ hist' \in [1 .. GPUID_STRIKES -> BOOLEAN]
    BY RecordedType, <1>4, VerdictIs DEF PreflightLooks
  <2>3. lookClear' \in BOOLEAN
    BY <1>4, Zenon DEF PreflightLooks
  <2>4. unseen' \in [Jobs \cup Strangers -> 0 .. TTL] /\ lookAge' \in 0 .. TTL
    BY <1>4 DEF PreflightLooks
  <2>5. UNCHANGED <<card, queue, active, usable, key, crashes>> /\ phase = "preflight"
    BY <1>4 DEF PreflightLooks
  <2> QED BY <2>1, <2>3, <2>4, <2>5 DEF PassEnds
<1>5. ASSUME Identified PROVE TypeOK' /\ CurIsJob'
  <2>1. hist' \in [1 .. GPUID_STRIKES -> BOOLEAN]
    BY <1>5, RecordedType DEF Identified, NoStrike
  <2> QED BY <1>5, <2>1 DEF Identified, NoStrike
<1>6. ASSUME Unidentified PROVE TypeOK' /\ CurIsJob'
  <2>1. hist' \in [1 .. GPUID_STRIKES -> BOOLEAN]
    BY <1>6, RecordedType DEF Unidentified
  <2> QED BY <1>6, <2>1 DEF Unidentified, PassEnds
<1>7. ASSUME ClaimJob PROVE TypeOK' /\ CurIsJob'
  BY <1>7 DEF ClaimJob
<1>8. ASSUME ClaimLost PROVE TypeOK' /\ CurIsJob'
  BY <1>8 DEF ClaimLost, Ledger!Depart
<1>9. ASSUME LaunchFails PROVE TypeOK' /\ CurIsJob'
  BY <1>9 DEF LaunchFails, Ledger!Depart
<1>10. ASSUME Launch PROVE TypeOK' /\ CurIsJob'
  BY <1>10 DEF Launch
<1>11. ASSUME LoopEnds PROVE TypeOK' /\ CurIsJob'
  BY <1>11 DEF LoopEnds, PassEnds
<1>12. ASSUME NEW j \in Jobs, CollectRunning(j) PROVE TypeOK' /\ CurIsJob'
  BY <1>12 DEF CollectRunning
<1>13. ASSUME NEW j \in Jobs, CollectEnded(j) PROVE TypeOK' /\ CurIsJob'
  BY <1>13 DEF CollectEnded, Ledger!Depart
<1>14. ASSUME NEW j \in Jobs, FailNoGpu(j) PROVE TypeOK' /\ CurIsJob'
  BY <1>14 DEF FailNoGpu, Visiting, FailPending, Visited
<1>16. ASSUME NEW j \in Jobs, TakeFails(j) PROVE TypeOK' /\ CurIsJob'
  BY <1>16 DEF TakeFails, TakeCard, usable_mb, Visiting, FailPending, Visited
<1>17. ASSUME NEW j \in Jobs, TakeEndsPass(j) PROVE TypeOK' /\ CurIsJob'
  BY <1>17 DEF TakeEndsPass, Claimable, TakeCard, usable_mb, Visiting,
       PassEnds
<1>18. ASSUME NEW j \in Jobs, TakeBusy(j) PROVE TypeOK' /\ CurIsJob'
  BY <1>18 DEF TakeBusy, Claimable, TakeCard, usable_mb, Visiting, Visited
<1>19. ASSUME NEW j \in Jobs, Taken(j) PROVE TypeOK' /\ CurIsJob'
  BY <1>19 DEF Taken, Claimable, TakeCard, usable_mb, Visiting, Ledger!Enter
<1>20. ASSUME NEW j \in Jobs, Submit(j) PROVE TypeOK' /\ CurIsJob'
  BY <1>20 DEF Submit
<1>21. ASSUME NEW j \in Jobs, Cancel(j) PROVE TypeOK' /\ CurIsJob'
  BY <1>21 DEF Cancel
<1>22. ASSUME NEW j \in Jobs, Work(j) PROVE TypeOK' /\ CurIsJob'
  BY <1>22 DEF Work
<1>23. ASSUME NEW j \in Jobs, ProcEnds(j) PROVE TypeOK' /\ CurIsJob'
  <2>1. unseen' \in [Jobs \cup Strangers -> 0 .. TTL]
    BY <1>23 DEF ProcEnds
  <2> QED BY <1>23, <2>1 DEF ProcEnds
<1>24. ASSUME NEW u \in Users, UserTakes(u) PROVE TypeOK' /\ CurIsJob'
  BY <1>24 DEF UserTakes, Ledger!Enter
<1>25. ASSUME NEW u \in Users, UserLeaves(u) PROVE TypeOK' /\ CurIsJob'
  BY <1>25 DEF UserLeaves, Ledger!Depart
<1>26. ASSUME NEW x \in Strangers, StrangerArrives(x)
       PROVE  TypeOK' /\ CurIsJob'
  BY <1>26 DEF StrangerArrives
<1>27. ASSUME NEW x \in Strangers, StrangerLeaves(x)
       PROVE  TypeOK' /\ CurIsJob'
  <2>1. unseen' \in [Jobs \cup Strangers -> 0 .. TTL]
    BY <1>27 DEF StrangerLeaves
  <2> QED BY <1>27, <2>1 DEF StrangerLeaves
<1>28. ASSUME OldClaim PROVE TypeOK' /\ CurIsJob'
  BY <1>28 DEF OldClaim
<1>29. ASSUME Flap PROVE TypeOK' /\ CurIsJob'
  BY <1>29 DEF Flap
<1>30. ASSUME Clock PROVE TypeOK' /\ CurIsJob'
  <2>1. unseen' \in [Jobs \cup Strangers -> 0 .. TTL]
    <3>1. \A x \in Jobs \cup Strangers : Older(unseen[x]) \in 0 .. TTL
      BY OlderType
    <3> QED BY <1>30, <3>1 DEF Clock
  <2>2. lookAge' \in 0 .. TTL
    BY <1>30, OlderType DEF Clock
  <2> QED BY <1>30, <2>1, <2>2 DEF Clock
<1>31. ASSUME Crash PROVE TypeOK' /\ CurIsJob'
  <2>1. unseen' \in [Jobs \cup Strangers -> 0 .. TTL]
    BY <1>31 DEF Crash
  <2>3. Restarted /\ proc' \in [Jobs -> {"none", "started", "cuda"}]
    BY <1>31 DEF Crash
  <2> QED BY <2>1, <2>3, RestartedIs DEF PassEnds, Ledger!Depart
<1>32. ASSUME Shutdown PROVE TypeOK' /\ CurIsJob'
  <2>1. unseen' \in [Jobs \cup Strangers -> 0 .. TTL]
    BY <1>32 DEF Shutdown
  <2>3. Restarted /\ proc' \in [Jobs -> {"none", "started", "cuda"}]
    BY <1>32 DEF Shutdown
  <2> QED BY <2>1, <2>3, RestartedIs DEF PassEnds, Ledger!Depart
<1>33. CASE UNCHANGED vars
  BY <1>33 DEF vars
<1> QED BY <1>1, <1>2, <1>3, <1>4, <1>5, <1>6, <1>7, <1>8, <1>9, <1>10, <1>11,
       <1>12, <1>13, <1>14, <1>16, <1>17, <1>18, <1>19, <1>20, <1>21,
       <1>22, <1>23, <1>24, <1>25, <1>26, <1>27, <1>28, <1>29, <1>30, <1>31,
       <1>32, <1>33
     DEF Next, RunnerNext

LEMMA TypeInit == Init => TypeOK /\ CurIsJob
<1> SUFFICES ASSUME Init PROVE TypeOK /\ CurIsJob
  OBVIOUS
<1>1. /\ old \in BOOLEAN /\ answering \in BOOLEAN /\ key \in BOOLEAN
      /\ lookClear \in BOOLEAN /\ hist \in [1 .. GPUID_STRIKES -> BOOLEAN]
  BY Zenon DEF Init
<1>2. DOMAIN book = {}
  BY DEF Init
<1>3. unseen \in [Jobs \cup Strangers -> 0 .. TTL] /\ lookAge \in 0 .. TTL
  BY LaneAssumption DEF Init
<1>4. /\ state \in [Jobs -> {"absent", "pending", "running", "done", "failed"}]
      /\ attempts \in [Jobs -> 0 .. MAX_ATTEMPTS]
      /\ proc \in [Jobs -> {"none", "started", "cuda"}]
  BY LaneAssumption DEF Init
<1>5. /\ phase = "reap" /\ todo = {} /\ active = {} /\ cur = None /\ usable = None
      /\ strikes = 0 /\ crashes = 0 /\ want \in Wants /\ strangers = {}
  BY DEF Init
<1> QED BY <1>1, <1>2, <1>3, <1>4, <1>5, LaneAssumption
        DEF TypeOK, CurIsJob, Participants

\* The state of the lane is always within its types.
THEOREM TypeCorrect == Spec => []TypeOK
BY TypeInit, TypeStep, PTL DEF Spec

-------------------------------------------------------------------------------
(***************************************************************************)
(* Claims.                                                                 *)
(***************************************************************************)

\* The job under way is not yet supervised and was taken off the list.
CurIsNew == cur \notin active /\ cur \notin todo

ClaimsOK == ClaimsMatchJobs /\ CurIsNew

\* Every step keeps a claim for each job that needs one, and no other.
LEMMA ClaimsStep ==
    ASSUME TypeOK, CurIsJob, ClaimsOK, [Next]_vars
    PROVE  ClaimsOK'
<1> USE LaneAssumption
    DEF TypeOK, CurIsJob, ClaimsOK, ClaimsMatchJobs, CurIsNew, card, queue, runner,
        cache, history
<1>1. CASE Reap \/ AdmitBegins \/ PreflightCached \/ PreflightLooks
           \/ Identified \/ Unidentified
  <2>1. /\ UNCHANGED <<book, active>> /\ cur = None /\ cur' = None
        /\ todo' \subseteq Jobs
    <3>1. CASE Reap \/ Identified \/ Unidentified
      BY <3>1 DEF Reap, Identified, Unidentified, PassEnds
    <3>2. CASE AdmitBegins
      BY <3>2 DEF AdmitBegins, PassEnds, Pending
    <3>3. CASE PreflightCached \/ PreflightLooks
      BY <3>3, VerdictIs DEF PreflightCached, PreflightLooks, PassEnds
    <3> QED BY <1>1, <3>1, <3>2, <3>3
  <2> QED BY <2>1
<1>2. CASE ClaimJob
  BY <1>2 DEF ClaimJob
<1>3. CASE ClaimLost \/ LaunchFails
  BY <1>3 DEF ClaimLost, LaunchFails, Ledger!Depart
<1>4. CASE Launch
  BY <1>4 DEF Launch
<1>5. CASE LoopEnds
  BY <1>5 DEF LoopEnds, PassEnds
<1>6. ASSUME NEW j \in Jobs, CollectRunning(j) PROVE ClaimsOK'
  BY <1>6 DEF CollectRunning
<1>7. ASSUME NEW j \in Jobs, CollectEnded(j) PROVE ClaimsOK'
  BY <1>7 DEF CollectEnded, Ledger!Depart
<1>8. ASSUME NEW j \in Jobs,
             FailNoGpu(j) \/ TakeFails(j) \/ TakeEndsPass(j) \/ TakeBusy(j)
      PROVE  ClaimsOK'
  <2>1. /\ UNCHANGED <<book, active>> /\ cur = None /\ cur' = None
        /\ todo' \subseteq Jobs
    BY <1>8
    DEF FailNoGpu, TakeFails, TakeEndsPass, TakeBusy, Claimable, TakeCard,
        Visiting, FailPending, Visited, PassEnds
  <2> QED BY <2>1
<1>9. ASSUME NEW j \in Jobs, Taken(j) PROVE ClaimsOK'
  <2>1. /\ cur = None /\ cur' = j /\ todo' = todo \ {j} /\ UNCHANGED active
        /\ j \notin DOMAIN book /\ DOMAIN book' = DOMAIN book \cup {j}
    BY <1>9 DEF Taken, Claimable, TakeCard, Visiting, Ledger!Enter
  <2> QED BY <2>1
<1>10. ASSUME NEW j \in Jobs, Submit(j) \/ Cancel(j) \/ Work(j) \/ ProcEnds(j)
       PROVE  ClaimsOK'
  BY <1>10 DEF Submit, Cancel, Work, ProcEnds
<1>11. ASSUME NEW u \in Users, UserTakes(u) \/ UserLeaves(u) PROVE ClaimsOK'
  <2>1. UNCHANGED <<active, cur, todo>> /\ Jobs \cap DOMAIN book' = Jobs \cap DOMAIN book
    BY <1>11 DEF UserTakes, UserLeaves, Ledger!Enter, Ledger!Depart
  <2> QED BY <2>1
<1>12. CASE \/ \E x \in Strangers : StrangerArrives(x) \/ StrangerLeaves(x)
            \/ OldClaim \/ Flap \/ Clock
  BY <1>12 DEF StrangerArrives, StrangerLeaves, OldClaim, Flap, Clock
<1>13. CASE Crash \/ Shutdown
  BY <1>13, RestartedIs DEF Crash, Shutdown, PassEnds, Ledger!Depart
<1>14. CASE UNCHANGED vars
  BY <1>14 DEF vars
<1> QED BY <1>1, <1>2, <1>3, <1>4, <1>5, <1>6, <1>7, <1>8, <1>9, <1>10, <1>11,
           <1>12, <1>13, <1>14
        DEF Next, RunnerNext

LEMMA ClaimsInit == Init => ClaimsOK
BY LaneAssumption DEF Init, ClaimsOK, ClaimsMatchJobs, CurIsNew

\* The runner holds claims for exactly the jobs it supervises and the one it is
\* about to start, whatever is cancelled, fails or dies (_take_card, _launch).
THEOREM ClaimsMatch == Spec => []ClaimsMatchJobs
<1>1. ClaimsOK => ClaimsMatchJobs
  BY DEF ClaimsOK
<1> QED BY <1>1, TypeInit, TypeStep, ClaimsInit, ClaimsStep, PTL DEF Spec

-------------------------------------------------------------------------------
(***************************************************************************)
(* Passes that could not identify the card.                                *)
(***************************************************************************)

\* The strikes counted are of the passes just before; jobs are being failed
\* only at the last of them.
StrikesSeen ==
    /\ \A i \in 1 .. strikes : hist[i] = TRUE
    /\ phase = "nogpu" => strikes = GPUID_STRIKES

\* Every step counts the strike it takes, and no other.
LEMMA StrikesStep ==
    ASSUME TypeOK, StrikesSeen, [Next]_vars
    PROVE  StrikesSeen'
<1> USE DEF TypeOK, StrikesSeen, card, queue, runner, cache, history
<1>1. ASSUME strikes' = 0, phase' # "nogpu" PROVE StrikesSeen'
  BY <1>1
<1>2. ASSUME UNCHANGED <<strikes, hist>>, phase' = "nogpu" => phase = "nogpu"
      PROVE  StrikesSeen'
  BY <1>2
<1>3. CASE Unidentified
  <2>1. /\ strikes' \in 0 .. GPUID_STRIKES /\ strikes' <= strikes + 1
        /\ phase' = "nogpu" => strikes' = GPUID_STRIKES
    BY <1>3, LaneAssumption DEF Unidentified, PassEnds
  <2>2. hist' = [i \in 1 .. GPUID_STRIKES |-> IF i = 1 THEN TRUE ELSE hist[i - 1]]
    BY <1>3 DEF Unidentified, Recorded
  <2>3. ASSUME NEW i \in 1 .. strikes' PROVE hist'[i] = TRUE
    <3>1. i \in 1 .. GPUID_STRIKES /\ (i # 1 => i - 1 \in 1 .. strikes)
      BY <2>1, <2>3, LaneAssumption
    <3> QED BY <2>2, <3>1
  <2> QED BY <2>1, <2>3
<1>4. CASE AdmitBegins
  <2>1. CASE Pending # {} /\ Capacity > 0
    BY <1>2, <1>4, <2>1 DEF AdmitBegins
  <2>2. CASE ~(Pending # {} /\ Capacity > 0)
    BY <1>1, <1>4, <2>2 DEF AdmitBegins, PassEnds, NoStrike
  <2> QED BY <2>1, <2>2
<1>5. CASE PreflightCached \/ PreflightLooks
  BY <1>1, <1>2, <1>5, VerdictIs DEF PreflightCached, PreflightLooks, PassEnds
<1>6. CASE Identified
  BY <1>1, <1>6 DEF Identified, NoStrike
<1>7. CASE Crash \/ Shutdown
  BY <1>1, <1>7, RestartedIs DEF Crash, Shutdown, PassEnds
<1>8. CASE Reap \/ ClaimJob \/ ClaimLost \/ LaunchFails \/ Launch \/ LoopEnds
  BY <1>2, <1>8
  DEF Reap, ClaimJob, ClaimLost, LaunchFails, Launch, LoopEnds, PassEnds
<1>9. CASE \E j \in Jobs :
             \/ CollectRunning(j) \/ CollectEnded(j) \/ FailNoGpu(j)
             \/ TakeFails(j) \/ TakeEndsPass(j) \/ TakeBusy(j) \/ Taken(j)
  BY <1>2, <1>9
  DEF CollectRunning, CollectEnded, FailNoGpu, TakeFails, TakeEndsPass, TakeBusy,
      Taken, PassEnds
<1>10. CASE \/ \E j \in Jobs : Submit(j) \/ Cancel(j) \/ Work(j) \/ ProcEnds(j)
            \/ \E u \in Users : UserTakes(u) \/ UserLeaves(u)
            \/ \E x \in Strangers : StrangerArrives(x) \/ StrangerLeaves(x)
            \/ OldClaim \/ Flap \/ Clock \/ UNCHANGED vars
  BY <1>2, <1>10
  DEF Submit, Cancel, Work, ProcEnds, UserTakes, UserLeaves, StrangerArrives,
      StrangerLeaves, OldClaim, Flap, Clock, vars
<1> QED BY <1>3, <1>4, <1>5, <1>6, <1>7, <1>8, <1>9, <1>10 DEF Next, RunnerNext

\* No job is failed for want of a GPU before GPUID_STRIKES passes in a row could
\* not identify the card (admit).
THEOREM FailedInARow == Spec => NoGpuInARow
<1>1. Init => StrikesSeen
  BY DEF Init, StrikesSeen
<1>2. StrikesSeen /\ phase = "nogpu" => \A i \in 1 .. GPUID_STRIKES : hist[i]
  <2>1. StrikesSeen /\ phase = "nogpu" => \A i \in 1 .. GPUID_STRIKES : hist[i] = TRUE
    BY DEF StrikesSeen
  <2> QED BY <2>1, Zenon
<1>3. StrikesSeen /\ [Next]_vars =>
        [\A j \in Jobs : /\ phase = "nogpu"
                         /\ state[j] = "pending" /\ state'[j] = "failed"
                         /\ j \in todo /\ j \notin todo'
                         => \A i \in 1 .. GPUID_STRIKES : hist[i]]_vars
  BY <1>2, Zenon
<1> QED BY <1>1, <1>3, TypeInit, TypeStep, StrikesStep, PTL DEF Spec, NoGpuInARow

-------------------------------------------------------------------------------
(***************************************************************************)
(* Strays.                                                                 *)
(***************************************************************************)

\* Only a running job has a process, and the jobs that a pass may still start
\* do not run yet.
WorkOK ==
    /\ \A j \in Jobs : proc[j] # "none" => state[j] = "running"
    /\ phase \notin {"reap", "collect"} => \A j \in todo : state[j] # "running"
    /\ phase = "claim" => state[cur] # "running"
    /\ phase = "launch" => proc[cur] = "none" /\ state[cur] = "running"

\* Every step keeps the processes to the running jobs.
LEMMA WorkStep ==
    ASSUME TypeOK, CurIsJob, ClaimsOK, WorkOK, [Next]_vars
    PROVE  WorkOK'
<1> USE LaneAssumption
    DEF TypeOK, CurIsJob, ClaimsOK, CurIsNew, WorkOK, card, queue, runner, cache, history
<1>1. CASE Reap
  BY <1>1 DEF Reap
<1>2. CASE AdmitBegins
  BY <1>2 DEF AdmitBegins, PassEnds, Pending
<1>3. CASE PreflightCached \/ PreflightLooks
  <2>1. /\ UNCHANGED <<state, proc>> /\ phase = "preflight"
        /\ \/ phase' = "reap"
           \/ phase' = "identify" /\ UNCHANGED todo
    BY <1>3, VerdictIs DEF PreflightCached, PreflightLooks, PassEnds
  <2> QED BY <2>1
<1>4. CASE Identified \/ Unidentified
  <2>1. /\ UNCHANGED <<state, proc>> /\ phase = "identify"
        /\ \/ phase' = "reap"
           \/ phase' \in {"loop", "nogpu"} /\ UNCHANGED todo
    BY <1>4 DEF Identified, Unidentified, PassEnds
  <2> QED BY <2>1
<1>5. CASE ClaimJob
  BY <1>5 DEF ClaimJob
<1>6. CASE ClaimLost
  BY <1>6 DEF ClaimLost
<1>7. CASE LaunchFails
  BY <1>7 DEF LaunchFails
<1>8. CASE Launch
  BY <1>8 DEF Launch
<1>9. CASE LoopEnds
  BY <1>9 DEF LoopEnds, PassEnds
<1>10. ASSUME NEW j \in Jobs, CollectRunning(j) \/ CollectEnded(j) PROVE WorkOK'
  BY <1>10 DEF CollectRunning, CollectEnded
<1>11. ASSUME NEW j \in Jobs, FailNoGpu(j) \/ TakeFails(j) PROVE WorkOK'
  <2>1. /\ UNCHANGED <<proc, phase>> /\ phase \in {"nogpu", "loop"}
        /\ state' = [state EXCEPT ![j] = IF @ = "pending" THEN "failed" ELSE @]
        /\ todo' = todo \ {j}
    BY <1>11 DEF FailNoGpu, TakeFails, TakeCard, Visiting, FailPending, Visited
  <2> QED BY <2>1
<1>12. ASSUME NEW j \in Jobs, TakeEndsPass(j) \/ TakeBusy(j) PROVE WorkOK'
  <2>1. /\ UNCHANGED <<state, proc>> /\ phase = "loop"
        /\ \/ phase' = "reap"
           \/ phase' = "loop" /\ todo' = todo \ {j}
    BY <1>12
    DEF TakeEndsPass, TakeBusy, Claimable, TakeCard, Visiting, Visited, PassEnds
  <2> QED BY <2>1
<1>13. ASSUME NEW j \in Jobs, Taken(j) PROVE WorkOK'
  <2>1. /\ UNCHANGED <<state, proc>> /\ phase = "loop" /\ phase' = "claim"
        /\ j \in todo /\ cur' = j /\ todo' = todo \ {j}
    BY <1>13 DEF Taken, Claimable, TakeCard, Visiting
  <2> QED BY <2>1
<1>14. ASSUME NEW j \in Jobs, Submit(j) \/ Cancel(j) \/ Work(j) \/ ProcEnds(j)
       PROVE  WorkOK'
  BY <1>14 DEF Submit, Cancel, Work, ProcEnds
<1>15. CASE \/ \E u \in Users : UserTakes(u) \/ UserLeaves(u)
            \/ \E x \in Strangers : StrangerArrives(x) \/ StrangerLeaves(x)
            \/ OldClaim \/ Flap \/ Clock \/ UNCHANGED vars
  <2>1. UNCHANGED <<state, proc, phase, cur, todo>>
    BY <1>15
    DEF UserTakes, UserLeaves, StrangerArrives, StrangerLeaves, OldClaim, Flap, Clock,
        vars
  <2> QED BY <2>1
<1>16. CASE Crash \/ Shutdown
  <2>1. /\ UNCHANGED state /\ phase' = "reap"
        /\ \A j \in Jobs : proc'[j] # "none" => proc[j] # "none"
    BY <1>16, RestartedIs DEF Crash, Shutdown, PassEnds
  <2> QED BY <2>1
<1> QED BY <1>1, <1>2, <1>3, <1>4, <1>5, <1>6, <1>7, <1>8, <1>9, <1>10, <1>11,
           <1>12, <1>13, <1>14, <1>15, <1>16
        DEF Next, RunnerNext

\* What is not a stray is not overdue, and a verdict that the card is clear is
\* at least as old as any stray the runner could have noticed since.
StraysOK ==
    /\ \A x \in Jobs \cup Strangers : x \notin Strays => unseen[x] = 0
    /\ lookClear /\ lookAge < TTL =>
         \A x \in Jobs \cup Strangers : unseen[x] <= lookAge

\* Every step keeps strays overdue by no more than the verdict is old.
LEMMA StraysStep ==
    ASSUME TypeOK, CurIsJob, ClaimsOK, WorkOK, StraysOK, [Next]_vars
    PROVE  StraysOK'
<1> USE LaneAssumption DEF card, queue, runner, cache, history
<1>0. /\ unseen \in [Jobs \cup Strangers -> 0 .. TTL] /\ lookAge \in 0 .. TTL
      /\ proc \in [Jobs -> {"none", "started", "cuda"}]
      /\ strangers \subseteq Strangers /\ todo \subseteq Jobs
      /\ phase \in {"claim", "launch"} => cur \in Jobs
  BY DEF TypeOK, CurIsJob
<1>1. ASSUME UNCHANGED <<unseen, lookAge, lookClear, strangers>>,
             \A j \in Jobs : proc[j] = "cuda" /\ j \notin DOMAIN book
                               => proc'[j] = "cuda" /\ j \notin DOMAIN book'
      PROVE  StraysOK'
  <2>1. Strays \subseteq Strays'
    BY <1>1 DEF Strays
  <2> QED BY <1>1, <2>1, Zenon DEF StraysOK
<1>2. ASSUME UNCHANGED <<unseen, lookAge, lookClear, strangers, proc>>,
             Jobs \cap DOMAIN book' \subseteq DOMAIN book
      PROVE  StraysOK'
  BY <1>1, <1>2
<1>3. CASE \/ Reap \/ AdmitBegins \/ PreflightCached \/ Identified \/ Unidentified
           \/ ClaimJob \/ LoopEnds
  <2>1. UNCHANGED <<unseen, lookAge, lookClear, strangers, proc, book>>
    BY <1>3
    DEF Reap, AdmitBegins, PreflightCached, Identified, Unidentified, ClaimJob, LoopEnds
  <2> QED BY <1>2, <2>1
<1>4. CASE ClaimLost \/ LaunchFails
  BY <1>2, <1>4 DEF ClaimLost, LaunchFails, Ledger!Depart
<1>5. CASE Launch
  <2>1. /\ UNCHANGED <<unseen, lookAge, lookClear, strangers, book>>
        /\ proc[cur] = "none" /\ proc' = [proc EXCEPT ![cur] = "started"]
    BY <1>5 DEF Launch, WorkOK
  <2> QED BY <1>0, <1>1, <2>1
<1>6. ASSUME NEW j \in Jobs, CollectRunning(j) \/ CollectEnded(j) PROVE StraysOK'
  BY <1>2, <1>6 DEF CollectRunning, CollectEnded, Ledger!Depart
<1>7. ASSUME NEW j \in Jobs,
             FailNoGpu(j) \/ TakeFails(j) \/ TakeEndsPass(j) \/ TakeBusy(j)
      PROVE  StraysOK'
  <2>1. UNCHANGED <<unseen, lookAge, lookClear, strangers, proc, book>>
    BY <1>7 DEF FailNoGpu, TakeFails, TakeEndsPass, TakeBusy
  <2> QED BY <1>2, <2>1
<1>8. ASSUME NEW j \in Jobs, Taken(j) PROVE StraysOK'
  <2>1. /\ UNCHANGED <<unseen, lookAge, lookClear, strangers, proc>>
        /\ DOMAIN book' = DOMAIN book \cup {j} /\ phase = "loop" /\ j \in todo
    BY <1>8 DEF Taken, Claimable, TakeCard, Visiting, Ledger!Enter
  <2>2. proc[j] = "none"
    BY <2>1 DEF WorkOK
  <2> QED BY <1>1, <2>1, <2>2
<1>9. ASSUME NEW j \in Jobs, Submit(j) \/ Cancel(j) PROVE StraysOK'
  BY <1>2, <1>9 DEF Submit, Cancel
<1>10. ASSUME NEW j \in Jobs, Work(j) PROVE StraysOK'
  BY <1>0, <1>1, <1>10 DEF Work
<1>11. ASSUME NEW u \in Users, UserTakes(u) \/ UserLeaves(u) PROVE StraysOK'
  <2>1. UNCHANGED <<unseen, lookAge, lookClear, strangers, proc>>
    BY <1>11 DEF UserTakes, UserLeaves
  <2>2. Jobs \cap DOMAIN book' \subseteq DOMAIN book
    BY <1>11 DEF UserTakes, UserLeaves, Ledger!Enter, Ledger!Depart
  <2> QED BY <1>2, <2>1, <2>2
<1>12. ASSUME NEW x \in Strangers, StrangerArrives(x) PROVE StraysOK'
  <2>1. UNCHANGED <<unseen, lookAge, lookClear>> /\ Strays \subseteq Strays'
    BY <1>12 DEF StrangerArrives, Strays
  <2> QED BY <2>1, Zenon DEF StraysOK
<1>13. ASSUME NEW x \in Jobs \cup Strangers, UNCHANGED <<lookAge, lookClear>>,
              unseen' = [unseen EXCEPT ![x] = 0], Strays \subseteq Strays' \cup {x}
       PROVE  StraysOK'
  <2>1. \A y \in Jobs \cup Strangers : y \notin Strays' => unseen'[y] = 0
    BY <1>0, <1>13 DEF StraysOK
  <2>2. \A y \in Jobs \cup Strangers : unseen[y] <= lookAge => unseen'[y] <= lookAge
    BY <1>0, <1>13
  <2> QED BY <1>13, <2>1, <2>2, Zenon DEF StraysOK
<1>14. ASSUME NEW x \in Strangers, StrangerLeaves(x) PROVE StraysOK'
  <2>1. Strays \subseteq Strays' \cup {x}
    BY <1>14 DEF StrangerLeaves, Strays
  <2> QED BY <1>13, <1>14, <2>1 DEF StrangerLeaves
<1>15. ASSUME NEW j \in Jobs, ProcEnds(j) PROVE StraysOK'
  <2>1. Strays \subseteq Strays' \cup {j}
    BY <1>0, <1>15 DEF ProcEnds, Strays
  <2> QED BY <1>13, <1>15, <2>1 DEF ProcEnds
<1>16. CASE OldClaim \/ Flap \/ UNCHANGED vars
  <2>1. UNCHANGED <<unseen, lookAge, lookClear, strangers, proc, book>>
    BY <1>16 DEF OldClaim, Flap, vars
  <2> QED BY <1>2, <2>1
<1>17. CASE Clock
  <2>1. /\ UNCHANGED lookClear /\ lookAge' = Older(lookAge)
        /\ \A x \in Jobs \cup Strangers :
             unseen'[x] = IF x \in Strays THEN Older(unseen[x]) ELSE 0
    BY <1>0, <1>17 DEF Clock
  <2>2. Strays' = Strays
    BY <1>17 DEF Clock, Strays
  <2>3. \A x \in Jobs \cup Strangers : x \notin Strays' => unseen'[x] = 0
    BY <2>1, <2>2
  <2>4. ASSUME lookAge' < TTL, NEW x \in Jobs \cup Strangers, unseen[x] <= lookAge
        PROVE  unseen'[x] <= lookAge'
    BY <1>0, <2>1, <2>4 DEF Older
  <2>5. lookAge' < TTL => lookAge < TTL
    BY <1>0, <2>1 DEF Older
  <2> QED BY <2>1, <2>3, <2>4, <2>5, Zenon DEF StraysOK
<1>18. CASE PreflightLooks
  <2>1. Strays' = Strays
    BY <1>18 DEF PreflightLooks, Strays
  <2>2. lookAge' = 0 /\ (lookClear' => ~answering \/ Strays = {})
    BY <1>18, Zenon DEF PreflightLooks
  <2>3. CASE ~answering
    <3>1. \A x \in Jobs \cup Strangers : unseen'[x] = 0
      BY <1>0, <1>18, <2>3 DEF PreflightLooks
    <3> QED BY <2>2, <3>1 DEF StraysOK
  <2>4. CASE answering
    <3>1. UNCHANGED unseen
      BY <1>18, <2>4, Zenon DEF PreflightLooks
    <3>2. \A x \in Jobs \cup Strangers : x \notin Strays => unseen[x] <= 0
      BY DEF StraysOK
    <3> QED BY <2>1, <2>2, <2>4, <3>1, <3>2, Zenon DEF StraysOK
  <2> QED BY <2>3, <2>4, Zenon
<1>19. CASE Crash \/ Shutdown
  <2>1. ~lookClear' /\ UNCHANGED strangers /\ Jobs \cap DOMAIN book' = {}
    BY <1>19, RestartedIs DEF Crash, Shutdown, Ledger!Depart
  <2>2. ASSUME NEW x \in Jobs \cup Strangers, x \notin Strays' PROVE unseen'[x] = 0
    <3>1. x \notin strangers /\ (x \in Jobs => proc'[x] # "cuda")
      BY <2>1, <2>2 DEF Strays
    <3>2. CASE Crash
      BY <1>0, <3>1, <3>2 DEF Crash, Strays
    <3>3. CASE Shutdown
      <4>1. x \notin Strays
        BY <1>0, <3>1, <3>3 DEF Shutdown, Strays, ClaimsOK, ClaimsMatchJobs
      <4> QED BY <1>0, <3>3, <4>1 DEF Shutdown
    <3> QED BY <1>19, <3>2, <3>3
  <2> QED BY <2>1, <2>2, Zenon DEF StraysOK
<1> QED BY <1>3, <1>4, <1>5, <1>6, <1>7, <1>8, <1>9, <1>10, <1>11, <1>12, <1>14,
           <1>15, <1>16, <1>17, <1>18, <1>19
        DEF Next, RunnerNext

LEMMA StraysInit == Init => WorkOK /\ StraysOK
<1> SUFFICES ASSUME Init PROVE WorkOK /\ StraysOK
  OBVIOUS
<1>1. WorkOK
  BY DEF Init, WorkOK
<1>2. \A x \in Jobs \cup Strangers : unseen[x] = 0
  BY DEF Init
<1>3. ~lookClear
  BY DEF Init
<1> QED BY <1>1, <1>2, <1>3, Zenon DEF StraysOK

\* No pass goes on beside a stray that the runner could have noticed for the time
\* to live of a verdict (_preflight_cached).
THEOREM StraysAreNoticed == Spec => StraysNoticed
<1> DEFINE Inv == TypeOK /\ CurIsJob /\ ClaimsOK /\ WorkOK /\ StraysOK
<1>1. Init => Inv
  BY TypeInit, ClaimsInit, StraysInit
<1>2. Inv /\ [Next]_vars => Inv'
  BY TypeStep, ClaimsStep, WorkStep, StraysStep
<1>3. ASSUME Inv, [Next]_vars, phase = "preflight", phase' = "identify", NEW x \in Strays
      PROVE  unseen'[x] < TTL
  <2>1. /\ unseen \in [Jobs \cup Strangers -> 0 .. TTL] /\ lookAge \in 0 .. TTL
        /\ x \in Jobs \cup Strangers
    BY <1>3 DEF TypeOK, Strays
  <2>2. PreflightCached \/ PreflightLooks
    <3> USE DEF runner, cache, card, queue, history
    <3>1. ~(UNCHANGED phase)
      BY <1>3
    <3>2. CASE \/ \E j \in Jobs : Submit(j) \/ Cancel(j) \/ Work(j) \/ ProcEnds(j)
               \/ \E u \in Users : UserTakes(u) \/ UserLeaves(u)
               \/ \E y \in Strangers : StrangerArrives(y) \/ StrangerLeaves(y)
               \/ OldClaim \/ Flap \/ Clock \/ UNCHANGED vars
      BY <3>1, <3>2
      DEF Submit, Cancel, Work, ProcEnds, UserTakes, UserLeaves, StrangerArrives,
          StrangerLeaves, OldClaim, Flap, Clock, vars
    <3>3. CASE Crash \/ Shutdown
      BY <1>3, <3>3, RestartedIs DEF Crash, Shutdown, PassEnds
    <3>4. CASE RunnerNext
      BY <1>3, <3>4
      DEF RunnerNext, Reap, AdmitBegins, Identified, Unidentified, ClaimJob, ClaimLost,
          LaunchFails, Launch, LoopEnds, CollectRunning, CollectEnded, FailNoGpu,
          TakeFails, TakeEndsPass, TakeBusy, Taken, Claimable, TakeCard, Visiting
    <3> QED BY <1>3, <3>2, <3>3, <3>4 DEF Next
  <2>3. CASE PreflightCached
    <3>1. lookAge < TTL /\ UNCHANGED unseen
      BY <2>3 DEF PreflightCached
    <3>2. lookClear
      BY <1>3, <2>3, VerdictIs DEF PreflightCached, PassEnds
    <3>3. unseen[x] <= lookAge
      BY <1>3, <2>1, <3>1, <3>2, Zenon DEF StraysOK
    <3>4. unseen[x] \in 0 .. TTL /\ unseen'[x] = unseen[x]
      BY <2>1, <3>1
    <3> QED BY <2>1, <3>1, <3>3, <3>4, LaneAssumption
  <2>4. CASE PreflightLooks
    <3>1. ~answering
      <4>1. Verdict(~answering \/ Strays = {})
        BY <2>4, Zenon DEF PreflightLooks
      <4>2. ~answering \/ Strays = {}
        BY <1>3, <4>1, VerdictIs DEF PassEnds
      <4> QED BY <1>3, <4>2
    <3> QED BY <2>1, <2>4, <3>1, LaneAssumption DEF PreflightLooks
  <2> QED BY <2>2, <2>3, <2>4
<1>4. Inv /\ [Next]_vars => [phase = "preflight" /\ phase' = "identify" =>
                               \A x \in Strays : unseen'[x] < TTL]_vars
  BY <1>3
<1> QED BY <1>1, <1>2, <1>4, PTL DEF Spec, StraysNoticed

-------------------------------------------------------------------------------
(***************************************************************************)
(* The lane and the users come to the card as the claim protocol says.     *)
(***************************************************************************)

\* Whatever the runner and the users do to the book is what Card allows, so that
\* what LedgerProofs shows of the ledger holds of the card they share (gpu_claim).
THEOREM LaneUsesCard == Spec => Ledger!Spec
<1>1. Init => Ledger!Init
  BY DEF Init, Ledger!Init
<1>2. ASSUME TypeOK, NEW c \in Participants, NEW u \in {UsableMB, None},
             Ledger!Declarable(want[c]), Ledger!Enter(c, want[c], u)
      PROVE  Ledger!Next
  <2>1. {want[d] : d \in Participants} \in {{w[d] : d \in Participants} : w \in Wants}
    BY <1>2, Zenon DEF TypeOK
  <2>2. want[c] \in {want[d] : d \in Participants}
    OBVIOUS
  <2>3. want[c] \in UNION {{w[d] : d \in Participants} : w \in Wants}
    BY <2>1, <2>2
  <2> QED BY <1>2, <2>3 DEF Ledger!Next
<1>3. ASSUME NEW S, Ledger!Depart(S) PROVE Ledger!Next
  BY <1>3 DEF Ledger!Next, Ledger!Depart
<1>4. ASSUME TypeOK, [Next]_vars PROVE [Ledger!Next]_book
  <2> USE DEF card, queue, runner, cache, history
  <2>1. ASSUME NEW u \in Users, UserTakes(u) PROVE Ledger!Next
    BY <1>2, <1>4, <2>1 DEF UserTakes, Participants
  <2>2. ASSUME NEW j \in Jobs, Taken(j) PROVE Ledger!Next
    <3>1. usable' \in {UsableMB, None}
      BY <1>4, <2>2 DEF Taken, Claimable, TakeCard, usable_mb, TypeOK
    <3> QED BY <1>2, <1>4, <2>2, <3>1 DEF Taken, Claimable, Participants
  <2>3. CASE \/ ClaimLost \/ LaunchFails \/ Crash \/ Shutdown
             \/ \E u \in Users : UserLeaves(u)
             \/ \E j \in Jobs : CollectEnded(j)
    BY <1>3, <2>3
    DEF ClaimLost, LaunchFails, Crash, Shutdown, Restarted, UserLeaves, CollectEnded
  <2>4. CASE \/ Reap \/ AdmitBegins \/ PreflightCached \/ PreflightLooks
             \/ Identified \/ Unidentified \/ ClaimJob \/ Launch \/ LoopEnds
             \/ \E j \in Jobs : \/ CollectRunning(j) \/ FailNoGpu(j) \/ TakeFails(j)
                                \/ TakeEndsPass(j) \/ TakeBusy(j)
    BY <2>4
    DEF Reap, AdmitBegins, PreflightCached, PreflightLooks, Identified, Unidentified,
        ClaimJob, Launch, LoopEnds, CollectRunning, FailNoGpu, TakeFails,
        TakeEndsPass, TakeBusy
  <2>5. CASE \/ \E j \in Jobs : Submit(j) \/ Cancel(j) \/ Work(j) \/ ProcEnds(j)
             \/ \E x \in Strangers : StrangerArrives(x) \/ StrangerLeaves(x)
             \/ OldClaim \/ Flap \/ Clock \/ UNCHANGED vars
    BY <2>5
    DEF Submit, Cancel, Work, ProcEnds, StrangerArrives, StrangerLeaves, OldClaim,
        Flap, Clock, vars
  <2> QED BY <1>4, <2>1, <2>2, <2>3, <2>4, <2>5 DEF Next, RunnerNext
<1>5. TypeOK /\ [Next]_vars => [Ledger!Next]_book
  BY <1>4
<1> QED BY <1>1, <1>5, TypeCorrect, PTL DEF Spec, Ledger!Spec

=============================================================================
