------------------------------- MODULE Watchdog -------------------------------
(***************************************************************************)
(* The VRAM watchdog and what follows from it: the timer-gated sweep of    *)
(* reaper.reap (check_vram, _kill_convicted), the runner's book-keeping of *)
(* convictions (_reap) and the verdict on a job that has ended (_settle,   *)
(* _hit_by_a_convicted_co_tenant, _describe_failure).                      *)
(*                                                                         *)
(* Holders of the card are jobs of the runner and hand-run gpu-claims.     *)
(* What nvidia-smi measures of a holder matters only by whether it is more *)
(* than its declaration; a holder of the whole card can use no more than   *)
(* that, is alone on it, and is left out.  A record is a holder and the    *)
(* number of its launch: every launch writes a file of its own.            *)
(*                                                                         *)
(* Readings of the monotonic clock are kept as ages; an age stops at Old,  *)
(* which is past every deadline.                                           *)
(***************************************************************************)
EXTENDS Integers, FiniteSets

CONSTANTS
    Jobs,
    Claims,           \* hand-run gpu-claims
    Foreign,          \* the claims of another user, whom no signal reaches
    WATCHDOG_STRIKES,
    MAX_ATTEMPTS,
    Interval,         \* orphan_cuda_interval_s
    Poll,             \* poll_interval_s
    MaxLaunches,      \* bounds the launches of each holder
    MaxCrashes        \* bounds the crashes of the runner

Holders == Jobs \cup Claims

\* _conviction_window_s
Window == WATCHDOG_STRIKES * Interval + 2 * Poll

\* Further back than any of the comparisons tells apart.
Old == Window + 2
Ages == 0 .. Old

\* A sweep that measured nothing, or has not measured yet.
Blind == [seen |-> FALSE, over |-> {}]

Records == Holders \X (1 .. MaxLaunches)

\* How a command ends: exit code 0 or not, an OOM in its stderr or not.
Results == [ok : BOOLEAN, oom : BOOLEAN]

Clean == [ok |-> TRUE, oom |-> FALSE]

ASSUME HoldersAssumption ==
    /\ Jobs \cap Claims = {}
    /\ Foreign \subseteq Claims

ASSUME BoundsAssumption ==
    /\ WATCHDOG_STRIKES \in Nat \ {0, 1}
    /\ MAX_ATTEMPTS \in Nat
    /\ Interval \in Nat /\ Poll \in Nat \ {0}
    /\ MaxLaunches \in Nat \ {0}
    /\ MaxCrashes \in Nat

VARIABLES
    \* the holders
    proc,       \* "none", "on" (the card), or "ended" and not yet waited for
    launches,   \* how often each has been launched
    over,       \* those that use more than they declared
    result,     \* how its process ended
    \* the queue
    state, attempts,
    \* the runner
    phase,
    active,     \* the jobs it supervises
    todo,       \* those that collect has yet to visit
    age,        \* since a job's started_mono
    apps,       \* what the sweep under way saw: which records are over
    sweepAge,   \* since _last_cuda_sweep
    strikes,    \* _vram_strikes, 0 for no entry
    guilty,     \* the convictions of the sweep under way
    off,        \* those of them whose holder is off the card
    convicted,  \* _convicted
    convAge,    \* since _last_conviction
    crashes,
    \* history
    lastOver,   \* the records that the last sweep measured over
    excuse      \* since another holder was convicted and removed during the
                \* job's present run

holders == <<proc, launches, over, result>>
queue == <<state, attempts>>
sweep == <<apps, guilty, off>>
verdicts == <<strikes, convicted>>
clock == <<age, sweepAge, convAge>>
history == <<lastOver, excuse>>
vars == <<holders, queue, phase, active, todo, sweep, verdicts, clock,
          crashes, history>>

Rec(h) == <<h, launches[h]>>

\* The live records: those of the runner, and those of running gpu-claims.
live_records == {Rec(h) : h \in active \cup {c \in Claims : proc[c] = "on"}}

Measured == {Rec(h) : h \in over}

Init ==
    /\ proc = [h \in Holders |-> "none"]
    /\ launches = [h \in Holders |-> 0]
    /\ over = {}
    /\ result = [h \in Holders |-> Clean]
    /\ state = [j \in Jobs |-> "pending"]
    /\ attempts = [j \in Jobs |-> 0]
    /\ phase = "reap"
    /\ active = {} /\ todo = {}
    /\ age = [j \in Jobs |-> 0]
    /\ apps = Blind /\ sweepAge = Old
    /\ strikes = [r \in Records |-> 0]
    /\ guilty = {} /\ off = {} /\ convicted = {}
    /\ convAge = Old
    /\ crashes = 0
    /\ lastOver = {}
    /\ excuse = [j \in Jobs |-> Old]

-------------------------------------------------------------------------------
(***************************************************************************)
(* The holders of the card.                                                *)
(***************************************************************************)
Launched(h) ==
    /\ launches[h] < MaxLaunches
    /\ proc' = [proc EXCEPT ![h] = "on"]
    /\ launches' = [launches EXCEPT ![h] = @ + 1]
    /\ UNCHANGED <<over, result>>

ClaimBegins(c) ==
    /\ proc[c] = "none"
    /\ Launched(c)
    /\ UNCHANGED <<queue, phase, active, todo, sweep, verdicts, clock,
                   crashes, history>>

\* The allocator of a holder takes more, or gives back.
Usage(h) ==
    /\ proc[h] = "on"
    /\ over' = IF h \in over THEN over \ {h} ELSE over \cup {h}
    /\ UNCHANGED <<proc, launches, result, queue, phase, active, todo,
                   sweep, verdicts, clock, crashes, lastOver, excuse>>

\* The process of h is gone.  The runner has not waited for its own children
\* yet; anyone else's leave nothing.
Ended(p, h) == [p EXCEPT ![h] = IF h \in active THEN "ended" ELSE "none"]

\* A command ends by itself.
Exit(h, res) ==
    /\ proc[h] = "on"
    /\ proc' = Ended(proc, h)
    /\ result' = [result EXCEPT ![h] = IF h \in active THEN res ELSE @]
    /\ over' = over \ {h}
    /\ UNCHANGED <<launches, queue, phase, active, todo, sweep, verdicts, clock,
                   crashes, lastOver, excuse>>

\* Every reading of the clock is d units older.
Passed(d) ==
    LET older(a) == IF a + d < Old THEN a + d ELSE Old
    IN  /\ age' = [j \in Jobs |-> IF j \in active THEN older(age[j]) ELSE 0]
        /\ sweepAge' = older(sweepAge)
        /\ convAge' = older(convAge)
        /\ excuse' = [j \in Jobs |-> older(excuse[j])]

\* Time passes while the runner is busy: git, the grace periods of a kill.
Pass ==
    /\ Passed(1)
    /\ UNCHANGED <<holders, queue, phase, active, todo, sweep,
                   verdicts, crashes, lastOver>>

-------------------------------------------------------------------------------
(***************************************************************************)
(* reap.                                                                   *)
(***************************************************************************)

Due == sweepAge >= Interval

\* The start of Runner._reap, where the clock is read, and requeue_orphans:
\* once, then fail.
ReapOrphans ==
    LET orphans == {j \in Jobs \ active : state[j] = "running" /\ proc[j] # "on"}
        again(j) == attempts[j] < MAX_ATTEMPTS
    IN  /\ phase = "reap"
        /\ state' = [j \in Jobs |->
                       IF j \notin orphans THEN state[j]
                       ELSE IF again(j) THEN "pending" ELSE "failed"]
        /\ attempts' = [j \in Jobs |->
                          IF j \in orphans /\ again(j)
                          THEN attempts[j] + 1 ELSE attempts[j]]
        /\ IF Due
           THEN phase' = "look" /\ sweepAge' = 0 /\ UNCHANGED todo
           ELSE phase' = "collect" /\ todo' = active /\ UNCHANGED sweepAge
        /\ UNCHANGED <<holders, active, sweep, verdicts, age, convAge, crashes,
                       history>>

\* compute_apps: the one measurement that the sweep uses.  nvidia-smi may fail,
\* or show nothing that can be attributed (the MPS server in place of its
\* clients).
Look ==
    /\ phase = "look"
    /\ apps' \in {[seen |-> TRUE, over |-> Measured], Blind}
    /\ phase' = "judge"
    /\ UNCHANGED <<holders, queue, active, todo, guilty, off, verdicts, clock,
                   crashes, history>>

Overusing == IF apps.seen THEN live_records \cap apps.over ELSE {}

\* Mutant: a blind sweep leaves the strikes banked.
Struck_Banked(r) ==
    IF r \in Overusing THEN strikes[r] + 1
    ELSE IF apps.seen THEN 0 ELSE strikes[r]

\* Mutant: strikes do not add up.
Struck_Once(r) == IF r \in Overusing THEN 1 ELSE 0

\* check_vram; a blind or a broken measurement forgets every strike, and so
\* does a holder that is gone.
Struck(r) == IF r \in Overusing THEN strikes[r] + 1 ELSE 0

Judge ==
    /\ phase = "judge"
    /\ guilty' = {r \in Overusing : Struck(r) >= WATCHDOG_STRIKES}
    /\ strikes' = [r \in Records |->
                     IF Struck(r) >= WATCHDOG_STRIKES THEN 0 ELSE Struck(r)]
    /\ apps' = Blind
    /\ lastOver' = Overusing
    /\ phase' = "kill"
    /\ UNCHANGED <<holders, queue, active, todo, off, convicted,
                   clock, crashes, excuse>>

\* _kill_convicted: SIGTERM, so that a command may still exit with 0, then
\* SIGKILL.  A holder that has left by itself counts as off the card.
Kill ==
    LET stays(r) == r[1] \in Foreign /\ Rec(r[1]) = r /\ proc[r[1]] = "on"
        hit == {h \in Holders : /\ Rec(h) \in guilty
                                /\ proc[h] = "on" /\ h \notin Foreign}
    IN  /\ phase = "kill"
        /\ off' = {r \in guilty : ~stays(r)}
        /\ proc' = [h \in Holders |-> IF h \in hit THEN Ended(proc, h)[h]
                                      ELSE proc[h]]
        /\ \E res \in [hit -> Results] :
             result' = [h \in Holders |-> IF h \in hit \cap Jobs
                                          THEN res[h] ELSE result[h]]
        /\ over' = over \ hit
        /\ phase' = "report"
        /\ UNCHANGED <<launches, queue, active, todo, apps,
                       guilty, verdicts, clock, crashes, history>>

\* Mutant: any conviction opens the window.
Stamps_Ungated == guilty # {}

\* Only a conviction that got its holder off the card opens the window.
Stamps == off # {}

\* The end of Runner._reap: remember the convictions.
Report ==
    /\ phase = "report"
    /\ convicted' = convicted \cup {j \in Jobs : \E r \in guilty : r[1] = j}
    /\ convAge' = IF Stamps THEN 0 ELSE convAge
    /\ excuse' = [j \in Jobs |->
                    IF \E r \in off : r[1] # j THEN 0 ELSE excuse[j]]
    /\ guilty' = {} /\ off' = {}
    /\ phase' = "collect" /\ todo' = active
    /\ UNCHANGED <<holders, queue, active, apps, strikes, age, sweepAge,
                   crashes, lastOver>>

-------------------------------------------------------------------------------
(***************************************************************************)
(* collect and _settle.                                                    *)
(***************************************************************************)
CollectRunning(j) ==
    /\ phase = "collect" /\ j \in todo /\ proc[j] = "on"
    /\ todo' = todo \ {j}
    /\ UNCHANGED <<holders, queue, phase, active, sweep, verdicts, clock,
                   crashes, history>>

\* Mutant: judged on the exit code alone.
Succeeded_ExitCode(j, res, timed_out) == res.ok /\ ~timed_out

\* The end of a convicted job is no success, not even with exit code 0.
Succeeded(j, res, timed_out) == res.ok /\ ~timed_out /\ j \notin convicted

\* Mutant: the convicted holder may be its own victim.
Excused_Culprit(j, res, timed_out) ==
    /\ ~timed_out
    /\ res.oom
    /\ attempts[j] < MAX_ATTEMPTS
    /\ convAge < age[j]
    /\ convAge <= Window

\* Mutant: a conviction of any time since the start will do.
Excused_AnyAge(j, res, timed_out) ==
    /\ j \notin convicted
    /\ ~timed_out
    /\ res.oom
    /\ attempts[j] < MAX_ATTEMPTS
    /\ convAge < age[j]

\* Mutant: the retries are not counted.
Excused_Again(j, res, timed_out) ==
    /\ j \notin convicted
    /\ ~timed_out
    /\ res.oom
    /\ convAge < age[j]
    /\ convAge <= Window

\* _hit_by_a_convicted_co_tenant
Excused(j, res, timed_out) ==
    /\ j \notin convicted
    /\ ~timed_out
    /\ res.oom
    /\ attempts[j] < MAX_ATTEMPTS
    /\ convAge < age[j]
    /\ convAge <= Window

Settle(j, res, timed_out) ==
    LET ok == Succeeded(j, res, timed_out)
    IN  /\ todo' = todo \ {j}
        /\ active' = active \ {j}
        /\ proc' = [proc EXCEPT ![j] = "none"]
        /\ over' = over \ {j}
        /\ result' = [result EXCEPT ![j] = Clean]
        /\ IF ~ok /\ Excused(j, res, timed_out)
           THEN /\ state' = [state EXCEPT ![j] = "pending"]
                /\ attempts' = [attempts EXCEPT ![j] = @ + 1]
                /\ UNCHANGED convicted
           ELSE /\ \E s \in {"failed"} \cup (IF ok THEN {"done"} ELSE {}) :
                     state' = [state EXCEPT ![j] = s]
                /\ convicted' = IF ok THEN convicted ELSE convicted \ {j}
                /\ UNCHANGED attempts
        /\ UNCHANGED <<launches, phase, sweep, strikes, clock,
                       crashes, lastOver, excuse>>

CollectEnded(j) ==
    /\ phase = "collect" /\ j \in todo /\ proc[j] = "ended"
    /\ Settle(j, result[j], FALSE)

\* poll_job kills a command that has overrun; it may have printed anything.
CollectTimeout(j) ==
    /\ phase = "collect" /\ j \in todo /\ proc[j] = "on"
    /\ \E res \in Results : Settle(j, res, TRUE)

Collected ==
    /\ phase = "collect" /\ todo = {}
    /\ phase' = "admit"
    /\ UNCHANGED <<holders, queue, active, todo, sweep, verdicts, clock,
                   crashes, history>>

(***************************************************************************)
(* admit: who gets in when is Ledger's business.                           *)
(***************************************************************************)
Admit(j) ==
    /\ phase = "admit" /\ state[j] = "pending"
    /\ Launched(j)
    /\ state' = [state EXCEPT ![j] = "running"]
    /\ active' = active \cup {j}
    /\ age' = [age EXCEPT ![j] = 0]
    /\ excuse' = [excuse EXCEPT ![j] = Old]
    /\ UNCHANGED <<attempts, phase, todo, sweep, verdicts, sweepAge,
                   convAge, crashes, lastOver>>

\* The end of a tick: run_forever waits for poll_interval_s.
Sleep ==
    /\ phase = "admit"
    /\ phase' = "reap"
    /\ Passed(Poll)
    /\ UNCHANGED <<holders, queue, active, todo, sweep, verdicts,
                   crashes, lastOver>>

-------------------------------------------------------------------------------
\* The runner dies and is started again: its records are dead with it, its
\* memory is gone, its jobs go on.
Crash ==
    /\ crashes < MaxCrashes
    /\ crashes' = crashes + 1
    /\ phase' = "reap"
    /\ active' = {} /\ todo' = {}
    /\ proc' = [h \in Holders |-> IF proc[h] = "ended" THEN "none" ELSE proc[h]]
    /\ apps' = Blind /\ guilty' = {} /\ off' = {}
    /\ strikes' = [r \in Records |-> 0]
    /\ convicted' = {}
    /\ sweepAge' = Old /\ convAge' = Old
    /\ age' = [j \in Jobs |-> 0]
    /\ lastOver' = {}
    /\ excuse' = [j \in Jobs |-> Old]
    /\ UNCHANGED <<launches, over, result, queue>>

RunnerNext ==
    \/ ReapOrphans \/ Look \/ Judge \/ Kill \/ Report
    \/ \E j \in Jobs : CollectRunning(j) \/ CollectEnded(j) \/ CollectTimeout(j)
    \/ Collected
    \/ \E j \in Jobs : Admit(j)
    \/ Sleep

Next ==
    \/ RunnerNext
    \/ Crash
    \/ \E c \in Claims : ClaimBegins(c)
    \/ \E h \in Holders : Usage(h) \/ \E res \in Results : Exit(h, res)
    \/ Pass

Spec == Init /\ [][Next]_vars

\* The runner keeps ticking and time keeps passing.
FairSpec == Spec /\ WF_vars(RunnerNext) /\ WF_vars(Sleep) /\ WF_vars(Pass)

-------------------------------------------------------------------------------
\* The type invariant of the watchdog's state.
TypeOK ==
    /\ proc \in [Holders -> {"none", "on", "ended"}]
    /\ launches \in [Holders -> 0 .. MaxLaunches]
    /\ over \subseteq Holders
    /\ result \in [Holders -> Results]
    /\ state \in [Jobs -> {"pending", "running", "done", "failed"}]
    /\ attempts \in [Jobs -> 0 .. MAX_ATTEMPTS]
    /\ phase \in {"reap", "collect", "admit", "look", "judge", "kill", "report"}
    /\ apps \in [seen : BOOLEAN, over : SUBSET Records]
    /\ active \subseteq Jobs /\ todo \subseteq active
    /\ strikes \in [Records -> 0 .. WATCHDOG_STRIKES - 1]
    /\ guilty \subseteq Records /\ off \subseteq Records
    /\ convicted \subseteq Jobs
    /\ age \in [Jobs -> Ages] /\ excuse \in [Jobs -> Ages]
    /\ sweepAge \in Ages /\ convAge \in Ages
    /\ crashes \in 0 .. MaxCrashes
    /\ lastOver \subseteq Records

\* A job convicted of over-using the card ends in failed/, whatever its exit
\* code and whatever else happened on the card: a clean exit on the SIGTERM is
\* not a success and its OOM is nobody else's fault (_settle).
ConvictedIsFailed ==
    [][\A j \in convicted :
         state[j] = "running" => state'[j] \in {"running", "failed"}]_vars

\* _convicted names only jobs that the runner still supervises: an entry that
\* outlived its job would keep the id out of the co-tenant retry for the life
\* of the runner (_describe_failure).
NoConvictionLeak == convicted \subseteq active

(***************************************************************************)
(* What the variables say about one another.                               *)
(***************************************************************************)

\* Only what was launched is on the card or over its declaration.
LaunchedFirst ==
    \A h \in Holders : proc[h] # "none" \/ h \in over => launches[h] > 0

\* A supervised job is in running/.
SupervisedRuns == \A j \in active : state[j] = "running"

\* Convictions are of supervised jobs or of claims, and stand only between
\* the judgement and its report.
GuiltyInSweep ==
    /\ guilty # {} => phase \in {"kill", "report"}
    /\ off \subseteq guilty
    /\ \A r \in guilty : r[1] \in Jobs => r[1] \in active

\* A banked strike is a measurement of the last sweep.
StrikesAreFresh == \A r \in Records : strikes[r] > 0 => r \in lastOver

\* _last_conviction speaks of a job that is itself convicted, that was started
\* since, or that has another holder to blame.
ConvictionSpeaks ==
    \A j \in active : \/ j \in convicted
                     \/ age[j] <= convAge
                     \/ excuse[j] <= convAge

\* The invariant that holds the watchdog together: all of the above, at every
\* step of a sweep, of its report and of the verdicts (reap, _reap, _settle).
WatchdogInv ==
    /\ TypeOK /\ LaunchedFirst /\ SupervisedRuns /\ NoConvictionLeak
    /\ GuiltyInSweep /\ StrikesAreFresh /\ ConvictionSpeaks

\* A job that ended is run again only if, during this run of it and within the
\* window, some other holder was convicted and is off the card: every other
\* OOM would be the blind retry that design.md forbids (_settle).
RetryIsExcused ==
    [][\A j \in Jobs :
         j \in active /\ state'[j] = "pending" => excuse[j] <= Window]_vars

\* A holder is only convicted for what two sweeps in a row measured, with no
\* blind or broken sweep between them, no restart of the runner, and no other
\* launch of the same holder (check_vram, reap).
TwoInARow ==
    [][guilty' # guilty => guilty' \subseteq lastOver \cap apps.over]_vars

\* A holder within reach of signals does not stay over its declaration for
\* ever, provided that nvidia-smi can be read from some time on (check_vram).
OverUseEnds ==
    <>[](phase = "judge" => apps.seen) =>
        \A h \in Holders \ Foreign : ~ <>[](h \in over /\ Rec(h) \in live_records)
=============================================================================
