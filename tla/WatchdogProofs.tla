--------------------------- MODULE WatchdogProofs -----------------------------
(***************************************************************************)
(* Watchdog, for every set of jobs and claims, every cadence of the sweeps *)
(* and every number of strikes: who is convicted, what becomes of a        *)
(* convicted job, and who is excused for running out of memory.            *)
(***************************************************************************)
EXTENDS Watchdog, TLAPS

\* The ages form an interval of numbers that ends past the window.
LEMMA AgeTypes == /\ Window \in Nat /\ Old \in Nat /\ Old = Window + 2
<1>1. WATCHDOG_STRIKES * Interval \in Nat
  BY BoundsAssumption
<1>2. 2 * Poll \in Nat
  BY BoundsAssumption
<1> QED BY <1>1, <1>2 DEF Window, Old

\* A launch that happened has a record.
LEMMA RecType ==
    ASSUME TypeOK, LaunchedFirst
    PROVE  Measured \subseteq Records
<1> SUFFICES ASSUME NEW h \in over PROVE Rec(h) \in Records
  BY DEF Measured
<1>1. h \in Holders
  BY DEF TypeOK
<1>2. launches[h] \in 1 .. MaxLaunches
  BY <1>1, BoundsAssumption DEF TypeOK, LaunchedFirst
<1> QED BY <1>1, <1>2 DEF Rec, Records

\* Time passes for all readings of the clock alike (time.monotonic).
LEMMA PassedKeeps ==
    ASSUME TypeOK, ConvictionSpeaks, NEW d \in Nat, Passed(d),
           UNCHANGED <<active, convicted>>
    PROVE  /\ age' \in [Jobs -> Ages] /\ excuse' \in [Jobs -> Ages]
           /\ sweepAge' \in Ages /\ convAge' \in Ages
           /\ ConvictionSpeaks'
<1> DEFINE older(a) == IF a + d < Old THEN a + d ELSE Old
<1>1. ASSUME NEW a \in Ages PROVE older(a) \in Ages
  BY <1>1, AgeTypes DEF Ages
<1>2. ASSUME NEW a \in Ages, NEW b \in Ages, a <= b PROVE older(a) <= older(b)
  BY <1>2, AgeTypes DEF Ages
<1>3. 0 \in Ages
  BY AgeTypes DEF Ages
<1>4. /\ age' = [j \in Jobs |-> IF j \in active THEN older(age[j]) ELSE 0]
      /\ sweepAge' = older(sweepAge)
      /\ convAge' = older(convAge)
      /\ excuse' = [j \in Jobs |-> older(excuse[j])]
  BY DEF Passed
<1> HIDE DEF older
<1>5. /\ age' \in [Jobs -> Ages] /\ excuse' \in [Jobs -> Ages]
      /\ sweepAge' \in Ages /\ convAge' \in Ages
  BY <1>1, <1>3, <1>4 DEF TypeOK
<1>6. ASSUME NEW j \in active
      PROVE  j \in convicted \/ age'[j] <= convAge' \/ excuse'[j] <= convAge'
  <2>1. /\ age[j] \in Ages /\ excuse[j] \in Ages /\ convAge \in Ages
        /\ age'[j] = older(age[j]) /\ excuse'[j] = older(excuse[j])
    BY <1>4 DEF TypeOK
  <2> QED BY <1>2, <1>4, <2>1 DEF ConvictionSpeaks
<1> QED BY <1>5, <1>6 DEF ConvictionSpeaks

-------------------------------------------------------------------------------
\* A fresh runner has convicted nobody (__init__).
LEMMA InitInv == Init => WatchdogInv
<1> SUFFICES ASSUME Init PROVE WatchdogInv
  OBVIOUS
<1>1. TypeOK
  BY AgeTypes, BoundsAssumption
  DEF Init, TypeOK, Ages, Results, Clean, Blind, Records
<1> QED BY <1>1 DEF Init, WatchdogInv, LaunchedFirst, SupervisedRuns,
               NoConvictionLeak, GuiltyInSweep, StrikesAreFresh,
               ConvictionSpeaks

(***************************************************************************)
(* One lemma for each action: it keeps the invariant.                      *)
(***************************************************************************)
\* A new gpu-claim writes a record of its own and disturbs nobody's.
LEMMA ClaimBeginsKeeps ==
    ASSUME WatchdogInv, NEW c \in Claims, ClaimBegins(c)
    PROVE  WatchdogInv'
<1> USE DEF WatchdogInv, holders, queue, sweep, verdicts, clock, history
<1>1. TypeOK'
  BY BoundsAssumption, HoldersAssumption
  DEF ClaimBegins, Launched, Holders, TypeOK
<1>2. LaunchedFirst' /\ SupervisedRuns'
  BY BoundsAssumption, HoldersAssumption
  DEF ClaimBegins, Launched, Holders, TypeOK, LaunchedFirst, SupervisedRuns
<1>3. NoConvictionLeak' /\ GuiltyInSweep'
  BY BoundsAssumption, HoldersAssumption
  DEF ClaimBegins, Launched, Holders, TypeOK, NoConvictionLeak, GuiltyInSweep
<1>4. StrikesAreFresh' /\ ConvictionSpeaks'
  BY BoundsAssumption, HoldersAssumption
  DEF ClaimBegins, Launched, Holders, TypeOK, StrikesAreFresh,
      ConvictionSpeaks
<1> QED BY <1>1, <1>2, <1>3, <1>4

\* A holder that takes more or gives back changes what is measured, not what the
\* runner believes.
LEMMA UsageKeeps ==
    ASSUME WatchdogInv, NEW h \in Holders, Usage(h)
    PROVE  WatchdogInv'
<1> USE DEF WatchdogInv, holders, queue, sweep, verdicts, clock, history
<1>1. TypeOK'
  BY RecType DEF Usage, Rec, TypeOK
<1>2. LaunchedFirst' /\ SupervisedRuns'
  BY DEF Usage, TypeOK, LaunchedFirst, SupervisedRuns
<1>3. NoConvictionLeak' /\ GuiltyInSweep'
  BY DEF Usage, TypeOK, NoConvictionLeak, GuiltyInSweep
<1>4. StrikesAreFresh' /\ ConvictionSpeaks'
  BY DEF Usage, TypeOK, StrikesAreFresh, ConvictionSpeaks
<1> QED BY <1>1, <1>2, <1>3, <1>4

\* A process that ends leaves its job to collect.
LEMMA ExitKeeps ==
    ASSUME WatchdogInv, NEW h \in Holders, NEW res \in Results, Exit(h, res)
    PROVE  WatchdogInv'
<1> USE DEF WatchdogInv, holders, queue, sweep, verdicts, clock, history
<1>1. TypeOK'
  BY RecType DEF Exit, Ended, Rec, TypeOK
<1>2. LaunchedFirst' /\ SupervisedRuns'
  BY DEF Exit, Ended, TypeOK, LaunchedFirst, SupervisedRuns
<1>3. NoConvictionLeak' /\ GuiltyInSweep'
  BY DEF Exit, Ended, TypeOK, NoConvictionLeak, GuiltyInSweep
<1>4. StrikesAreFresh' /\ ConvictionSpeaks'
  BY DEF Exit, Ended, TypeOK, StrikesAreFresh, ConvictionSpeaks
<1> QED BY <1>1, <1>2, <1>3, <1>4

\* Time passing ages all the readings of the clock alike.
LEMMA PassKeeps ==
    ASSUME WatchdogInv, Pass
    PROVE  WatchdogInv'
<1> USE DEF WatchdogInv, holders, queue, sweep, verdicts, clock, history
<1>1. TypeOK'
  BY PassedKeeps DEF Pass, TypeOK
<1>2. LaunchedFirst' /\ SupervisedRuns'
  BY PassedKeeps DEF Pass, TypeOK, LaunchedFirst, SupervisedRuns
<1>3. NoConvictionLeak' /\ GuiltyInSweep'
  BY PassedKeeps DEF Pass, TypeOK, NoConvictionLeak, GuiltyInSweep
<1>4. StrikesAreFresh' /\ ConvictionSpeaks'
  BY PassedKeeps DEF Pass, TypeOK, StrikesAreFresh, ConvictionSpeaks
<1> QED BY <1>1, <1>2, <1>3, <1>4

\* requeue_orphans touches only the jobs that nobody supervises.
LEMMA ReapOrphansKeeps ==
    ASSUME WatchdogInv, ReapOrphans
    PROVE  WatchdogInv'
<1> USE DEF WatchdogInv, holders, queue, sweep, verdicts, clock, history
<1>1. TypeOK'
  BY BoundsAssumption, HoldersAssumption, AgeTypes DEF ReapOrphans, Ages, TypeOK
<1>2. LaunchedFirst' /\ SupervisedRuns'
  BY DEF ReapOrphans, TypeOK, LaunchedFirst, SupervisedRuns
<1>3. NoConvictionLeak' /\ GuiltyInSweep'
  BY DEF ReapOrphans, TypeOK, NoConvictionLeak, GuiltyInSweep
<1>4. StrikesAreFresh' /\ ConvictionSpeaks'
  BY DEF ReapOrphans, TypeOK, StrikesAreFresh, ConvictionSpeaks
<1> QED BY <1>1, <1>2, <1>3, <1>4

\* compute_apps sees records only.
LEMMA LookKeeps ==
    ASSUME WatchdogInv, Look
    PROVE  WatchdogInv'
<1> USE DEF WatchdogInv, holders, queue, sweep, verdicts, clock, history
<1>1. TypeOK'
  <2>1. Measured \subseteq Records
    BY RecType
  <2>2. apps' \in [seen : BOOLEAN, over : SUBSET Records]
    <3>1. [seen |-> TRUE, over |-> Measured]
              \in [seen : BOOLEAN, over : SUBSET Records]
      BY <2>1
    <3>2. Blind \in [seen : BOOLEAN, over : SUBSET Records]
      BY DEF Blind
    <3> QED BY <3>1, <3>2 DEF Look
  <2> QED BY <2>2 DEF Look, TypeOK
<1>2. LaunchedFirst' /\ SupervisedRuns'
  BY DEF Look, TypeOK, LaunchedFirst, SupervisedRuns
<1>3. NoConvictionLeak' /\ GuiltyInSweep'
  BY DEF Look, TypeOK, NoConvictionLeak, GuiltyInSweep
<1>4. StrikesAreFresh' /\ ConvictionSpeaks'
  BY DEF Look, TypeOK, StrikesAreFresh, ConvictionSpeaks
<1> QED BY <1>1, <1>2, <1>3, <1>4

\* check_vram banks a strike only for what it has just measured.
LEMMA JudgeKeeps ==
    ASSUME WatchdogInv, Judge
    PROVE  WatchdogInv'
<1> USE DEF WatchdogInv, holders, queue, sweep, verdicts, clock, history
<1>1. TypeOK'
  BY BoundsAssumption, HoldersAssumption
  DEF Judge, Struck, Overusing, Blind, TypeOK
<1>2. LaunchedFirst' /\ SupervisedRuns'
  BY BoundsAssumption, HoldersAssumption
  DEF Judge, Struck, Overusing, live_records, Rec, TypeOK, LaunchedFirst,
      SupervisedRuns
<1>3. NoConvictionLeak' /\ GuiltyInSweep'
  BY BoundsAssumption, HoldersAssumption
  DEF Judge, Struck, Overusing, live_records, Rec, TypeOK, NoConvictionLeak,
      GuiltyInSweep
<1>4. StrikesAreFresh' /\ ConvictionSpeaks'
  BY BoundsAssumption, HoldersAssumption
  DEF Judge, Struck, Overusing, live_records, Rec, TypeOK, StrikesAreFresh,
      ConvictionSpeaks
<1> QED BY <1>1, <1>2, <1>3, <1>4

\* _kill_convicted removes convicted holders only.
LEMMA KillKeeps ==
    ASSUME WatchdogInv, Kill
    PROVE  WatchdogInv'
<1> USE DEF WatchdogInv, holders, queue, sweep, verdicts, clock, history
<1>1. TypeOK'
  BY BoundsAssumption, HoldersAssumption DEF Kill, Ended, TypeOK
<1>2. LaunchedFirst' /\ SupervisedRuns'
  BY DEF Kill, Ended, TypeOK, LaunchedFirst, SupervisedRuns
<1>3. NoConvictionLeak' /\ GuiltyInSweep'
  BY DEF Kill, Ended, TypeOK, NoConvictionLeak, GuiltyInSweep
<1>4. StrikesAreFresh' /\ ConvictionSpeaks'
  BY DEF Kill, Ended, TypeOK, StrikesAreFresh, ConvictionSpeaks
<1> QED BY <1>1, <1>2, <1>3, <1>4

\* The end of _reap: a conviction gives every other job an excuse, and the job
\* that is itself convicted none.
LEMMA ReportKeeps ==
    ASSUME WatchdogInv, Report
    PROVE  WatchdogInv'
<1> USE DEF WatchdogInv, holders, queue, sweep, verdicts, clock, history
<1>1. TypeOK'
  BY BoundsAssumption, HoldersAssumption, AgeTypes
  DEF Report, Stamps, Ages, TypeOK
<1>2. LaunchedFirst' /\ SupervisedRuns'
  BY DEF Report, Stamps, Ages, TypeOK, LaunchedFirst, SupervisedRuns
<1>3. NoConvictionLeak' /\ GuiltyInSweep'
  BY DEF Report, Stamps, Ages, TypeOK, NoConvictionLeak, GuiltyInSweep
<1>4. StrikesAreFresh'
  BY DEF Report, StrikesAreFresh
<1>5. ConvictionSpeaks'
  <2> SUFFICES ASSUME NEW j \in active
               PROVE  \/ j \in convicted'
                      \/ age[j] <= convAge'
                      \/ excuse'[j] <= convAge'
    BY DEF Report, ConvictionSpeaks
  <2>1. /\ j \in Jobs /\ convAge \in Nat /\ age[j] \in Nat /\ excuse[j] \in Nat
    BY AgeTypes DEF TypeOK, Ages
  <2>2. CASE off = {}
    BY <2>1, <2>2 DEF Report, Stamps, ConvictionSpeaks
  <2>3. CASE \E r \in off : r[1] # j
    BY <2>1, <2>3 DEF Report, Stamps
  <2>4. CASE off # {} /\ \A r \in off : r[1] = j
    BY <2>1, <2>4 DEF Report, GuiltyInSweep
  <2> QED BY <2>2, <2>3, <2>4
<1> QED BY <1>1, <1>2, <1>3, <1>4, <1>5

\* _settle drops the job and its conviction together.
LEMMA SettleKeeps ==
    ASSUME WatchdogInv, NEW j \in active, NEW res \in Results,
           NEW to \in BOOLEAN, Settle(j, res, to), phase = "collect"
    PROVE  WatchdogInv'
<1> USE DEF WatchdogInv, holders, queue, sweep, verdicts, clock, history
<1>1. TypeOK'
  <2>1. Clean \in Results /\ j \in Jobs
    BY DEF Clean, Results, TypeOK
  <2>2. /\ state' \in [Jobs -> {"pending", "running", "done", "failed"}]
        /\ attempts' \in [Jobs -> 0 .. MAX_ATTEMPTS]
        /\ convicted' \subseteq Jobs
    <3>1. CASE ~Succeeded(j, res, to) /\ Excused(j, res, to)
      <4>1. attempts[j] + 1 \in 0 .. MAX_ATTEMPTS
        BY <2>1, <3>1, BoundsAssumption DEF Excused, TypeOK
      <4> QED BY <2>1, <3>1, <4>1 DEF Settle, TypeOK
    <3>2. CASE ~(~Succeeded(j, res, to) /\ Excused(j, res, to))
      BY <2>1, <3>2 DEF Settle, TypeOK
    <3> QED BY <3>1, <3>2
  <2>3. /\ proc' \in [Holders -> {"none", "on", "ended"}]
        /\ result' \in [Holders -> Results]
        /\ over' \subseteq Holders
        /\ active' \subseteq Jobs /\ todo' \subseteq active'
    BY <2>1 DEF Settle, TypeOK, Holders
  <2> QED BY <2>2, <2>3 DEF Settle, TypeOK
<1>2. LaunchedFirst' /\ SupervisedRuns'
  BY DEF Settle, Succeeded, Excused, TypeOK, LaunchedFirst, SupervisedRuns
<1>3. NoConvictionLeak' /\ GuiltyInSweep'
  BY DEF Settle, Succeeded, Excused, TypeOK, NoConvictionLeak, GuiltyInSweep
<1>4. StrikesAreFresh' /\ ConvictionSpeaks'
  BY DEF Settle, Succeeded, Excused, TypeOK, StrikesAreFresh, ConvictionSpeaks
<1> QED BY <1>1, <1>2, <1>3, <1>4

\* poll_job leaves a running command alone.
LEMMA CollectRunningKeeps ==
    ASSUME WatchdogInv, NEW j \in Jobs, CollectRunning(j)
    PROVE  WatchdogInv'
<1> USE DEF WatchdogInv, holders, queue, sweep, verdicts, clock, history
<1>1. TypeOK'
  BY DEF CollectRunning, TypeOK
<1>2. LaunchedFirst' /\ SupervisedRuns'
  BY DEF CollectRunning, TypeOK, LaunchedFirst, SupervisedRuns
<1>3. NoConvictionLeak' /\ GuiltyInSweep'
  BY DEF CollectRunning, TypeOK, NoConvictionLeak, GuiltyInSweep
<1>4. StrikesAreFresh' /\ ConvictionSpeaks'
  BY DEF CollectRunning, TypeOK, StrikesAreFresh, ConvictionSpeaks
<1> QED BY <1>1, <1>2, <1>3, <1>4

\* The end of collect.
LEMMA CollectedKeeps ==
    ASSUME WatchdogInv, Collected
    PROVE  WatchdogInv'
<1> USE DEF WatchdogInv, holders, queue, sweep, verdicts, clock, history
<1>1. TypeOK'
  BY DEF Collected, TypeOK
<1>2. LaunchedFirst' /\ SupervisedRuns'
  BY DEF Collected, TypeOK, LaunchedFirst, SupervisedRuns
<1>3. NoConvictionLeak' /\ GuiltyInSweep'
  BY DEF Collected, TypeOK, NoConvictionLeak, GuiltyInSweep
<1>4. StrikesAreFresh' /\ ConvictionSpeaks'
  BY DEF Collected, TypeOK, StrikesAreFresh, ConvictionSpeaks
<1> QED BY <1>1, <1>2, <1>3, <1>4

\* _launch starts a run that no conviction speaks of yet.
LEMMA AdmitKeeps ==
    ASSUME WatchdogInv, NEW j \in Jobs, Admit(j)
    PROVE  WatchdogInv'
<1> USE DEF WatchdogInv, holders, queue, sweep, verdicts, clock, history
<1>1. TypeOK'
  BY BoundsAssumption, HoldersAssumption, AgeTypes
  DEF Admit, Launched, Holders, Ages, TypeOK
<1>2. LaunchedFirst' /\ SupervisedRuns'
  BY BoundsAssumption, HoldersAssumption, AgeTypes
  DEF Admit, Launched, Holders, Ages, TypeOK, LaunchedFirst, SupervisedRuns
<1>3. NoConvictionLeak' /\ GuiltyInSweep'
  BY BoundsAssumption, HoldersAssumption, AgeTypes
  DEF Admit, Launched, Holders, Ages, TypeOK, NoConvictionLeak, GuiltyInSweep
<1>4. StrikesAreFresh' /\ ConvictionSpeaks'
  BY BoundsAssumption, HoldersAssumption, AgeTypes
  DEF Admit, Launched, Holders, Ages, TypeOK, StrikesAreFresh,
      ConvictionSpeaks
<1> QED BY <1>1, <1>2, <1>3, <1>4

\* The wait at the end of a tick (run_forever).
LEMMA SleepKeeps ==
    ASSUME WatchdogInv, Sleep
    PROVE  WatchdogInv'
<1> USE DEF WatchdogInv, holders, queue, sweep, verdicts, clock, history
<1>1. TypeOK'
  BY BoundsAssumption, HoldersAssumption, PassedKeeps DEF Sleep, TypeOK
<1>2. LaunchedFirst' /\ SupervisedRuns'
  BY BoundsAssumption, HoldersAssumption, PassedKeeps
  DEF Sleep, TypeOK, LaunchedFirst, SupervisedRuns
<1>3. NoConvictionLeak' /\ GuiltyInSweep'
  BY BoundsAssumption, HoldersAssumption, PassedKeeps
  DEF Sleep, TypeOK, NoConvictionLeak, GuiltyInSweep
<1>4. StrikesAreFresh' /\ ConvictionSpeaks'
  BY BoundsAssumption, HoldersAssumption, PassedKeeps
  DEF Sleep, TypeOK, StrikesAreFresh, ConvictionSpeaks
<1> QED BY <1>1, <1>2, <1>3, <1>4

\* A restarted runner remembers nothing, and needs nothing (__init__).
LEMMA CrashKeeps ==
    ASSUME WatchdogInv, Crash
    PROVE  WatchdogInv'
<1> USE DEF WatchdogInv, holders, queue, sweep, verdicts, clock, history
<1>1. TypeOK'
  BY BoundsAssumption, HoldersAssumption, AgeTypes
  DEF Crash, Blind, Ages, TypeOK
<1>2. LaunchedFirst' /\ SupervisedRuns'
  BY DEF Crash, TypeOK, LaunchedFirst, SupervisedRuns
<1>3. NoConvictionLeak' /\ GuiltyInSweep'
  BY DEF Crash, TypeOK, NoConvictionLeak, GuiltyInSweep
<1>4. StrikesAreFresh' /\ ConvictionSpeaks'
  BY DEF Crash, TypeOK, StrikesAreFresh, ConvictionSpeaks
<1> QED BY <1>1, <1>2, <1>3, <1>4

\* Settling a job, after its end or at its timeout, keeps the invariant: collect
\* runs between sweeps, when nobody stands convicted but the job itself (collect,
\* _settle).
LEMMA CollectKeeps ==
    ASSUME WatchdogInv, NEW j \in Jobs, CollectEnded(j) \/ CollectTimeout(j)
    PROVE  WatchdogInv'
<1>1. TypeOK /\ j \in active /\ phase = "collect"
  BY DEF WatchdogInv, TypeOK, CollectEnded, CollectTimeout
<1>2. CASE CollectEnded(j)
  <2>1. result[j] \in Results
    BY <1>1 DEF TypeOK, Holders
  <2> QED BY <1>1, <1>2, <2>1, SettleKeeps DEF CollectEnded
<1>3. CASE CollectTimeout(j)
  BY <1>1, <1>3, SettleKeeps DEF CollectTimeout
<1> QED BY <1>2, <1>3

\* The verdict on a job: failed if convicted, run again only inside the window of
\* a conviction since its start, and no business of any other job (_settle).
LEMMA SettleVerdict ==
    ASSUME TypeOK, NEW i \in Jobs, NEW res \in Results, NEW to \in BOOLEAN,
           Settle(i, res, to)
    PROVE  /\ \A j \in Jobs \ {i} : state'[j] = state[j]
           /\ i \in convicted => state'[i] = "failed"
           /\ state'[i] = "pending" =>
                /\ i \notin convicted
                /\ convAge < age[i] /\ convAge <= Window
<1>1. CASE ~Succeeded(i, res, to) /\ Excused(i, res, to)
  BY <1>1 DEF Settle, Excused, TypeOK
<1>2. CASE ~(~Succeeded(i, res, to) /\ Excused(i, res, to))
  BY <1>2 DEF Settle, Succeeded, Excused, TypeOK
<1> QED BY <1>1, <1>2

\* The same of collect, after the end of a job or at its timeout.
LEMMA CollectVerdict ==
    ASSUME TypeOK, NEW i \in Jobs, CollectEnded(i) \/ CollectTimeout(i)
    PROVE  /\ \A j \in Jobs \ {i} : state'[j] = state[j]
           /\ i \in convicted => state'[i] = "failed"
           /\ state'[i] = "pending" =>
                /\ i \notin convicted
                /\ convAge < age[i] /\ convAge <= Window
<1>1. CASE CollectEnded(i)
  <2>1. result[i] \in Results
    BY DEF TypeOK, Holders
  <2> QED BY <1>1, <2>1, SettleVerdict DEF CollectEnded
<1>2. CASE CollectTimeout(i)
  BY <1>2, SettleVerdict DEF CollectTimeout
<1> QED BY <1>1, <1>2

\* Every step of the runner, of the holders and of the clock keeps the invariant
\* (tick, gpu-claim).
LEMMA NextInv == WatchdogInv /\ [Next]_vars => WatchdogInv'
<1> SUFFICES ASSUME WatchdogInv, [Next]_vars PROVE WatchdogInv'
  OBVIOUS
<1>1. CASE RunnerNext
  BY <1>1, ReapOrphansKeeps, LookKeeps, JudgeKeeps, KillKeeps, ReportKeeps,
     CollectRunningKeeps, CollectKeeps, CollectedKeeps, AdmitKeeps, SleepKeeps
  DEF RunnerNext
<1>2. CASE Crash
  BY <1>2, CrashKeeps
<1>3. CASE \E c \in Claims : ClaimBegins(c)
  BY <1>3, ClaimBeginsKeeps
<1>4. CASE \E h \in Holders : Usage(h) \/ \E res \in Results : Exit(h, res)
  BY <1>4, UsageKeeps, ExitKeeps
<1>5. CASE Pass
  BY <1>5, PassKeeps
<1>6. CASE UNCHANGED vars
  BY <1>6
  DEF vars, holders, queue, sweep, verdicts, clock, history, WatchdogInv, TypeOK,
      LaunchedFirst, SupervisedRuns, NoConvictionLeak, GuiltyInSweep,
      StrikesAreFresh, ConvictionSpeaks
<1> QED BY <1>1, <1>2, <1>3, <1>4, <1>5, <1>6 DEF Next

-------------------------------------------------------------------------------
\* The bookkeeping of sweeps, convictions and verdicts is consistent at every
\* step (reap, _reap, _settle).
THEOREM WatchdogInvariant == Spec => []WatchdogInv
BY InitInv, NextInv, PTL DEF Spec

\* The type invariant; above all, no job is retried more than MAX_ATTEMPTS times
\* (requeue_orphans, _hit_by_a_convicted_co_tenant).
THEOREM WatchdogTypes == Spec => []TypeOK
<1>1. WatchdogInv => TypeOK
  BY DEF WatchdogInv
<1> QED BY <1>1, WatchdogInvariant, PTL

\* No conviction outlives its job (_describe_failure).
THEOREM ConvictionsEnd == Spec => []NoConvictionLeak
<1>1. WatchdogInv => NoConvictionLeak
  BY DEF WatchdogInv
<1> QED BY <1>1, WatchdogInvariant, PTL

\* A convicted job ends in failed/ and nowhere else (_settle).
THEOREM ConvictedFails == Spec => ConvictedIsFailed
<1>1. WatchdogInv /\ [Next]_vars =>
        [\A j \in convicted :
           state[j] = "running" => state'[j] \in {"running", "failed"}]_vars
  <2> SUFFICES ASSUME WatchdogInv, Next, NEW j \in convicted,
                      state[j] = "running"
               PROVE  state'[j] \in {"running", "failed"}
    BY DEF vars
  <2>1. TypeOK /\ j \in Jobs /\ j \in active
    BY DEF WatchdogInv, NoConvictionLeak, TypeOK
  <2>2. CASE ReapOrphans
    BY <2>1, <2>2 DEF ReapOrphans, TypeOK
  <2>3. CASE \E i \in Jobs : CollectEnded(i) \/ CollectTimeout(i)
    BY <2>1, <2>3, CollectVerdict
  <2>4. CASE \E i \in Jobs : Admit(i)
    BY <2>1, <2>4 DEF Admit, TypeOK
  <2>5. CASE state' = state
    BY <2>5
  <2> QED
    BY <2>2, <2>3, <2>4, <2>5
    DEF Next, RunnerNext, Look, Judge, Kill, Report, CollectRunning, Collected,
        Sleep, Crash, ClaimBegins, Usage, Exit, Pass, queue
<1> QED BY <1>1, WatchdogInvariant, PTL DEF Spec, ConvictedIsFailed

\* A job is run again for the sake of a co-tenant only when a co-tenant was
\* convicted, and removed, during its run and within the window (_settle).
THEOREM RetriesExcused == Spec => RetryIsExcused
<1>1. WatchdogInv /\ [Next]_vars =>
        [\A j \in Jobs :
           j \in active /\ state'[j] = "pending" => excuse[j] <= Window]_vars
  <2> SUFFICES ASSUME WatchdogInv, Next, NEW j \in Jobs,
                      j \in active, state'[j] = "pending"
               PROVE  excuse[j] <= Window
    BY DEF vars
  <2>1. TypeOK /\ state[j] = "running"
    BY DEF WatchdogInv, SupervisedRuns
  <2>2. CASE ReapOrphans
    BY <2>1, <2>2 DEF ReapOrphans, TypeOK
  <2>3. CASE \E i \in Jobs : CollectEnded(i) \/ CollectTimeout(i)
    <3>1. convAge < age[j] /\ convAge <= Window /\ j \notin convicted
      BY <2>1, <2>3, CollectVerdict
    <3>2. /\ convAge \in Nat /\ age[j] \in Nat /\ excuse[j] \in Nat
          /\ Window \in Nat
      BY <2>1, AgeTypes DEF TypeOK, Ages
    <3> QED BY <3>1, <3>2 DEF WatchdogInv, ConvictionSpeaks
  <2>4. CASE \E i \in Jobs : Admit(i)
    BY <2>1, <2>4 DEF Admit, TypeOK
  <2>5. CASE state' = state
    BY <2>1, <2>5
  <2> QED
    BY <2>2, <2>3, <2>4, <2>5
    DEF Next, RunnerNext, Look, Judge, Kill, Report, CollectRunning, Collected,
        Sleep, Crash, ClaimBegins, Usage, Exit, Pass, queue
<1> QED BY <1>1, WatchdogInvariant, PTL DEF Spec, RetryIsExcused

\* Nobody is convicted on less than two sweeps in a row, whatever the number of
\* strikes above one (check_vram).
THEOREM NeverOnOneSample == Spec => TwoInARow
<1>1. WatchdogInv /\ [Next]_vars =>
        [guilty' # guilty => guilty' \subseteq lastOver \cap apps.over]_vars
  <2> SUFFICES ASSUME WatchdogInv, Next, guilty' # guilty
               PROVE  guilty' \subseteq lastOver \cap apps.over
    BY DEF vars
  <2>1. CASE Judge
    <3> SUFFICES ASSUME NEW r \in guilty' PROVE r \in lastOver \cap apps.over
      OBVIOUS
    <3>1. r \in Overusing /\ Struck(r) >= WATCHDOG_STRIKES
      BY <2>1 DEF Judge
    <3>2. r \in apps.over /\ r \in Records
      BY <3>1 DEF Overusing, WatchdogInv, TypeOK
    <3>3. strikes[r] > 0
      BY <3>1, <3>2, BoundsAssumption DEF Struck, WatchdogInv, TypeOK
    <3> QED BY <3>2, <3>3 DEF WatchdogInv, StrikesAreFresh
  <2>2. CASE guilty' = {}
    BY <2>2
  <2> QED
    BY <2>1, <2>2
    DEF Next, RunnerNext, ReapOrphans, Look, Kill, Report, CollectRunning,
        CollectEnded, CollectTimeout, Settle, Collected, Admit, Sleep, Crash,
        ClaimBegins, Usage, Exit, Pass, sweep
<1> QED BY <1>1, WatchdogInvariant, PTL DEF Spec, TwoInARow
=============================================================================
