------------------------------- MODULE JobQueue -------------------------------
(***************************************************************************)
(* The job queue: queue.py's directory tree, the users who submit, cancel  *)
(* and wait for jobs (cli_gpuq.py), and the life of a job in the runner    *)
(* (runner.py: tick, admit, _launch, collect, _settle, shutdown;           *)
(* reaper.requeue_orphans), one file operation at a time.                  *)
(*                                                                         *)
(* A job is a file <id>.json in pending/, running/, done/ or failed/.  The *)
(* runner is a single thread: each tick reaps, collects and admits.  Users *)
(* act on the same files from processes of their own, and the runner may   *)
(* die between any two of its steps; the processes of its jobs survive it. *)
(*                                                                         *)
(* A process is numbered by its launch, and the number is its pid.  What a *)
(* spec says beyond attempts and pid never changes or only words an error. *)
(* Whether the card lets a GPU job in, now or ever, is Ledger's business:  *)
(* here it may or may not.                                                 *)
(***************************************************************************)
EXTENDS Integers, FiniteSets, Sequences

CONSTANTS
    None,        \* Python's None
    NoFile,      \* there is no such file
    Jobs,        \* job ids
    GpuJobs,     \* the jobs on the gpu lane
    BadJobs,     \* the jobs of a project the runner's config does not declare
    Keys,        \* dedupe keys
    KeyOf,       \* dedupe_key of each job, or None
    MaxLaunches, \* bounds the processes started in a run
    Submits,     \* calls of submit()
    SubmitOf,    \* the job each of them submits
    Cancels,     \* calls of cancel()
    CancelOf,
    Waits,       \* calls of wait_for()
    WaitOf,
    MAX_ATTEMPTS,
    Slots,       \* how many jobs each lane runs at once
    MaxCrashes   \* bounds the crashes and shutdowns of a run

States == <<"pending", "running", "done", "failed">>
StateNames == {"pending", "running", "done", "failed"}
Final == {"done", "failed"}

\* Where the runner is within a phase of its tick.
Steps == {"list", "loop", "launch", "started", "finish", "finish2",
          "requeue", "requeue2"}
Phases == {"reap", "collect", "admit", "shutdown", "down"}

Procs == 1 .. MaxLaunches

Specs == [attempts : Nat, pid : Procs \cup {None}]

ASSUME JobsAssumption ==
    /\ IsFiniteSet(Jobs)
    /\ GpuJobs \subseteq Jobs
    /\ BadJobs \subseteq Jobs
    /\ KeyOf \in [Jobs -> Keys \cup {None}]
    /\ SubmitOf \in [Submits -> Jobs]
    /\ CancelOf \in [Cancels -> Jobs]
    /\ WaitOf \in [Waits -> Jobs]

ASSUME BoundsAssumption ==
    /\ MAX_ATTEMPTS \in Nat
    /\ MaxLaunches \in Nat
    /\ Slots \in Nat
    /\ MaxCrashes \in Nat

ASSUME NamesAssumption ==
    /\ None \notin Int \cup Jobs \cup Submits \cup Keys \cup StateNames
    /\ NoFile \notin Specs

VARIABLES
    dir,      \* dir[s][j]: the spec in file s/j.json, or NoFile
    \* the users
    sub, subAt,          \* where each submit() is, and the directory it is at
    lock,                \* who holds .submit.lock
    can, canSpec,        \* where each cancel() is, and the spec it read
    wtr, wtrAt, wtrSeen, \* where each wait_for() is, the directory find() is
                         \* at, and whether it has seen the job before
    \* the runner
    phase, step,
    todo,     \* the jobs the loop under way still has to visit
    cur,      \* the job under way, or None
    mem,      \* its spec, in the runner's memory
    verdict,  \* where it is being moved
    active,   \* active[j]: the spec of a job the runner supervises, or NoFile
    stopping, \* the SIGTERM flag
    crashes,  \* crashes and shutdowns so far
    \* the jobs' processes
    live,     \* the processes that are running
    jobOf,    \* the job each process was started for, None if not yet started
    \* history
    lost,     \* the processes whose pid died with the runner, unrecorded
    slipped   \* the submissions that a job went past on its way back to pending/

users == <<sub, subAt, lock, can, canSpec, wtr, wtrAt, wtrSeen>>
runner == <<phase, step, todo, cur, mem, verdict, active, stopping, crashes>>
procs == <<live, jobOf, lost, slipped>>
vars == <<dir, users, runner, procs>>

Exists(s, j) == dir[s][j] # NoFile

\* _write: temp file and rename, so that readers see all of it or nothing.
Written(d, s, j, spec) == [d EXCEPT ![s][j] = spec]

\* Mutant: a copy that leaves the old file behind.
Renamed_Copy(d, s, t, j) == [d EXCEPT ![t][j] = d[s][j]]

\* os.rename of a job's file, over whatever was there.
Renamed(d, s, t, j) == [d EXCEPT ![s][j] = NoFile, ![t][j] = d[s][j]]

\* list_state: the ids in a directory.
Listed(s) == {j \in Jobs : Exists(s, j)}

Supervised == {j \in Jobs : active[j] # NoFile}

pid_alive(p) == p \in live

Init ==
    /\ dir = [s \in StateNames |-> [j \in Jobs |-> NoFile]]
    /\ sub = [u \in Submits |-> "idle"]
    /\ subAt = [u \in Submits |-> 1]
    /\ lock = None
    /\ can = [k \in Cancels |-> "idle"]
    /\ canSpec = [k \in Cancels |-> NoFile]
    /\ wtr = [w \in Waits |-> "idle"]
    /\ wtrAt = [w \in Waits |-> 1]
    /\ wtrSeen = [w \in Waits |-> FALSE]
    /\ phase = "reap" /\ step = "list"
    /\ todo = {} /\ cur = None /\ mem = NoFile /\ verdict = None
    /\ active = [j \in Jobs |-> NoFile]
    /\ stopping = FALSE /\ crashes = 0
    /\ live = {} /\ jobOf = [p \in Procs |-> None] /\ lost = {}
    /\ slipped = {}

-------------------------------------------------------------------------------
(***************************************************************************)
(* submit(): under .submit.lock, look for the dedupe key in pending/ and   *)
(* then in running/, for the id in every directory in turn, and write.     *)
(***************************************************************************)
SubmitLock(u) ==
    /\ sub[u] = "idle"
    /\ lock = None
    /\ lock' = u
    /\ sub' = [sub EXCEPT ![u] =
                 IF KeyOf[SubmitOf[u]] = None THEN "exists" ELSE "scan"]
    /\ UNCHANGED <<dir, subAt, can, canSpec, wtr, wtrAt, wtrSeen, runner, procs>>

\* The call returns an id or raises; closing the file drops the lock.
SubmitEnds(u, how) ==
    /\ sub' = [sub EXCEPT ![u] = how]
    /\ subAt' = [subAt EXCEPT ![u] = 1]
    /\ lock' = None

\* Mutant: look for the key in pending/ only.
SubmitScan_PendingOnly(u) ==
    LET key == KeyOf[SubmitOf[u]]
        dup == \E j \in Listed("pending") : KeyOf[j] = key
    IN  /\ sub[u] = "scan"
        /\ IF dup THEN SubmitEnds(u, "deduped")
           ELSE sub' = [sub EXCEPT ![u] = "exists"] /\ UNCHANGED <<lock, subAt>>
        /\ UNCHANGED <<dir, can, canSpec, wtr, wtrAt, wtrSeen, runner, procs>>

SubmitScan(u) ==
    LET key == KeyOf[SubmitOf[u]]
        dup == \E j \in Listed(States[subAt[u]]) : KeyOf[j] = key
    IN  /\ sub[u] = "scan"
        /\ IF dup THEN SubmitEnds(u, "deduped")
           ELSE /\ UNCHANGED lock
                /\ IF subAt[u] = 1
                   THEN subAt' = [subAt EXCEPT ![u] = 2] /\ UNCHANGED sub
                   ELSE /\ subAt' = [subAt EXCEPT ![u] = 1]
                        /\ sub' = [sub EXCEPT ![u] = "exists"]
        /\ UNCHANGED <<dir, can, canSpec, wtr, wtrAt, wtrSeen, runner, procs>>

\* Mutant: look for the id in pending/ only.
SubmitExists_PendingOnly(u) ==
    /\ sub[u] = "exists"
    /\ IF Exists("pending", SubmitOf[u])
       THEN SubmitEnds(u, "FileExistsError")
       ELSE sub' = [sub EXCEPT ![u] = "write"] /\ UNCHANGED <<lock, subAt>>
    /\ UNCHANGED <<dir, can, canSpec, wtr, wtrAt, wtrSeen, runner, procs>>

SubmitExists(u) ==
    /\ sub[u] = "exists"
    /\ IF Exists(States[subAt[u]], SubmitOf[u])
       THEN SubmitEnds(u, "FileExistsError")
       ELSE /\ UNCHANGED lock
            /\ IF subAt[u] < Len(States)
               THEN subAt' = [subAt EXCEPT ![u] = @ + 1] /\ UNCHANGED sub
               ELSE sub' = [sub EXCEPT ![u] = "write"] /\ UNCHANGED subAt
    /\ UNCHANGED <<dir, can, canSpec, wtr, wtrAt, wtrSeen, runner, procs>>

SubmitWrite(u) ==
    /\ sub[u] = "write"
    /\ dir' = Written(dir, "pending", SubmitOf[u], [attempts |-> 0, pid |-> None])
    /\ SubmitEnds(u, "submitted")
    /\ UNCHANGED <<can, canSpec, wtr, wtrAt, wtrSeen, runner, procs>>

(***************************************************************************)
(* cancel(): read the pending spec, write it back with its error set, and  *)
(* move it.  No lock.                                                      *)
(***************************************************************************)
CancelRead(k) ==
    /\ can[k] = "idle"
    /\ can' = [can EXCEPT ![k] =
                 IF Exists("pending", CancelOf[k]) THEN "write" ELSE "refused"]
    /\ canSpec' = [canSpec EXCEPT ![k] = dir["pending"][CancelOf[k]]]
    /\ UNCHANGED <<dir, sub, subAt, lock, wtr, wtrAt, wtrSeen, runner, procs>>

CancelWrite(k) ==
    /\ can[k] = "write"
    /\ dir' = Written(dir, "pending", CancelOf[k], canSpec[k])
    /\ can' = [can EXCEPT ![k] = "rename"]
    /\ canSpec' = [canSpec EXCEPT ![k] = NoFile]
    /\ UNCHANGED <<sub, subAt, lock, wtr, wtrAt, wtrSeen, runner, procs>>

CancelRename(k) ==
    /\ can[k] = "rename"
    /\ IF Exists("pending", CancelOf[k])
       THEN /\ dir' = Renamed(dir, "pending", "failed", CancelOf[k])
            /\ can' = [can EXCEPT ![k] = "cancelled"]
       ELSE can' = [can EXCEPT ![k] = "refused"] /\ UNCHANGED dir
    /\ UNCHANGED <<sub, subAt, lock, canSpec, wtr, wtrAt, wtrSeen, runner, procs>>

(***************************************************************************)
(* wait_for(): poll find(), which tries the directories in turn and reads  *)
(* the first file that it found to exist.                                  *)
(***************************************************************************)
WaitUnchanged == UNCHANGED <<dir, sub, subAt, lock, can, canSpec, runner, procs>>

\* A caller waits for a job it has submitted.
WaitBegin(w) ==
    /\ wtr[w] = "idle"
    /\ \E s \in StateNames : Exists(s, WaitOf[w])
    /\ wtr' = [wtr EXCEPT ![w] = "find"]
    /\ UNCHANGED <<wtrAt, wtrSeen>>
    /\ WaitUnchanged

\* find() returned None: missing on the first look, or on the move.
FoundNone(w) ==
    /\ wtr' = [wtr EXCEPT ![w] = IF wtrSeen[w] THEN "sleep" ELSE "no such job"]
    /\ wtrAt' = [wtrAt EXCEPT ![w] = 1]
    /\ UNCHANGED wtrSeen

WaitFind(w) ==
    /\ wtr[w] = "find"
    /\ IF Exists(States[wtrAt[w]], WaitOf[w])
       THEN wtr' = [wtr EXCEPT ![w] = "read"] /\ UNCHANGED <<wtrAt, wtrSeen>>
       ELSE IF wtrAt[w] < Len(States)
       THEN wtrAt' = [wtrAt EXCEPT ![w] = @ + 1] /\ UNCHANGED <<wtr, wtrSeen>>
       ELSE FoundNone(w)
    /\ WaitUnchanged

\* Mutant: only done/ ends the wait.
WaitRead_DoneOnly(w) ==
    LET state == States[wtrAt[w]]
    IN  /\ wtr[w] = "read"
        /\ IF Exists(state, WaitOf[w])
           THEN /\ wtr' = [wtr EXCEPT ![w] = IF state = "done" THEN state ELSE "sleep"]
                /\ wtrAt' = [wtrAt EXCEPT ![w] = 1]
                /\ wtrSeen' = [wtrSeen EXCEPT ![w] = TRUE]
           ELSE FoundNone(w)
        /\ WaitUnchanged

WaitRead(w) ==
    LET state == States[wtrAt[w]]
    IN  /\ wtr[w] = "read"
        /\ IF Exists(state, WaitOf[w])
           THEN /\ wtr' = [wtr EXCEPT ![w] =
                             IF state \in Final THEN state ELSE "sleep"]
                /\ wtrAt' = [wtrAt EXCEPT ![w] = 1]
                /\ wtrSeen' = [wtrSeen EXCEPT ![w] = TRUE]
           ELSE FoundNone(w)
        /\ WaitUnchanged

\* Poll again, or give up at the deadline.
WaitPoll(w) ==
    /\ wtr[w] = "sleep"
    /\ \E next \in {"find", "timed out"} : wtr' = [wtr EXCEPT ![w] = next]
    /\ UNCHANGED <<wtrAt, wtrSeen>>
    /\ WaitUnchanged

-------------------------------------------------------------------------------
(***************************************************************************)
(* The runner.  Each phase of a tick lists jobs and visits them one by     *)
(* one; moving a job is a write in place followed by a rename.             *)
(***************************************************************************)
At(ph, st) == phase = ph /\ step = st

Visiting(ph, j) == At(ph, "loop") /\ j \in todo

\* The visit to j is over.
Visited(j) ==
    /\ step' = "loop"
    /\ todo' = todo \ {j}
    /\ cur' = None /\ mem' = NoFile /\ verdict' = None

\* Work on j's spec, as spec, next at step st.
Take(j, spec, st, v) ==
    /\ step' = st
    /\ cur' = j /\ mem' = spec /\ verdict' = v
    /\ UNCHANGED todo

\* finish(): write the spec back to running/, ...
FinishWrite ==
    /\ step = "finish"
    /\ dir' = Written(dir, "running", cur, mem)
    /\ step' = "finish2"
    /\ UNCHANGED <<users, phase, todo, cur, mem, verdict, active, stopping,
                   crashes, procs>>

\* ... and move it to done/ or failed/.
FinishRename ==
    /\ step = "finish2"
    /\ dir' = Renamed(dir, "running", verdict, cur)
    /\ Visited(cur)
    /\ UNCHANGED <<users, phase, active, stopping, crashes, procs>>

\* Mutant: the charged attempt is not written before the move.
RequeueWrite_Skipped ==
    /\ step = "requeue"
    /\ step' = "requeue2"
    /\ UNCHANGED <<dir, users, phase, todo, cur, mem, verdict, active, stopping,
                   crashes, procs>>

\* requeue(): count the attempt in running/, ...
RequeueWrite ==
    /\ step = "requeue"
    /\ dir' = Written(dir, "running", cur, mem)
    /\ step' = "requeue2"
    /\ UNCHANGED <<users, phase, todo, cur, mem, verdict, active, stopping,
                   crashes, procs>>

\* The submissions that have looked for j in pending/ and not yet in running/.
Passed(j) ==
    {u \in Submits :
        /\ subAt[u] = 2
        /\ \/ sub[u] = "scan" /\ KeyOf[SubmitOf[u]] = KeyOf[j]
           \/ sub[u] = "exists" /\ SubmitOf[u] = j}

\* ... and move it back to pending/.
RequeueRename ==
    /\ step = "requeue2"
    /\ dir' = Renamed(dir, "running", "pending", cur)
    /\ slipped' = slipped \cup Passed(cur)
    /\ Visited(cur)
    /\ UNCHANGED <<users, phase, active, stopping, crashes, live, jobOf, lost>>

NoPid(spec) == [spec EXCEPT !.pid = None]

\* Mutant: the attempt is not counted.
Requeued_Free(spec) == NoPid(spec)

Requeued(spec) == [attempts |-> spec.attempts + 1, pid |-> None]

(***************************************************************************)
(* reap: requeue_orphans.                                                  *)
(***************************************************************************)
ReapList ==
    /\ At("reap", "list") /\ ~stopping
    /\ todo' = Listed("running")
    /\ step' = "loop"
    /\ UNCHANGED <<dir, users, phase, cur, mem, verdict, active, stopping,
                   crashes, procs>>

\* Mutant: the process of a job that is not ours is not looked for.
Accounted_OursOnly(j) == j \in Supervised

\* Mutant: a job without a pid passes for one that runs.
Accounted_NoPid(j) ==
    LET pid == dir["running"][j].pid
    IN  j \in Supervised \/ pid = None \/ pid_alive(pid)

\* Ours, or its process is still there.
Accounted(j) ==
    LET pid == dir["running"][j].pid
    IN  j \in Supervised \/ (pid # None /\ pid_alive(pid))

ReapJob(j) ==
    LET spec == dir["running"][j]
    IN  /\ Visiting("reap", j)
        /\ IF Accounted(j) THEN Visited(j)
           ELSE IF spec.attempts < MAX_ATTEMPTS
           THEN Take(j, Requeued(spec), "requeue", None)
           ELSE Take(j, spec, "finish", "failed")
        /\ UNCHANGED <<dir, users, phase, active, stopping, crashes, procs>>

(***************************************************************************)
(* collect: poll_job and _settle.                                          *)
(***************************************************************************)
CollectList ==
    /\ At("collect", "list")
    /\ todo' = Supervised
    /\ step' = "loop"
    /\ UNCHANGED <<dir, users, phase, cur, mem, verdict, active, stopping,
                   crashes, procs>>

CollectRunning(j) ==
    /\ Visiting("collect", j)
    /\ pid_alive(active[j].pid)
    /\ Visited(j)
    /\ UNCHANGED <<dir, users, phase, active, stopping, crashes, procs>>

\* Mutant: a job that has ended stays supervised.
CollectExited_Kept(j) ==
    /\ Visiting("collect", j)
    /\ ~pid_alive(active[j].pid)
    /\ \E v \in Final : Take(j, NoPid(active[j]), "finish", v)
    /\ UNCHANGED <<dir, users, phase, active, stopping, crashes, procs>>

\* The command has ended: it succeeded, it failed, or it is the victim of a
\* convicted co-tenant on the card and has a retry left.
CollectExited(j) ==
    /\ Visiting("collect", j)
    /\ ~pid_alive(active[j].pid)
    /\ active' = [active EXCEPT ![j] = NoFile]
    /\ \/ \E v \in Final : Take(j, NoPid(active[j]), "finish", v)
       \/ /\ j \in GpuJobs /\ active[j].attempts < MAX_ATTEMPTS
          /\ Take(j, Requeued(active[j]), "requeue", None)
    /\ UNCHANGED <<dir, users, phase, stopping, crashes, procs>>

\* The command has overrun its timeout: kill its group and fail the job.
CollectTimeout(j) ==
    /\ Visiting("collect", j)
    /\ pid_alive(active[j].pid)
    /\ live' = live \ {active[j].pid}
    /\ active' = [active EXCEPT ![j] = NoFile]
    /\ Take(j, NoPid(active[j]), "finish", "failed")
    /\ UNCHANGED <<dir, users, phase, stopping, crashes, jobOf, lost, slipped>>

(***************************************************************************)
(* admit and _launch.                                                      *)
(***************************************************************************)
AdmitList ==
    /\ At("admit", "list")
    /\ todo' = IF stopping THEN {} ELSE Listed("pending")
    /\ step' = "loop"
    /\ UNCHANGED <<dir, users, phase, cur, mem, verdict, active, stopping,
                   crashes, procs>>

Lane(j) == IF j \in GpuJobs THEN GpuJobs ELSE Jobs \ GpuJobs

\* _capacity(lane) <= 0
Full(j) == Cardinality(Supervised \cap Lane(j)) >= Slots

\* No slot, or the card has no room or cannot be asked at the moment.
AdmitSkip(j) ==
    /\ Visiting("admit", j) /\ j \notin BadJobs
    /\ Full(j) \/ j \in GpuJobs
    /\ Visited(j)
    /\ UNCHANGED <<dir, users, phase, active, stopping, crashes, procs>>

\* claim(): the rename fails if a user's cancel got there first.
Claim(j, st, v) ==
    IF Exists("pending", j)
    THEN /\ dir' = Renamed(dir, "pending", "running", j)
         /\ Take(j, dir["pending"][j], st, v)
    ELSE Visited(j) /\ UNCHANGED dir

\* _fail_pending: a project nobody declared, or a job the card can never take.
AdmitFail(j) ==
    /\ Visiting("admit", j)
    /\ j \in BadJobs \/ (j \in GpuJobs /\ ~Full(j))
    /\ Claim(j, "finish", "failed")
    /\ UNCHANGED <<users, phase, active, stopping, crashes, procs>>

AdmitClaim(j) ==
    /\ Visiting("admit", j) /\ j \notin BadJobs /\ ~Full(j)
    /\ Claim(j, "launch", None)
    /\ UNCHANGED <<users, phase, active, stopping, crashes, procs>>

\* _fail_running: the checkout or the exec failed.
LaunchFails ==
    /\ step = "launch"
    /\ mem' = NoPid(mem)
    /\ step' = "finish" /\ verdict' = "failed"
    /\ UNCHANGED <<dir, users, phase, todo, cur, active, stopping, crashes, procs>>

\* Mutant: the spec is not given the pid.
LaunchStart_NoPid(p) ==
    /\ step = "launch"
    /\ jobOf[p] = None /\ \A q \in 1 .. (p - 1) : jobOf[q] # None
    /\ live' = live \cup {p}
    /\ jobOf' = [jobOf EXCEPT ![p] = cur]
    /\ step' = "started"
    /\ UNCHANGED <<dir, users, phase, todo, cur, mem, verdict, active, stopping,
                   crashes, lost, slipped>>

\* start_job: the process exists, and nothing on disk says so yet.
LaunchStart(p) ==
    /\ step = "launch"
    /\ jobOf[p] = None /\ \A q \in 1 .. (p - 1) : jobOf[q] # None
    /\ live' = live \cup {p}
    /\ jobOf' = [jobOf EXCEPT ![p] = cur]
    /\ mem' = [mem EXCEPT !.pid = p]
    /\ step' = "started"
    /\ UNCHANGED <<dir, users, phase, todo, cur, verdict, active, stopping,
                   crashes, lost, slipped>>

\* Mutant: the pid is not recorded.
LaunchRecord_Forgotten ==
    /\ step = "started"
    /\ active' = [active EXCEPT ![cur] = mem]
    /\ Visited(cur)
    /\ UNCHANGED <<dir, users, phase, stopping, crashes, procs>>

\* The pid is recorded and the job supervised.
LaunchRecord ==
    /\ step = "started"
    /\ dir' = Written(dir, "running", cur, mem)
    /\ active' = [active EXCEPT ![cur] = mem]
    /\ Visited(cur)
    /\ UNCHANGED <<users, phase, stopping, crashes, procs>>

(***************************************************************************)
(* The loop of ticks, and its end.                                         *)
(***************************************************************************)
NextPhase ==
    /\ step = "loop" /\ todo = {}
    /\ phase \in {"reap", "collect", "admit"}
    /\ phase' = CASE phase = "reap" -> "collect"
                   [] phase = "collect" -> "admit"
                   [] phase = "admit" -> "reap"
    /\ step' = "list"
    /\ UNCHANGED <<dir, users, todo, cur, mem, verdict, active, stopping, crashes,
                   procs>>

\* SIGTERM: the tick under way is finished, but it admits nothing.
Stop ==
    /\ phase \in {"reap", "collect", "admit"} /\ ~stopping
    /\ crashes < MaxCrashes
    /\ stopping' = TRUE /\ crashes' = crashes + 1
    /\ UNCHANGED <<dir, users, phase, step, todo, cur, mem, verdict, active, procs>>

Shutdown ==
    /\ At("reap", "list") /\ stopping
    /\ phase' = "shutdown" /\ step' = "loop" /\ todo' = Supervised
    /\ UNCHANGED <<dir, users, cur, mem, verdict, active, stopping, crashes, procs>>

\* kill_job, and leave the job in running/ with no pid.
ShutdownJob(j) ==
    /\ Visiting("shutdown", j)
    /\ live' = live \ {active[j].pid}
    /\ dir' = Written(dir, "running", j, NoPid(active[j]))
    /\ active' = [active EXCEPT ![j] = NoFile]
    /\ Visited(j)
    /\ UNCHANGED <<users, phase, stopping, crashes, jobOf, lost, slipped>>

\* The process is gone and all it had in memory; its jobs' processes are not.
Dead ==
    /\ phase' = "down" /\ step' = "list"
    /\ todo' = {} /\ cur' = None /\ mem' = NoFile /\ verdict' = None
    /\ active' = [j \in Jobs |-> NoFile]
    /\ stopping' = FALSE
    /\ UNCHANGED <<dir, users, live, jobOf, slipped>>

ShutdownDone ==
    /\ At("shutdown", "loop") /\ todo = {}
    /\ Dead /\ UNCHANGED <<crashes, lost>>

Crash ==
    /\ phase # "down"
    /\ crashes < MaxCrashes
    /\ Dead /\ crashes' = crashes + 1
    /\ lost' = IF step = "started" THEN lost \cup {mem.pid} ELSE lost

\* supervisor's autorestart, systemd's Restart=always
Restart ==
    /\ phase = "down"
    /\ phase' = "reap"
    /\ UNCHANGED <<dir, users, step, todo, cur, mem, verdict, active, stopping,
                   crashes, procs>>

ProcExit(p) ==
    /\ p \in live
    /\ live' = live \ {p}
    /\ UNCHANGED <<dir, users, runner, jobOf, lost, slipped>>

-------------------------------------------------------------------------------
SubmitNext(u) == SubmitLock(u) \/ SubmitScan(u) \/ SubmitExists(u) \/ SubmitWrite(u)

CancelNext(k) == CancelRead(k) \/ CancelWrite(k) \/ CancelRename(k)

WaitNext(w) == WaitBegin(w) \/ WaitFind(w) \/ WaitRead(w) \/ WaitPoll(w)

\* The steps the runner takes by itself.
RunnerNext ==
    \/ ReapList \/ CollectList \/ AdmitList \/ NextPhase
    \/ FinishWrite \/ FinishRename \/ RequeueWrite \/ RequeueRename
    \/ LaunchFails \/ LaunchRecord
    \/ \E p \in Procs : LaunchStart(p)
    \/ \E j \in Jobs : \/ ReapJob(j)
                       \/ CollectRunning(j) \/ CollectExited(j)
                       \/ CollectTimeout(j)
                       \/ AdmitSkip(j) \/ AdmitFail(j) \/ AdmitClaim(j)
                       \/ ShutdownJob(j)
    \/ Shutdown \/ ShutdownDone

Next ==
    \/ \E u \in Submits : SubmitNext(u)
    \/ \E k \in Cancels : CancelNext(k)
    \/ \E w \in Waits : WaitNext(w)
    \/ RunnerNext
    \/ Stop \/ Crash \/ Restart
    \/ \E p \in Procs : ProcExit(p)

Spec == Init /\ [][Next]_vars

\* The runner keeps running and is restarted when it is not; a job the card
\* keeps having room for is let in some time; a timeout comes.  A command need
\* not end by itself.
Fairness ==
    /\ WF_vars(RunnerNext)
    /\ WF_vars(Restart)
    /\ \A j \in Jobs : SF_vars(AdmitClaim(j)) /\ SF_vars(CollectTimeout(j))
    /\ \A u \in Submits : WF_vars(SubmitNext(u))
    /\ \A k \in Cancels : WF_vars(CancelNext(k))
    /\ \A w \in Waits : WF_vars(WaitFind(w) \/ WaitRead(w) \/ WaitPoll(w))

FairSpec == Spec /\ Fairness

-------------------------------------------------------------------------------
\* The type invariant of the queue, its users and its runner.
TypeOK ==
    /\ dir \in [StateNames -> [Jobs -> Specs \cup {NoFile}]]
    /\ sub \in [Submits -> {"idle", "scan", "exists", "write", "submitted",
                            "deduped", "FileExistsError"}]
    /\ subAt \in [Submits -> 1 .. 4]
    /\ lock \in Submits \cup {None}
    /\ can \in [Cancels -> {"idle", "write", "rename", "cancelled", "refused"}]
    /\ canSpec \in [Cancels -> Specs \cup {NoFile}]
    /\ wtr \in [Waits -> {"idle", "find", "read", "sleep", "no such job",
                          "timed out"} \cup Final]
    /\ wtrAt \in [Waits -> 1 .. 4]
    /\ wtrSeen \in [Waits -> BOOLEAN]
    /\ phase \in Phases /\ step \in Steps
    /\ todo \subseteq Jobs
    /\ cur \in Jobs \cup {None}
    /\ mem \in Specs \cup {NoFile}
    /\ verdict \in Final \cup {None}
    /\ active \in [Jobs -> Specs \cup {NoFile}]
    /\ \A j \in Supervised : active[j].pid \in Procs
    /\ stopping \in BOOLEAN
    /\ crashes \in 0 .. MaxCrashes
    /\ live \subseteq Procs
    /\ jobOf \in [Procs -> Jobs \cup {None}]
    /\ lost \subseteq Procs
    /\ slipped \subseteq Submits

Running(j) == {p \in live : jobOf[p] = j}

Launches(j) == {p \in Procs : jobOf[p] = j}

\* design.md:102: "`rename(2)` within a filesystem is atomic, so a job is in
\* exactly one state at any instant and two runner threads cannot both claim
\* it."
OneState ==
    \A j \in Jobs, s, t \in StateNames : Exists(s, j) /\ Exists(t, j) => s = t

SameKey(i, j) == i # j /\ KeyOf[i] # None /\ KeyOf[i] = KeyOf[j]

\* design.md:129: "Submitting an identical job while one is pending or running
\* is a no-op returning the existing id": two jobs with one dedupe key are never
\* pending or running at a time, whoever crashed, except when the one was moved
\* back to pending/ just between the two looks that the submission of the other
\* takes, at pending/ and at running/ (submit, requeue).
DedupeBetweenLooks ==
    \A i, j \in Jobs :
        /\ SameKey(i, j)
        /\ Exists("pending", i) \/ Exists("running", i)
        /\ Exists("pending", j) \/ Exists("running", j)
        => \E u \in slipped : SubmitOf[u] \in {i, j}

\* A job's command is started at most once more than MAX_ATTEMPTS, wherever
\* the runner died in between (requeue counts the attempt before it moves the
\* job; MAX_ATTEMPTS bounds the requeues).
LaunchBound == \A j \in Jobs : Cardinality(Launches(j)) <= MAX_ATTEMPTS + 1

\* A pending job has no process that anyone was ever told of, so that admitting
\* it starts no second one beside it: whatever crashed between two writes, and
\* whoever supervises it now (requeue_orphans, _settle, shutdown).
PendingIsIdle ==
    \A j \in Jobs : Exists("pending", j) => Running(j) \subseteq lost

\* A job that has reached done/ or failed/ is over: no later step moves or
\* rewrites its file or starts its command again (finish, requeue_orphans).
FinalIsFinal ==
    [][\A j \in Jobs, s \in Final :
         Exists(s, j) => dir'[s][j] = dir[s][j] /\ Launches(j)' = Launches(j)]_vars

\* What the runner believes of a job it supervises is what the file says, so
\* that after a crash the next runner finds the process (_launch, update).
SupervisedOnDisk ==
    \A j \in Supervised : /\ dir["running"][j] = active[j]
                          /\ jobOf[active[j].pid] = j

\* A command of j has outlived the runner that knew it: nobody supervises it, "no
\* watchdog enforces its timeout" (job_orphaned), and its pid keeps its job where
\* it is.
Stranded(j) ==
    \E p \in Running(j) \ lost : \A i \in Supervised : active[i].pid # p

\* Every job that is submitted ends up in done/ or failed/, crashes and shutdowns
\* notwithstanding, and a command that hangs while it is supervised; unless a
\* command that has outlived its runner never ends (requeue_orphans, poll_job).
JobsSettle ==
    \A j \in Jobs :
        ~ <>[]Stranded(j) =>
            ((\E s \in StateNames : Exists(s, j)) ~> (\E s \in Final : Exists(s, j)))

\* submit() raises for an id the queue has in any state rather than write
\* over it, "job id already exists" (queue.py:74), unless the job is moved back
\* to pending/ just after the look at pending/.
SubmitNeverClobbers ==
    [][\A u \in Submits : sub'[u] = "submitted" /\ sub[u] = "write" =>
         u \in slipped \/ \A s \in StateNames : ~Exists(s, SubmitOf[u])]_vars

\* A wait returns, as far as its job settles: it is not left polling by a job that
\* was between two directories when it looked (wait_for).
WaitReturns ==
    \A w \in Waits :
        ~ <>[]Stranded(WaitOf[w]) =>
            ((wtr[w] # "idle")
                ~> (wtr[w] \in Final \cup {"no such job", "timed out"}))

(***************************************************************************)
(* The files of the queue as the life of jobs.                             *)
(***************************************************************************)
StateOf(j) ==
    IF Exists("pending", j) THEN "pending"
    ELSE IF Exists("running", j) THEN "running"
    ELSE IF Exists("done", j) THEN "done"
    ELSE IF Exists("failed", j) THEN "failed" ELSE "absent"

AttemptsOf(j) == IF StateOf(j) = "absent" THEN 0 ELSE dir[StateOf(j)][j].attempts

Life == INSTANCE JobLife WITH
            state <- [j \in Jobs |-> StateOf(j)],
            attempts <- [j \in Jobs |-> AttemptsOf(j)],
            charged <- [j \in Jobs |-> step = "requeue2" /\ cur = j]

\* The files implement the life of a job: no sequence of ticks, crashes and
\* restarts takes a job anywhere its life does not go, or retries it without
\* having charged the retry (submit, claim, requeue, finish).
ImplementsJobLife == Life!Spec
=============================================================================
