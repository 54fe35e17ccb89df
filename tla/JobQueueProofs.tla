--------------------------- MODULE JobQueueProofs -----------------------------
(***************************************************************************)
(* JobQueue, for every set of jobs, users and processes, every number of   *)
(* crashes, slots and attempts.                                            *)
(*                                                                         *)
(* Two races in the files are real (a cancel that a claim overtakes, and a *)
(* requeue between two looks of a submission), and what the queue promises *)
(* does not survive them.  The theorems therefore say what holds as long   *)
(* as the race that matters has not happened: []CancelUndisturbed, and     *)
(* []NothingSlipped.  Both are true of every run in which nobody cancels   *)
(* and no id or key is submitted twice (QuietQueue).                       *)
(***************************************************************************)
EXTENDS JobQueue, FiniteSetTheorems, TLAPS

\* The spec that a cancel() is about to write back is still what pending/ has.
CancelUndisturbed ==
    \A k \in Cancels : can[k] = "write" => dir["pending"][CancelOf[k]] = canSpec[k]

NothingSlipped == slipped = {}

\* A submission of j missed it on its way back to pending/.
Slipped(j) == \E u \in slipped : SubmitOf[u] = j

\* The steps at which the runner works on a job, and the job it works on.
Working == {"launch", "started", "finish", "finish2", "requeue", "requeue2"}

Held(j) == step \in Working /\ cur = j

-------------------------------------------------------------------------------
(***************************************************************************)
(* The inductive invariant.                                                *)
(***************************************************************************)

\* What the runner has in memory fits the step it is at.
RunnerOK ==
    /\ IF step \in Working
       THEN cur \in Jobs /\ mem \in Specs /\ phase \in {"reap", "collect", "admit"}
       ELSE cur = None
    /\ step \in {"finish", "finish2"} => verdict \in Final
    /\ step = "started" => mem.pid \in Procs /\ jobOf[mem.pid] = cur
    /\ step \in {"finish2", "requeue2"} => dir["running"][cur] = mem
    /\ step \in {"requeue", "requeue2"} => active[cur] = NoFile
    /\ phase = "shutdown" => step = "loop"
    /\ phase = "down" => step = "list" /\ \A j \in Jobs : active[j] = NoFile
    /\ phase = "reap" /\ step # "list" =>
         \A j \in todo : j # cur => Exists("running", j)
    /\ phase \in {"collect", "shutdown"} /\ step # "list" =>
         \A j \in todo : j # cur => active[j] # NoFile

\* A job the runner works on or supervises has a file that says so.
Begun(j) == Exists("running", j) \/ Exists("done", j) \/ Exists("failed", j)

BegunOnDisk == \A j \in Jobs : Held(j) \/ active[j] # NoFile => Begun(j)

\* One submission at a time is past the lock.
LockHeld ==
    \A u \in Submits : /\ sub[u] \in {"scan", "exists", "write"} => lock = u
                       /\ sub[u] = "scan" => subAt[u] \in {1, 2}
                       /\ sub[u] = "idle" => subAt[u] = 1

CancelHasRead == \A k \in Cancels : can[k] = "write" => canSpec[k] # NoFile

\* Where a submission has looked for the id, the id is not; or it is in a
\* directory where it never leaves and the submission has yet to look.
IdLooks ==
    \A u \in Submits \ slipped :
        /\ sub[u] = "exists" =>
             \/ \A i \in 1 .. 4 : i < subAt[u] => ~Exists(States[i], SubmitOf[u])
             \/ \E i \in 3 .. 4 : i >= subAt[u] /\ Exists(States[i], SubmitOf[u])
        /\ sub[u] = "write" => \A s \in StateNames : ~Exists(s, SubmitOf[u])

\* Where a submission has looked for the key, the key is not.
KeyLooks ==
    \A u \in Submits \ slipped, j \in Jobs :
        KeyOf[j] = KeyOf[SubmitOf[u]] /\ KeyOf[j] # None =>
            /\ sub[u] = "scan" /\ subAt[u] = 2 => ~Exists("pending", j)
            /\ sub[u] \in {"exists", "write"} /\ ~Slipped(j)
                 => ~Exists("pending", j) /\ ~Exists("running", j)

\* The job's file: in one directory, and what the runner knows of the job.
FileOK(j) ==
    /\ \A s, t \in StateNames : Exists(s, j) /\ Exists(t, j) => s = t
    /\ Held(j) => Exists("running", j) /\ active[j] = NoFile
    /\ active[j] # NoFile => /\ dir["running"][j] = active[j]
                             /\ active[j].pid \in Procs
                             /\ jobOf[active[j].pid] = j

\* Its processes: known to the runner, or to the file.
ProcsOK(j) ==
    \A p \in live \ lost : jobOf[p] = j =>
        /\ Exists("running", j)
        /\ IF Held(j) THEN step = "started" /\ mem.pid = p
                      ELSE dir["running"][j].pid = p

\* Its attempts: charged to the file before they are granted.
AttemptsOK(j) ==
    /\ \A s \in StateNames : Exists(s, j) => dir[s][j].attempts <= MAX_ATTEMPTS
    /\ Held(j) =>
         /\ mem.attempts <= MAX_ATTEMPTS
         /\ mem.attempts = IF step = "requeue" THEN dir["running"][j].attempts + 1
                                               ELSE dir["running"][j].attempts

\* Its launches: one more than the attempts charged, at most.
LaunchesOK(j) ==
    LET n == Cardinality(Launches(j))
    IN  /\ (\A s \in StateNames : ~Exists(s, j)) => n = 0
        /\ Exists("pending", j) => n <= dir["pending"][j].attempts
        /\ \A s \in StateNames : Exists(s, j) => n <= dir[s][j].attempts + 1
        /\ Held(j) /\ step \in {"launch", "requeue", "requeue2"}
             => n <= mem.attempts

JobOK(j) == FileOK(j) /\ ProcsOK(j) /\ AttemptsOK(j) /\ LaunchesOK(j)

JobsOK == \A j \in Jobs : ~Slipped(j) => JobOK(j)

FilesOK == BegunOnDisk /\ JobsOK /\ DedupeBetweenLooks

LooksOK == LockHeld /\ CancelHasRead /\ IdLooks /\ KeyLooks

QueueInv == TypeOK /\ RunnerOK /\ FilesOK /\ LooksOK

-------------------------------------------------------------------------------
(***************************************************************************)
(* Specs and files.                                                        *)
(***************************************************************************)

\* What the runner makes of a spec is a spec.
LEMMA SpecTypes ==
    /\ [attempts |-> 0, pid |-> None] \in Specs
    /\ \A spec \in Specs :
         /\ spec # NoFile
         /\ spec.attempts \in Nat /\ spec.pid \in Procs \cup {None}
         /\ NoPid(spec) \in Specs /\ Requeued(spec) \in Specs
         /\ \A p \in Procs : [spec EXCEPT !.pid = p] \in Specs
BY NamesAssumption DEF Specs, NoPid, Requeued

\* And it says what the name says.
LEMMA SpecValues ==
    ASSUME NEW spec \in Specs
    PROVE  /\ NoPid(spec).attempts = spec.attempts /\ NoPid(spec).pid = None
           /\ Requeued(spec).attempts = spec.attempts + 1
           /\ Requeued(spec).pid = None
           /\ \A p \in Procs : /\ [spec EXCEPT !.pid = p].attempts = spec.attempts
                               /\ [spec EXCEPT !.pid = p].pid = p
BY DEF Specs, NoPid, Requeued

Dirs == [StateNames -> [Jobs -> Specs \cup {NoFile}]]

Wrote(s, j, spec) ==
    /\ dir' \in Dirs
    /\ dir'[s][j] = spec
    /\ \A t \in StateNames, i \in Jobs : t # s \/ i # j => dir'[t][i] = dir[t][i]

Moved(s, t, j) ==
    /\ dir' \in Dirs
    /\ dir'[s][j] = NoFile /\ dir'[t][j] = dir[s][j]
    /\ \A r \in StateNames, i \in Jobs :
         i # j \/ (r # s /\ r # t) => dir'[r][i] = dir[r][i]

\* A write changes one file (_write).
LEMMA WrittenAt ==
    ASSUME dir \in Dirs, NEW s \in StateNames, NEW j \in Jobs,
           NEW spec \in Specs \cup {NoFile}, dir' = Written(dir, s, j, spec)
    PROVE  Wrote(s, j, spec)
BY DEF Written, Dirs, Wrote

\* A rename changes two (os.rename).
LEMMA RenamedAt ==
    ASSUME dir \in Dirs, NEW s \in StateNames, NEW t \in StateNames, s # t,
           NEW j \in Jobs, dir' = Renamed(dir, s, t, j)
    PROVE  Moved(s, t, j)
BY DEF Renamed, Dirs, Moved


-------------------------------------------------------------------------------
(***************************************************************************)
(* Types.                                                                  *)
(***************************************************************************)
UsersTyped ==
    /\ sub \in [Submits -> {"idle", "scan", "exists", "write", "submitted",
                            "deduped", "FileExistsError"}]
    /\ subAt \in [Submits -> 1 .. 4]
    /\ lock \in Submits \cup {None}
    /\ can \in [Cancels -> {"idle", "write", "rename", "cancelled", "refused"}]
    /\ canSpec \in [Cancels -> Specs \cup {NoFile}]

WaitsTyped ==
    /\ wtr \in [Waits -> {"idle", "find", "read", "sleep", "no such job",
                          "timed out"} \cup Final]
    /\ wtrAt \in [Waits -> 1 .. 4]
    /\ wtrSeen \in [Waits -> BOOLEAN]

RunnerTyped ==
    /\ phase \in Phases /\ step \in Steps
    /\ todo \subseteq Jobs
    /\ cur \in Jobs \cup {None}
    /\ mem \in Specs \cup {NoFile}
    /\ verdict \in Final \cup {None}
    /\ active \in [Jobs -> Specs \cup {NoFile}]
    /\ \A j \in Supervised : active[j].pid \in Procs
    /\ stopping \in BOOLEAN
    /\ crashes \in 0 .. MaxCrashes

ProcsTyped ==
    /\ live \subseteq Procs
    /\ jobOf \in [Procs -> Jobs \cup {None}]
    /\ lost \subseteq Procs
    /\ slipped \subseteq Submits

LEMMA TypeParts ==
    TypeOK <=> /\ dir \in Dirs /\ UsersTyped /\ WaitsTyped
               /\ RunnerTyped /\ ProcsTyped
BY DEF TypeOK, Dirs, UsersTyped, WaitsTyped, RunnerTyped, ProcsTyped

LEMMA TypePartsNext ==
    TypeOK' <=> /\ dir' \in Dirs /\ UsersTyped' /\ WaitsTyped'
                /\ RunnerTyped' /\ ProcsTyped'
BY DEF TypeOK, Dirs, UsersTyped, WaitsTyped, RunnerTyped, ProcsTyped

\* What a step leaves alone keeps its type.
LEMMA TypeFrame ==
    /\ UsersTyped /\ UNCHANGED <<sub, subAt, lock, can, canSpec>> => UsersTyped'
    /\ WaitsTyped /\ UNCHANGED <<wtr, wtrAt, wtrSeen>> => WaitsTyped'
    /\ RunnerTyped /\ UNCHANGED runner => RunnerTyped'
    /\ ProcsTyped /\ UNCHANGED procs => ProcsTyped'
<1>1. UsersTyped /\ UNCHANGED <<sub, subAt, lock, can, canSpec>> => UsersTyped'
  BY DEF UsersTyped
<1>2. WaitsTyped /\ UNCHANGED <<wtr, wtrAt, wtrSeen>> => WaitsTyped'
  BY DEF WaitsTyped
<1>3. RunnerTyped /\ UNCHANGED runner => RunnerTyped'
  BY DEF RunnerTyped, Supervised, runner
<1>4. ProcsTyped /\ UNCHANGED procs => ProcsTyped'
  BY DEF ProcsTyped, procs
<1> QED BY <1>1, <1>2, <1>3, <1>4

\* A step of the users leaves running/ and the runner alone.
LEMMA RunnerFrame ==
    ASSUME TypeOK, RunnerOK, UNCHANGED <<runner, procs>>,
           \A j \in Jobs : dir'["running"][j] = dir["running"][j]
    PROVE  RunnerOK'
<1>1. UNCHANGED <<phase, step, todo, cur, mem, verdict, active, jobOf>>
  BY DEF runner, procs
<1>2. cur \in Jobs \/ cur = None
  BY DEF TypeOK
<1>3. todo \subseteq Jobs
  BY DEF TypeOK
<1> QED BY <1>1, <1>2, <1>3 DEF RunnerOK, Exists, Working

\* Every step of a user keeps the types and leaves the runner alone.
LEMMA UsersTypeStep ==
    ASSUME TypeOK, RunnerOK,
           \/ \E u \in Submits : SubmitNext(u)
           \/ \E k \in Cancels : CancelNext(k)
           \/ \E w \in Waits : WaitNext(w)
    PROVE  TypeOK' /\ RunnerOK'
<1> USE DEF users
<1>0. dir \in Dirs /\ UsersTyped /\ WaitsTyped
  BY TypeParts
<1>1. ASSUME NEW u \in Submits, SubmitLock(u) PROVE TypeOK' /\ RunnerOK'
  <2>1. UsersTyped'
    BY <1>0, <1>1 DEF SubmitLock, UsersTyped
  <2> QED BY <1>0, <1>1, <2>1, TypeParts, TypePartsNext, TypeFrame, RunnerFrame
     DEF SubmitLock
<1>2. ASSUME NEW u \in Submits, SubmitScan(u) PROVE TypeOK' /\ RunnerOK'
  <2>1. UsersTyped'
    BY <1>0, <1>2 DEF SubmitScan, SubmitEnds, UsersTyped
  <2> QED BY <1>0, <1>2, <2>1, TypeParts, TypePartsNext, TypeFrame, RunnerFrame
     DEF SubmitScan
<1>3. ASSUME NEW u \in Submits, SubmitExists(u) PROVE TypeOK' /\ RunnerOK'
  <2>1. UsersTyped'
    BY <1>0, <1>3 DEF SubmitExists, SubmitEnds, UsersTyped, States
  <2> QED BY <1>0, <1>3, <2>1, TypeParts, TypePartsNext, TypeFrame, RunnerFrame
     DEF SubmitExists
<1>4. ASSUME NEW u \in Submits, SubmitWrite(u) PROVE TypeOK' /\ RunnerOK'
  <2>1. UsersTyped'
    BY <1>0, <1>4 DEF SubmitWrite, SubmitEnds, UsersTyped
  <2>2. dir' \in Dirs /\ \A j \in Jobs : dir'["running"][j] = dir["running"][j]
    BY <1>0, <1>4, WrittenAt, SpecTypes, JobsAssumption DEF SubmitWrite, StateNames, Wrote
  <2> QED BY <1>4, <2>1, <2>2, TypeParts, TypePartsNext, TypeFrame, RunnerFrame
     DEF SubmitWrite
<1>5. ASSUME NEW k \in Cancels, CancelRead(k) PROVE TypeOK' /\ RunnerOK'
  <2>1. UsersTyped'
    <3>1. dir["pending"][CancelOf[k]] \in Specs \cup {NoFile}
      BY <1>0, JobsAssumption DEF Dirs, StateNames
    <3> QED BY <1>0, <1>5, <3>1 DEF CancelRead, UsersTyped
  <2> QED BY <1>0, <1>5, <2>1, TypeParts, TypePartsNext, TypeFrame, RunnerFrame
     DEF CancelRead
<1>6. ASSUME NEW k \in Cancels, CancelWrite(k) PROVE TypeOK' /\ RunnerOK'
  <2>1. UsersTyped' /\ canSpec[k] \in Specs \cup {NoFile}
    BY <1>0, <1>6 DEF CancelWrite, UsersTyped
  <2>2. dir' \in Dirs /\ \A j \in Jobs : dir'["running"][j] = dir["running"][j]
    <3>1. CancelOf[k] \in Jobs /\ "pending" \in StateNames /\ "running" \in StateNames
      BY JobsAssumption DEF StateNames
    <3> QED BY <1>0, <1>6, <2>1, <3>1, WrittenAt DEF CancelWrite, Wrote
  <2> QED BY <1>6, <2>1, <2>2, TypeParts, TypePartsNext, TypeFrame, RunnerFrame
     DEF CancelWrite
<1>7. ASSUME NEW k \in Cancels, CancelRename(k) PROVE TypeOK' /\ RunnerOK'
  <2>1. UsersTyped'
    BY <1>0, <1>7 DEF CancelRename, UsersTyped
  <2>2. dir' \in Dirs /\ \A j \in Jobs : dir'["running"][j] = dir["running"][j]
    <3>1. CancelOf[k] \in Jobs /\ {"pending", "running", "failed"} \subseteq StateNames
      BY JobsAssumption DEF StateNames
    <3> QED BY <1>0, <1>7, <3>1, RenamedAt DEF CancelRename, Moved
  <2> QED BY <1>7, <2>1, <2>2, TypeParts, TypePartsNext, TypeFrame, RunnerFrame
     DEF CancelRename
<1>8. ASSUME NEW w \in Waits, WaitNext(w) PROVE TypeOK' /\ RunnerOK'
  <2>1. WaitsTyped'
    <3>1. CASE WaitBegin(w) \/ WaitPoll(w)
      BY <1>0, <3>1 DEF WaitBegin, WaitPoll, WaitsTyped
    <3> DEFINE W == {"idle", "find", "read", "sleep", "no such job", "timed out"}
                    \cup Final
    <3>a. wtr \in [Waits -> W]
      BY <1>0, Zenon DEF WaitsTyped
    <3>b. wtrAt \in [Waits -> 1 .. 4]
      BY <1>0, Zenon DEF WaitsTyped
    <3>c. wtrSeen \in [Waits -> BOOLEAN]
      BY <1>0, Zenon DEF WaitsTyped
    <3>2. CASE FoundNone(w)
      <4>1. wtrAt' = [wtrAt EXCEPT ![w] = 1]
        BY <3>2, Zenon DEF FoundNone
      <4>2. wtrAt' \in [Waits -> 1 .. 4]
        BY <3>b, <4>1
      <4>3. wtrSeen' = wtrSeen
        BY <3>2, Zenon DEF FoundNone
      <4>4. PICK v \in {"sleep", "no such job"} : wtr' = [wtr EXCEPT ![w] = v]
        BY <3>2, Zenon DEF FoundNone
      <4>5. wtr' \in [Waits -> W]
        BY <3>a, <4>4, Zenon
      <4> QED BY <3>c, <4>2, <4>3, <4>5, Zenon DEF WaitsTyped
    <3>3. CASE WaitFind(w) /\ ~FoundNone(w)
      <4>1. wtr' = wtr \/ wtr' = [wtr EXCEPT ![w] = "read"]
        BY <3>3, Zenon DEF WaitFind
      <4>2. wtrAt' = wtrAt \/ (wtrAt[w] < 4 /\ wtrAt' = [wtrAt EXCEPT ![w] = @ + 1])
        BY <3>3 DEF WaitFind, States
      <4>3. wtrSeen' = wtrSeen
        BY <3>3, Zenon DEF WaitFind
      <4>4. wtr' \in [Waits -> W] /\ wtrAt' \in [Waits -> 1 .. 4]
        <5>1. wtr' \in [Waits -> W]
          BY <3>a, <4>1
        <5>2. wtrAt' \in [Waits -> 1 .. 4]
          BY <3>b, <4>2
        <5> QED BY <5>1, <5>2
      <4> QED BY <3>c, <4>3, <4>4, Zenon DEF WaitsTyped
    <3>4. CASE WaitRead(w) /\ ~FoundNone(w)
      <4>1. PICK v \in Final \cup {"sleep"} : wtr' = [wtr EXCEPT ![w] = v]
        BY <3>4, Zenon DEF WaitRead
      <4>2. wtrAt' = [wtrAt EXCEPT ![w] = 1]
        BY <3>4, Zenon DEF WaitRead
      <4>3. wtrSeen' = [wtrSeen EXCEPT ![w] = TRUE]
        BY <3>4, Zenon DEF WaitRead
      <4>4. wtr' \in [Waits -> W] /\ wtrAt' \in [Waits -> 1 .. 4]
        <5>1. wtr' \in [Waits -> W]
          BY <3>a, <4>1
        <5>2. wtrAt' \in [Waits -> 1 .. 4]
          BY <3>b, <4>2
        <5> QED BY <5>1, <5>2
      <4>5. wtrSeen' \in [Waits -> BOOLEAN]
        BY <3>c, <4>3, Zenon
      <4> QED BY <4>4, <4>5, Zenon DEF WaitsTyped
    <3> QED BY <1>8, <3>1, <3>2, <3>3, <3>4 DEF WaitNext
  <2>2. WaitUnchanged
    BY <1>8 DEF WaitNext, WaitBegin, WaitFind, WaitRead, WaitPoll
  <2> QED BY <2>1, <2>2, TypeParts, TypePartsNext, TypeFrame, RunnerFrame
     DEF WaitUnchanged
<1> QED BY <1>1, <1>2, <1>3, <1>4, <1>5, <1>6, <1>7, <1>8
        DEF SubmitNext, CancelNext

\* Every other step keeps the types, and what the runner has in memory fits.
LEMMA RunnerTypeStep ==
    ASSUME TypeOK, RunnerOK,
           \/ RunnerNext \/ Stop \/ Crash \/ Restart
           \/ \E p \in Procs : ProcExit(p)
    PROVE  TypeOK' /\ RunnerOK'
<1> USE NamesAssumption DEF Working, Exists
<1>a. dir \in Dirs /\ UsersTyped /\ WaitsTyped /\ RunnerTyped /\ ProcsTyped
  BY TypeParts
<1>b. ASSUME UNCHANGED users, dir' \in Dirs, RunnerTyped', ProcsTyped' PROVE TypeOK'
  <2>1. UNCHANGED <<sub, subAt, lock, can, canSpec>> /\ UNCHANGED <<wtr, wtrAt, wtrSeen>>
    BY <1>b, Zenon DEF users
  <2> QED BY <1>a, <1>b, <2>1, TypePartsNext, TypeFrame, Zenon
<1>c. {"pending", "running", "done", "failed"} = StateNames /\ Final \subseteq StateNames
  BY DEF StateNames, Final
<1>1. ASSUME ReapList PROVE TypeOK' /\ RunnerOK'
  <2>1. dir' = dir
    BY <1>1 DEF ReapList, At, runner
  <2>2. RunnerTyped'
    BY <1>1, <1>a, <2>1, SpecTypes, BoundsAssumption
    DEF ReapList, At, Wrote, Moved, runner, RunnerTyped, RunnerOK, Phases, Steps, Final, Dirs, StateNames,
        Listed, Supervised
  <2>3. ProcsTyped'
    BY <1>1, <1>a, <2>1 DEF ReapList, At, procs, ProcsTyped, RunnerOK, RunnerTyped
  <2>4. RunnerOK'
    BY <1>1, <1>a, <2>1, <2>2, SpecTypes
    DEF ReapList, At, Wrote, Moved, runner, procs, RunnerTyped, ProcsTyped, RunnerOK, Listed, Supervised, Dirs,
        StateNames, Final
  <2>5. UNCHANGED users
    BY <1>1 DEF ReapList, At
  <2> QED BY <1>a, <1>b, <2>1, <2>2, <2>3, <2>4, <2>5 DEF Wrote, Moved
<1>2. ASSUME CollectList PROVE TypeOK' /\ RunnerOK'
  <2>1. dir' = dir
    BY <1>2 DEF CollectList, At, runner
  <2>2. RunnerTyped'
    BY <1>2, <1>a, <2>1, SpecTypes, BoundsAssumption
    DEF CollectList, At, Wrote, Moved, runner, RunnerTyped, RunnerOK, Phases, Steps, Final, Dirs, StateNames,
        Listed, Supervised
  <2>3. ProcsTyped'
    BY <1>2, <1>a, <2>1 DEF CollectList, At, procs, ProcsTyped, RunnerOK, RunnerTyped
  <2>4. RunnerOK'
    BY <1>2, <1>a, <2>1, <2>2, SpecTypes
    DEF CollectList, At, Wrote, Moved, runner, procs, RunnerTyped, ProcsTyped, RunnerOK, Listed, Supervised, Dirs,
        StateNames, Final
  <2>5. UNCHANGED users
    BY <1>2 DEF CollectList, At
  <2> QED BY <1>a, <1>b, <2>1, <2>2, <2>3, <2>4, <2>5 DEF Wrote, Moved
<1>3. ASSUME AdmitList PROVE TypeOK' /\ RunnerOK'
  <2>1. dir' = dir
    BY <1>3 DEF AdmitList, At, runner
  <2>2. RunnerTyped'
    BY <1>3, <1>a, <2>1, SpecTypes, BoundsAssumption
    DEF AdmitList, At, Wrote, Moved, runner, RunnerTyped, RunnerOK, Phases, Steps, Final, Dirs, StateNames,
        Listed, Supervised
  <2>3. ProcsTyped'
    BY <1>3, <1>a, <2>1 DEF AdmitList, At, procs, ProcsTyped, RunnerOK, RunnerTyped
  <2>4. RunnerOK'
    BY <1>3, <1>a, <2>1, <2>2, SpecTypes
    DEF AdmitList, At, Wrote, Moved, runner, procs, RunnerTyped, ProcsTyped, RunnerOK, Listed, Supervised, Dirs,
        StateNames, Final
  <2>5. UNCHANGED users
    BY <1>3 DEF AdmitList, At
  <2> QED BY <1>a, <1>b, <2>1, <2>2, <2>3, <2>4, <2>5 DEF Wrote, Moved
<1>4. ASSUME NextPhase PROVE TypeOK' /\ RunnerOK'
  <2>1. dir' = dir
    BY <1>4 DEF NextPhase, runner
  <2>2. RunnerTyped'
    BY <1>4, <1>a, <2>1, SpecTypes, BoundsAssumption
    DEF NextPhase, Wrote, Moved, runner, RunnerTyped, RunnerOK, Phases, Steps, Final, Dirs, StateNames,
        Listed, Supervised
  <2>3. ProcsTyped'
    BY <1>4, <1>a, <2>1 DEF NextPhase, procs, ProcsTyped, RunnerOK, RunnerTyped
  <2>4. RunnerOK'
    BY <1>4, <1>a, <2>1, <2>2, SpecTypes
    DEF NextPhase, Wrote, Moved, runner, procs, RunnerTyped, ProcsTyped, RunnerOK, Listed, Supervised, Dirs,
        StateNames, Final
  <2>5. UNCHANGED users
    BY <1>4 DEF NextPhase
  <2> QED BY <1>a, <1>b, <2>1, <2>2, <2>3, <2>4, <2>5 DEF Wrote, Moved
<1>5. ASSUME FinishWrite PROVE TypeOK' /\ RunnerOK'
  <2>0. cur \in Jobs /\ mem \in Specs /\ (step = "finish2" => verdict \in Final)
    BY <1>5 DEF FinishWrite, RunnerOK
  <2>1. Wrote("running", cur, mem)
    BY <1>5, <1>a, <1>c, <2>0, WrittenAt DEF FinishWrite
  <2>2. RunnerTyped'
    BY <1>5, <1>a, <2>1, SpecTypes, BoundsAssumption
    DEF FinishWrite, Wrote, Moved, runner, RunnerTyped, RunnerOK, Phases, Steps, Final, Dirs, StateNames,
        Listed, Supervised
  <2>3. ProcsTyped'
    BY <1>5, <1>a, <2>1 DEF FinishWrite, procs, ProcsTyped, RunnerOK, RunnerTyped
  <2>4. RunnerOK'
    BY <1>5, <1>a, <2>1, <2>2, SpecTypes
    DEF FinishWrite, Wrote, Moved, runner, procs, RunnerTyped, ProcsTyped, RunnerOK, Listed, Supervised, Dirs,
        StateNames, Final
  <2>5. UNCHANGED users
    BY <1>5 DEF FinishWrite
  <2> QED BY <1>a, <1>b, <2>1, <2>2, <2>3, <2>4, <2>5 DEF Wrote, Moved
<1>6. ASSUME FinishRename PROVE TypeOK' /\ RunnerOK'
  <2>0. cur \in Jobs /\ mem \in Specs /\ (step = "finish2" => verdict \in Final)
    BY <1>6 DEF FinishRename, Visited, RunnerOK
  <2>1. Moved("running", verdict, cur)
    BY <1>6, <1>a, <1>c, <2>0, RenamedAt DEF FinishRename, Visited, Final
  <2>2. RunnerTyped'
    BY <1>6, <1>a, <2>1, SpecTypes, BoundsAssumption
    DEF FinishRename, Visited, Wrote, Moved, runner, RunnerTyped, RunnerOK, Phases, Steps, Final, Dirs, StateNames,
        Listed, Supervised
  <2>3. ProcsTyped'
    BY <1>6, <1>a, <2>1 DEF FinishRename, Visited, procs, ProcsTyped, RunnerOK, RunnerTyped
  <2>4. RunnerOK'
    BY <1>6, <1>a, <2>1, <2>2, SpecTypes
    DEF FinishRename, Visited, Wrote, Moved, runner, procs, RunnerTyped, ProcsTyped, RunnerOK, Listed, Supervised, Dirs,
        StateNames, Final
  <2>5. UNCHANGED users
    BY <1>6 DEF FinishRename, Visited
  <2> QED BY <1>a, <1>b, <2>1, <2>2, <2>3, <2>4, <2>5 DEF Wrote, Moved
<1>7. ASSUME RequeueWrite PROVE TypeOK' /\ RunnerOK'
  <2>0. cur \in Jobs /\ mem \in Specs /\ (step = "finish2" => verdict \in Final)
    BY <1>7 DEF RequeueWrite, RunnerOK
  <2>1. Wrote("running", cur, mem)
    BY <1>7, <1>a, <1>c, <2>0, WrittenAt DEF RequeueWrite
  <2>2. RunnerTyped'
    BY <1>7, <1>a, <2>1, SpecTypes, BoundsAssumption
    DEF RequeueWrite, Wrote, Moved, runner, RunnerTyped, RunnerOK, Phases, Steps, Final, Dirs, StateNames,
        Listed, Supervised
  <2>3. ProcsTyped'
    BY <1>7, <1>a, <2>1 DEF RequeueWrite, procs, ProcsTyped, RunnerOK, RunnerTyped
  <2>4. RunnerOK'
    BY <1>7, <1>a, <2>1, <2>2, SpecTypes
    DEF RequeueWrite, Wrote, Moved, runner, procs, RunnerTyped, ProcsTyped, RunnerOK, Listed, Supervised, Dirs,
        StateNames, Final
  <2>5. UNCHANGED users
    BY <1>7 DEF RequeueWrite
  <2> QED BY <1>a, <1>b, <2>1, <2>2, <2>3, <2>4, <2>5 DEF Wrote, Moved
<1>8. ASSUME RequeueRename PROVE TypeOK' /\ RunnerOK'
  <2>0. cur \in Jobs /\ mem \in Specs /\ (step = "finish2" => verdict \in Final)
    BY <1>8 DEF RequeueRename, Visited, Passed, RunnerOK
  <2>1. Moved("running", "pending", cur)
    BY <1>8, <1>a, <1>c, <2>0, RenamedAt DEF RequeueRename, Visited, Passed
  <2>2. RunnerTyped'
    BY <1>8, <1>a, <2>1, SpecTypes, BoundsAssumption
    DEF RequeueRename, Visited, Passed, Wrote, Moved, runner, RunnerTyped, RunnerOK, Phases, Steps, Final, Dirs, StateNames,
        Listed, Supervised
  <2>3. ProcsTyped'
    BY <1>8, <1>a, <2>1 DEF RequeueRename, Visited, Passed, procs, ProcsTyped, RunnerOK, RunnerTyped
  <2>4. RunnerOK'
    BY <1>8, <1>a, <2>1, <2>2, SpecTypes
    DEF RequeueRename, Visited, Passed, Wrote, Moved, runner, procs, RunnerTyped, ProcsTyped, RunnerOK, Listed, Supervised, Dirs,
        StateNames, Final
  <2>5. UNCHANGED users
    BY <1>8 DEF RequeueRename, Visited, Passed
  <2> QED BY <1>a, <1>b, <2>1, <2>2, <2>3, <2>4, <2>5 DEF Wrote, Moved
<1>9. ASSUME LaunchFails PROVE TypeOK' /\ RunnerOK'
  <2>1. dir' = dir
    BY <1>9 DEF LaunchFails, runner
  <2>2. RunnerTyped'
    BY <1>9, <1>a, <2>1, SpecTypes, BoundsAssumption
    DEF LaunchFails, Wrote, Moved, runner, RunnerTyped, RunnerOK, Phases, Steps, Final, Dirs, StateNames,
        Listed, Supervised
  <2>3. ProcsTyped'
    BY <1>9, <1>a, <2>1 DEF LaunchFails, procs, ProcsTyped, RunnerOK, RunnerTyped
  <2>4. RunnerOK'
    BY <1>9, <1>a, <2>1, <2>2, SpecTypes
    DEF LaunchFails, Wrote, Moved, runner, procs, RunnerTyped, ProcsTyped, RunnerOK, Listed, Supervised, Dirs,
        StateNames, Final
  <2>5. UNCHANGED users
    BY <1>9 DEF LaunchFails
  <2> QED BY <1>a, <1>b, <2>1, <2>2, <2>3, <2>4, <2>5 DEF Wrote, Moved
<1>10. ASSUME LaunchRecord PROVE TypeOK' /\ RunnerOK'
  <2>0. cur \in Jobs /\ mem \in Specs /\ (step = "finish2" => verdict \in Final)
    BY <1>10 DEF LaunchRecord, Visited, RunnerOK
  <2>1. Wrote("running", cur, mem)
    BY <1>10, <1>a, <1>c, <2>0, WrittenAt DEF LaunchRecord, Visited
  <2>2. RunnerTyped'
    BY <1>10, <1>a, <2>1, SpecTypes, BoundsAssumption
    DEF LaunchRecord, Visited, Wrote, Moved, runner, RunnerTyped, RunnerOK, Phases, Steps, Final, Dirs, StateNames,
        Listed, Supervised
  <2>3. ProcsTyped'
    BY <1>10, <1>a, <2>1 DEF LaunchRecord, Visited, procs, ProcsTyped, RunnerOK, RunnerTyped
  <2>4. RunnerOK'
    BY <1>10, <1>a, <2>1, <2>2, SpecTypes
    DEF LaunchRecord, Visited, Wrote, Moved, runner, procs, RunnerTyped, ProcsTyped, RunnerOK, Listed, Supervised, Dirs,
        StateNames, Final
  <2>5. UNCHANGED users
    BY <1>10 DEF LaunchRecord, Visited
  <2> QED BY <1>a, <1>b, <2>1, <2>2, <2>3, <2>4, <2>5 DEF Wrote, Moved
<1>11. ASSUME NEW p \in Procs, LaunchStart(p) PROVE TypeOK' /\ RunnerOK'
  <2>1. dir' = dir
    BY <1>11 DEF LaunchStart, runner
  <2>2. RunnerTyped'
    BY <1>11, <1>a, <2>1, SpecTypes, BoundsAssumption
    DEF LaunchStart, Wrote, Moved, runner, RunnerTyped, RunnerOK, Phases, Steps, Final, Dirs, StateNames,
        Listed, Supervised
  <2>3. ProcsTyped'
    BY <1>11, <1>a, <2>1 DEF LaunchStart, procs, ProcsTyped, RunnerOK, RunnerTyped
  <2>4. RunnerOK'
    BY <1>11, <1>a, <2>1, <2>2, SpecTypes
    DEF LaunchStart, Wrote, Moved, runner, procs, RunnerTyped, ProcsTyped, RunnerOK, Listed, Supervised, Dirs,
        StateNames, Final
  <2>5. UNCHANGED users
    BY <1>11 DEF LaunchStart
  <2> QED BY <1>a, <1>b, <2>1, <2>2, <2>3, <2>4, <2>5 DEF Wrote, Moved
<1>12. ASSUME NEW j \in Jobs, ReapJob(j) PROVE TypeOK' /\ RunnerOK'
  <2>1. dir' = dir
    BY <1>12 DEF ReapJob, Visiting, At, Take, Visited, Accounted, Supervised, runner
  <2>2. RunnerTyped'
    BY <1>12, <1>a, <2>1, SpecTypes, BoundsAssumption
    DEF ReapJob, Visiting, At, Take, Visited, Accounted, Supervised, Wrote, Moved, runner, RunnerTyped, RunnerOK, Phases, Steps, Final, Dirs, StateNames,
        Listed, Supervised
  <2>3. ProcsTyped'
    BY <1>12, <1>a, <2>1 DEF ReapJob, Visiting, At, Take, Visited, Accounted, Supervised, procs, ProcsTyped, RunnerOK, RunnerTyped
  <2>4. RunnerOK'
    BY <1>12, <1>a, <2>1, <2>2, SpecTypes
    DEF ReapJob, Visiting, At, Take, Visited, Accounted, Supervised, Wrote, Moved, runner, procs, RunnerTyped, ProcsTyped, RunnerOK, Listed, Supervised, Dirs,
        StateNames, Final
  <2>5. UNCHANGED users
    BY <1>12 DEF ReapJob, Visiting, At, Take, Visited, Accounted, Supervised
  <2> QED BY <1>a, <1>b, <2>1, <2>2, <2>3, <2>4, <2>5 DEF Wrote, Moved
<1>13. ASSUME NEW j \in Jobs, CollectRunning(j) PROVE TypeOK' /\ RunnerOK'
  <2>1. dir' = dir
    BY <1>13 DEF CollectRunning, Visiting, At, Visited, runner
  <2>2. RunnerTyped'
    BY <1>13, <1>a, <2>1, SpecTypes, BoundsAssumption
    DEF CollectRunning, Visiting, At, Visited, Wrote, Moved, runner, RunnerTyped, RunnerOK, Phases, Steps, Final, Dirs, StateNames,
        Listed, Supervised
  <2>3. ProcsTyped'
    BY <1>13, <1>a, <2>1 DEF CollectRunning, Visiting, At, Visited, procs, ProcsTyped, RunnerOK, RunnerTyped
  <2>4. RunnerOK'
    BY <1>13, <1>a, <2>1, <2>2, SpecTypes
    DEF CollectRunning, Visiting, At, Visited, Wrote, Moved, runner, procs, RunnerTyped, ProcsTyped, RunnerOK, Listed, Supervised, Dirs,
        StateNames, Final
  <2>5. UNCHANGED users
    BY <1>13 DEF CollectRunning, Visiting, At, Visited
  <2> QED BY <1>a, <1>b, <2>1, <2>2, <2>3, <2>4, <2>5 DEF Wrote, Moved
<1>14. ASSUME NEW j \in Jobs, CollectExited(j) PROVE TypeOK' /\ RunnerOK'
  <2>1. dir' = dir
    BY <1>14 DEF CollectExited, Visiting, At, Take, runner
  <2>2. RunnerTyped'
    BY <1>14, <1>a, <2>1, SpecTypes, BoundsAssumption
    DEF CollectExited, Visiting, At, Take, Wrote, Moved, runner, RunnerTyped, RunnerOK, Phases, Steps, Final, Dirs, StateNames,
        Listed, Supervised
  <2>3. ProcsTyped'
    BY <1>14, <1>a, <2>1 DEF CollectExited, Visiting, At, Take, procs, ProcsTyped, RunnerOK, RunnerTyped
  <2>4. RunnerOK'
    BY <1>14, <1>a, <2>1, <2>2, SpecTypes
    DEF CollectExited, Visiting, At, Take, Wrote, Moved, runner, procs, RunnerTyped, ProcsTyped, RunnerOK, Listed, Supervised, Dirs,
        StateNames, Final
  <2>5. UNCHANGED users
    BY <1>14 DEF CollectExited, Visiting, At, Take
  <2> QED BY <1>a, <1>b, <2>1, <2>2, <2>3, <2>4, <2>5 DEF Wrote, Moved
<1>15. ASSUME NEW j \in Jobs, CollectTimeout(j) PROVE TypeOK' /\ RunnerOK'
  <2>1. dir' = dir
    BY <1>15 DEF CollectTimeout, Visiting, At, Take, runner
  <2>2. RunnerTyped'
    BY <1>15, <1>a, <2>1, SpecTypes, BoundsAssumption
    DEF CollectTimeout, Visiting, At, Take, Wrote, Moved, runner, RunnerTyped, RunnerOK, Phases, Steps, Final, Dirs, StateNames,
        Listed, Supervised
  <2>3. ProcsTyped'
    BY <1>15, <1>a, <2>1 DEF CollectTimeout, Visiting, At, Take, procs, ProcsTyped, RunnerOK, RunnerTyped
  <2>4. RunnerOK'
    BY <1>15, <1>a, <2>1, <2>2, SpecTypes
    DEF CollectTimeout, Visiting, At, Take, Wrote, Moved, runner, procs, RunnerTyped, ProcsTyped, RunnerOK, Listed, Supervised, Dirs,
        StateNames, Final
  <2>5. UNCHANGED users
    BY <1>15 DEF CollectTimeout, Visiting, At, Take
  <2> QED BY <1>a, <1>b, <2>1, <2>2, <2>3, <2>4, <2>5 DEF Wrote, Moved
<1>16. ASSUME NEW j \in Jobs, AdmitSkip(j) PROVE TypeOK' /\ RunnerOK'
  <2>1. dir' = dir
    BY <1>16 DEF AdmitSkip, Visiting, At, Visited, runner
  <2>2. RunnerTyped'
    BY <1>16, <1>a, <2>1, SpecTypes, BoundsAssumption
    DEF AdmitSkip, Visiting, At, Visited, Wrote, Moved, runner, RunnerTyped, RunnerOK, Phases, Steps, Final, Dirs, StateNames,
        Listed, Supervised
  <2>3. ProcsTyped'
    BY <1>16, <1>a, <2>1 DEF AdmitSkip, Visiting, At, Visited, procs, ProcsTyped, RunnerOK, RunnerTyped
  <2>4. RunnerOK'
    BY <1>16, <1>a, <2>1, <2>2, SpecTypes
    DEF AdmitSkip, Visiting, At, Visited, Wrote, Moved, runner, procs, RunnerTyped, ProcsTyped, RunnerOK, Listed, Supervised, Dirs,
        StateNames, Final
  <2>5. UNCHANGED users
    BY <1>16 DEF AdmitSkip, Visiting, At, Visited
  <2> QED BY <1>a, <1>b, <2>1, <2>2, <2>3, <2>4, <2>5 DEF Wrote, Moved
<1>17. ASSUME NEW j \in Jobs, AdmitFail(j) PROVE TypeOK' /\ RunnerOK'
  <2>1. dir' = dir \/ Moved("pending", "running", j)
    BY <1>17, <1>a, <1>c, RenamedAt DEF AdmitFail, Visiting, At, Claim, Take, Visited
  <2>2. RunnerTyped'
    BY <1>17, <1>a, <2>1, SpecTypes, BoundsAssumption
    DEF AdmitFail, Visiting, At, Claim, Take, Visited, Wrote, Moved, runner, RunnerTyped, RunnerOK, Phases, Steps, Final, Dirs, StateNames,
        Listed, Supervised
  <2>3. ProcsTyped'
    BY <1>17, <1>a, <2>1 DEF AdmitFail, Visiting, At, Claim, Take, Visited, procs, ProcsTyped, RunnerOK, RunnerTyped
  <2>4. RunnerOK'
    BY <1>17, <1>a, <2>1, <2>2, SpecTypes
    DEF AdmitFail, Visiting, At, Claim, Take, Visited, Wrote, Moved, runner, procs, RunnerTyped, ProcsTyped, RunnerOK, Listed, Supervised, Dirs,
        StateNames, Final
  <2>5. UNCHANGED users
    BY <1>17 DEF AdmitFail, Visiting, At, Claim, Take, Visited
  <2> QED BY <1>a, <1>b, <2>1, <2>2, <2>3, <2>4, <2>5 DEF Wrote, Moved
<1>18. ASSUME NEW j \in Jobs, AdmitClaim(j) PROVE TypeOK' /\ RunnerOK'
  <2>1. dir' = dir \/ Moved("pending", "running", j)
    BY <1>18, <1>a, <1>c, RenamedAt DEF AdmitClaim, Visiting, At, Claim, Take, Visited
  <2>2. RunnerTyped'
    BY <1>18, <1>a, <2>1, SpecTypes, BoundsAssumption
    DEF AdmitClaim, Visiting, At, Claim, Take, Visited, Wrote, Moved, runner, RunnerTyped, RunnerOK, Phases, Steps, Final, Dirs, StateNames,
        Listed, Supervised
  <2>3. ProcsTyped'
    BY <1>18, <1>a, <2>1 DEF AdmitClaim, Visiting, At, Claim, Take, Visited, procs, ProcsTyped, RunnerOK, RunnerTyped
  <2>4. RunnerOK'
    BY <1>18, <1>a, <2>1, <2>2, SpecTypes
    DEF AdmitClaim, Visiting, At, Claim, Take, Visited, Wrote, Moved, runner, procs, RunnerTyped, ProcsTyped, RunnerOK, Listed, Supervised, Dirs,
        StateNames, Final
  <2>5. UNCHANGED users
    BY <1>18 DEF AdmitClaim, Visiting, At, Claim, Take, Visited
  <2> QED BY <1>a, <1>b, <2>1, <2>2, <2>3, <2>4, <2>5 DEF Wrote, Moved
<1>19. ASSUME NEW j \in Jobs, ShutdownJob(j) PROVE TypeOK' /\ RunnerOK'
  <2>0. NoPid(active[j]) \in Specs
    BY <1>19, <1>a, SpecTypes DEF ShutdownJob, Visiting, At, Visited, RunnerOK, RunnerTyped
  <2>1. Wrote("running", j, NoPid(active[j]))
    BY <1>19, <1>a, <1>c, <2>0, WrittenAt DEF ShutdownJob, Visiting, At, Visited
  <2>2. RunnerTyped'
    BY <1>19, <1>a, <2>1, SpecTypes, BoundsAssumption
    DEF ShutdownJob, Visiting, At, Visited, Wrote, Moved, runner, RunnerTyped, RunnerOK, Phases, Steps, Final, Dirs, StateNames,
        Listed, Supervised
  <2>3. ProcsTyped'
    BY <1>19, <1>a, <2>1 DEF ShutdownJob, Visiting, At, Visited, procs, ProcsTyped, RunnerOK, RunnerTyped
  <2>4. RunnerOK'
    BY <1>19, <1>a, <2>1, <2>2, SpecTypes
    DEF ShutdownJob, Visiting, At, Visited, Wrote, Moved, runner, procs, RunnerTyped, ProcsTyped, RunnerOK, Listed, Supervised, Dirs,
        StateNames, Final
  <2>5. UNCHANGED users
    BY <1>19 DEF ShutdownJob, Visiting, At, Visited
  <2> QED BY <1>a, <1>b, <2>1, <2>2, <2>3, <2>4, <2>5 DEF Wrote, Moved
<1>20. ASSUME Shutdown PROVE TypeOK' /\ RunnerOK'
  <2>1. dir' = dir
    BY <1>20 DEF Shutdown, At, runner
  <2>2. RunnerTyped'
    BY <1>20, <1>a, <2>1, SpecTypes, BoundsAssumption
    DEF Shutdown, At, Wrote, Moved, runner, RunnerTyped, RunnerOK, Phases, Steps, Final, Dirs, StateNames,
        Listed, Supervised
  <2>3. ProcsTyped'
    BY <1>20, <1>a, <2>1 DEF Shutdown, At, procs, ProcsTyped, RunnerOK, RunnerTyped
  <2>4. RunnerOK'
    BY <1>20, <1>a, <2>1, <2>2, SpecTypes
    DEF Shutdown, At, Wrote, Moved, runner, procs, RunnerTyped, ProcsTyped, RunnerOK, Listed, Supervised, Dirs,
        StateNames, Final
  <2>5. UNCHANGED users
    BY <1>20 DEF Shutdown, At
  <2> QED BY <1>a, <1>b, <2>1, <2>2, <2>3, <2>4, <2>5 DEF Wrote, Moved
<1>21. ASSUME ShutdownDone PROVE TypeOK' /\ RunnerOK'
  <2>1. dir' = dir
    BY <1>21 DEF ShutdownDone, Dead, At, runner
  <2>2. RunnerTyped'
    BY <1>21, <1>a, <2>1, SpecTypes, BoundsAssumption
    DEF ShutdownDone, Dead, At, Wrote, Moved, runner, RunnerTyped, RunnerOK, Phases, Steps, Final, Dirs, StateNames,
        Listed, Supervised
  <2>3. ProcsTyped'
    BY <1>21, <1>a, <2>1 DEF ShutdownDone, Dead, At, procs, ProcsTyped, RunnerOK, RunnerTyped
  <2>4. RunnerOK'
    BY <1>21, <1>a, <2>1, <2>2, SpecTypes
    DEF ShutdownDone, Dead, At, Wrote, Moved, runner, procs, RunnerTyped, ProcsTyped, RunnerOK, Listed, Supervised, Dirs,
        StateNames, Final
  <2>5. UNCHANGED users
    BY <1>21 DEF ShutdownDone, Dead, At
  <2> QED BY <1>a, <1>b, <2>1, <2>2, <2>3, <2>4, <2>5 DEF Wrote, Moved
<1>22. ASSUME Stop PROVE TypeOK' /\ RunnerOK'
  <2>1. dir' = dir
    BY <1>22 DEF Stop, runner
  <2>2. RunnerTyped'
    BY <1>22, <1>a, <2>1, SpecTypes, BoundsAssumption
    DEF Stop, Wrote, Moved, runner, RunnerTyped, RunnerOK, Phases, Steps, Final, Dirs, StateNames,
        Listed, Supervised
  <2>3. ProcsTyped'
    BY <1>22, <1>a, <2>1 DEF Stop, procs, ProcsTyped, RunnerOK, RunnerTyped
  <2>4. RunnerOK'
    BY <1>22, <1>a, <2>1, <2>2, SpecTypes
    DEF Stop, Wrote, Moved, runner, procs, RunnerTyped, ProcsTyped, RunnerOK, Listed, Supervised, Dirs,
        StateNames, Final
  <2>5. UNCHANGED users
    BY <1>22 DEF Stop
  <2> QED BY <1>a, <1>b, <2>1, <2>2, <2>3, <2>4, <2>5 DEF Wrote, Moved
<1>23. ASSUME Crash PROVE TypeOK' /\ RunnerOK'
  <2>1. dir' = dir
    BY <1>23 DEF Crash, Dead, runner
  <2>2. RunnerTyped'
    <3>1. stopping' \in BOOLEAN /\ active' \in [Jobs -> Specs \cup {NoFile}]
      BY <1>23, Zenon DEF Crash, Dead
    <3>2. crashes' \in 0 .. MaxCrashes
      BY <1>23, <1>a, BoundsAssumption DEF Crash, RunnerTyped
    <3>3. Supervised' = {}
      BY <1>23 DEF Crash, Dead, Supervised
    <3> QED BY <1>23, <3>1, <3>2, <3>3, Zenon DEF Crash, Dead, RunnerTyped, Phases, Steps
  <2>3. ProcsTyped'
    BY <1>23, <1>a, <2>1 DEF Crash, Dead, procs, ProcsTyped, RunnerOK, RunnerTyped
  <2>4. RunnerOK'
    BY <1>23, <1>a, <2>1, <2>2, SpecTypes
    DEF Crash, Dead, Wrote, Moved, runner, procs, RunnerTyped, ProcsTyped, RunnerOK, Listed, Supervised, Dirs,
        StateNames, Final
  <2>5. UNCHANGED users
    BY <1>23 DEF Crash, Dead
  <2> QED BY <1>a, <1>b, <2>1, <2>2, <2>3, <2>4, <2>5 DEF Wrote, Moved
<1>24. ASSUME Restart PROVE TypeOK' /\ RunnerOK'
  <2>1. dir' = dir
    BY <1>24 DEF Restart, runner
  <2>2. RunnerTyped'
    BY <1>24, <1>a, <2>1, SpecTypes, BoundsAssumption
    DEF Restart, Wrote, Moved, runner, RunnerTyped, RunnerOK, Phases, Steps, Final, Dirs, StateNames,
        Listed, Supervised
  <2>3. ProcsTyped'
    BY <1>24, <1>a, <2>1 DEF Restart, procs, ProcsTyped, RunnerOK, RunnerTyped
  <2>4. RunnerOK'
    BY <1>24, <1>a, <2>1, <2>2, SpecTypes
    DEF Restart, Wrote, Moved, runner, procs, RunnerTyped, ProcsTyped, RunnerOK, Listed, Supervised, Dirs,
        StateNames, Final
  <2>5. UNCHANGED users
    BY <1>24 DEF Restart
  <2> QED BY <1>a, <1>b, <2>1, <2>2, <2>3, <2>4, <2>5 DEF Wrote, Moved
<1>25. ASSUME NEW p \in Procs, ProcExit(p) PROVE TypeOK' /\ RunnerOK'
  <2>1. dir' = dir
    BY <1>25 DEF ProcExit, runner
  <2>2. RunnerTyped'
    BY <1>25, <1>a, <2>1, SpecTypes, BoundsAssumption
    DEF ProcExit, Wrote, Moved, runner, RunnerTyped, RunnerOK, Phases, Steps, Final, Dirs, StateNames,
        Listed, Supervised
  <2>3. ProcsTyped'
    BY <1>25, <1>a, <2>1 DEF ProcExit, procs, ProcsTyped, RunnerOK, RunnerTyped
  <2>4. RunnerOK'
    BY <1>25, <1>a, <2>1, <2>2, SpecTypes
    DEF ProcExit, Wrote, Moved, runner, procs, RunnerTyped, ProcsTyped, RunnerOK, Listed, Supervised, Dirs,
        StateNames, Final
  <2>5. UNCHANGED users
    BY <1>25 DEF ProcExit
  <2> QED BY <1>a, <1>b, <2>1, <2>2, <2>3, <2>4, <2>5 DEF Wrote, Moved
<1> QED BY <1>1, <1>2, <1>3, <1>4, <1>5, <1>6, <1>7, <1>8, <1>9, <1>10, <1>11, <1>12, <1>13, <1>14, <1>15, <1>16, <1>17, <1>18, <1>19, <1>20, <1>21, <1>22, <1>23, <1>24, <1>25 DEF RunnerNext

LEMMA TypeStep == TypeOK /\ RunnerOK /\ [Next]_vars => TypeOK' /\ RunnerOK'
<1> SUFFICES ASSUME TypeOK, RunnerOK, [Next]_vars PROVE TypeOK' /\ RunnerOK'
  OBVIOUS
<1>1. CASE UNCHANGED vars
  <2>1. /\ dir' = dir /\ UNCHANGED <<sub, subAt, lock, can, canSpec>>
        /\ UNCHANGED <<wtr, wtrAt, wtrSeen>> /\ UNCHANGED runner /\ UNCHANGED procs
    BY <1>1, Zenon DEF vars, users
  <2>2. TypeOK'
    BY <2>1, TypeParts, TypePartsNext, TypeFrame, Zenon
  <2> QED BY <2>1, <2>2, RunnerFrame
<1> QED BY <1>1, UsersTypeStep, RunnerTypeStep DEF Next

LEMMA TypeInit == Init => TypeOK /\ RunnerOK
<1> SUFFICES ASSUME Init PROVE TypeOK /\ RunnerOK
  OBVIOUS
<1>1. dir \in Dirs
  BY DEF Init, Dirs
<1>2. UsersTyped /\ ProcsTyped
  BY DEF Init, UsersTyped, ProcsTyped
<1>3. WaitsTyped
  <2>1. wtr = [w \in Waits |-> "idle"]
    BY Zenon DEF Init
  <2>2. wtrAt \in [Waits -> 1 .. 4]
    BY DEF Init
  <2>3. wtrSeen = [w \in Waits |-> FALSE]
    BY Zenon DEF Init
  <2> QED BY <2>1, <2>2, <2>3, Zenon DEF WaitsTyped
<1>4. RunnerTyped
  <2>1. stopping \in BOOLEAN /\ active \in [Jobs -> Specs \cup {NoFile}]
    BY Zenon DEF Init
  <2>2. crashes \in 0 .. MaxCrashes
    BY BoundsAssumption DEF Init
  <2>3. Supervised = {}
    BY DEF Init, Supervised
  <2> QED BY <2>1, <2>2, <2>3, Zenon DEF Init, RunnerTyped, Phases, Steps
<1>5. RunnerOK
  BY DEF Init, RunnerOK, Working
<1> QED BY <1>1, <1>2, <1>3, <1>4, <1>5, TypeParts

\* The type invariant of the queue holds for any number of jobs, users and
\* processes, races included: no step of the runner takes an attempt or a pid
\* from a file that is not there (requeue_orphans, _settle, _launch).
THEOREM TypeCorrect == Spec => []TypeOK
BY TypeInit, TypeStep, PTL DEF Spec

-------------------------------------------------------------------------------
(***************************************************************************)
(* Frames: what a step that leaves something alone keeps.                  *)
(***************************************************************************)
Typed == dir \in Dirs /\ UsersTyped /\ RunnerTyped /\ ProcsTyped

Present(j) == Exists("pending", j) \/ Exists("running", j)

\* The runner goes on with the job it works on, or works on none.
SameWork == \/ UNCHANGED <<step, cur, mem>>
            \/ step \notin Working /\ step' \notin Working

\* A job that nobody touches stays as it is.
LEMMA OthersKept ==
    ASSUME Typed, NEW j \in Jobs, JobOK(j), ~Held(j), (~Held(j))',
           \A s \in StateNames : dir'[s][j] = dir[s][j],
           active'[j] = active[j], lost \subseteq lost',
           \A p \in Procs : jobOf'[p] = j <=> jobOf[p] = j,
           \A p \in live' : p \in live \/ jobOf'[p] # j, live' \subseteq Procs
    PROVE  JobOK(j)'
<1>0. {"pending", "running"} \subseteq StateNames
  BY DEF StateNames
<1>1. Launches(j)' = Launches(j)
  BY DEF Launches
<1>2. \A s \in StateNames : Exists(s, j)' <=> Exists(s, j)
  BY DEF Exists
<1>3. FileOK(j)'
  BY <1>0, <1>2 DEF JobOK, FileOK
<1>4. ProcsOK(j)'
  BY <1>0, <1>2 DEF JobOK, ProcsOK
<1>5. AttemptsOK(j)'
  BY <1>0, <1>2 DEF JobOK, AttemptsOK
<1>6. LaunchesOK(j)'
  BY <1>0, <1>1, <1>2 DEF JobOK, LaunchesOK
<1> QED BY <1>3, <1>4, <1>5, <1>6 DEF JobOK

\* A step that touches no file and no record keeps all that is said of them.
LEMMA FilesFrame ==
    ASSUME Typed, FilesOK, SameWork, live' \subseteq live,
           UNCHANGED <<dir, active, jobOf, lost, slipped>>
    PROVE  FilesOK'
<1>1. \A j \in Jobs : Held(j)' <=> Held(j)
  BY DEF SameWork, Held
<1>2. \A j \in Jobs : Slipped(j)' <=> Slipped(j)
  BY DEF Slipped
<1>3. BegunOnDisk'
  BY <1>1 DEF FilesOK, BegunOnDisk, Begun, Exists
<1>4. ASSUME NEW j \in Jobs, JobOK(j) PROVE JobOK(j)'
  <2>1. CASE ~Held(j)
    BY <1>1, <1>4, <2>1, OthersKept DEF Typed, ProcsTyped
  <2>2. CASE Held(j)
    <3>1. UNCHANGED <<step, cur, mem>>
      BY <2>2 DEF SameWork, Held
    <3> QED BY <1>4, <3>1
        DEF JobOK, FileOK, ProcsOK, AttemptsOK, LaunchesOK, Launches, Exists, Held
  <2> QED BY <2>1, <2>2
<1>5. JobsOK'
  BY <1>2, <1>4 DEF FilesOK, JobsOK
<1>6. DedupeBetweenLooks'
  BY DEF FilesOK, DedupeBetweenLooks, Exists
<1> QED BY <1>3, <1>5, <1>6 DEF FilesOK

\* A job that becomes present has slipped past a submission of its own.
LEMMA DedupeKept ==
    ASSUME DedupeBetweenLooks, slipped \subseteq slipped',
           \A j \in Jobs : Present(j)' => Present(j) \/ Slipped(j)'
    PROVE  DedupeBetweenLooks'
<1> SUFFICES ASSUME NEW i \in Jobs, NEW j \in Jobs, SameKey(i, j),
                    Present(i)', Present(j)'
             PROVE  \E u \in slipped' : SubmitOf[u] \in {i, j}
  BY DEF DedupeBetweenLooks, Present, SameKey
<1>1. CASE Slipped(i)' \/ Slipped(j)'
  BY <1>1 DEF Slipped
<1>2. CASE Present(i) /\ Present(j)
  BY <1>2 DEF DedupeBetweenLooks, Present
<1> QED BY <1>1, <1>2

\* A step that touches neither the files nor the submissions.
LEMMA LooksFrame ==
    ASSUME LooksOK, UNCHANGED <<dir, sub, subAt, lock, can, canSpec, slipped>>
    PROVE  LooksOK'
BY DEF LooksOK, LockHeld, CancelHasRead, IdLooks, KeyLooks, Exists, Slipped

-------------------------------------------------------------------------------
(***************************************************************************)
(* What the runner does to the files beside a submission that looks.       *)
(***************************************************************************)
StatesAre ==
    /\ States[1] = "pending" /\ States[2] = "running"
    /\ States[3] = "done" /\ States[4] = "failed" /\ Len(States) = 4
    /\ StateNames = {"pending", "running", "done", "failed"}

LEMMA StatesFact == StatesAre
BY DEF StatesAre, States, StateNames

\* The looks at the id, one directory at a time.
LEMMA IdLooksAre ==
    IdLooks <=>
    \A u \in Submits \ slipped :
        /\ sub[u] = "exists" =>
             \/ /\ 1 < subAt[u] => ~Exists("pending", SubmitOf[u])
                /\ 2 < subAt[u] => ~Exists("running", SubmitOf[u])
                /\ 3 < subAt[u] => ~Exists("done", SubmitOf[u])
                /\ 4 < subAt[u] => ~Exists("failed", SubmitOf[u])
             \/ 3 >= subAt[u] /\ Exists("done", SubmitOf[u])
             \/ 4 >= subAt[u] /\ Exists("failed", SubmitOf[u])
        /\ sub[u] = "write" => /\ ~Exists("pending", SubmitOf[u])
                               /\ ~Exists("running", SubmitOf[u])
                               /\ ~Exists("done", SubmitOf[u])
                               /\ ~Exists("failed", SubmitOf[u])
<1>1. 1 .. 4 = {1, 2, 3, 4} /\ 3 .. 4 = {3, 4}
  OBVIOUS
<1> QED BY <1>1, StatesFact DEF IdLooks, StatesAre

LEMMA IdLooksAreNext ==
    IdLooks' <=>
    \A u \in Submits \ slipped' :
        /\ sub'[u] = "exists" =>
             \/ /\ 1 < subAt'[u] => ~Exists("pending", SubmitOf[u])'
                /\ 2 < subAt'[u] => ~Exists("running", SubmitOf[u])'
                /\ 3 < subAt'[u] => ~Exists("done", SubmitOf[u])'
                /\ 4 < subAt'[u] => ~Exists("failed", SubmitOf[u])'
             \/ 3 >= subAt'[u] /\ Exists("done", SubmitOf[u])'
             \/ 4 >= subAt'[u] /\ Exists("failed", SubmitOf[u])'
        /\ sub'[u] = "write" => /\ ~Exists("pending", SubmitOf[u])'
                                /\ ~Exists("running", SubmitOf[u])'
                                /\ ~Exists("done", SubmitOf[u])'
                                /\ ~Exists("failed", SubmitOf[u])'
<1>1. 1 .. 4 = {1, 2, 3, 4} /\ 3 .. 4 = {3, 4}
  OBVIOUS
<1> QED BY <1>1, StatesFact DEF IdLooks, StatesAre

\* A spec written back to running/ brings no job there that was not begun.
LEMMA LooksWrite ==
    ASSUME Typed, IdLooks, KeyLooks, NEW i \in Jobs, NEW spec \in Specs,
           Wrote("running", i, spec), Begun(i), Slipped(i) \/ Exists("running", i),
           UNCHANGED <<sub, subAt, slipped>>
    PROVE  IdLooks' /\ KeyLooks'
<1>1. IdLooks'
  BY StatesFact, IdLooksAre, IdLooksAreNext, JobsAssumption
  DEF Typed, UsersTyped, Wrote, Begun, Exists, StatesAre
<1>2. KeyLooks'
  BY StatesFact, SpecTypes DEF KeyLooks, Wrote, Exists, Slipped, StatesAre
<1> QED BY <1>1, <1>2

\* A job that moves on is found by a submission that has yet to look there.
LEMMA LooksMove ==
    ASSUME Typed, IdLooks, KeyLooks, NEW i \in Jobs, NEW s, NEW t, Moved(s, t, i),
           \/ s = "pending" /\ t = "running"
           \/ s = "pending" /\ t = "failed"
           \/ s = "running" /\ t \in Final,
           Exists(s, i), UNCHANGED <<sub, subAt, slipped>>
    PROVE  IdLooks' /\ KeyLooks'
<1>1. IdLooks'
  BY StatesFact, IdLooksAre, IdLooksAreNext, JobsAssumption
  DEF Typed, UsersTyped, Moved, Exists, StatesAre, Final
<1>2. KeyLooks'
  BY StatesFact DEF KeyLooks, Moved, Exists, Slipped, StatesAre, Final
<1> QED BY <1>1, <1>2

\* A job that moves back slips past the submissions in between.
LEMMA LooksRequeue ==
    ASSUME Typed, IdLooks, KeyLooks, NEW i \in Jobs, Moved("running", "pending", i),
           Exists("running", i), UNCHANGED <<sub, subAt>>,
           slipped' = slipped \cup Passed(i)
    PROVE  IdLooks' /\ KeyLooks'
<1>1. IdLooks'
  BY StatesFact, IdLooksAre, IdLooksAreNext, JobsAssumption
  DEF Typed, UsersTyped, Moved, Exists, StatesAre, Passed
<1>2. KeyLooks'
  BY StatesFact DEF KeyLooks, Moved, Exists, Slipped, StatesAre, Passed
<1> QED BY <1>1, <1>2

-------------------------------------------------------------------------------
(***************************************************************************)
(* One lemma for each action: it keeps FilesOK and LooksOK.                *)
(***************************************************************************)
\* A submission that looks reads files and touches none (submit).
LEMMA SubmitLooksKeeps ==
    ASSUME Typed, FilesOK, LooksOK, NEW u \in Submits,
           SubmitLock(u) \/ SubmitScan(u) \/ SubmitExists(u)
    PROVE  FilesOK' /\ LooksOK'
<1>0. UNCHANGED <<dir, can, canSpec>> /\ UNCHANGED runner /\ UNCHANGED procs
  BY DEF SubmitLock, SubmitScan, SubmitExists
<1>1. FilesOK'
  BY <1>0, FilesFrame DEF runner, procs, SameWork
<1>2. CancelHasRead'
  BY <1>0 DEF LooksOK, CancelHasRead
<1>3. slipped' = slipped /\ \A j \in Jobs : \A s : Exists(s, j)' <=> Exists(s, j)
  BY <1>0 DEF procs, Exists
<1>4. /\ \A v \in Submits : v # u => sub'[v] = sub[v] /\ subAt'[v] = subAt[v]
      /\ \A v \in Submits : v # u => sub[v] \notin {"scan", "exists", "write"}
      /\ SubmitOf[u] \in Jobs /\ KeyOf[SubmitOf[u]] \in Keys \cup {None}
  <2>1. SubmitOf[u] \in Jobs /\ KeyOf[SubmitOf[u]] \in Keys \cup {None}
    BY JobsAssumption
  <2> QED BY <2>1, NamesAssumption
      DEF SubmitLock, SubmitScan, SubmitExists, SubmitEnds, Typed, UsersTyped,
          LooksOK, LockHeld
<1>5. CASE SubmitLock(u)
  <2>1. /\ sub'[u] \in {"scan", "exists"} /\ lock' = u /\ subAt'[u] = 1
        /\ KeyOf[SubmitOf[u]] # None => sub'[u] = "scan"
    BY <1>5 DEF SubmitLock, Typed, UsersTyped, LooksOK, LockHeld
  <2>2. LockHeld'
    BY <1>4, <2>1 DEF LooksOK, LockHeld
  <2>3. IdLooks'
    BY <1>3, <1>4, <2>1, IdLooksAreNext
  <2>4. KeyLooks'
    BY <1>3, <1>4, <2>1 DEF KeyLooks
  <2> QED BY <1>1, <1>2, <2>2, <2>3, <2>4 DEF LooksOK
<1>6. CASE SubmitScan(u)
  <2> DEFINE at == States[subAt[u]]
             dup == \E j \in Listed(at) : KeyOf[j] = KeyOf[SubmitOf[u]]
  <2>1. sub[u] = "scan" /\ lock = u /\ subAt[u] \in {1, 2}
    BY <1>6 DEF SubmitScan, LooksOK, LockHeld
  <2>a. (subAt[u] = 1 => at = "pending") /\ (subAt[u] = 2 => at = "running")
    BY StatesFact DEF StatesAre
  <2>2. \/ dup /\ SubmitEnds(u, "deduped")
        \/ ~dup /\ subAt[u] = 1 /\ lock' = lock /\ subAt'[u] = 2 /\ sub'[u] = "scan"
        \/ ~dup /\ subAt[u] = 2 /\ lock' = lock /\ subAt'[u] = 1 /\ sub'[u] = "exists"
    BY <1>6, <2>1 DEF SubmitScan, Typed, UsersTyped
  <2>3. LockHeld'
    BY <1>4, <2>1, <2>2 DEF LooksOK, LockHeld, SubmitEnds, Typed, UsersTyped
  <2>4. IdLooks'
    BY <1>3, <1>4, <2>1, <2>2, IdLooksAreNext DEF SubmitEnds, Typed, UsersTyped
  <2>5. KeyLooks'
    BY <1>3, <1>4, <2>1, <2>a, <2>2
    DEF LooksOK, KeyLooks, SubmitEnds, Typed, UsersTyped, Listed, Slipped
  <2> QED BY <1>1, <1>2, <2>3, <2>4, <2>5 DEF LooksOK
<1>7. CASE SubmitExists(u)
  <2> DEFINE at == States[subAt[u]]
  <2>1. /\ subAt[u] \in 1 .. 4 /\ sub[u] = "exists" /\ lock = u
        /\ subAt[u] = 1 => at = "pending"
        /\ subAt[u] = 2 => at = "running"
        /\ subAt[u] = 3 => at = "done"
        /\ subAt[u] = 4 => at = "failed"
    BY <1>7, StatesFact
    DEF SubmitExists, LooksOK, LockHeld, StatesAre, Typed, UsersTyped
  <2>2. \/ SubmitEnds(u, "FileExistsError")
        \/ /\ ~Exists(at, SubmitOf[u]) /\ lock' = lock /\ subAt[u] < 4
           /\ subAt'[u] = subAt[u] + 1 /\ sub'[u] = "exists"
        \/ /\ ~Exists(at, SubmitOf[u]) /\ lock' = lock /\ subAt[u] = 4
           /\ subAt'[u] = 4 /\ sub'[u] = "write"
    BY <1>7, <2>1, StatesFact DEF SubmitExists, StatesAre, Typed, UsersTyped
  <2> HIDE DEF at
  <2>3. LockHeld'
    BY <1>4, <2>1, <2>2 DEF LooksOK, LockHeld, SubmitEnds, Typed, UsersTyped
  <2>4. IdLooks'
    BY <1>3, <1>4, <2>1, <2>2, IdLooksAre, IdLooksAreNext
    DEF LooksOK, SubmitEnds, Typed, UsersTyped
  <2>5. KeyLooks'
    BY <1>3, <1>4, <2>1, <2>2
    DEF LooksOK, KeyLooks, SubmitEnds, Typed, UsersTyped, Slipped
  <2> QED BY <1>1, <1>2, <2>3, <2>4, <2>5 DEF LooksOK
<1> QED BY <1>5, <1>6, <1>7

\* A job is written when no look has found its id or its key (submit).
LEMMA SubmitWriteKeeps ==
    ASSUME Typed, FilesOK, LooksOK, NEW u \in Submits, SubmitWrite(u)
    PROVE  FilesOK' /\ LooksOK'
<1> DEFINE i == SubmitOf[u]
           new == [attempts |-> 0, pid |-> None]
<1>0. UNCHANGED <<can, canSpec>> /\ UNCHANGED runner /\ UNCHANGED procs
  BY DEF SubmitWrite
<1>1. i \in Jobs /\ new \in Specs /\ new # NoFile /\ new.attempts = 0
  BY JobsAssumption, SpecTypes
<1>2. Wrote("pending", i, new)
  BY <1>1, WrittenAt, StatesFact DEF SubmitWrite, Typed, StatesAre
<1>3. /\ \A v \in Submits : v # u => sub'[v] = sub[v] /\ subAt'[v] = subAt[v]
      /\ \A v \in Submits : v # u => sub[v] \notin {"scan", "exists", "write"}
      /\ sub[u] = "write" /\ sub'[u] = "submitted"
  BY DEF SubmitWrite, SubmitEnds, Typed, UsersTyped, LooksOK, LockHeld
<1>4. /\ UNCHANGED <<active, live, jobOf, lost, slipped, step, cur, mem>>
      /\ \A j \in Jobs : (Held(j)' <=> Held(j)) /\ (Slipped(j)' <=> Slipped(j))
  BY <1>0 DEF runner, procs, Held, Slipped
<1> HIDE DEF new
<1>5. LooksOK'
  <2>1. LockHeld' /\ CancelHasRead'
    BY <1>0, <1>3 DEF LooksOK, LockHeld, CancelHasRead, SubmitWrite, SubmitEnds, Typed,
                      UsersTyped
  <2>2. IdLooks' /\ KeyLooks'
    BY <1>3, <1>4 DEF IdLooks, KeyLooks
  <2> QED BY <2>1, <2>2 DEF LooksOK
<1>6. BegunOnDisk'
  BY <1>2, <1>4, StatesFact
  DEF FilesOK, BegunOnDisk, Begun, Exists, Wrote, StatesAre
<1>7. ASSUME ~Slipped(i)
      PROVE  \A s \in StateNames : ~Exists(s, i)
  BY <1>3, <1>7 DEF LooksOK, IdLooks, Slipped
<1>8. ASSUME NEW j \in Jobs, ~Slipped(j) PROVE JobOK(j)'
  <2>1. JobOK(j)
    BY <1>8 DEF FilesOK, JobsOK
  <2>2. CASE j # i
    <3>1. \A s \in StateNames : dir'[s][j] = dir[s][j]
      BY <1>2, <2>2 DEF Wrote
    <3>2. \A s \in StateNames : Exists(s, j)' <=> Exists(s, j)
      BY <3>1 DEF Exists
    <3> QED BY <1>4, <2>1, <3>1, <3>2, StatesFact
        DEF JobOK, FileOK, ProcsOK, AttemptsOK, LaunchesOK, Launches, StatesAre
  <2>3. CASE j = i
    <3>1. \A s \in StateNames : ~Exists(s, i)
      BY <1>7, <1>8, <2>3
    <3>2. ~Held(i) /\ active[i] = NoFile
      BY <1>1, <3>1, StatesFact DEF FilesOK, BegunOnDisk, Begun, StatesAre
    <3>3. /\ Exists("pending", i)' /\ dir'["pending"][i] = new
          /\ \A s \in StateNames : Exists(s, i)' => s = "pending"
      BY <1>1, <1>2, <3>1 DEF Exists, Wrote
    <3>4. FileOK(i)'
      BY <1>1, <1>4, <3>2, <3>3 DEF FileOK
    <3>5. ProcsOK(i)'
      BY <1>4, <2>1, <2>3, <3>1, StatesFact DEF JobOK, ProcsOK, StatesAre
    <3>6. AttemptsOK(i)'
      BY <1>1, <1>4, <3>2, <3>3, BoundsAssumption DEF AttemptsOK
    <3>7. LaunchesOK(i)'
      <4>1. Cardinality(Launches(i)) = 0 /\ Launches(i)' = Launches(i)
        BY <1>4, <2>1, <2>3, <3>1 DEF JobOK, LaunchesOK, Launches
      <4> QED BY <1>1, <1>4, <3>2, <3>3, <4>1, StatesFact DEF LaunchesOK, StatesAre
    <3> QED BY <2>3, <3>4, <3>5, <3>6, <3>7 DEF JobOK
  <2> QED BY <2>2, <2>3
<1>9. DedupeBetweenLooks'
  <2> SUFFICES ASSUME NEW a \in Jobs, NEW b \in Jobs, SameKey(a, b),
                      Present(a)', Present(b)', ~Slipped(a), ~Slipped(b)
               PROVE  FALSE
    BY <1>4 DEF DedupeBetweenLooks, Present, SameKey, Slipped
  <2>1. \A j \in Jobs : Present(j)' => Present(j) \/ j = i
    BY <1>2, StatesFact DEF Present, Exists, Wrote, StatesAre
  <2>2. CASE Present(a) /\ Present(b)
    BY <2>2 DEF FilesOK, DedupeBetweenLooks, Present, Slipped
  <2>3. ASSUME NEW x \in Jobs, SameKey(x, i), Present(x), ~Slipped(x), ~Slipped(i)
        PROVE  FALSE
    <3>1. u \notin slipped
      BY <2>3 DEF Slipped
    <3> QED BY <1>3, <2>3, <3>1 DEF LooksOK, KeyLooks, SameKey, Present
  <2> QED BY <2>1, <2>2, <2>3 DEF SameKey
<1>10. JobsOK'
  BY <1>4, <1>8 DEF JobsOK
<1> QED BY <1>5, <1>6, <1>9, <1>10 DEF FilesOK

\* A cancel that nobody disturbs writes back what is there, and moves a job
\* that is pending (cancel).
LEMMA CancelKeeps ==
    ASSUME Typed, FilesOK, LooksOK, CancelUndisturbed,
           NEW k \in Cancels, CancelNext(k)
    PROVE  FilesOK' /\ LooksOK'
<1> DEFINE i == CancelOf[k]
<1>0. i \in Jobs /\ UNCHANGED <<sub, subAt, lock>> /\ UNCHANGED runner
      /\ UNCHANGED procs
  BY JobsAssumption DEF CancelNext, CancelRead, CancelWrite, CancelRename
<1>1. /\ UNCHANGED <<active, live, jobOf, lost, slipped, step, cur, mem>>
      /\ \A j \in Jobs : (Held(j)' <=> Held(j)) /\ (Slipped(j)' <=> Slipped(j))
  BY <1>0 DEF runner, procs, Held, Slipped
<1>2. LockHeld' /\ CancelHasRead'
  BY <1>0 DEF LooksOK, LockHeld, CancelHasRead, Typed, UsersTyped, CancelNext,
              CancelRead, CancelWrite, CancelRename, Exists
<1>3. CASE dir' = dir
  <2>1. FilesOK'
    BY <1>1, <1>3, FilesFrame DEF SameWork
  <2>2. IdLooks' /\ KeyLooks'
    BY <1>0, <1>1, <1>3 DEF LooksOK, IdLooks, KeyLooks, Exists
  <2> QED BY <1>2, <2>1, <2>2 DEF LooksOK
<1>4. CancelRead(k) => dir' = dir
  BY DEF CancelRead
<1>5. CancelWrite(k) => dir' = dir
  BY <1>0, StatesFact
  DEF CancelWrite, CancelUndisturbed, Written, Typed, Dirs, StatesAre
<1>6. CASE CancelRename(k) /\ Exists("pending", i)
  <2>1. Moved("pending", "failed", i)
    BY <1>0, <1>6, RenamedAt, StatesFact DEF CancelRename, Typed, StatesAre
  <2>2. IdLooks' /\ KeyLooks'
    BY <1>0, <1>1, <1>6, <2>1, LooksMove DEF LooksOK
  <2>3. BegunOnDisk'
    BY <1>1, <1>6, <2>1, StatesFact
    DEF FilesOK, BegunOnDisk, Begun, Exists, Moved, StatesAre
  <2>4. ASSUME NEW j \in Jobs, JobOK(j) PROVE JobOK(j)'
    <3>1. CASE j # i
      <4>1. \A s \in StateNames : dir'[s][j] = dir[s][j]
        BY <2>1, <3>1 DEF Moved
      <4>2. \A s \in StateNames : Exists(s, j)' <=> Exists(s, j)
        BY <4>1 DEF Exists
      <4> QED BY <1>1, <2>4, <4>1, <4>2, StatesFact
          DEF JobOK, FileOK, ProcsOK, AttemptsOK, LaunchesOK, Launches, StatesAre
    <3>2. CASE j = i
      <4>1. \A s \in StateNames : s # "pending" => ~Exists(s, i)
        BY <1>6, <2>4, <3>2, StatesFact DEF JobOK, FileOK, StatesAre
      <4>2. /\ \A s \in StateNames : Exists(s, i)' => s = "failed"
            /\ dir'["failed"][i] = dir["pending"][i]
        BY <1>0, <2>1, <4>1, StatesFact DEF Exists, Moved, StatesAre
      <4>3. ~Held(i) /\ active[i] = NoFile
        <5>1. ~Exists("running", i)
          BY <4>1, StatesFact DEF StatesAre
        <5>2. ~Held(i)
          BY <2>4, <3>2, <5>1 DEF JobOK, FileOK
        <5>3. active[i] = NoFile
          BY <2>4, <3>2, <5>1 DEF JobOK, FileOK, Exists
        <5> QED BY <5>2, <5>3
      <4>4. FileOK(i)'
        BY <1>0, <1>1, <4>2, <4>3 DEF FileOK
      <4>5. ProcsOK(i)'
        BY <1>1, <2>4, <3>2, <4>1, StatesFact DEF JobOK, ProcsOK, StatesAre
      <4>6. AttemptsOK(i)'
        BY <1>0, <1>1, <1>6, <2>4, <3>2, <4>2, <4>3, StatesFact
        DEF JobOK, AttemptsOK, StatesAre
      <4>7. LaunchesOK(i)'
        <5>1. Launches(i)' = Launches(i)
          BY <1>1 DEF Launches
        <5>2. Exists("failed", i)' /\ ~Exists("pending", i)'
          BY <1>6, <2>1, <4>2, StatesFact DEF Exists, StatesAre
        <5> QED BY <1>0, <1>1, <1>6, <2>4, <3>2, <4>2, <4>3, <5>1, <5>2, StatesFact
            DEF JobOK, LaunchesOK, StatesAre
      <4> QED BY <3>2, <4>4, <4>5, <4>6, <4>7 DEF JobOK
    <3> QED BY <3>1, <3>2
  <2>5. DedupeBetweenLooks'
    <3>1. \A j \in Jobs : Present(j)' => Present(j)
      BY <1>6, <2>1, StatesFact DEF Present, Exists, Moved, StatesAre
    <3> QED BY <1>1, <3>1, DedupeKept DEF FilesOK
  <2>6. JobsOK'
    BY <1>1, <2>4 DEF FilesOK, JobsOK
  <2> QED BY <1>2, <2>2, <2>3, <2>5, <2>6 DEF LooksOK, FilesOK
<1>7. CASE CancelRename(k) /\ ~Exists("pending", i)
  BY <1>3, <1>7 DEF CancelRename
<1> QED BY <1>3, <1>4, <1>5, <1>6, <1>7 DEF CancelNext

\* A step of the runner that is about one job.
LEMMA JobStep ==
    ASSUME Typed, FilesOK, NEW i \in Jobs, ProcsTyped',
           \A j \in Jobs : j # i => /\ ~Held(j) /\ ~Held(j)'
                                    /\ active'[j] = active[j]
                                    /\ \A s \in StateNames : dir'[s][j] = dir[s][j]
                                    /\ \A p \in Procs : jobOf'[p] = j <=> jobOf[p] = j,
           \A p \in live' : p \in live \/ jobOf'[p] = i,
           slipped \subseteq slipped', lost \subseteq lost',
           ~Slipped(i) /\ JobOK(i) => JobOK(i)',
           Held(i)' \/ active'[i] # NoFile => Begun(i)',
           Present(i)' => Present(i) \/ Slipped(i)
    PROVE  FilesOK'
<1>1. \A j \in Jobs : Slipped(j) => Slipped(j)'
  BY DEF Slipped
<1>2. \A j \in Jobs : j # i => \A s \in StateNames : Exists(s, j)' <=> Exists(s, j)
  BY DEF Exists
<1>3. BegunOnDisk'
  BY <1>2, StatesFact DEF FilesOK, BegunOnDisk, Begun, StatesAre
<1>4. ASSUME NEW j \in Jobs, ~Slipped(j)' PROVE JobOK(j)'
  <2>1. ~Slipped(j) /\ JobOK(j)
    BY <1>1, <1>4 DEF FilesOK, JobsOK
  <2>2. CASE j = i
    BY <2>1, <2>2
  <2>3. CASE j # i
    BY <2>1, <2>3, OthersKept DEF ProcsTyped
  <2> QED BY <2>2, <2>3
<1>5. DedupeBetweenLooks'
  <2>1. \A j \in Jobs : Present(j)' => Present(j) \/ Slipped(j)'
    BY <1>1, <1>2, StatesFact DEF Present, StatesAre
  <2> QED BY <2>1, DedupeKept DEF FilesOK
<1> QED BY <1>3, <1>4, <1>5 DEF FilesOK, JobsOK

\* What is known of the job the runner works on.
LEMMA HeldFacts ==
    ASSUME Typed, RunnerOK, FilesOK, step \in Working
    PROVE  /\ cur \in Jobs /\ mem \in Specs /\ mem # NoFile
           /\ Held(cur) /\ Begun(cur)
           /\ Slipped(cur) \/ Exists("running", cur)
           /\ \A j \in Jobs : j # cur => ~Held(j)
           /\ None \notin Jobs
BY NamesAssumption, SpecTypes
DEF RunnerOK, FilesOK, BegunOnDisk, JobsOK, JobOK, FileOK, Held

\* A job that is in running/ is nowhere else.
LEMMA OnlyThere ==
    ASSUME NEW j \in Jobs, FileOK(j), NEW t \in StateNames, Exists(t, j)
    PROVE  \A s \in StateNames : Exists(s, j) <=> s = t
BY DEF FileOK

\* A job has a finite number of launches.
LEMMA LaunchesFinite ==
    ASSUME NEW j
    PROVE  IsFiniteSet(Launches(j)) /\ Cardinality(Launches(j)) \in Nat
<1>1. IsFiniteSet(Procs)
  BY FS_Interval, BoundsAssumption DEF Procs
<1>2. Launches(j) \subseteq Procs
  BY DEF Launches
<1> QED BY <1>1, <1>2, FS_Subset, FS_CardinalityType

\* The first half of finish() rewrites the spec where it is.
LEMMA FinishWriteKeeps ==
    ASSUME Typed, RunnerOK, FilesOK, LooksOK, Typed',
           NEW i \in Jobs, cur = i, FinishWrite
    PROVE  FilesOK' /\ LooksOK'
<1>0. /\ UNCHANGED <<sub, subAt, lock, can, canSpec>>
      /\ UNCHANGED <<active, live, jobOf, lost, slipped, mem>>
      /\ cur' = i /\ step = "finish" /\ step' = "finish2"
  BY DEF FinishWrite, users, procs
<1>1. step \in Working /\ step' \in Working
  BY <1>0 DEF Working
<1>2. /\ mem \in Specs /\ Begun(i) /\ mem # NoFile /\ Held(i) /\ Held(i)'
      /\ Slipped(i) \/ Exists("running", i)
      /\ \A j \in Jobs : j # i => ~Held(j) /\ ~Held(j)'
  BY <1>0, <1>1, HeldFacts DEF Held
<1>3. Wrote("running", i, mem)
  BY <1>2, WrittenAt, StatesFact DEF FinishWrite, Typed, StatesAre
<1>4. LooksOK'
  <2>1. LockHeld' /\ CancelHasRead'
    BY <1>0 DEF LooksOK, LockHeld, CancelHasRead
  <2> QED BY <1>0, <1>2, <1>3, <2>1, LooksWrite DEF LooksOK
<1>5. ASSUME JobOK(i) PROVE JobOK(i)'
  <2>1. Exists("running", i) /\ dir'["running"][i] = mem
    BY <1>2, <1>3, <1>5 DEF JobOK, FileOK, Wrote
  <2>2. \A s \in StateNames : Exists(s, i) <=> s = "running"
    BY <1>5, <2>1, OnlyThere, StatesFact DEF JobOK, StatesAre
  <2>3. \A s \in StateNames : Exists(s, i)' <=> s = "running"
    BY <1>2, <1>3, <2>1, <2>2 DEF Exists, Wrote
  <2>4. mem.attempts = dir["running"][i].attempts
    BY <1>0, <1>2, <1>5 DEF JobOK, AttemptsOK
  <2>5. FileOK(i)'
    BY <1>0, <1>2, <1>5, <2>3, StatesFact DEF JobOK, FileOK, StatesAre
  <2>6. ProcsOK(i)'
    BY <1>0, <1>2, <1>5 DEF JobOK, ProcsOK
  <2>7. AttemptsOK(i)'
    BY <1>0, <1>2, <1>5, <2>1, <2>3 DEF JobOK, AttemptsOK
  <2>8. LaunchesOK(i)'
    <3>1. Launches(i)' = Launches(i)
      BY <1>0 DEF Launches
    <3>2. Cardinality(Launches(i)) \in Nat /\ mem.attempts \in Nat
      BY <1>2, LaunchesFinite, SpecTypes
    <3> QED BY <1>0, <1>2, <1>5, <2>1, <2>2, <2>3, <2>4, <3>1, <3>2, StatesFact
        DEF JobOK, LaunchesOK, StatesAre
  <2> QED BY <2>5, <2>6, <2>7, <2>8 DEF JobOK
<1>6. Begun(i)' /\ (Present(i)' => Present(i) \/ Slipped(i))
  BY <1>2, <1>3 DEF Begun, Present, Exists, Wrote
<1>7. FilesOK'
  BY <1>0, <1>2, <1>3, <1>5, <1>6, JobStep DEF Typed, Wrote
<1> QED BY <1>4, <1>7

\* The first half of requeue() charges the attempt to the file.
LEMMA RequeueWriteKeeps ==
    ASSUME Typed, RunnerOK, FilesOK, LooksOK, Typed',
           NEW i \in Jobs, cur = i, RequeueWrite
    PROVE  FilesOK' /\ LooksOK'
<1>0. /\ UNCHANGED <<sub, subAt, lock, can, canSpec>>
      /\ UNCHANGED <<active, live, jobOf, lost, slipped, mem>>
      /\ cur' = i /\ step = "requeue" /\ step' = "requeue2"
  BY DEF RequeueWrite, users, procs
<1>1. step \in Working /\ step' \in Working
  BY <1>0 DEF Working
<1>2. /\ mem \in Specs /\ Begun(i) /\ mem # NoFile /\ Held(i) /\ Held(i)'
      /\ Slipped(i) \/ Exists("running", i)
      /\ \A j \in Jobs : j # i => ~Held(j) /\ ~Held(j)'
  BY <1>0, <1>1, HeldFacts DEF Held
<1>3. Wrote("running", i, mem)
  BY <1>2, WrittenAt, StatesFact DEF RequeueWrite, Typed, StatesAre
<1>4. LooksOK'
  <2>1. LockHeld' /\ CancelHasRead'
    BY <1>0 DEF LooksOK, LockHeld, CancelHasRead
  <2> QED BY <1>0, <1>2, <1>3, <2>1, LooksWrite DEF LooksOK
<1>5. ASSUME JobOK(i) PROVE JobOK(i)'
  <2>1. Exists("running", i) /\ dir'["running"][i] = mem
    BY <1>2, <1>3, <1>5 DEF JobOK, FileOK, Wrote
  <2>2. \A s \in StateNames : Exists(s, i) <=> s = "running"
    BY <1>5, <2>1, OnlyThere, StatesFact DEF JobOK, StatesAre
  <2>3. \A s \in StateNames : Exists(s, i)' <=> s = "running"
    BY <1>2, <1>3, <2>1, <2>2 DEF Exists, Wrote
  <2>4. mem.attempts = dir["running"][i].attempts + 1
    BY <1>0, <1>2, <1>5 DEF JobOK, AttemptsOK
  <2>5. FileOK(i)'
    BY <1>0, <1>2, <1>5, <2>3, StatesFact DEF JobOK, FileOK, StatesAre
  <2>6. ProcsOK(i)'
    BY <1>0, <1>2, <1>5 DEF JobOK, ProcsOK
  <2>7. AttemptsOK(i)'
    BY <1>0, <1>2, <1>5, <2>1, <2>3 DEF JobOK, AttemptsOK
  <2>8. LaunchesOK(i)'
    <3>1. Launches(i)' = Launches(i)
      BY <1>0 DEF Launches
    <3>2. Cardinality(Launches(i)) \in Nat /\ mem.attempts \in Nat
      BY <1>2, LaunchesFinite, SpecTypes
    <3> QED BY <1>0, <1>2, <1>5, <2>1, <2>2, <2>3, <2>4, <3>1, <3>2, StatesFact
        DEF JobOK, LaunchesOK, StatesAre
  <2> QED BY <2>5, <2>6, <2>7, <2>8 DEF JobOK
<1>6. Begun(i)' /\ (Present(i)' => Present(i) \/ Slipped(i))
  BY <1>2, <1>3 DEF Begun, Present, Exists, Wrote
<1>7. FilesOK'
  BY <1>0, <1>2, <1>3, <1>5, <1>6, JobStep DEF Typed, Wrote
<1> QED BY <1>4, <1>7

\* The second half of finish() moves the job to where it stays.
LEMMA FinishRenameKeeps ==
    ASSUME Typed, RunnerOK, FilesOK, LooksOK, Typed',
           NEW i \in Jobs, cur = i, NEW t \in Final, verdict = t, FinishRename
    PROVE  FilesOK' /\ LooksOK'
<1>0. /\ UNCHANGED <<sub, subAt, lock, can, canSpec>>
      /\ UNCHANGED <<active, live, jobOf, lost>>
      /\ slipped' = slipped
      /\ step = "finish2" /\ step' = "loop"
  BY DEF FinishRename, Visited, users, procs
<1>1. step \in Working /\ step' \notin Working /\ t \in StateNames /\ t # "running"
  BY <1>0 DEF Working, StateNames, Final
<1>2. /\ mem \in Specs /\ mem # NoFile /\ Held(i)
      /\ \A j \in Jobs : ~Held(j)' /\ (j # i => ~Held(j))
  BY <1>1, HeldFacts DEF Held
<1>3. dir["running"][i] = mem /\ Exists("running", i)
  BY <1>0, <1>2 DEF RunnerOK, Exists
<1>4. Moved("running", t, i)
  BY <1>1, RenamedAt, StatesFact DEF FinishRename, Typed, StatesAre
<1>5. LooksOK'
  <2>1. LockHeld' /\ CancelHasRead'
    BY <1>0 DEF LooksOK, LockHeld, CancelHasRead
  <2> QED BY <1>0, <1>3, <1>4, <2>1, LooksMove DEF LooksOK
<1>6. ASSUME JobOK(i) PROVE JobOK(i)'
  <2>1. \A s \in StateNames : Exists(s, i) <=> s = "running"
    BY <1>3, <1>6, OnlyThere, StatesFact DEF JobOK, StatesAre
  <2>2. /\ \A s \in StateNames : Exists(s, i)' <=> s = t
        /\ dir'[t][i] = mem
    BY <1>1, <1>2, <1>3, <1>4, <2>1 DEF Exists, Moved
  <2>3. active[i] = NoFile
    BY <1>2, <1>6 DEF JobOK, FileOK
  <2>4. FileOK(i)'
    BY <1>0, <1>2, <2>2, <2>3 DEF FileOK
  <2>5. ProcsOK(i)'
    BY <1>0, <1>2, <1>6 DEF JobOK, ProcsOK
  <2>6. AttemptsOK(i)'
    BY <1>0, <1>2, <1>6, <2>2 DEF JobOK, AttemptsOK
  <2>7. LaunchesOK(i)'
    <3>1. Launches(i)' = Launches(i)
      BY <1>0 DEF Launches
    <3> QED BY <1>0, <1>1, <1>2, <1>3, <1>6, <2>2, <3>1, SpecTypes, StatesFact
        DEF JobOK, LaunchesOK, StatesAre, Final
  <2> QED BY <2>4, <2>5, <2>6, <2>7 DEF JobOK
<1>7. (active'[i] # NoFile => Begun(i)') /\ (Present(i)' => Present(i))
  BY <1>0, <1>1, <1>3, <1>4, StatesFact DEF Begun, Present, Exists, Moved, StatesAre, Final
<1>8. FilesOK'
  BY <1>0, <1>2, <1>4, <1>6, <1>7, JobStep DEF Typed, Moved
<1> QED BY <1>5, <1>8

\* The second half of requeue() moves it back, charged.
LEMMA RequeueRenameKeeps ==
    ASSUME Typed, RunnerOK, FilesOK, LooksOK, Typed',
           NEW i \in Jobs, cur = i, RequeueRename
    PROVE  FilesOK' /\ LooksOK'
<1>0. /\ UNCHANGED <<sub, subAt, lock, can, canSpec>>
      /\ UNCHANGED <<active, live, jobOf, lost>>
      /\ slipped' = slipped \cup Passed(i)
      /\ step = "requeue2" /\ step' = "loop"
  BY DEF RequeueRename, Visited, users, procs
<1>1. step \in Working /\ step' \notin Working /\ "pending" \in StateNames /\ "pending" # "running"
  BY <1>0 DEF Working, StateNames, Final
<1>2. /\ mem \in Specs /\ mem # NoFile /\ Held(i)
      /\ \A j \in Jobs : ~Held(j)' /\ (j # i => ~Held(j))
  BY <1>1, HeldFacts DEF Held
<1>3. dir["running"][i] = mem /\ Exists("running", i)
  BY <1>0, <1>2 DEF RunnerOK, Exists
<1>4. Moved("running", "pending", i)
  BY <1>1, RenamedAt, StatesFact DEF RequeueRename, Typed, StatesAre
<1>5. LooksOK'
  <2>1. LockHeld' /\ CancelHasRead'
    BY <1>0 DEF LooksOK, LockHeld, CancelHasRead
  <2> QED BY <1>0, <1>3, <1>4, <2>1, LooksRequeue DEF LooksOK
<1>6. ASSUME JobOK(i) PROVE JobOK(i)'
  <2>1. \A s \in StateNames : Exists(s, i) <=> s = "running"
    BY <1>3, <1>6, OnlyThere, StatesFact DEF JobOK, StatesAre
  <2>2. /\ \A s \in StateNames : Exists(s, i)' <=> s = "pending"
        /\ dir'["pending"][i] = mem
    BY <1>1, <1>2, <1>3, <1>4, <2>1 DEF Exists, Moved
  <2>3. active[i] = NoFile
    BY <1>2, <1>6 DEF JobOK, FileOK
  <2>4. FileOK(i)'
    BY <1>0, <1>2, <2>2, <2>3 DEF FileOK
  <2>5. ProcsOK(i)'
    BY <1>0, <1>2, <1>6 DEF JobOK, ProcsOK
  <2>6. AttemptsOK(i)'
    BY <1>0, <1>2, <1>6, <2>2 DEF JobOK, AttemptsOK
  <2>7. LaunchesOK(i)'
    <3>1. Launches(i)' = Launches(i)
      BY <1>0 DEF Launches
    <3> QED BY <1>0, <1>1, <1>2, <1>3, <1>6, <2>2, <3>1, SpecTypes, StatesFact
        DEF JobOK, LaunchesOK, StatesAre
  <2> QED BY <2>4, <2>5, <2>6, <2>7 DEF JobOK
<1>7. (active'[i] # NoFile => Begun(i)') /\ (Present(i)' => Present(i))
  BY <1>0, <1>1, <1>3, <1>4 DEF Present, RunnerOK
<1>8. FilesOK'
  BY <1>0, <1>2, <1>4, <1>6, <1>7, JobStep DEF Typed, Moved
<1> QED BY <1>5, <1>8

\* A launch that fails forgets the pid and goes on to finish() (_fail_running).
LEMMA LaunchFailsKeeps ==
    ASSUME Typed, RunnerOK, FilesOK, LooksOK, Typed',
           NEW i \in Jobs, cur = i, LaunchFails
    PROVE  FilesOK' /\ LooksOK'
<1>0. /\ UNCHANGED <<dir, sub, subAt, lock, can, canSpec>>
      /\ UNCHANGED <<active, live, jobOf, lost, slipped>>
      /\ cur' = i /\ step = "launch" /\ step' = "finish" /\ mem' = NoPid(mem)
  BY DEF LaunchFails, users, procs
<1>1. step \in Working /\ step' \in Working
  BY <1>0 DEF Working
<1>2. /\ mem \in Specs /\ Begun(i) /\ Held(i) /\ Held(i)'
      /\ \A j \in Jobs : j # i => ~Held(j) /\ ~Held(j)'
  BY <1>0, <1>1, HeldFacts DEF Held
<1>3. LooksOK'
  BY <1>0, LooksFrame
<1>4. ASSUME JobOK(i) PROVE JobOK(i)'
  <2>1. mem'.attempts = mem.attempts
    BY <1>0, <1>2, SpecValues
  <2>2. FileOK(i)' /\ ProcsOK(i)'
    BY <1>0, <1>2, <1>4 DEF JobOK, FileOK, ProcsOK, Exists
  <2>3. AttemptsOK(i)' /\ LaunchesOK(i)'
    BY <1>0, <1>2, <1>4, <2>1
    DEF JobOK, AttemptsOK, LaunchesOK, Launches, Exists
  <2> QED BY <2>2, <2>3 DEF JobOK
<1>5. FilesOK'
  <2>1. Begun(i)' /\ (Present(i)' => Present(i))
    BY <1>0, <1>2 DEF Begun, Present, Exists
  <2> QED BY <1>0, <1>2, <1>4, <2>1, JobStep DEF Typed
<1> QED BY <1>3, <1>5

\* A process is started that only the runner's memory knows (start_job).
LEMMA LaunchStartKeeps ==
    ASSUME Typed, RunnerOK, FilesOK, LooksOK, Typed',
           NEW i \in Jobs, cur = i, NEW p \in Procs, LaunchStart(p)
    PROVE  FilesOK' /\ LooksOK'
<1>0. /\ UNCHANGED <<dir, sub, subAt, lock, can, canSpec>>
      /\ UNCHANGED <<active, lost, slipped>>
      /\ cur' = i /\ step = "launch" /\ step' = "started"
      /\ mem' = [mem EXCEPT !.pid = p]
      /\ live' = live \cup {p} /\ jobOf[p] = None /\ jobOf' = [jobOf EXCEPT ![p] = i]
  BY DEF LaunchStart, users
<1>1. step \in Working /\ step' \in Working
  BY <1>0 DEF Working
<1>2. /\ mem \in Specs /\ Begun(i) /\ Held(i) /\ Held(i)' /\ None \notin Jobs
      /\ \A j \in Jobs : j # i => ~Held(j) /\ ~Held(j)'
  BY <1>0, <1>1, HeldFacts DEF Held
<1>3. LooksOK'
  BY <1>0, LooksFrame
<1>4. \A q \in Procs : jobOf'[q] = IF q = p THEN i ELSE jobOf[q]
  BY <1>0 DEF Typed, ProcsTyped
<1>5. ASSUME JobOK(i) PROVE JobOK(i)'
  <2>1. mem'.attempts = mem.attempts /\ mem'.pid = p
    BY <1>0, <1>2, SpecValues
  <2>2. FileOK(i)'
    <3>1. active[i] = NoFile
      BY <1>2, <1>5 DEF JobOK, FileOK
    <3> QED BY <1>0, <1>2, <1>5, <3>1 DEF JobOK, FileOK, Exists
  <2>3. ProcsOK(i)'
    <3>1. \A q \in live \ lost : jobOf[q] # i
      BY <1>0, <1>2, <1>5 DEF JobOK, ProcsOK
    <3>2. \A q \in live' \ lost' : jobOf'[q] = i => q = p
      BY <1>0, <1>4, <3>1 DEF Typed, ProcsTyped
    <3>3. Exists("running", i)'
      BY <1>0, <1>2, <1>5 DEF JobOK, FileOK, Exists
    <3> QED BY <1>0, <1>2, <2>1, <3>2, <3>3 DEF ProcsOK
  <2>4. AttemptsOK(i)'
    BY <1>0, <1>2, <1>5, <2>1 DEF JobOK, AttemptsOK, Exists
  <2>5. LaunchesOK(i)'
    <3>1. Launches(i)' = Launches(i) \cup {p} /\ p \notin Launches(i)
      BY <1>0, <1>2, <1>4 DEF Launches
    <3>2. Cardinality(Launches(i)') = Cardinality(Launches(i)) + 1
      BY <3>1, LaunchesFinite, FS_AddElement
    <3>3. /\ Cardinality(Launches(i)) <= mem.attempts
          /\ mem.attempts = dir["running"][i].attempts
          /\ Exists("running", i)
      BY <1>0, <1>2, <1>5 DEF JobOK, FileOK, LaunchesOK, AttemptsOK
    <3>4. \A s \in StateNames : Exists(s, i)' <=> s = "running"
      BY <1>0, <1>5, <3>3, OnlyThere, StatesFact DEF JobOK, Exists, StatesAre
    <3>5. Cardinality(Launches(i)) \in Nat /\ mem.attempts \in Nat
      BY <1>2, LaunchesFinite, SpecTypes
    <3> QED BY <1>0, <3>2, <3>3, <3>4, <3>5, StatesFact DEF LaunchesOK, StatesAre
  <2> QED BY <2>2, <2>3, <2>4, <2>5 DEF JobOK
<1>6. FilesOK'
  <2>1. Begun(i)' /\ (Present(i)' => Present(i))
    BY <1>0, <1>2 DEF Begun, Present, Exists
  <2>2. /\ \A j \in Jobs : j # i => \A q \in Procs : jobOf'[q] = j <=> jobOf[q] = j
        /\ \A q \in live' : q \in live \/ jobOf'[q] = i
    BY <1>0, <1>2, <1>4
  <2> QED BY <1>0, <1>2, <1>5, <2>1, <2>2, JobStep DEF Typed
<1> QED BY <1>3, <1>6

\* The pid goes to the file, and the job is supervised (update).
LEMMA LaunchRecordKeeps ==
    ASSUME Typed, RunnerOK, FilesOK, LooksOK, Typed',
           NEW i \in Jobs, cur = i, LaunchRecord
    PROVE  FilesOK' /\ LooksOK'
<1>0. /\ UNCHANGED <<sub, subAt, lock, can, canSpec>>
      /\ UNCHANGED <<live, jobOf, lost, slipped>>
      /\ step = "started" /\ step' = "loop" /\ active' = [active EXCEPT ![i] = mem]
  BY DEF LaunchRecord, Visited, users, procs
<1>1. step \in Working /\ step' \notin Working
  BY <1>0 DEF Working
<1>2. /\ mem \in Specs /\ mem # NoFile /\ Held(i) /\ Begun(i)
      /\ Slipped(i) \/ Exists("running", i)
      /\ \A j \in Jobs : ~Held(j)' /\ (j # i => ~Held(j))
  BY <1>1, HeldFacts DEF Held
<1>3. Wrote("running", i, mem)
  BY <1>2, WrittenAt, StatesFact DEF LaunchRecord, Typed, StatesAre
<1>4. active'[i] = mem /\ \A j \in Jobs : j # i => active'[j] = active[j]
  BY <1>0 DEF Typed, RunnerTyped
<1>5. LooksOK'
  <2>1. LockHeld' /\ CancelHasRead'
    BY <1>0 DEF LooksOK, LockHeld, CancelHasRead
  <2> QED BY <1>0, <1>2, <1>3, <2>1, LooksWrite DEF LooksOK
<1>6. ASSUME JobOK(i) PROVE JobOK(i)'
  <2>1. Exists("running", i) /\ dir'["running"][i] = mem
    BY <1>2, <1>3, <1>6 DEF JobOK, FileOK, Wrote
  <2>2. \A s \in StateNames : Exists(s, i) <=> s = "running"
    BY <1>6, <2>1, OnlyThere, StatesFact DEF JobOK, StatesAre
  <2>3. \A s \in StateNames : Exists(s, i)' <=> s = "running"
    BY <1>2, <1>3, <2>1, <2>2 DEF Exists, Wrote
  <2>4. /\ mem.attempts = dir["running"][i].attempts
        /\ mem.pid \in Procs /\ jobOf[mem.pid] = i
    BY <1>0, <1>2, <1>6 DEF JobOK, AttemptsOK, RunnerOK
  <2>5. FileOK(i)'
    BY <1>0, <1>2, <1>4, <2>1, <2>3, <2>4 DEF FileOK
  <2>6. ProcsOK(i)'
    BY <1>0, <1>2, <1>6, <2>1, <2>3, StatesFact DEF JobOK, ProcsOK, StatesAre
  <2>7. AttemptsOK(i)'
    BY <1>2, <1>6, <2>1, <2>3 DEF JobOK, AttemptsOK
  <2>8. LaunchesOK(i)'
    <3>1. Launches(i)' = Launches(i)
      BY <1>0 DEF Launches
    <3> QED BY <1>2, <1>6, <2>1, <2>2, <2>3, <2>4, <3>1, StatesFact
        DEF JobOK, LaunchesOK, StatesAre
  <2> QED BY <2>5, <2>6, <2>7, <2>8 DEF JobOK
<1>7. Begun(i)' /\ (Present(i)' => Present(i) \/ Slipped(i))
  BY <1>2, <1>3 DEF Begun, Present, Exists, Wrote
<1>8. FilesOK'
  BY <1>0, <1>2, <1>3, <1>4, <1>6, <1>7, JobStep DEF Typed, Wrote
<1> QED BY <1>5, <1>8

\* Between two visits the runner works on no job.
LEMMA NoneHeld ==
    ASSUME Typed, step = "loop"
    PROVE  \A j \in Jobs : ~Held(j)
BY DEF Held, Working

\* requeue_orphans takes up a job that nobody runs.
LEMMA ReapTakes ==
    ASSUME Typed, RunnerOK, FilesOK, LooksOK, Typed',
           NEW i \in Jobs, ReapJob(i), ~Accounted(i)
    PROVE  FilesOK' /\ LooksOK'
<1> DEFINE spec == dir["running"][i]
<1>0. /\ UNCHANGED <<dir, sub, subAt, lock, can, canSpec>>
      /\ UNCHANGED <<active, live, jobOf, lost, slipped>>
      /\ phase = "reap" /\ step = "loop" /\ i \in todo /\ cur' = i
      /\ \/ /\ step' = "requeue" /\ mem' = Requeued(spec)
            /\ spec.attempts < MAX_ATTEMPTS
         \/ step' = "finish" /\ mem' = spec
  BY DEF ReapJob, Take, Visiting, At, users, procs
<1>1. step' \in Working /\ \A j \in Jobs : ~Held(j)
  BY <1>0, NoneHeld DEF Working
<1>2. /\ Held(i)' /\ \A j \in Jobs : j # i => ~Held(j)'
      /\ active[i] = NoFile
      /\ \A p \in live : spec.pid # p
  BY <1>0, <1>1, NamesAssumption
  DEF Held, Accounted, Supervised, pid_alive, Typed, ProcsTyped, Procs
<1>3. Exists("running", i) /\ spec \in Specs
  <2>1. i # cur
    BY <1>0, NamesAssumption DEF RunnerOK, Working
  <2>2. Exists("running", i)
    BY <1>0, <2>1 DEF RunnerOK
  <2> QED BY <2>2, StatesFact DEF Exists, Typed, Dirs, StatesAre
<1>4. LooksOK'
  BY <1>0, LooksFrame
<1>5. ASSUME JobOK(i) PROVE JobOK(i)'
  <2>1. /\ \A s \in StateNames : Exists(s, i)' <=> Exists(s, i)
        /\ \A s \in StateNames : Exists(s, i) <=> s = "running"
    BY <1>0, <1>3, <1>5, OnlyThere, StatesFact DEF JobOK, Exists, StatesAre
  <2>2. FileOK(i)'
    BY <1>0, <1>2, <2>1, StatesFact DEF FileOK, StatesAre
  <2>3. ProcsOK(i)'
    BY <1>0, <1>1, <1>2, <1>5 DEF JobOK, ProcsOK
  <2>4. /\ spec.attempts \in Nat /\ spec.attempts <= MAX_ATTEMPTS
        /\ Cardinality(Launches(i)) \in Nat
        /\ Cardinality(Launches(i)) <= spec.attempts + 1
        /\ Launches(i)' = Launches(i)
    BY <1>0, <1>3, <1>5, SpecTypes, LaunchesFinite, StatesFact
    DEF JobOK, AttemptsOK, LaunchesOK, Launches, StatesAre
  <2>5. Requeued(spec).attempts = spec.attempts + 1
    BY <1>3, SpecValues
  <2>6. AttemptsOK(i)'
    BY <1>0, <1>2, <2>1, <2>4, <2>5, BoundsAssumption DEF AttemptsOK
  <2>7. LaunchesOK(i)'
    BY <1>0, <1>2, <2>1, <2>4, <2>5, StatesFact DEF LaunchesOK, StatesAre
  <2> QED BY <2>2, <2>3, <2>6, <2>7 DEF JobOK
<1>6. FilesOK'
  <2>1. Begun(i)' /\ (Present(i)' => Present(i))
    BY <1>0, <1>3 DEF Begun, Present, Exists
  <2> QED BY <1>0, <1>1, <1>2, <1>5, <2>1, JobStep DEF Typed
<1> QED BY <1>4, <1>6

\* _settle takes up a job whose command has ended or was killed at its timeout.
LEMMA CollectTakes ==
    ASSUME Typed, RunnerOK, FilesOK, LooksOK, Typed',
           NEW i \in Jobs, CollectExited(i) \/ CollectTimeout(i)
    PROVE  FilesOK' /\ LooksOK'
<1> DEFINE spec == active[i]
<1>0. /\ UNCHANGED <<dir, sub, subAt, lock, can, canSpec>>
      /\ UNCHANGED <<jobOf, lost, slipped>>
      /\ phase = "collect" /\ step = "loop" /\ i \in todo /\ cur' = i
      /\ active' = [active EXCEPT ![i] = NoFile]
      /\ live' \subseteq live /\ spec.pid \notin live'
      /\ \/ /\ step' = "requeue" /\ mem' = Requeued(spec)
            /\ spec.attempts < MAX_ATTEMPTS
         \/ step' = "finish" /\ mem' = NoPid(spec)
  BY DEF CollectExited, CollectTimeout, Take, Visiting, At, users, procs, pid_alive
<1>1. step' \in Working /\ \A j \in Jobs : ~Held(j)
  BY <1>0, NoneHeld DEF Working
<1>2. /\ Held(i)' /\ \A j \in Jobs : j # i => ~Held(j)'
      /\ active'[i] = NoFile /\ \A j \in Jobs : j # i => active'[j] = active[j]
  BY <1>0, <1>1 DEF Held, Typed, RunnerTyped
<1>3. spec # NoFile /\ spec \in Specs /\ Begun(i)
  <2>1. i # cur
    BY <1>0, NamesAssumption DEF RunnerOK, Working
  <2>2. spec # NoFile
    BY <1>0, <2>1 DEF RunnerOK
  <2> QED BY <2>2 DEF Typed, RunnerTyped, FilesOK, BegunOnDisk
<1>4. LooksOK'
  BY <1>0, LooksFrame
<1>5. ASSUME JobOK(i) PROVE JobOK(i)'
  <2>0. dir["running"][i] = spec /\ Exists("running", i)
    BY <1>3, <1>5 DEF JobOK, FileOK, Exists
  <2>1. /\ \A s \in StateNames : Exists(s, i)' <=> Exists(s, i)
        /\ \A s \in StateNames : Exists(s, i) <=> s = "running"
    BY <1>0, <1>5, <2>0, OnlyThere, StatesFact DEF JobOK, Exists, StatesAre
  <2>2. FileOK(i)'
    BY <1>0, <1>2, <2>1, StatesFact DEF FileOK, StatesAre
  <2>3. ProcsOK(i)'
    BY <1>0, <1>1, <1>5, <2>0 DEF JobOK, ProcsOK
  <2>4. /\ spec.attempts \in Nat /\ spec.attempts <= MAX_ATTEMPTS
        /\ Cardinality(Launches(i)) \in Nat
        /\ Cardinality(Launches(i)) <= spec.attempts + 1
        /\ Launches(i)' = Launches(i)
    BY <1>0, <1>3, <1>5, <2>0, SpecTypes, LaunchesFinite, StatesFact
    DEF JobOK, AttemptsOK, LaunchesOK, Launches, StatesAre
  <2>5. Requeued(spec).attempts = spec.attempts + 1 /\ NoPid(spec).attempts = spec.attempts
    BY <1>3, SpecValues
  <2>6. AttemptsOK(i)'
    BY <1>0, <1>2, <2>0, <2>1, <2>4, <2>5, BoundsAssumption DEF AttemptsOK
  <2>7. LaunchesOK(i)'
    BY <1>0, <1>2, <2>0, <2>1, <2>4, <2>5, StatesFact DEF LaunchesOK, StatesAre
  <2> QED BY <2>2, <2>3, <2>6, <2>7 DEF JobOK
<1>6. FilesOK'
  <2>1. Begun(i)' /\ (Present(i)' => Present(i))
    BY <1>0, <1>3 DEF Begun, Present, Exists
  <2> QED BY <1>0, <1>1, <1>2, <1>5, <2>1, JobStep DEF Typed
<1> QED BY <1>4, <1>6

\* claim() takes up a job that is pending.
LEMMA ClaimTakes ==
    ASSUME Typed, RunnerOK, FilesOK, LooksOK, Typed',
           NEW i \in Jobs, AdmitFail(i) \/ AdmitClaim(i), Exists("pending", i)
    PROVE  FilesOK' /\ LooksOK'
<1> DEFINE spec == dir["pending"][i]
<1>0. /\ UNCHANGED <<sub, subAt, lock, can, canSpec>>
      /\ UNCHANGED <<active, live, jobOf, lost, slipped>>
      /\ step = "loop" /\ cur' = i /\ mem' = spec /\ step' \in {"finish", "launch"}
      /\ dir' = Renamed(dir, "pending", "running", i)
  BY DEF AdmitFail, AdmitClaim, Claim, Take, Visiting, At, users, procs
<1>1. step' \in Working /\ \A j \in Jobs : ~Held(j)
  BY <1>0, NoneHeld DEF Working
<1>2. Held(i)' /\ \A j \in Jobs : j # i => ~Held(j)'
  BY <1>0, <1>1 DEF Held
<1>3. Moved("pending", "running", i) /\ spec \in Specs
  BY <1>0, RenamedAt, StatesFact DEF Typed, Dirs, Exists, StatesAre
<1>4. LooksOK'
  <2>1. LockHeld' /\ CancelHasRead'
    BY <1>0 DEF LooksOK, LockHeld, CancelHasRead
  <2> QED BY <1>0, <1>3, <2>1, LooksMove DEF LooksOK
<1>5. ASSUME JobOK(i) PROVE JobOK(i)'
  <2>1. \A s \in StateNames : Exists(s, i) <=> s = "pending"
    BY <1>5, OnlyThere, StatesFact DEF JobOK, StatesAre
  <2>2. /\ \A s \in StateNames : Exists(s, i)' <=> s = "running"
        /\ dir'["running"][i] = spec
    BY <1>3, <2>1, StatesFact DEF Exists, Moved, StatesAre
  <2>3. active[i] = NoFile /\ ~Exists("running", i)
    <3>1. ~Exists("running", i)
      BY <2>1, StatesFact DEF StatesAre
    <3> QED BY <1>5, <3>1 DEF JobOK, FileOK, Exists
  <2>4. FileOK(i)'
    BY <1>0, <1>2, <2>2, <2>3, StatesFact DEF FileOK, StatesAre
  <2>5. ProcsOK(i)'
    BY <1>0, <1>5, <2>3 DEF JobOK, ProcsOK
  <2>6. AttemptsOK(i)'
    BY <1>0, <1>5, <2>2, StatesFact DEF JobOK, AttemptsOK, StatesAre
  <2>7. LaunchesOK(i)'
    <3>1. Launches(i)' = Launches(i)
      BY <1>0 DEF Launches
    <3>2. Cardinality(Launches(i)) <= spec.attempts
      BY <1>5 DEF JobOK, LaunchesOK
    <3>3. Cardinality(Launches(i)) \in Nat /\ spec.attempts \in Nat
      BY <1>3, LaunchesFinite, SpecTypes
    <3> QED BY <1>0, <2>2, <3>1, <3>2, <3>3, StatesFact DEF LaunchesOK, StatesAre
  <2> QED BY <2>4, <2>5, <2>6, <2>7 DEF JobOK
<1>6. FilesOK'
  <2>1. Begun(i)' /\ (Present(i)' => Present(i))
    BY <1>3, StatesFact DEF Begun, Present, Exists, Moved, StatesAre
  <2> QED BY <1>0, <1>1, <1>2, <1>3, <1>5, <2>1, JobStep DEF Typed, Moved
<1> QED BY <1>4, <1>6

\* shutdown kills a job and leaves it in running/ with no pid.
LEMMA ShutdownJobKeeps ==
    ASSUME Typed, RunnerOK, FilesOK, LooksOK, Typed',
           NEW i \in Jobs, ShutdownJob(i)
    PROVE  FilesOK' /\ LooksOK'
<1> DEFINE spec == active[i]
<1>0. /\ UNCHANGED <<sub, subAt, lock, can, canSpec>>
      /\ UNCHANGED <<jobOf, lost, slipped>>
      /\ phase = "shutdown" /\ step = "loop" /\ i \in todo /\ step' = "loop"
      /\ active' = [active EXCEPT ![i] = NoFile]
      /\ live' \subseteq live /\ spec.pid \notin live'
  BY DEF ShutdownJob, Visited, Visiting, At, users
<1>1. \A j \in Jobs : ~Held(j) /\ ~Held(j)'
  BY <1>0 DEF Held, Working
<1>2. active'[i] = NoFile /\ \A j \in Jobs : j # i => active'[j] = active[j]
  BY <1>0 DEF Typed, RunnerTyped
<1>3. /\ spec # NoFile /\ spec \in Specs /\ Begun(i)
      /\ NoPid(spec) \in Specs /\ NoPid(spec) # NoFile
      /\ NoPid(spec).attempts = spec.attempts
      /\ Slipped(i) \/ Exists("running", i)
  <2>1. i # cur
    BY <1>0, NamesAssumption DEF RunnerOK, Working
  <2>2. spec # NoFile
    BY <1>0, <2>1 DEF RunnerOK
  <2>3. spec \in Specs /\ Begun(i)
    BY <2>2 DEF Typed, RunnerTyped, FilesOK, BegunOnDisk
  <2>4. Slipped(i) \/ Exists("running", i)
    BY <2>2 DEF FilesOK, JobsOK, JobOK, FileOK, Exists
  <2> QED BY <2>2, <2>3, <2>4, SpecTypes, SpecValues
<1>4. Wrote("running", i, NoPid(spec))
  BY <1>3, WrittenAt, StatesFact DEF ShutdownJob, Typed, StatesAre
<1>5. LooksOK'
  <2>1. LockHeld' /\ CancelHasRead'
    BY <1>0 DEF LooksOK, LockHeld, CancelHasRead
  <2> QED BY <1>0, <1>3, <1>4, <2>1, LooksWrite DEF LooksOK
<1>6. ASSUME JobOK(i) PROVE JobOK(i)'
  <2>1. dir["running"][i] = spec /\ Exists("running", i)
    BY <1>3, <1>6 DEF JobOK, FileOK, Exists
  <2>2. \A s \in StateNames : Exists(s, i) <=> s = "running"
    BY <1>6, <2>1, OnlyThere, StatesFact DEF JobOK, StatesAre
  <2>3. /\ \A s \in StateNames : Exists(s, i)' <=> s = "running"
        /\ dir'["running"][i] = NoPid(spec)
    BY <1>3, <1>4, <2>2, StatesFact DEF Exists, Wrote, StatesAre
  <2>4. FileOK(i)'
    BY <1>1, <1>2, <2>3 DEF FileOK
  <2>5. ProcsOK(i)'
    BY <1>0, <1>1, <1>6, <2>1 DEF JobOK, ProcsOK
  <2>6. AttemptsOK(i)'
    BY <1>1, <1>3, <1>6, <2>1, <2>3, StatesFact DEF JobOK, AttemptsOK, StatesAre
  <2>7. LaunchesOK(i)'
    <3>1. Launches(i)' = Launches(i)
      BY <1>0 DEF Launches
    <3> QED BY <1>1, <1>3, <1>6, <2>1, <2>3, <3>1, StatesFact
        DEF JobOK, LaunchesOK, StatesAre
  <2> QED BY <2>4, <2>5, <2>6, <2>7 DEF JobOK
<1>7. FilesOK'
  <2>1. Begun(i)' /\ (Present(i)' => Present(i) \/ Slipped(i))
    BY <1>3, <1>4 DEF Begun, Present, Exists, Wrote
  <2> QED BY <1>0, <1>1, <1>2, <1>4, <1>6, <2>1, JobStep DEF Typed, Wrote
<1> QED BY <1>5, <1>7

\* A runner that dies loses its memory and touches no file.
LEMMA DeadKeeps ==
    ASSUME Typed, RunnerOK, FilesOK, LooksOK, Crash \/ ShutdownDone
    PROVE  FilesOK' /\ LooksOK'
<1>0. /\ UNCHANGED <<dir, sub, subAt, lock, can, canSpec, live, jobOf, slipped>>
      /\ active' = [j \in Jobs |-> NoFile] /\ step' = "list"
      /\ lost \subseteq lost' /\ (step = "started" => mem.pid \in lost')
  BY DEF Crash, ShutdownDone, Dead, At, users
<1>1. \A j \in Jobs : ~Held(j)' /\ active'[j] = NoFile
  BY <1>0 DEF Held, Working
<1>2. LooksOK'
  BY <1>0, LooksFrame
<1>3. ASSUME NEW j \in Jobs, JobOK(j) PROVE JobOK(j)'
  <2>1. FileOK(j)'
    BY <1>0, <1>1, <1>3 DEF JobOK, FileOK, Exists
  <2>2. ProcsOK(j)'
    BY <1>0, <1>1, <1>3 DEF JobOK, ProcsOK, Exists
  <2>3. AttemptsOK(j)' /\ LaunchesOK(j)'
    BY <1>0, <1>1, <1>3 DEF JobOK, AttemptsOK, LaunchesOK, Launches, Exists
  <2> QED BY <2>1, <2>2, <2>3 DEF JobOK
<1>4. BegunOnDisk' /\ JobsOK'
  BY <1>0, <1>1, <1>3 DEF FilesOK, BegunOnDisk, JobsOK, Slipped
<1>5. DedupeBetweenLooks'
  BY <1>0 DEF FilesOK, DedupeBetweenLooks, Exists
<1> QED BY <1>2, <1>4, <1>5 DEF FilesOK

\* The rest of the runner's steps, and a process that ends, touch nothing of it.
LEMMA QuietKeeps ==
    ASSUME Typed, RunnerOK, FilesOK, LooksOK,
           \/ ReapList \/ CollectList \/ AdmitList \/ NextPhase
           \/ Stop \/ Restart \/ Shutdown
           \/ \E j \in Jobs : \/ ReapJob(j) /\ Accounted(j)
                              \/ CollectRunning(j) \/ AdmitSkip(j)
                              \/ /\ AdmitFail(j) \/ AdmitClaim(j)
                                 /\ ~Exists("pending", j)
           \/ \E p \in Procs : ProcExit(p)
           \/ \E w \in Waits : WaitNext(w)
    PROVE  FilesOK' /\ LooksOK'
<1>1. /\ UNCHANGED <<dir, sub, subAt, lock, can, canSpec, slipped>>
      /\ UNCHANGED <<active, jobOf, lost>> /\ live' \subseteq live /\ SameWork
  <2> USE DEF users, runner, procs, SameWork, Working, At, Visiting, Visited
  <2>1. CASE \/ ReapList \/ CollectList \/ AdmitList \/ NextPhase
             \/ Stop \/ Restart \/ Shutdown
    BY <2>1 DEF ReapList, CollectList, AdmitList, NextPhase, Stop, Restart, Shutdown
  <2>2. CASE \E j \in Jobs : \/ ReapJob(j) /\ Accounted(j)
                             \/ CollectRunning(j) \/ AdmitSkip(j)
    BY <2>2 DEF ReapJob, CollectRunning, AdmitSkip
  <2>3. CASE \E j \in Jobs : /\ AdmitFail(j) \/ AdmitClaim(j)
                             /\ ~Exists("pending", j)
    BY <2>3 DEF AdmitFail, AdmitClaim, Claim
  <2>4. CASE \E p \in Procs : ProcExit(p)
    BY <2>4 DEF ProcExit
  <2>5. CASE \E w \in Waits : WaitNext(w)
    BY <2>5 DEF WaitNext, WaitBegin, WaitFind, WaitRead, WaitPoll, WaitUnchanged
  <2> QED BY <2>1, <2>2, <2>3, <2>4, <2>5
<1> QED BY <1>1, FilesFrame, LooksFrame

-------------------------------------------------------------------------------
(***************************************************************************)
(* The invariant.                                                          *)
(***************************************************************************)
LEMMA QueueInit == Init => QueueInv
<1> SUFFICES ASSUME Init PROVE QueueInv
  OBVIOUS
<1>1. TypeOK /\ RunnerOK
  BY TypeInit
<1>2. \A j \in Jobs : ~Held(j) /\ active[j] = NoFile
  BY DEF Init, Held, Working
<1>3. \A j \in Jobs, s \in StateNames : ~Exists(s, j)
  BY DEF Init, Exists
<1>4. \A j \in Jobs : Launches(j) = {}
  BY NamesAssumption DEF Init, Launches
<1>5. JobsOK
  <2> SUFFICES ASSUME NEW j \in Jobs PROVE JobOK(j)
    BY DEF JobsOK
  <2>1. FileOK(j) /\ AttemptsOK(j) /\ ProcsOK(j)
    BY <1>2, <1>3 DEF FileOK, AttemptsOK, ProcsOK, Init
  <2>2. LaunchesOK(j)
    BY <1>2, <1>3, <1>4, FS_EmptySet, StatesFact DEF LaunchesOK, StatesAre
  <2> QED BY <2>1, <2>2 DEF JobOK
<1>6. BegunOnDisk /\ DedupeBetweenLooks
  BY <1>2, <1>3, StatesFact DEF BegunOnDisk, DedupeBetweenLooks, StatesAre
<1>7. LooksOK
  BY DEF Init, LooksOK, LockHeld, CancelHasRead, IdLooks, KeyLooks
<1> QED BY <1>1, <1>5, <1>6, <1>7 DEF QueueInv, FilesOK

\* The invariant is inductive as long as no cancel is disturbed.
LEMMA QueueStep == QueueInv /\ CancelUndisturbed /\ [Next]_vars => QueueInv'
<1> SUFFICES ASSUME QueueInv, CancelUndisturbed, [Next]_vars PROVE QueueInv'
  OBVIOUS
<1>1. TypeOK' /\ RunnerOK'
  BY TypeStep DEF QueueInv
<1>2. Typed /\ Typed' /\ RunnerOK /\ FilesOK /\ LooksOK
  BY <1>1, TypeParts, TypePartsNext DEF QueueInv, Typed
<1> SUFFICES FilesOK' /\ LooksOK'
  BY <1>1 DEF QueueInv
<1>3. CASE UNCHANGED vars
  BY <1>2, <1>3, FilesFrame, LooksFrame DEF vars, users, runner, procs, SameWork
<1>4. CASE \E u \in Submits : SubmitNext(u)
  BY <1>2, <1>4, SubmitLooksKeeps, SubmitWriteKeeps DEF SubmitNext
<1>5. CASE \E k \in Cancels : CancelNext(k)
  BY <1>2, <1>5, CancelKeeps
<1>6. CASE FinishWrite \/ RequeueWrite \/ LaunchFails \/ LaunchRecord
  <2>1. cur \in Jobs
    BY <1>2, <1>6, HeldFacts
    DEF FinishWrite, RequeueWrite, LaunchFails, LaunchRecord, Working
  <2> QED BY <1>2, <1>6, <2>1, FinishWriteKeeps, RequeueWriteKeeps, LaunchFailsKeeps,
             LaunchRecordKeeps
<1>7. CASE FinishRename
  <2>1. cur \in Jobs /\ verdict \in Final
    BY <1>2, <1>7 DEF FinishRename, RunnerOK, Working
  <2> QED BY <1>2, <1>7, <2>1, FinishRenameKeeps
<1>8. CASE RequeueRename
  <2>1. cur \in Jobs
    BY <1>2, <1>8 DEF RequeueRename, RunnerOK, Working
  <2> QED BY <1>2, <1>8, <2>1, RequeueRenameKeeps
<1>9. ASSUME NEW p \in Procs, LaunchStart(p) PROVE FilesOK' /\ LooksOK'
  <2>1. cur \in Jobs
    BY <1>2, <1>9 DEF LaunchStart, RunnerOK, Working
  <2> QED BY <1>2, <1>9, <2>1, LaunchStartKeeps
<1>10. ASSUME NEW j \in Jobs, ReapJob(j) PROVE FilesOK' /\ LooksOK'
  BY <1>2, <1>10, ReapTakes, QuietKeeps
<1>11. ASSUME NEW j \in Jobs, CollectExited(j) \/ CollectTimeout(j)
       PROVE  FilesOK' /\ LooksOK'
  BY <1>2, <1>11, CollectTakes
<1>12. ASSUME NEW j \in Jobs, AdmitFail(j) \/ AdmitClaim(j)
       PROVE  FilesOK' /\ LooksOK'
  BY <1>2, <1>12, ClaimTakes, QuietKeeps
<1>13. ASSUME NEW j \in Jobs, ShutdownJob(j) PROVE FilesOK' /\ LooksOK'
  BY <1>2, <1>13, ShutdownJobKeeps
<1>14. CASE Crash \/ ShutdownDone
  BY <1>2, <1>14, DeadKeeps
<1> QED BY <1>2, <1>3, <1>4, <1>5, <1>6, <1>7, <1>8, <1>9, <1>10, <1>11, <1>12,
           <1>13, <1>14, QuietKeeps
        DEF Next, RunnerNext

\* What the proofs above establish: the invariant holds between any two writes and
\* renames, as long as no cancel() writes back a spec that the runner has claimed.
THEOREM QueueInvariant == Spec /\ []CancelUndisturbed => []QueueInv
BY QueueInit, QueueStep, PTL DEF Spec

-------------------------------------------------------------------------------
(***************************************************************************)
(* What the queue promises.                                                *)
(***************************************************************************)
LEMMA AllJobsOK == QueueInv /\ NothingSlipped => \A j \in Jobs : JobOK(j)
BY DEF QueueInv, FilesOK, JobsOK, NothingSlipped, Slipped

\* Two jobs with one dedupe key are never pending or running at a time, but for
\* the one that was requeued between the two looks of a submission (submit).
THEOREM KeysStayUnique == Spec /\ []CancelUndisturbed => []DedupeBetweenLooks
<1>1. QueueInv => DedupeBetweenLooks
  BY DEF QueueInv, FilesOK
<1> QED BY <1>1, QueueInvariant, PTL

\* submit() writes over no file of the job it submits, in any directory.
THEOREM NeverClobbers == Spec /\ []CancelUndisturbed => SubmitNeverClobbers
<1>1. QueueInv => \A u \in Submits : sub[u] = "write" =>
          u \in slipped \/ \A s \in StateNames : ~Exists(s, SubmitOf[u])
  BY DEF QueueInv, LooksOK, IdLooks
<1>2. QueueInv /\ [Next]_vars =>
        [\A u \in Submits : sub'[u] = "submitted" /\ sub[u] = "write" =>
           u \in slipped \/ \A s \in StateNames : ~Exists(s, SubmitOf[u])]_vars
  BY <1>1
<1> QED BY <1>2, QueueInvariant, PTL DEF Spec, SubmitNeverClobbers

\* A job's file is in one directory (submit, claim, finish, requeue).
THEOREM OneStateHolds ==
    Spec /\ []CancelUndisturbed /\ []NothingSlipped => []OneState
<1>1. QueueInv /\ NothingSlipped => OneState
  BY AllJobsOK DEF OneState, JobOK, FileOK
<1> QED BY <1>1, QueueInvariant, PTL

\* A job that did not slip has been launched once more than it was charged for, at most.
LEMMA JobLaunches ==
    ASSUME QueueInv, NEW j \in Jobs, AttemptsOK(j), LaunchesOK(j)
    PROVE  Cardinality(Launches(j)) <= MAX_ATTEMPTS + 1
<1>1. \A s \in StateNames : Exists(s, j) => dir[s][j].attempts \in Nat
  BY TypeParts, SpecTypes DEF QueueInv, Dirs, Exists
<1> QED BY <1>1, LaunchesFinite, BoundsAssumption DEF AttemptsOK, LaunchesOK

\* A job's command is started at most MAX_ATTEMPTS + 1 times, whatever crashes.
THEOREM LaunchesBounded ==
    Spec /\ []CancelUndisturbed /\ []NothingSlipped => []LaunchBound
<1>1. QueueInv /\ NothingSlipped => LaunchBound
  BY AllJobsOK, JobLaunches DEF LaunchBound, JobOK
<1> QED BY <1>1, QueueInvariant, PTL

\* A pending job has no process but one whose pid died with a runner.
THEOREM PendingJobsIdle ==
    Spec /\ []CancelUndisturbed /\ []NothingSlipped => []PendingIsIdle
<1>1. ASSUME QueueInv, NothingSlipped, NEW j \in Jobs, Exists("pending", j)
      PROVE  Running(j) \subseteq lost
  <2>1. ~Exists("running", j)
    BY <1>1, AllJobsOK DEF JobOK, FileOK, StateNames
  <2> QED BY <1>1, <2>1, AllJobsOK DEF JobOK, ProcsOK, Running
<1>2. QueueInv /\ NothingSlipped => PendingIsIdle
  BY <1>1 DEF PendingIsIdle
<1> QED BY <1>2, QueueInvariant, PTL

\* The file of a supervised job names its process (_launch, requeue_orphans).
THEOREM SupervisedRecorded ==
    Spec /\ []CancelUndisturbed /\ []NothingSlipped => []SupervisedOnDisk
<1>1. QueueInv /\ NothingSlipped => SupervisedOnDisk
  BY AllJobsOK DEF SupervisedOnDisk, Supervised, JobOK, FileOK
<1> QED BY <1>1, QueueInvariant, PTL

\* A requeue that slips past a submission harms the job it is about and no other:
\* every other one is in one directory, launched within its bound, idle while it is
\* pending, and named by its file while it is supervised (submit, requeue).
THEOREM OtherJobsSafe ==
    Spec /\ []CancelUndisturbed => [](\A j \in Jobs : ~Slipped(j) =>
        /\ \A s, t \in StateNames : Exists(s, j) /\ Exists(t, j) => s = t
        /\ Cardinality(Launches(j)) <= MAX_ATTEMPTS + 1
        /\ Exists("pending", j) => Running(j) \subseteq lost
        /\ j \in Supervised => dir["running"][j] = active[j])
<1>1. ASSUME QueueInv, NEW j \in Jobs, ~Slipped(j)
      PROVE  /\ \A s, t \in StateNames : Exists(s, j) /\ Exists(t, j) => s = t
             /\ Cardinality(Launches(j)) <= MAX_ATTEMPTS + 1
             /\ Exists("pending", j) => Running(j) \subseteq lost
             /\ j \in Supervised => dir["running"][j] = active[j]
  <2>1. FileOK(j) /\ ProcsOK(j) /\ AttemptsOK(j) /\ LaunchesOK(j)
    BY <1>1 DEF QueueInv, FilesOK, JobsOK, JobOK
  <2>2. Cardinality(Launches(j)) <= MAX_ATTEMPTS + 1
    BY <1>1, <2>1, JobLaunches
  <2>3. Exists("pending", j) => Running(j) \subseteq lost
    BY <2>1 DEF FileOK, ProcsOK, Running, StateNames
  <2>4. j \in Supervised => dir["running"][j] = active[j]
    BY <2>1 DEF FileOK, Supervised
  <2> QED BY <2>1, <2>2, <2>3, <2>4 DEF FileOK
<1>2. QueueInv => \A j \in Jobs : ~Slipped(j) =>
        /\ \A s, t \in StateNames : Exists(s, j) /\ Exists(t, j) => s = t
        /\ Cardinality(Launches(j)) <= MAX_ATTEMPTS + 1
        /\ Exists("pending", j) => Running(j) \subseteq lost
        /\ j \in Supervised => dir["running"][j] = active[j]
  BY <1>1
<1> QED BY <1>2, QueueInvariant, PTL

\* A job that is done or failed is not touched again.
LEMMA FinalStep ==
    ASSUME QueueInv, NothingSlipped, [Next]_vars,
           NEW j \in Jobs, NEW s \in Final, Exists(s, j)
    PROVE  dir'[s][j] = dir[s][j] /\ Launches(j)' = Launches(j)
<1> DEFINE Kept == dir'[s][j] = dir[s][j] /\ Launches(j)' = Launches(j)
<1>1. Typed /\ RunnerOK /\ FilesOK /\ FileOK(j)
  BY AllJobsOK, TypeParts DEF QueueInv, Typed, JobOK
<1>2. dir \in Dirs /\ s \in StateNames /\ s # "pending" /\ s # "running"
  BY <1>1 DEF Typed, Final, StateNames
<1>3. ~Exists("pending", j) /\ ~Exists("running", j) /\ active[j] = NoFile /\ ~Held(j)
  BY <1>1, <1>2, StatesFact DEF FileOK, StatesAre, Exists
<1>4. ASSUME NEW i \in Jobs, NEW r \in {"pending", "running"}, NEW spec \in Specs,
             dir' = Written(dir, r, i, spec), UNCHANGED jobOf
      PROVE  Kept
  BY <1>2, <1>4, WrittenAt, StatesFact DEF Wrote, StatesAre, Launches
<1>5. ASSUME NEW i \in Jobs, NEW r \in StateNames, NEW t \in StateNames, r # t,
             i # j, dir' = Renamed(dir, r, t, i), UNCHANGED jobOf
      PROVE  Kept
  BY <1>2, <1>5, RenamedAt DEF Moved, Launches
<1>6. CASE UNCHANGED <<dir, jobOf>>
  BY <1>6 DEF Launches
<1>7. CASE \E u \in Submits : SubmitNext(u)
  <2>1. CASE \E u \in Submits : SubmitWrite(u)
    BY <1>4, <2>1, JobsAssumption, SpecTypes DEF SubmitWrite, procs
  <2> QED BY <1>6, <1>7, <2>1
      DEF SubmitNext, SubmitLock, SubmitScan, SubmitExists, procs
<1>8. ASSUME NEW k \in Cancels, CancelNext(k) PROVE Kept
  <2>1. CancelOf[k] \in Jobs
    BY JobsAssumption
  <2>2. CASE CancelWrite(k)
    <3>1. canSpec[k] \in Specs
      BY <1>1, <2>2
      DEF CancelWrite, QueueInv, LooksOK, CancelHasRead, Typed, UsersTyped
    <3> QED BY <1>4, <2>1, <2>2, <3>1 DEF CancelWrite, procs
  <2>3. CASE CancelRename(k)
    BY <1>3, <1>5, <1>6, <2>1, <2>3, StatesFact DEF CancelRename, procs, StatesAre
  <2> QED BY <1>6, <1>8, <2>2, <2>3 DEF CancelNext, CancelRead, procs
<1>9. CASE step \in Working /\ (FinishWrite \/ FinishRename \/ RequeueWrite
                                 \/ RequeueRename \/ LaunchRecord)
  <2>1. cur \in Jobs /\ mem \in Specs /\ cur # j
    BY <1>1, <1>3, <1>9, HeldFacts
  <2>2. CASE FinishRename
    <3>1. verdict \in StateNames /\ verdict # "running"
      BY <1>1, <2>2 DEF FinishRename, RunnerOK, Final, StateNames
    <3> QED BY <1>5, <2>1, <2>2, <3>1, StatesFact DEF FinishRename, procs, StatesAre
  <2>3. CASE RequeueRename
    BY <1>5, <2>1, <2>3, StatesFact DEF RequeueRename, StatesAre
  <2> QED BY <1>4, <1>9, <2>1, <2>2, <2>3
      DEF FinishWrite, RequeueWrite, LaunchRecord, procs
<1>10. ASSUME NEW p \in Procs, LaunchStart(p) PROVE Kept
  <2>1. jobOf[p] = None /\ None # j /\ cur # j
    BY <1>1, <1>3, <1>10, NamesAssumption DEF LaunchStart, Held, Working
  <2>2. jobOf' = [jobOf EXCEPT ![p] = cur] /\ UNCHANGED dir
    BY <1>10 DEF LaunchStart
  <2> QED BY <1>1, <2>1, <2>2 DEF Launches, Typed, ProcsTyped
<1>11. ASSUME NEW i \in Jobs, AdmitFail(i) \/ AdmitClaim(i) PROVE Kept
  BY <1>3, <1>5, <1>6, <1>11, StatesFact
  DEF AdmitFail, AdmitClaim, Claim, procs, StatesAre
<1>12. ASSUME NEW i \in Jobs, ShutdownJob(i) PROVE Kept
  <2>1. NoPid(active[i]) \in Specs
    BY <1>1, <1>12, SpecTypes, NamesAssumption
    DEF ShutdownJob, Visiting, At, RunnerOK, Typed, RunnerTyped
  <2> QED BY <1>4, <1>12, <2>1 DEF ShutdownJob
<1>13. CASE \/ ReapList \/ CollectList \/ AdmitList \/ NextPhase \/ LaunchFails
            \/ Shutdown \/ ShutdownDone \/ Stop \/ Crash \/ Restart
            \/ \E i \in Jobs : \/ ReapJob(i) \/ CollectRunning(i) \/ CollectExited(i)
                               \/ CollectTimeout(i) \/ AdmitSkip(i)
            \/ \E p \in Procs : ProcExit(p)
  BY <1>6, <1>13
  DEF ReapList, CollectList, AdmitList, NextPhase, LaunchFails, Shutdown,
      ShutdownDone, Stop, Crash, Restart, Dead, ReapJob, CollectRunning,
      CollectExited, CollectTimeout, AdmitSkip, ProcExit, procs
<1>14. CASE \E w \in Waits : WaitNext(w)
  BY <1>6, <1>14
  DEF WaitNext, WaitBegin, WaitFind, WaitRead, WaitPoll, WaitUnchanged, procs
<1>15. CASE UNCHANGED vars
  BY <1>6, <1>15 DEF vars, procs
<1> QED BY <1>7, <1>8, <1>9, <1>10, <1>11, <1>12, <1>13, <1>14, <1>15
    DEF Next, RunnerNext, FinishWrite, FinishRename, RequeueWrite, RequeueRename,
        LaunchRecord, Working

\* A job that is done or failed is not moved, rewritten or started again (finish,
\* requeue_orphans, claim).
THEOREM FinalStays ==
    Spec /\ []CancelUndisturbed /\ []NothingSlipped => FinalIsFinal
<1>1. QueueInv /\ NothingSlipped /\ [Next]_vars =>
        [\A j \in Jobs, s \in Final :
           Exists(s, j) => dir'[s][j] = dir[s][j] /\ Launches(j)' = Launches(j)]_vars
  BY FinalStep
<1> QED BY <1>1, QueueInvariant, PTL DEF Spec, FinalIsFinal

-------------------------------------------------------------------------------
(***************************************************************************)
(* The files implement the life of a job.                                  *)
(***************************************************************************)
Charged(j) == step = "requeue2" /\ cur = j

\* The job that is in one directory has its state and its attempts from there.
LEMMA StateIs ==
    ASSUME NEW j \in Jobs, NEW s \in StateNames,
           \A t \in StateNames : Exists(t, j) <=> t = s
    PROVE  StateOf(j) = s /\ AttemptsOf(j) = dir[s][j].attempts
<1>1. StateOf(j) = s
  BY StatesFact DEF StateOf, StatesAre
<1>2. s # "absent"
  BY DEF StateNames
<1> QED BY <1>1, <1>2 DEF AttemptsOf

LEMMA StateIsNext ==
    ASSUME NEW j \in Jobs, NEW s \in StateNames,
           \A t \in StateNames : Exists(t, j)' <=> t = s
    PROVE  StateOf(j)' = s /\ AttemptsOf(j)' = dir'[s][j].attempts
<1>1. StateOf(j)' = s
  BY StatesFact DEF StateOf, StatesAre
<1>2. s # "absent"
  BY DEF StateNames
<1> QED BY <1>1, <1>2 DEF AttemptsOf

\* The life of a job whose files do not change does not.
LEMMA LifeFrame ==
    ASSUME NEW j \in Jobs, \A s \in StateNames : dir'[s][j] = dir[s][j]
    PROVE  StateOf(j)' = StateOf(j) /\ AttemptsOf(j)' = AttemptsOf(j)
BY StatesFact DEF StateOf, AttemptsOf, Exists, StatesAre

\* A write over the one file of a job leaves it in its state.
LEMMA LifeWrite ==
    ASSUME NEW i \in Jobs, FileOK(i), Exists("running", i), NEW spec \in Specs,
           Wrote("running", i, spec)
    PROVE  /\ StateOf(i) = "running" /\ StateOf(i)' = "running"
           /\ AttemptsOf(i) = dir["running"][i].attempts
           /\ AttemptsOf(i)' = spec.attempts
           /\ \A j \in Jobs : j # i => /\ StateOf(j)' = StateOf(j)
                                       /\ AttemptsOf(j)' = AttemptsOf(j)
<1>1. \A t \in StateNames : Exists(t, i) <=> t = "running"
  BY OnlyThere, StatesFact DEF StatesAre
<1>2. \A t \in StateNames : Exists(t, i)' <=> t = "running"
  BY <1>1, SpecTypes DEF Wrote, Exists
<1>3. "running" \in StateNames
  BY DEF StateNames
<1>4. \A j \in Jobs : j # i => \A s \in StateNames : dir'[s][j] = dir[s][j]
  BY DEF Wrote
<1> QED BY <1>1, <1>2, <1>3, <1>4, StateIs, StateIsNext, LifeFrame DEF Wrote

\* A rename of the one file of a job moves it from state to state.
LEMMA LifeRename ==
    ASSUME NEW i \in Jobs, FileOK(i), NEW s \in StateNames, NEW t \in StateNames,
           s # t, Exists(s, i), Moved(s, t, i)
    PROVE  /\ StateOf(i) = s /\ StateOf(i)' = t /\ AttemptsOf(i)' = AttemptsOf(i)
           /\ \A j \in Jobs : j # i => /\ StateOf(j)' = StateOf(j)
                                       /\ AttemptsOf(j)' = AttemptsOf(j)
<1>1. \A r \in StateNames : Exists(r, i) <=> r = s
  BY OnlyThere
<1>2. \A r \in StateNames : Exists(r, i)' <=> r = t
  BY <1>1 DEF Moved, Exists
<1>3. \A j \in Jobs : j # i => \A r \in StateNames : dir'[r][j] = dir[r][j]
  BY DEF Moved
<1> QED BY <1>1, <1>2, <1>3, StateIs, StateIsNext, LifeFrame DEF Moved

LifeKept(j) == /\ StateOf(j)' = StateOf(j) /\ AttemptsOf(j)' = AttemptsOf(j)
               /\ Charged(j)' = Charged(j)

\* A step that no job's life sees.
LEMMA LifeStutters ==
    ASSUME \A j \in Jobs : LifeKept(j)
    PROVE  UNCHANGED Life!vars
<1>1. [j \in Jobs |-> StateOf(j)]' = [j \in Jobs |-> StateOf(j)]
  BY DEF LifeKept
<1>2. [j \in Jobs |-> AttemptsOf(j)]' = [j \in Jobs |-> AttemptsOf(j)]
  BY DEF LifeKept
<1>3. [j \in Jobs |-> step = "requeue2" /\ cur = j]'
        = [j \in Jobs |-> step = "requeue2" /\ cur = j]
  BY Zenon DEF LifeKept, Charged
<1> QED BY <1>1, <1>2, <1>3 DEF Life!vars

\* A step that moves one job, of which one is charged no more and no less.
LEMMA LifeMoves ==
    ASSUME NEW i \in Jobs, NEW s, NEW t, StateOf(i) = s, StateOf(i)' = t,
           AttemptsOf(i)' = AttemptsOf(i), Charged(i)' = Charged(i),
           \A j \in Jobs : j # i => LifeKept(j),
           \/ s = "absent" /\ t = "pending"
           \/ s = "pending" /\ t \in {"running", "failed"}
           \/ s = "running" /\ t \in Final /\ ~Charged(i)
    PROVE  Life!Next
<1>1. [j \in Jobs |-> StateOf(j)]' = [[j \in Jobs |-> StateOf(j)] EXCEPT ![i] = t]
  BY DEF LifeKept
<1>2. [j \in Jobs |-> AttemptsOf(j)]' = [j \in Jobs |-> AttemptsOf(j)]
  BY DEF LifeKept
<1>3. [j \in Jobs |-> step = "requeue2" /\ cur = j]'
        = [j \in Jobs |-> step = "requeue2" /\ cur = j]
  BY Zenon DEF LifeKept, Charged
<1>4. Life!Move(i, s, t)
  BY <1>1 DEF Life!Move
<1>5. ~Charged(i) => ~[j \in Jobs |-> step = "requeue2" /\ cur = j][i]
  BY Zenon DEF Charged
<1>6. Life!Submit(i) \/ Life!Start(i) \/ Life!Cancel(i) \/ Life!Settle(i)
  BY <1>2, <1>3, <1>4, <1>5, Zenon
  DEF Life!Submit, Life!Start, Life!Cancel, Life!Settle, Final
<1> QED BY <1>6 DEF Life!Next

\* A retry is charged.
LEMMA LifeCharges ==
    ASSUME NEW i \in Jobs, StateOf(i) = "running", StateOf(i)' = "running",
           AttemptsOf(i)' = AttemptsOf(i) + 1, AttemptsOf(i) < MAX_ATTEMPTS,
           ~Charged(i), Charged(i)', \A j \in Jobs : j # i => LifeKept(j)
    PROVE  Life!Next
<1>1. [j \in Jobs |-> StateOf(j)]' = [j \in Jobs |-> StateOf(j)]
  BY DEF LifeKept
<1>2. [j \in Jobs |-> AttemptsOf(j)]'
        = [[j \in Jobs |-> AttemptsOf(j)] EXCEPT ![i] = @ + 1]
  BY DEF LifeKept
<1>3. [j \in Jobs |-> step = "requeue2" /\ cur = j]'
        = [[j \in Jobs |-> step = "requeue2" /\ cur = j] EXCEPT ![i] = TRUE]
  BY Zenon DEF LifeKept, Charged
<1>4. ~[j \in Jobs |-> step = "requeue2" /\ cur = j][i]
  BY Zenon DEF Charged
<1>5. [j \in Jobs |-> StateOf(j)][i] = "running"
      /\ [j \in Jobs |-> AttemptsOf(j)][i] < MAX_ATTEMPTS
  OBVIOUS
<1>6. Life!Charge(i)
  BY <1>1, <1>2, <1>3, <1>4, <1>5, Zenon DEF Life!Charge
<1> QED BY <1>6 DEF Life!Next

\* A charged retry is granted, or forfeited.
LEMMA LifeRetries ==
    ASSUME NEW i \in Jobs, StateOf(i) = "running",
           StateOf(i)' = "pending" \/ StateOf(i)' = "running",
           AttemptsOf(i)' = AttemptsOf(i), Charged(i), ~Charged(i)',
           \A j \in Jobs : j # i => LifeKept(j)
    PROVE  Life!Next
<1>1. [j \in Jobs |-> StateOf(j)]'
        = [[j \in Jobs |-> StateOf(j)] EXCEPT ![i] = StateOf(i)']
  BY DEF LifeKept
<1>2. [j \in Jobs |-> AttemptsOf(j)]' = [j \in Jobs |-> AttemptsOf(j)]
  BY DEF LifeKept
<1>3. [j \in Jobs |-> step = "requeue2" /\ cur = j]'
        = [[j \in Jobs |-> step = "requeue2" /\ cur = j] EXCEPT ![i] = FALSE]
  BY Zenon DEF LifeKept, Charged
<1>4. [j \in Jobs |-> step = "requeue2" /\ cur = j][i]
  BY Zenon DEF Charged
<1>5. CASE StateOf(i)' = "pending"
  <2>1. Life!Move(i, "running", "pending")
    BY <1>1, <1>5 DEF Life!Move
  <2>2. Life!Retry(i)
    BY <1>2, <1>3, <1>4, <2>1, Zenon DEF Life!Retry
  <2> QED BY <2>2 DEF Life!Next
<1>6. CASE StateOf(i)' = "running"
  <2>1. [j \in Jobs |-> StateOf(j)]' = [j \in Jobs |-> StateOf(j)]
    BY <1>6 DEF LifeKept
  <2>2. Life!Forfeit(i)
    BY <1>2, <1>3, <1>4, <2>1, Zenon DEF Life!Forfeit
  <2> QED BY <2>2 DEF Life!Next
<1> QED BY <1>5, <1>6

\* Every step is a step of some job's life, or none that its life sees.
LEMMA LifeStep ==
    ASSUME QueueInv, CancelUndisturbed, NothingSlipped, [Next]_vars
    PROVE  Life!Next \/ UNCHANGED Life!vars
<1> DEFINE Lives == Life!Next \/ UNCHANGED Life!vars
<1>1. /\ Typed /\ RunnerOK /\ FilesOK /\ dir \in Dirs
      /\ \A j \in Jobs : FileOK(j) /\ AttemptsOK(j)
      /\ \A s \in StateNames, j \in Jobs : Exists(s, j) => dir[s][j] \in Specs
  BY AllJobsOK, TypeParts DEF QueueInv, Typed, JobOK, Dirs, Exists
<1>2. ASSUME UNCHANGED dir,
             UNCHANGED <<step, cur>> \/ (step # "requeue2" /\ step' # "requeue2")
      PROVE  Lives
  <2>1. \A j \in Jobs : LifeKept(j)
    BY <1>2, LifeFrame DEF LifeKept, Charged
  <2> QED BY <2>1, LifeStutters
<1>3. ASSUME NEW i \in Jobs, NEW spec \in Specs, dir' = Written(dir, "running", i, spec),
             Exists("running", i), spec.attempts = dir["running"][i].attempts,
             step # "requeue2", step' # "requeue2"
      PROVE  Lives
  <2>1. Wrote("running", i, spec)
    BY <1>1, <1>3, WrittenAt, StatesFact DEF StatesAre
  <2>2. \A j \in Jobs : LifeKept(j)
    BY <1>1, <1>3, <2>1, LifeWrite DEF LifeKept, Charged
  <2> QED BY <2>2, LifeStutters
<1>4. ASSUME NEW i \in Jobs, NEW s, NEW t, Exists(s, i), dir' = Renamed(dir, s, t, i),
             \/ s = "pending" /\ t \in {"running", "failed"}
             \/ s = "running" /\ t \in Final /\ step # "requeue2",
             UNCHANGED <<step, cur>> \/ (step # "requeue2" /\ step' # "requeue2")
      PROVE  Lives
  <2>1. s \in StateNames /\ t \in StateNames /\ s # t
    BY <1>4 DEF StateNames, Final
  <2>2. Moved(s, t, i)
    BY <1>1, <1>4, <2>1, RenamedAt
  <2>3. \A j \in Jobs : Charged(j)' = Charged(j)
    BY <1>4 DEF Charged
  <2>4. step # "requeue2" => ~Charged(i)
    BY DEF Charged
  <2>5. /\ StateOf(i) = s /\ StateOf(i)' = t /\ AttemptsOf(i)' = AttemptsOf(i)
        /\ \A j \in Jobs : j # i => LifeKept(j)
    BY <1>1, <1>4, <2>1, <2>2, <2>3, LifeRename DEF LifeKept
  <2> QED BY <1>4, <2>3, <2>4, <2>5, LifeMoves
<1>5. ASSUME NEW u \in Submits, SubmitNext(u) PROVE Lives
  <2>1. CASE SubmitWrite(u)
    <3> DEFINE i == SubmitOf[u]
               new == [attempts |-> 0, pid |-> None]
    <3>1. i \in Jobs /\ new \in Specs /\ UNCHANGED <<step, cur>>
      BY <2>1, JobsAssumption, SpecTypes DEF SubmitWrite, runner
    <3>2. \A s \in StateNames : ~Exists(s, i)
      BY <2>1 DEF SubmitWrite, QueueInv, LooksOK, IdLooks, NothingSlipped
    <3>3. Wrote("pending", i, new)
      BY <1>1, <2>1, <3>1, WrittenAt, StatesFact DEF SubmitWrite, StatesAre
    <3>4. StateOf(i) = "absent" /\ AttemptsOf(i) = 0
      BY <3>2, StatesFact DEF StateOf, AttemptsOf, StatesAre
    <3>5. \A s \in StateNames : Exists(s, i)' <=> s = "pending"
      BY <3>1, <3>2, <3>3, SpecTypes DEF Wrote, Exists
    <3>6. StateOf(i)' = "pending" /\ AttemptsOf(i)' = 0
      BY <3>1, <3>3, <3>5, StateIsNext, StatesFact DEF Wrote, StatesAre
    <3>7. \A j \in Jobs : j # i => LifeKept(j)
      BY <3>1, <3>3, LifeFrame DEF Wrote, LifeKept, Charged
    <3>8. Charged(i)' = Charged(i)
      BY <3>1 DEF Charged
    <3> QED BY <3>1, <3>4, <3>6, <3>7, <3>8, LifeMoves
  <2> QED BY <1>2, <1>5, <2>1
      DEF SubmitNext, SubmitLock, SubmitScan, SubmitExists, runner
<1>6. ASSUME NEW k \in Cancels, CancelNext(k) PROVE Lives
  <2>1. CancelOf[k] \in Jobs /\ UNCHANGED <<step, cur>>
    BY <1>6, JobsAssumption
    DEF CancelNext, CancelRead, CancelWrite, CancelRename, runner
  <2>2. CASE CancelWrite(k)
    <3>1. dir["pending"][CancelOf[k]] = canSpec[k]
      BY <2>2 DEF CancelWrite, CancelUndisturbed
    <3>2. \A s \in StateNames, j \in Jobs : dir'[s][j] = dir[s][j]
      BY <1>1, <2>1, <2>2, <3>1 DEF CancelWrite, Written, Dirs
    <3>3. \A j \in Jobs : LifeKept(j)
      BY <2>1, <3>2, LifeFrame DEF LifeKept, Charged
    <3> QED BY <3>3, LifeStutters
  <2>3. CASE CancelRename(k)
    BY <1>2, <1>4, <2>1, <2>3 DEF CancelRename
  <2> QED BY <1>2, <1>6, <2>1, <2>2, <2>3 DEF CancelNext, CancelRead
<1>7. CASE step \in Working /\ (FinishWrite \/ FinishRename \/ RequeueWrite
                                 \/ RequeueRename \/ LaunchRecord)
  <2>1. /\ cur \in Jobs /\ mem \in Specs /\ Held(cur) /\ Exists("running", cur)
        /\ FileOK(cur) /\ AttemptsOK(cur)
    BY <1>1, <1>7, HeldFacts DEF NothingSlipped, Slipped
  <2>2. PICK i \in Jobs : cur = i
    BY <2>1
  <2>3. CASE FinishWrite \/ LaunchRecord
    <3>1. mem.attempts = dir["running"][i].attempts
      BY <2>1, <2>2, <2>3 DEF FinishWrite, LaunchRecord, AttemptsOK
    <3> QED BY <1>3, <2>1, <2>2, <2>3, <3>1 DEF FinishWrite, LaunchRecord, Visited
  <2>4. CASE FinishRename
    <3>1. verdict \in Final
      BY <1>1, <2>4 DEF FinishRename, RunnerOK
    <3> QED BY <1>4, <2>1, <2>2, <2>4, <3>1 DEF FinishRename, Visited
  <2>5. CASE RequeueWrite
    <3>1. /\ mem.attempts = dir["running"][i].attempts + 1
          /\ mem.attempts <= MAX_ATTEMPTS /\ dir["running"][i].attempts \in Nat
      BY <1>1, <2>1, <2>2, <2>5, SpecTypes, StatesFact
      DEF RequeueWrite, AttemptsOK, StatesAre
    <3>2. Wrote("running", i, mem)
      BY <1>1, <2>1, <2>2, <2>5, WrittenAt, StatesFact DEF RequeueWrite, StatesAre
    <3>3. /\ ~Charged(i) /\ Charged(i)'
          /\ \A j \in Jobs : j # i => Charged(j)' = Charged(j)
      BY <2>2, <2>5 DEF RequeueWrite, Charged
    <3>4. /\ StateOf(i) = "running" /\ StateOf(i)' = "running"
          /\ AttemptsOf(i)' = AttemptsOf(i) + 1 /\ AttemptsOf(i) < MAX_ATTEMPTS
          /\ \A j \in Jobs : j # i => LifeKept(j)
      BY <2>1, <2>2, <3>1, <3>2, <3>3, LifeWrite, BoundsAssumption DEF LifeKept
    <3> QED BY <3>3, <3>4, LifeCharges
  <2>6. CASE RequeueRename
    <3>1. Moved("running", "pending", i)
      BY <1>1, <2>1, <2>2, <2>6, RenamedAt, StatesFact DEF RequeueRename, StatesAre
    <3>2. /\ Charged(i) /\ ~Charged(i)'
          /\ \A j \in Jobs : j # i => Charged(j)' = Charged(j)
      BY <2>2, <2>6 DEF RequeueRename, Visited, Charged
    <3>3. /\ StateOf(i) = "running" /\ StateOf(i)' = "pending"
          /\ AttemptsOf(i)' = AttemptsOf(i) /\ \A j \in Jobs : j # i => LifeKept(j)
      BY <2>1, <2>2, <3>1, <3>2, LifeRename, StatesFact DEF LifeKept, StatesAre
    <3> QED BY <3>2, <3>3, LifeRetries
  <2> QED BY <1>7, <2>3, <2>4, <2>5, <2>6
<1>8. CASE Crash \/ ShutdownDone
  <2>1. UNCHANGED dir /\ step' = "list" /\ (ShutdownDone => step = "loop")
    BY <1>8 DEF Crash, ShutdownDone, Dead, At
  <2>2. CASE step = "requeue2"
    <3>1. PICK i \in Jobs : cur = i /\ FileOK(i) /\ Exists("running", i)
      BY <1>1, <2>2, HeldFacts DEF Working, NothingSlipped, Slipped
    <3>2. /\ Charged(i) /\ ~Charged(i)'
          /\ \A j \in Jobs : j # i => Charged(j)' = Charged(j)
      BY <2>1, <2>2, <3>1 DEF Charged
    <3>3. StateOf(i) = "running"
      BY <3>1, OnlyThere, StateIs, StatesFact DEF StatesAre
    <3>4. /\ StateOf(i)' = StateOf(i) /\ AttemptsOf(i)' = AttemptsOf(i)
          /\ \A j \in Jobs : j # i => LifeKept(j)
      BY <2>1, <3>2, LifeFrame DEF LifeKept
    <3> QED BY <3>2, <3>3, <3>4, LifeRetries
  <2> QED BY <1>2, <2>1, <2>2
<1>9. ASSUME NEW i \in Jobs, AdmitFail(i) \/ AdmitClaim(i) PROVE Lives
  BY <1>2, <1>4, <1>9
  DEF AdmitFail, AdmitClaim, Claim, Take, Visiting, At, Visited
<1>10. ASSUME NEW i \in Jobs, ShutdownJob(i) PROVE Lives
  <2>1. active[i] \in Specs /\ active[i] # NoFile
    BY <1>1, <1>10, NamesAssumption
    DEF ShutdownJob, Visiting, At, RunnerOK, Typed, RunnerTyped
  <2>2. Exists("running", i) /\ dir["running"][i] = active[i]
    BY <1>1, <2>1 DEF FileOK, Exists
  <2>3. NoPid(active[i]) \in Specs /\ NoPid(active[i]).attempts = active[i].attempts
    BY <2>1, SpecTypes, SpecValues
  <2> QED BY <1>3, <1>10, <2>2, <2>3 DEF ShutdownJob, Visiting, At, Visited
<1>11. CASE \/ ReapList \/ CollectList \/ AdmitList \/ NextPhase \/ Shutdown
            \/ Stop \/ Restart \/ LaunchFails
            \/ \E p \in Procs : LaunchStart(p) \/ ProcExit(p)
  BY <1>1, <1>2, <1>11
  DEF ReapList, CollectList, AdmitList, NextPhase, Shutdown, Stop, Restart,
      LaunchFails, LaunchStart, ProcExit, At, runner
<1>12. ASSUME NEW i \in Jobs,
              \/ ReapJob(i) \/ CollectRunning(i) \/ CollectExited(i)
              \/ CollectTimeout(i) \/ AdmitSkip(i)
       PROVE  Lives
  BY <1>2, <1>12
  DEF ReapJob, CollectRunning, CollectExited, CollectTimeout, AdmitSkip, Take,
      Visiting, At, Visited
<1>13. CASE \E w \in Waits : WaitNext(w)
  BY <1>2, <1>13
  DEF WaitNext, WaitBegin, WaitFind, WaitRead, WaitPoll, WaitUnchanged, runner
<1>14. CASE UNCHANGED vars
  BY <1>2, <1>14 DEF vars, runner
<1> QED BY <1>5, <1>6, <1>7, <1>8, <1>9, <1>10, <1>11, <1>12, <1>13, <1>14
    DEF Next, RunnerNext, FinishWrite, FinishRename, RequeueWrite, RequeueRename,
        LaunchRecord, Working

\* In the beginning there are no jobs.
LEMMA LifeInit == Init => Life!Init
<1> SUFFICES ASSUME Init PROVE Life!Init
  OBVIOUS
<1>1. \A j \in Jobs, s \in StateNames : ~Exists(s, j)
  BY DEF Init, Exists
<1>2. \A j \in Jobs : StateOf(j) = "absent" /\ AttemptsOf(j) = 0
  BY <1>1, StatesFact DEF StateOf, AttemptsOf, StatesAre
<1>3. [j \in Jobs |-> StateOf(j)] = [j \in Jobs |-> "absent"]
      /\ [j \in Jobs |-> AttemptsOf(j)] = [j \in Jobs |-> 0]
  BY <1>2
<1>4. step # "requeue2"
  BY DEF Init
<1>5. [j \in Jobs |-> step = "requeue2" /\ cur = j] = [j \in Jobs |-> FALSE]
  BY <1>4, Zenon
<1> QED BY <1>3, <1>5 DEF Life!Init

\* The queue's files, the runner and its crashes implement JobLife (submit, claim,
\* requeue, finish, cancel).
THEOREM ImplementsLife ==
    Spec /\ []CancelUndisturbed /\ []NothingSlipped => ImplementsJobLife
<1>1. QueueInv /\ CancelUndisturbed /\ NothingSlipped /\ [Next]_vars
        => [Life!Next]_(Life!vars)
  BY LifeStep
<1> QED BY <1>1, LifeInit, QueueInvariant, PTL DEF Spec, ImplementsJobLife, Life!Spec

-------------------------------------------------------------------------------
(***************************************************************************)
(* Where neither race can happen: nobody cancels, and no two submissions   *)
(* are of one id or one key.                                               *)
(***************************************************************************)
SubmitsDistinct ==
    \A u, v \in Submits : u # v =>
        /\ SubmitOf[u] # SubmitOf[v]
        /\ KeyOf[SubmitOf[u]] # None => KeyOf[SubmitOf[u]] # KeyOf[SubmitOf[v]]

\* Every file is of a job that somebody has submitted.
FilesSubmitted ==
    \A j \in Jobs, s \in StateNames :
        Exists(s, j) => \E u \in Submits : SubmitOf[u] = j /\ sub[u] = "submitted"

ScansKey == \A u \in Submits : sub[u] = "scan" => KeyOf[SubmitOf[u]] # None

QuietInv == QueueInv /\ NothingSlipped /\ FilesSubmitted /\ ScansKey

\* What a submission does to where the submissions are.
LEMMA SubmitSteps ==
    ASSUME Typed, [Next]_vars
    PROVE  \/ UNCHANGED sub
           \/ \E u \in Submits : \E x :
                /\ SubmitNext(u) /\ sub[u] # "submitted"
                /\ sub' = [sub EXCEPT ![u] = x]
                /\ x = "scan" => KeyOf[SubmitOf[u]] # None \/ sub[u] = "scan"
<1>1. ASSUME NEW u \in Submits, SubmitNext(u)
      PROVE  \/ UNCHANGED sub
             \/ \E x : /\ sub[u] # "submitted" /\ sub' = [sub EXCEPT ![u] = x]
                       /\ x = "scan" => KeyOf[SubmitOf[u]] # None \/ sub[u] = "scan"
  BY <1>1 DEF SubmitNext, SubmitLock, SubmitScan, SubmitExists, SubmitWrite, SubmitEnds
<1>2. CASE \E k \in Cancels : CancelNext(k)
  BY <1>2 DEF CancelNext, CancelRead, CancelWrite, CancelRename
<1>3. CASE \E w \in Waits : WaitNext(w)
  BY <1>3 DEF WaitNext, WaitBegin, WaitFind, WaitRead, WaitPoll, WaitUnchanged
<1>4. CASE RunnerNext \/ Stop \/ Crash \/ Restart \/ \E p \in Procs : ProcExit(p)
  BY <1>4
  DEF RunnerNext, ReapList, CollectList, AdmitList, NextPhase, FinishWrite,
      FinishRename, RequeueWrite, RequeueRename, LaunchFails, LaunchRecord,
      LaunchStart, ReapJob, CollectRunning, CollectExited, CollectTimeout, AdmitSkip,
      AdmitFail, AdmitClaim, ShutdownJob, Shutdown, ShutdownDone, Stop, Crash, Dead,
      Restart, ProcExit, users
<1> QED BY <1>1, <1>2, <1>3, <1>4 DEF Next, vars, users

\* A job whose life has begun was submitted, by the one submission there is.
LEMMA FilesFromSubmits ==
    ASSUME QueueInv, CancelUndisturbed, NothingSlipped, [Next]_vars,
           NEW j \in Jobs, NEW s \in StateNames, Exists(s, j)'
    PROVE  \/ \E t \in StateNames : Exists(t, j)
           \/ \E u \in Submits : SubmitOf[u] = j /\ SubmitWrite(u)
<1> DEFINE Known == \/ \E t \in StateNames : Exists(t, j)
                    \/ \E u \in Submits : SubmitOf[u] = j /\ SubmitWrite(u)
<1>1. /\ Typed /\ RunnerOK /\ FilesOK /\ dir \in Dirs
      /\ \A i \in Jobs : FileOK(i)
  BY AllJobsOK, TypeParts DEF QueueInv, Typed, JobOK
<1>2. CASE \A r \in StateNames : dir'[r][j] = dir[r][j]
  BY <1>2 DEF Exists
<1>3. ASSUME NEW i \in Jobs, NEW spec \in Specs, dir' = Written(dir, "running", i, spec),
             Exists("running", i)
      PROVE  Known
  BY <1>1, <1>3, WrittenAt, StatesFact DEF Wrote, Exists, StatesAre
<1>4. ASSUME NEW i \in Jobs, NEW r \in StateNames, NEW t \in StateNames, r # t,
             dir' = Renamed(dir, r, t, i)
      PROVE  Known
  BY <1>1, <1>4, RenamedAt DEF Moved, Exists
<1>5. ASSUME NEW u \in Submits, SubmitNext(u) PROVE Known
  <2>1. CASE SubmitWrite(u)
    <3>1. SubmitOf[u] \in Jobs /\ [attempts |-> 0, pid |-> None] \in Specs
      BY JobsAssumption, SpecTypes
    <3>2. Wrote("pending", SubmitOf[u], [attempts |-> 0, pid |-> None])
      BY <1>1, <2>1, <3>1, WrittenAt, StatesFact DEF SubmitWrite, StatesAre
    <3> QED BY <2>1, <3>2 DEF Wrote, Exists
  <2> QED BY <1>2, <1>5, <2>1 DEF SubmitNext, SubmitLock, SubmitScan, SubmitExists
<1>6. ASSUME NEW k \in Cancels, CancelNext(k) PROVE Known
  <2>1. CancelOf[k] \in Jobs
    BY JobsAssumption
  <2>2. CASE CancelWrite(k)
    <3>1. \A r \in StateNames : dir'[r][j] = dir[r][j]
      BY <1>1, <2>1, <2>2 DEF CancelWrite, CancelUndisturbed, Written, Dirs
    <3> QED BY <1>2, <3>1
  <2> QED BY <1>2, <1>4, <1>6, <2>1, <2>2, StatesFact
      DEF CancelNext, CancelRead, CancelRename, StatesAre
<1>7. CASE step \in Working /\ (FinishWrite \/ FinishRename \/ RequeueWrite
                                 \/ RequeueRename \/ LaunchRecord)
  <2>1. cur \in Jobs /\ mem \in Specs /\ Exists("running", cur)
    BY <1>1, <1>7, HeldFacts DEF NothingSlipped, Slipped
  <2>2. FinishRename => verdict \in StateNames /\ verdict # "running"
    BY <1>1 DEF FinishRename, RunnerOK, Final, StateNames
  <2> QED BY <1>3, <1>4, <1>7, <2>1, <2>2, StatesFact
      DEF FinishWrite, FinishRename, RequeueWrite, RequeueRename, LaunchRecord,
          StatesAre
<1>8. ASSUME NEW i \in Jobs, AdmitFail(i) \/ AdmitClaim(i) PROVE Known
  BY <1>2, <1>4, <1>8, StatesFact DEF AdmitFail, AdmitClaim, Claim, StatesAre
<1>9. ASSUME NEW i \in Jobs, ShutdownJob(i) PROVE Known
  <2>1. active[i] \in Specs /\ active[i] # NoFile
    BY <1>1, <1>9, NamesAssumption
    DEF ShutdownJob, Visiting, At, RunnerOK, Typed, RunnerTyped
  <2> QED BY <1>1, <1>3, <1>9, <2>1, SpecTypes DEF ShutdownJob, FileOK, Exists
<1>10. CASE \/ ReapList \/ CollectList \/ AdmitList \/ NextPhase \/ LaunchFails
            \/ Shutdown \/ ShutdownDone \/ Stop \/ Crash \/ Restart
            \/ \E i \in Jobs : \/ ReapJob(i) \/ CollectRunning(i) \/ CollectExited(i)
                               \/ CollectTimeout(i) \/ AdmitSkip(i)
            \/ \E p \in Procs : LaunchStart(p) \/ ProcExit(p)
            \/ UNCHANGED vars
  BY <1>2, <1>10
  DEF ReapList, CollectList, AdmitList, NextPhase, LaunchFails, Shutdown,
      ShutdownDone, Stop, Crash, Restart, Dead, ReapJob, CollectRunning,
      CollectExited, CollectTimeout, AdmitSkip, LaunchStart, ProcExit, vars
<1>11. CASE \E w \in Waits : WaitNext(w)
  BY <1>2, <1>11 DEF WaitNext, WaitBegin, WaitFind, WaitRead, WaitPoll, WaitUnchanged
<1> QED BY <1>5, <1>6, <1>7, <1>8, <1>9, <1>10, <1>11
    DEF Next, RunnerNext, FinishWrite, FinishRename, RequeueWrite, RequeueRename,
        LaunchRecord, Working

\* The only steps that let a job slip are requeues.
LEMMA SlippedSteps ==
    ASSUME [Next]_vars
    PROVE  UNCHANGED slipped \/ RequeueRename
<1>1. CASE \E u \in Submits : SubmitNext(u)
  BY <1>1 DEF SubmitNext, SubmitLock, SubmitScan, SubmitExists, SubmitWrite, procs
<1>2. CASE \E k \in Cancels : CancelNext(k)
  BY <1>2 DEF CancelNext, CancelRead, CancelWrite, CancelRename, procs
<1>3. CASE \E w \in Waits : WaitNext(w)
  BY <1>3 DEF WaitNext, WaitBegin, WaitFind, WaitRead, WaitPoll, WaitUnchanged, procs
<1>4. CASE RunnerNext \/ Stop \/ Crash \/ Restart \/ \E p \in Procs : ProcExit(p)
  BY <1>4
  DEF RunnerNext, ReapList, CollectList, AdmitList, NextPhase, FinishWrite,
      FinishRename, RequeueWrite, LaunchFails, LaunchRecord, LaunchStart, ReapJob,
      CollectRunning, CollectExited, CollectTimeout, AdmitSkip, AdmitFail,
      AdmitClaim, ShutdownJob, Shutdown, ShutdownDone, Stop, Crash, Dead, Restart,
      ProcExit, procs
<1> QED BY <1>1, <1>2, <1>3, <1>4 DEF Next, vars, procs

\* Where submissions are distinct no job slips past one.
LEMMA QuietStep ==
    ASSUME Cancels = {}, SubmitsDistinct, QuietInv, [Next]_vars
    PROVE  QuietInv'
<1>1. CancelUndisturbed /\ Typed /\ RunnerOK /\ FilesOK
  BY TypeParts DEF CancelUndisturbed, QuietInv, QueueInv, Typed
<1>2. QueueInv'
  BY <1>1, QueueStep DEF QuietInv
<1>3. \A u \in Submits : sub[u] = "submitted" => sub'[u] = "submitted"
  BY <1>1, SubmitSteps DEF Typed, UsersTyped
<1>4. ScansKey'
  BY <1>1, SubmitSteps DEF Typed, UsersTyped, QuietInv, ScansKey
<1>5. FilesSubmitted'
  <2> SUFFICES ASSUME NEW j \in Jobs, NEW s \in StateNames, Exists(s, j)'
               PROVE  \E u \in Submits : SubmitOf[u] = j /\ sub'[u] = "submitted"
    BY DEF FilesSubmitted
  <2>1. CASE \E t \in StateNames : Exists(t, j)
    BY <1>3, <2>1 DEF QuietInv, FilesSubmitted
  <2>2. CASE \E u \in Submits : SubmitOf[u] = j /\ SubmitWrite(u)
    BY <1>1, <2>2 DEF SubmitWrite, SubmitEnds, Typed, UsersTyped
  <2> QED BY <1>1, <2>1, <2>2, FilesFromSubmits DEF QuietInv
<1>6. NothingSlipped'
  <2>1. CASE UNCHANGED slipped
    BY <2>1 DEF QuietInv, NothingSlipped
  <2>2. CASE RequeueRename
    <3>1. PICK i \in Jobs : cur = i /\ Exists("running", i)
      BY <1>1, <2>2, HeldFacts
      DEF RequeueRename, Working, QuietInv, NothingSlipped, Slipped
    <3>2. PICK v \in Submits : SubmitOf[v] = i /\ sub[v] = "submitted"
      BY <3>1, StatesFact DEF QuietInv, FilesSubmitted, StatesAre
    <3>3. Passed(i) = {}
      BY <3>2 DEF Passed, SubmitsDistinct, QuietInv, ScansKey
    <3> QED BY <2>2, <3>1, <3>3 DEF RequeueRename, QuietInv, NothingSlipped
  <2> QED BY <2>1, <2>2, SlippedSteps
<1> QED BY <1>2, <1>4, <1>5, <1>6 DEF QuietInv

\* Then what the queue promises holds without more ado: a job is in one state, is
\* launched at most MAX_ATTEMPTS + 1 times, is idle while it is pending and on
\* disk while it runs, stays final, and lives the life of JobLife.
THEOREM QuietQueue ==
    ASSUME Cancels = {}, SubmitsDistinct
    PROVE  Spec => /\ [](OneState /\ LaunchBound /\ PendingIsIdle /\ SupervisedOnDisk)
                   /\ FinalIsFinal /\ ImplementsJobLife
<1>1. Init => QuietInv
  BY QueueInit DEF Init, QuietInv, NothingSlipped, FilesSubmitted, ScansKey, Exists
<1>2. QuietInv /\ [Next]_vars => QuietInv'
  BY QuietStep
<1>3. QuietInv => CancelUndisturbed /\ NothingSlipped
  BY DEF QuietInv, CancelUndisturbed
<1>4. Spec => []CancelUndisturbed /\ []NothingSlipped
  BY <1>1, <1>2, <1>3, PTL DEF Spec
<1> QED BY <1>4, OneStateHolds, LaunchesBounded, PendingJobsIdle, SupervisedRecorded,
           FinalStays, ImplementsLife, PTL

=============================================================================
