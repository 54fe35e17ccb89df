# gpuqueue in TLA+

gpuqueue runs jobs on a GPU that is shared with people who never talk to each
other. A runner takes jobs out of a directory and starts them. Anyone else takes
the card with `gpu-claim`. A per-card ledger of VRAM declarations keeps them from
booking the card twice; a watchdog kills what uses more than it declared; a sweep
kills what is on the card without being in any ledger; and faults of gpuq itself
are filed as issues, within a budget. This directory holds TLA+
models of those parts, the TLC runs that check them on small instances, and TLAPS
proofs for every instance.

Paths below are relative to `src/src/gpuqueue/` unless they start with `src/` or `docs/`.

## 1. Inventory

| Component | State | Operations | Model |
|---|---|---|---|
| Claim ledger (`ledger.py`, `claim.py`) | `<key>.lock` (a flock), one record file per holder in `<key>.lock.d/`, `<key>.lock.json` of a pre-ledger claim | `gpu_claim`, `acquire`, `release`, `sweep_stale`, `card_is_closed`, `fits` | `Fits`, `Card`, `Ledger` |
| Job queue (`queue.py`, `spec.py`) | one JSON file per job in `pending/`, `running/`, `done/` or `failed/`; `.submit.lock` | `submit`, `claim`, `update`, `finish`, `requeue`, `cancel`, `find` | `JobQueue` |
| Runner loop (`runner.py`, `executor.py`, `cli_runner.py`) | `_active`, the stop flag, processes in sessions of their own | `tick`: reap, collect, admit; `_ready_card`, `_take_card`, `_launch`, `_settle`, `shutdown` | `JobQueue`, `GpuLane` |
| VRAM watchdog, co-tenant retry (`reaper.py`, `runner.py`) | `_strikes`, `_convicted`, `_last_conviction`, `_last_reap` | `check_vram`, `_kill_convicted`, `_reap`, `_settle` | `Watchdog` |
| Orphaned CUDA sweep (`reaper.py`, `preflight.py`, `cgroups.py`, `procs.py`) | locals of one `reap()` | `sweep_stale`, `requeue_orphans`, `attribute`, `_running_trees`, `own_pids`, `own_scopes`, SIGTERM, SIGKILL | `OrphanSweep` |
| `gpuq` (`cli_gpuq.py`) | none | `submit`, `cancel`, `wait`, `bug`; `list`, `show`, `kills` only read | `JobQueue`, `Autofix` |
| `gpu-claim` (`cli_claim.py`) | none | a claim around a command, `--reap` | `Ledger` (`Askers`), `GpuLane` (`Users`), `Policy` |
| Preflight, card identity (`preflight.py`, `gpuid.py`) | in the runner: a verdict with a time to live, the card's key and capacity, strikes of an unidentified card | checks before admitting GPU jobs | `GpuLane` |
| Autofix reports (`bugfiler.py`, `bugreport.py`, `runner.py`) | cooldowns and labels in memory, a budget of runs per day in a file, issues on GitHub | `_report_bug`, `file_bug`, `record_dispatch`, `refund_dispatch`, `ensure_labels` | `Autofix` |
| Configuration (`config.py`) | one file | `load_config`, `vram_policy`, `max_holders`; `claim_dir_setting` | `Policy`, without the last |
| Kill log, git operations, deployment | a log; worktrees; unit files | | not modelled, §8 |

**Interactions.** Nothing but the file system, signals and nvidia-smi connects the
parts. `gpuq` and the runner share the queue directories, and only submissions take
a lock against each other. The runner and every `gpu-claim` share a ledger
directory and its flock, which is held only inside `acquire()`. Deaths are noticed
by pid. The runner reads the card through nvidia-smi, which may fail at any call. A
supervisor restarts the runner, and jobs outlive it (`start_new_session`).

**What is hard.** Each write and each rename is visible by itself, so users and the
runner interleave between any two of them, and the runner may die there. Releases,
sweeps and deaths change the ledger without its flock. A judgement about a pid may
be stale when it is acted on. A capacity query may fail and recover. A conviction,
the end of the job it is about, and the excuse it gives another job happen in any
order. The orphan sweep reads five sources at five moments, of which `ps` may fail.
The runner hands out the card on verdicts that it cached. A budget is debited before
the thing it pays for exists, and a call that timed out may have succeeded. `PROJECT.json` lists
these under `hazards`, each at its line and with the properties that cover it.

**What makes each part correct.**

- *Ledger*: holders declared no more than the card has; `gpu_max_jobs` bounds
  everyone; no sweep takes the record of a running holder; no one gets in beside a
  pre-ledger claim; nobody waits for ever beside a card with room.
- *Queue and runner*: a job is in one state; it is started at most
  `MAX_ATTEMPTS + 1` times; one job per dedupe key; a retried job has no process
  left; what has ended stays ended; every job ends.
- *Watchdog*: nobody is convicted on one sample; a convicted job fails; only
  another's conviction excuses an OOM; over-use ends.
- *GPU lane*: the runner's claims are those of its jobs; no job is started beside a
  stray it should have seen; jobs are failed for want of a GPU only when the box says
  so often enough in a row; no job waits beside room for it.
- *Autofix*: the runs of a day keep to the budget, which is not spent on nothing; a
  bug whose open issue can be seen gets no second one; its evidence is filed in the end.
- *Configuration*: the runner and `gpu-claim` read the same numbers.
- *Orphan sweep*: what a job, a record or a scope accounts for is spared; what
  nothing accounts for does not keep the card.

## 2. Modules

| Module | Role |
|---|---|
| `Fits` / `FitsProofs` | the arithmetic of admission; lemmas about it |
| `Card` | what the ledger promises: a book of who is on the card |
| `Ledger` / `LedgerProofs` / `MCLedger` | the card's ledger, which implements `Card`; its proofs; instances |
| `GpuLane` / `GpuLaneProofs` / `MCGpuLane` | the runner's admission of GPU jobs, composed with the book of `Card` |
| `JobQueue` / `JobQueueProofs` / `MCJobQueue` | queue directories, users of `gpuq`, the runner; implements `JobLife` |
| `JobLife` | what the queue promises: the life of one job, without files |
| `Watchdog` / `WatchdogProofs` / `MCWatchdog` | over-use, convictions, retries, with a clock |
| `OrphanSweep` / `OrphanSweepProofs` / `MCOrphanSweep` | the sweep for unclaimed processes |
| `Autofix` / `AutofixProofs` / `MCAutofix` | bug reports, their budget, and GitHub |
| `Policy` | the configuration file and its readers; operators and theorems only |

Definitions keep the source's names where they can. A definition called
`X_Something`, just before `X`, is a faulty variant of `X`; the `mutants` of
`PROJECT.json` pair it with the property that must catch it. `map` there gives the
lines each definition stands for.

### Fits, Card and Ledger

A member of `Claims` is one call of `gpu_claim()` and the record file it writes.
`pc` follows it through `Begin` (validation, the first `_refuse_if_too_big`),
`TakeMutex` or `MutexTimesOut`, `ReadLedger` (the decision), `Admit` or `Refuse`,
`Unlock`, `Wake` (poll again; an asker asks the card again), `Release`. `OldTake`
and `OldRelease` are a `gpu-claim` from before the ledger, which holds the flock
for its whole run and whose record has one path for all. `SweepList`, `SweepJudge`
and `SweepUnlink` are the three moments of `sweep_stale`. `Crash` and `Spawn` are
processes dying and pids handed out again. `Flap` is nvidia-smi failing or
recovering.

The scan of the records in one `acquire()` is a single step. Only admissions add
records and the flock excludes those, so a slower scan could only see fewer of the
dead. `Blocks` pairs a record with each MiB it declared, so that a sum of
declarations is a cardinality and needs no recursion.

`Card` has one variable, the book: who is on the card and what each declared. `Enter`
is one step that fits its caller beside those in the book; `Depart` takes out everyone
whose process ended with one death. The refinement mapping of `Ledger` (`Book`) reads
the book off the holders, so `ImplementsCard` says that a decision made from record
files that others delete, sweep or leave behind is one made from who is really there.

### JobQueue and JobLife

`dir[s][j]` is the file of job `j` in directory `s`, or `NoFile`. `_write` is a
temporary file and a rename, so one step. `claim`, `finish` and `requeue` are a
write and a rename, so two. `submit` is the lock, two scans, the existence tests one
by one, the write. `cancel` is a read, a write, a rename. `wait_for` looks through
the directories one at a time. The runner goes through `reap` (`requeue_orphans`),
`collect` and `admit`, job by job (`phase`, `step`, `todo`, `cur`). `_launch` is a
claim, a start, and then the write of the pid. `Stop` and `Shutdown` are SIGTERM;
`Crash` may come before any step of the runner; `Restart` is the supervisor.

Whether the card lets a GPU job in at a given pass is a free choice (`AdmitSkip`),
which includes every answer of preflight and ledger. Jobs are visited in any
order, which includes the order of submission. Preparing a worktree only
succeeds or fails (`LaunchFails`). Processes are numbered by launch; `ProcExit`
covers both a job that survives the runner and one that does not. `lost` and `slipped`
are history variables: the processes whose runner died before it wrote their pid, and
the submissions that had looked into `pending/` and not yet into `running/` when a job
of their id or key was moved from the second to the first (`Passed`).

`JobLife` is the abstract specification: Submit, Start, Cancel, Charge (count a
retry), Retry, Forfeit (the runner dies between charging and retrying), Settle. The
refinement mapping of `JobQueue` reads a job's state off the directories and is
checked as `ImplementsJobLife`: no sequence of ticks, crashes and restarts retries
a job that was not charged for it.

### GpuLane

The runner's tick as far as the card is concerned, over the book of `Card` in the place
of record files: `Reap`, `CollectRunning`/`CollectEnded`, `AdmitBegins`, then
`_ready_card` (`PreflightCached` or `PreflightLooks`, `Identified` or `Unidentified`)
and the loop over the pending jobs, oldest first (`TakeFails`, `TakeEndsPass`,
`TakeBusy`, `Taken`, then `ClaimJob` or `ClaimLost`, `Launch` or `LaunchFails`). Users
with a `gpu-claim`, strangers without one, a pre-ledger claim, cancels, hand-edited
declarations, nvidia-smi and time go on between any two steps. A job that outlives its
runner is a stray, as its record died with the runner. The files of the queue are
`JobQueue`'s subject; here a job has a state. The capacity of the card is the default
path, on which nvidia-smi is asked (`usable_mb`: a failure is not cached). `unseen`
counts for how long a stray could have been noticed and `hist` what the last passes saw
of the card; both are history variables. Time stops at `TTL`, so the state is finite.

### Autofix

One report at a time goes through `_report_bug` (`Report`, or `CallerFault`, which
returns before any call and spends the cooldown of a signature it may share) and
`file_bug`: `FoundIssue`, `NoIssue` or `NoListing` (an answer that is empty or no JSON),
`FoundPr`/`NoPr`, `LookedForClosed`, then `Throttle`, `Debit`, `DebitFails` or `DebitBlind`, `EnsureLabels`, `Create` or `CreateFails`. Any
call may fail while GitHub is down (`GhError`). A creation that failed, or whose sender
died, may have been sent (`sent`) and happens later (`Land`) or never. Issues are a
sequence, because the lookup lists only the newest (`OPEN_ISSUE_LIMIT`, 500 in the
code); other boxes file issues, also for a fault that this box has, as a signature
does not depend on the box (`OtherBox`); the owner closes them. A stamp is the time of a filing,
as it is in the budget file, and ages with the clock; the two clocks of the code (wall
and monotonic) are one. A read of the budget file may fail when the budget is asked for,
when it is written, or both, and counts as empty (`DebitBlind`). `runs`, `excused`,
`wasted` and `missed` are history variables: the runs of the last day, those the box
could not know of, the debits that a crash or a failed refund left behind, and whether an
issue of the fault being filed is open that its lookup could not show (`Appears` is one
that comes after it).

### Policy

A key of the file is an integer, absent, or something `int()` refuses. `Accepted` is
what `load_config` does not raise on; the rest of the file is one flag. There is no
state: the module states, and proves, that the readers agree.

### Watchdog

A holder's record is the pair of holder and launch, as the code keys strikes by
claim token. A sweep is `ReapOrphans`, `Look` (nvidia-smi, or `Blind`), `Judge`
(`check_vram`), `Kill` (`_kill_convicted`), `Report` (the bookkeeping in `_reap`);
then collecting (`_settle`) and admitting. Instead of clocks there are ages, which
stop growing at `Old`, beyond the retry window, so the state is finite and `Pass`
needs no bound. Usage changes and processes end at any moment, among them a job
that exits with 0 on the SIGTERM. Killing a process group of the runner's user
succeeds; one of another user (`Foreign`) does not. `enforce_vram` is on.
`lastOver` (what the last sweep measured) and `excuse` (the age of the last removal
of another holder) are history variables.

### OrphanSweep

Every job and claim has a wrapper (`wrap`) and one process at a time on the card
(`card`). Claims have a record in a directory of their own choice (`held`, `DirOf`);
scoped claims are anchored in a container that may be recreated. The phases of the
sweep are `requeue`, `look`, `records`, `trees`, `attribute`, then `pids` and
`scopes` directory by directory, `term`, `kill`. Everything else may happen between
two of them. `spared` and `doubt` are history variables: those in the nvidia-smi sample
that have been accounted for at every moment since; and those of them that each `ps` which
was asked for their tree has failed to show (`Shown`: any part of a tree may be missing
from a reading; `Asked`, which takes out of `doubt` whoever a reading does show).
`/proc` answers, and a pid is not reused within one sweep. `void_scopes` only reports and
is left out.

## 3. Runs

| Run | Instance | Shows |
|---|---|---|
| `ledger_safety` | runner with two claims under one pid, a foreign `gpu-claim`, an old one; 3 pids, 1 sweep; capacity 3, 2 holders | no double booking, no holder loses its record, the old one is undisturbed, `card_is_closed` is exact, nobody waits without hope, `Card` is implemented |
| `ledger_liveness` | a runner and two waiting askers | an asker is admitted while there is room; dead records go |
| `ledger_cli_latch` | `gpu-claim --wait` that does not ask itself | **violation**, §7 |
| `queue_crash` | two jobs, two submits, three crashes or shutdowns | one state, launch bound, idle when pending, supervised is on disk, final is final, `JobLife` |
| `queue_dedupe` | four submits: one id twice, one key twice, one job of a project nobody declared; two slots; two crashes or shutdowns | one job per key and nothing written over, but for what slipped past a submission |
| `queue_live` | one GPU job, a cancel, a wait, one crash | the job ends and the wait returns, unless a command that outlived its runner never ends |
| `queue_cancel_race` | two jobs | **violation**, §7 |
| `watchdog_safety` | two jobs, retries, a crash | two in a row, no conviction leak, convicted is failed, retries are excused |
| `watchdog_live` | a job beside another user's claim | its conviction excuses nobody, over-use ends |
| `orphan_sweep` | a job, a claim and a scoped claim in the default directory, a foreign claim in the configured one, the runner's environment naming a third; a failing `ps`, a crash | accounted is spared unless no `ps` showed it, orphans end |
| `gpu_lane` | a job of 2 and a younger one of 1 on a card of 3, or one of 4 and one of 0; a user's claim of 2, a stranger, an old claim; a crash or shutdown | claims match jobs, strays are noticed, no GPU only in a row, no head-of-line blocking |
| `autofix` | one fault, which another box has too, beside one of its own; a budget of one run in a day of two units; the newest issue listed of two; one crash, one unreadable file or listing | budget kept, not spent on nothing, no second issue that could have been avoided, evidence filed |

**Bounds.** Two holders on a card of 3 with declarations of 0 to 4 and the whole
card give every comparison in `fits` both ways, an invalid and an impossible
declaration included. Two claims under one pid are needed because the runner is one
process with many claims; the third pid lets an old claim come and go independently.
`MAX_ATTEMPTS = 1` is the code's value, and three crashes are one more than the
retries they could use up. `MaxLaunches` only bounds process numbers: it is at least
what the retries allow, so that `LaunchBound` and not the bound decides. One crash is enough
for the watchdog, as all its state is in memory and is lost at once. In
`orphan_sweep` the three directories differ because that is where a reader of too few
of them fails. `ledger_safety` uses the symmetry of the runner's two claims, which play
the same part; elsewhere the members of a set play different roles, or the run has a
liveness property. `ledger_liveness` declares 1 and 3: what leaves room for another
claim and what takes all of the card. Two submitters of one
job in `queue_dedupe` exercise the lock, and two crashes let a job be requeued past two
of the submissions.

`queue_crash` has no cancel because with one `OneState` does not hold (§7).

In `gpu_lane`, `TTL` and `GPUID_STRIKES` are two: one step before the end of the
verdict, and one strike before the last. Every declaration is once too large, invalid,
fitting and not fitting. With two jobs and two holders a pass never meets a full lane
with jobs left over, which `LoopEnds` allows for. In `autofix`, `DAY` is twice the cooldown and a filing may
take one unit, so that a stamp leaves the day while a filing is under way; the budget
is one, so that any second run is one too many. Three stamps are enough for the filing
under way, the run that spent the budget and one that is late. `MaxOpen` is one more
than the list shows.

## 4. Fairness

- `Ledger`: a process inside `gpu_claim` keeps going (weak fairness of each step) and
  a sweep comes with every tick. `TakeMutex` is strongly fair: `acquire` polls the
  flock for ten seconds at a time, for as long as it waits. Holders need not release.
  `Prompt` says whether the flock may also time out; it may in the safety run.
- `JobQueue`: the runner is weakly fair, and so is `Restart`
  (`src/supervisor/gpuq-runner.conf:11` `autorestart`,
  `src/systemd/gpuq-runner.service:21` `Restart=always`). `AdmitClaim` is strongly
  fair: a job that keeps finding a free slot is let in some time, which assumes that
  others release the card. `CollectTimeout` is strongly fair, as every job has a
  timeout. Nothing is assumed of commands: one that has outlived its runner ends by itself
  or never, as nothing enforces its timeout (`cli_gpuq.py:106`). `JobsSettle` and
  `WaitReturns` are therefore conditional on the job not having such a command for ever
  (`Stranded`). Users finish what they began.
- `Watchdog`: the runner ticks and time passes. `OverUseEnds` is conditional on
  nvidia-smi being readable from some time on.
- `GpuLane`: the runner ticks and time passes. Nothing is assumed of users, strangers,
  jobs or nvidia-smi; `NoHeadOfLine` asks only that there be room from some time on.
- `Autofix`: every call of `gh` ends, if only by `GH_TIMEOUT_S`; time passes; and
  `Report` is strongly fair, that is, the fault keeps happening and is not always
  hidden by a caller's fault with its signature. `EvidenceFiled` is conditional on
  GitHub answering from some time on.
- `OrphanSweep`: the runner ticks. `OrphansEnd` is conditional on a sweep reaching its
  records again and again, that is, on nvidia-smi being readable.

## 5. Proofs

All are for any sets of claims, jobs, pids, sweeps and directories and any
capacity, cap, window or bound that satisfies the named assumptions in the modules.

**`LedgerProofs`.** `LedgerInvariant`: `LedgerInv` is inductive. The property one
wants, `NoOverbook`, is not: it needs that the room found inside the flock is still
there at the write (`RoomRemains`), which needs that only the flock's owner is inside
(`MutexOwner`) and that every holder has a live record when it is counted
(`HolderRecorded`); and this one needs that whatever a sweep is about to unlink
belongs to no one any more (`DoomedIsOut`), also when its pid has been handed out
again. From it: `TypeCorrect`, `NeverOverbooked`, `HolderCapKept`,
`HolderNeverSwept`, and `OldHolderSafe` as an action property. `NeverHopeless` has an
invariant of its own. `ClosedIsExact` is about the arithmetic alone: `card_is_closed`
and `fits` are the same answer, for the records in any reachable state.
`LedgerImplementsCard` maps every step to a step of `Card` or a stutter: the only one
that enters is `Admit`, and `RoomRemains` says that what fitted beside the records fits
beside the holders. The lemmas in `FitsProofs` say how the number of `Blocks` changes
with a record and that fewer records leave more room.

**`Policy`.** `SameBudget` and `SameCap`: on every file that the runner accepts, a
`gpu-claim` that reads it uses the same capacity and the same cap. `PolicyIsSound`: on
any file at all it uses a positive capacity or none and a positive cap, which are the
assumptions of `Ledger` and `GpuLane` about their constants.

**`WatchdogProofs`.** `WatchdogInvariant`: `WatchdogInv` is inductive. A strike is a
measurement of the last sweep (`StrikesAreFresh`), which gives `NeverOnOneSample`. The
retry needs `ConvictionSpeaks`: the one time stamp the code keeps speaks, for each
supervised job, of itself, of before its start, or of another holder. This gives
`RetriesExcused` for every interval and poll. `ConvictionsEnd`, `ConvictedFails` and
`WatchdogTypes` follow.

**`OrphanSweepProofs`.** `SweepInvariant`: at every phase, whoever is spared is in
what has been read of the exemption that covers it, or in doubt; for a loop over
directories, in what has been read so far (`PidsKept`, `ScopesKept`). From it `SweepTypes` and
`AccountedSpared`, for any number of claims, scopes and directories.

**`JobQueueProofs`.** `TypeCorrect` holds of `Spec` alone. The rest cannot: two races in
the files are real (§7), and after either of them a job may be in two directories, be
launched once more, or be written over. So the theorems say what holds as long as they
have not happened, and the hypotheses name them at the state in which they bite.
`CancelUndisturbed`: what `cancel()` is about to write back is still what `pending/` has.
`NothingSlipped`: no job was moved back to `pending/` between two looks of a submission
that looks for it. `QueueInvariant`: under the first, `QueueInv` holds. `DedupeBetweenLooks`
and `OneState` are not inductive. What is needed is, of the runner, what it has in memory at
each step between a write and its rename (`RunnerOK`, `BegunOnDisk`); of a submission, that
where it has looked there is nothing (`IdLooks`, `KeyLooks`), which the lock keeps true
against other submissions (`LockHeld`); and of each job, unless it slipped, that its file
is in one directory and agrees with the runner (`FileOK`), that the file or the runner knows
its processes (`ProcsOK`), and that its launches are at most one more than the attempts
written down (`AttemptsOK`, `LaunchesOK`): a retry is charged in `running/` before the
rename grants it, so that a crash between the two costs an attempt and never gives one.
From it `KeysStayUnique` and `NeverClobbers` under the first hypothesis, and under both
`OneStateHolds`, `LaunchesBounded`, `PendingJobsIdle`, `SupervisedRecorded`, `FinalStays`
and `ImplementsLife`, which maps each step to a step of `JobLife` or a stutter.
`OtherJobsSafe` needs only the first: a slip harms the job it is about, and every other
one keeps all of this but the two properties of steps.
`QuietQueue` discharges the hypotheses: where nobody cancels and no id or key is submitted
twice, all of these hold of `Spec` alone. The first is needed by what `queue_cancel_race`
shows, the second by what `slipped` excuses in `queue_dedupe`.

**`GpuLaneProofs`.** `TypeCorrect` and `ClaimsMatch` need that the job under way is a
pending or just claimed one that left the list (`CurIsJob`, `CurIsNew`). `FailedInARow`:
the strikes counted are those of the passes just before (`StrikesSeen`). `StraysAreNoticed`:
a cached verdict that the card is clear is at least as old as any stray has been there to
be noticed (`StraysOK`), so it ends before a stray is overdue; that strays are what they
should be rests on only running jobs having processes (`WorkOK`). `LaneUsesCard`: every
step of the runner, the users and a restart is one that `Card` allows, and
`LedgerImplementsCard` says that the record files provide just that; together they justify
that the lane is modelled over a book.

**`AutofixProofs`.** `WithinBudget` needs more than the runs so far: a run is authorised
at the debit and happens later, or after its sender died. `BudgetOK` bounds the number
of runs that the file has authorised and still knows of, happened, requested or under way
(`Authorised`), and says that a run which is not excused is in the file. `StampOK` ties
the stage of a filing to the file, and `AgesOK` says that a run leaves the day before it
leaves what the file keeps. The proof needs that a filing takes less than a day
(`AutofixAssumption`): after a longer one a run would start whose debit is
already out of the day. The code bounds every call of `gh` by 30 seconds
(`GH_TIMEOUT_S`). `SpendsOnRuns` comes with the same invariant. `OneIssue` is an
action property of `Create`: what the lookup found out is still so at the creation
(`NoneSeen`), because whatever has been filed since is `missed`: this box has one filing
under way, so it came from another one or from a request that was given up.

**Only model-checked.** Liveness (`AskerAdmitted`, `DeadRecordSwept`, `JobsSettle`,
`WaitReturns`, `OverUseEnds`, `OrphansEnd`, `NoHeadOfLine`, `EvidenceFiled`), since
fairness and `ENABLED` are beyond the prover; and the two violations, which are
counterexamples. Every invariant and action property that a passing run checks is also a
theorem, those of `JobQueue` under the hypotheses above. The inductive invariants were
checked with TLC on the instances of the runs before they were proved.

## 6. How to run

    tlc -workers 2 -config LedgerSafety.cfg MCLedger
    tlapm LedgerProofs.tla

`PROJECT.json` pairs each `.cfg` with its module. The longest runs are
`autofix`, `ledger_safety` and `orphan_sweep` (1.4 to 2 million states, two to four
minutes each), `watchdog_live`, `watchdog_safety` and `queue_dedupe`.

## 7. What the models showed

Two runs end in a counterexample to what a document or a comment says.

- `queue_cancel_race`. `cancel()` reads the spec in `pending/`, writes it there, and
  renames it (`queue.py:114`). If the runner claims the job between read and write,
  the write creates the file anew: the job is in two directories, and ends in
  `failed/` while it runs. `docs/design.md:102` says that a job is in exactly one
  state at any instant.
- `ledger_cli_latch`. `gpu-claim` asks for the capacity once and passes the answer in
  (`cli_claim.py:294`). `gpu_claim()` does not ask again for a caller who passed one in, an
  explicit `None` included, and says why (`claim.py:358`): only that caller knows its reserve
  and its card. `gpu-claim` does not ask again either, so when its one query failed, a
  declaration larger than the card is polled for with `--wait` for ever.
  `docs/design.md:216` says that it "is refused up front rather than waited on: `gpu-claim`
  exits 69 (unavailable) rather than 75 (try again later)".

Other gaps between what is said and what the code does are stated in properties that
hold, as the exceptions to them, so that the runs show that on their instances there are no
others:

- `DedupeBetweenLooks`, `SubmitNeverClobbers`. `submit()` lists `pending/`, then
  `running/` (`queue.py:68`), under a lock that `requeue` does not take. A job requeued in
  between is in neither list, and a second one with its key is queued, where
  `docs/design.md:129` says that this is a no-op; likewise an id submitted again can be
  written over. Both happen only to the submissions in `slipped`.
- `PendingIsIdle`. A runner that dies between `start_job` and the write of the pid
  (`runner.py:822`) leaves a process that no file names; the next runner requeues the
  job beside it, where `reaper.py:44` says "Requeue running jobs whose process is gone".
  These are the processes in `lost`, and no others.
- `BudgetPerDay`. An issue that GitHub creates although `gh` timed out
  starts a run that was refunded, where `refund_dispatch` speaks of "the path where we
  know nothing was authorised" (`bugfiler.py:271`). A budget file that cannot be read
  counts as empty.
- `OneOpenIssue`. A second issue for a fault is filed when the first is older than all that
  is listed (the code warns of that), when the listing is empty or no JSON, which counts as
  no rows (`bugfiler.py:151`), and when the first appears between the lookup and the
  creation, from another box with the same bug or from a call that had been given up. An
  issue of either kind may also itself be the second one.
- `SparesAccounted`. A trainer that no `ps` showed which was asked for its tree is killed
  (`procs.py:37`).
- `JobsSettle`, `WaitReturns`. A command that has outlived its runner and hangs keeps its
  job in `running/`, as `cli_gpuq.py:106` says: nothing enforces its timeout.

Seen while modelling, with no run of their own: `gpuq wait` may answer "no such job"
for a job that is requeued while it looks (`cli_gpuq.py:76`); the victim of an overage
is usually settled before the over-user is convicted, so that the excuse comes too late
(`runner.py:955`); a `claim_dir` that is not a string makes `claim_dir_setting` raise,
as its `Path()` is outside the `try` (`config.py:327`); a runner keeps the configuration
it started with, so after an edit of the file the agreement that `Policy` proves holds
again only from its restart on.

## 8. What is left out

- *Not modelled*: the kill log (nothing reads it back to decide), git subprocesses
  (success or failure is a choice), shell scripts and unit files (their restart policy
  is the fairness of `Restart`), text formatting and scrubbing, parsing of nvidia-smi and
  of command lines, the pin of a command to its card, projects and switches of the
  configuration. In `Autofix`: an owner who deletes labels or takes `throttled` off an
  issue, the workflow that runs the fixes, and what a recurrence writes.
- *Abstracted*: artifacts and worktrees, `clean_partials`, the wording of errors,
  the order of `pending/` in `JobQueue`, the length of timeouts, the pruning of the
  budget file after two days.
- *Assumed*: `rename(2)` is atomic and a listing of one directory is a snapshot;
  signals to processes of one's own user work; pids are reused only where `Ledger`
  says so.

## 9. Plan

1. A wait and a cancel in one safety run with crashes, stating what still holds there; a
   weaker form of `OneState` that also survives a disturbed cancel, with its proof.
2. What `OtherJobsSafe` says of slips, for cancels: that a disturbed cancel of one job
   leaves the others alone.
3. Lemmas that carry the liveness arguments as far as safety goes: what each fair step
   brings closer, as action properties.
