------------------------------ MODULE OrphanSweep ------------------------------
(***************************************************************************)
(* The sweep for orphaned CUDA processes: reaper.reap with kill_orphan_cuda *)
(* on, and what exempts a process from it: ledger.attribute over the       *)
(* configured claim directory, _running_trees over running/,               *)
(* preflight.own_pids and own_scopes over every directory a claim may be   *)
(* in.  Each of these is read at a moment of its own, while people take    *)
(* and release claims, processes come and go and containers restart.       *)
(*                                                                         *)
(* Each owner, a job or a gpu-claim, has a wrapper, whose pid its file or  *)
(* its record names, and one process at a time on the card, named after    *)
(* its owner.  The process is the wrapper's descendant while the wrapper   *)
(* lives; that of a --scope-pid claim runs in a container and never is.    *)
(* ps may fail for any tree at any time, which then looks empty; /proc     *)
(* answers, and a pid that is gone is not handed out again within a sweep. *)
(***************************************************************************)
EXTENDS Integers, Sequences, FiniteSets

CONSTANTS
    Jobs,
    Claims,      \* gpu-claims
    Scoped,      \* those with --scope-pid
    Foreign,     \* those of another user: neither signal nor unlink succeeds
    Dirs,        \* claim directories
    DirOf,       \* where each gpu-claim writes its record
    EnvDir,      \* the runner's $GPU_CLAIM_DIR
    DefaultDir,  \* DEFAULT_CLAIM_DIR
    ConfigDir,   \* [queue].claim_dir
    MaxCrashes   \* bounds the crashes of the runner

Owners == Jobs \cup Claims

ASSUME OwnersAssumption ==
    /\ Jobs \cap Claims = {}
    /\ Scoped \subseteq Claims /\ Foreign \subseteq Claims
    /\ DirOf \in [Claims -> Dirs]
    /\ {EnvDir, DefaultDir, ConfigDir} \subseteq Dirs
    /\ MaxCrashes \in Nat

VARIABLES
    \* the machine
    wrap,       \* the owners whose wrapper is alive
    card,       \* those whose process is on the card
    held,       \* the claims whose record is on disk
    anchored,   \* the scopes that still name the container they were taken for
    running,    \* the jobs whose file in running/ names their wrapper's pid
    \* the runner
    phase,
    mine,       \* the jobs it supervises; their records name its own pid
    launching,  \* the job whose process it has started and not yet recorded
    crashes,
    \* the sweep under way
    apps,       \* the processes nvidia-smi showed
    records,    \* live records of the configured directory
    protect,    \* _running_trees
    unledgered,
    at,         \* the next of all_claim_dirs() to read
    exempt,     \* own_pids
    scopes,     \* own_scopes
    victims,    \* the processes it is about to kill
    \* history
    spared,     \* the processes shown that were accounted for ever since
    doubt       \* those of them that ps has failed to show, each time it was asked
                \* for a tree they are in

machine == <<wrap, card, held, anchored, running>>
runner == <<phase, mine, launching, crashes>>
sweep == <<apps, records, protect, unledgered, at, exempt, scopes, victims>>
history == <<spared, doubt>>
vars == <<machine, runner, sweep, history>>

\* all_claim_dirs(): the reaper's own directory first, without duplicates.
all_claim_dirs ==
    IF EnvDir = DefaultDir THEN <<EnvDir>> ELSE <<EnvDir, DefaultDir>>

\* _swept_dirs: all_claim_dirs(extra) for the configured directory.
swept_dirs == {EnvDir, DefaultDir, ConfigDir}

\* live_records(all_records(d)): gpu-claims whose wrapper is alive.
live_claims(d) == {c \in held \cap wrap : DirOf[c] = d}

\* The owners whose process is under a wrapper: {usage_pid} | descendants(...).
Tree == wrap \ Scoped

\* scope_is_live: the anchor lives, in the cgroup that was recorded for it.
LiveScopes == Scoped \cap anchored

\* in_scope: a process is in the scope of its own container, and in no other.
in_scope(p, s) == p \in s

\* _resolve_scope: --scope-pid names a container of the moment.
Resolved(c) == {c} \cap Scoped

\* Accounted for: by the file of a job that runs, by a live record in a
\* directory the sweep knows, or by the scope of such a record.
Accounted ==
    (running \cap wrap)
    \cup {c \in held \cap wrap : DirOf[c] \in swept_dirs
                                 /\ (c \in Scoped => c \in LiveScopes)}

Init ==
    /\ wrap = {} /\ card = {} /\ held = {} /\ anchored = {} /\ running = {}
    /\ phase = "idle" /\ mine = {} /\ launching = {} /\ crashes = 0
    /\ apps = {} /\ records = {} /\ protect = {} /\ unledgered = {}
    /\ at = 1 /\ exempt = {} /\ scopes = {} /\ victims = {}
    /\ spared = {} /\ doubt = {}

-------------------------------------------------------------------------------
(***************************************************************************)
(* The machine.                                                            *)
(***************************************************************************)
Watched == spared' = spared \cap Accounted' /\ doubt' = doubt \cap spared'

\* gpu-claim writes its record, and runs its command under it.
TakeClaim(c) ==
    /\ c \notin wrap
    /\ c \in card => c \in Scoped
    /\ wrap' = wrap \cup {c} /\ held' = held \cup {c}
    /\ anchored' = anchored \cup Resolved(c)
    /\ UNCHANGED <<card, running, runner, sweep>>
    /\ Watched

\* The command of a gpu-claim has ended; something it started may have not.
ReleaseClaim(c) ==
    /\ c \in wrap \cap held
    /\ wrap' = wrap \ {c} /\ held' = held \ {c}
    /\ UNCHANGED <<card, anchored, running, runner, sweep>>
    /\ Watched

\* A wrapper exits or is killed, and leaves its file or record behind.
WrapperDies(o) ==
    /\ o \in wrap
    /\ wrap' = wrap \ {o}
    /\ UNCHANGED <<card, held, anchored, running, runner, sweep>>
    /\ Watched

\* A process opens the card.  One in a container needs no wrapper for that.
Work(o) ==
    /\ o \in wrap \cup Scoped
    /\ card' = card \cup {o}
    /\ UNCHANGED <<wrap, held, anchored, running, runner, sweep, history>>

Gone(p) ==
    /\ card' = card \ {p}
    /\ apps' = apps \ {p} /\ unledgered' = unledgered \ {p}
    /\ victims' = victims \ {p}
    /\ spared' = spared \ {p} /\ doubt' = doubt \ {p}
    /\ UNCHANGED <<records, protect, at, exempt, scopes>>

\* A process exits, of itself or on SIGTERM.
Leave(p) ==
    /\ p \in card
    /\ Gone(p)
    /\ UNCHANGED <<wrap, held, anchored, running, runner>>

\* A container restarts: its processes are gone, and its scope has a new id.
Recreate(c) ==
    /\ c \in Scoped
    /\ anchored' = anchored \ {c}
    /\ Gone(c)
    /\ UNCHANGED <<wrap, held, running, runner>>

-------------------------------------------------------------------------------
(***************************************************************************)
(* The rest of a tick.                                                     *)
(***************************************************************************)

\* _launch starts the command and then records its pid.
LaunchStart(j) ==
    /\ phase = "idle" /\ launching = {}
    /\ j \notin running \cup wrap \cup card
    /\ wrap' = wrap \cup {j} /\ launching' = {j}
    /\ UNCHANGED <<card, held, anchored, running, phase, mine, crashes, sweep, history>>

LaunchRecord ==
    /\ phase = "idle" /\ launching # {}
    /\ running' = running \cup launching /\ mine' = mine \cup launching
    /\ launching' = {}
    /\ UNCHANGED <<wrap, card, held, anchored, phase, crashes, sweep, history>>

\* collect: the command has ended and the job leaves running/.
Collect(j) ==
    /\ phase = "idle" /\ launching = {}
    /\ j \in mine \ wrap
    /\ running' = running \ {j} /\ mine' = mine \ {j}
    /\ UNCHANGED <<wrap, card, held, anchored, phase, launching, crashes, sweep, history>>

\* The runner dies and is started again; its jobs go on.
Crash ==
    /\ crashes < MaxCrashes
    /\ crashes' = crashes + 1
    /\ phase' = "idle" /\ mine' = {} /\ launching' = {}
    /\ apps' = {} /\ records' = {} /\ protect' = {} /\ unledgered' = {}
    /\ at' = 1 /\ exempt' = {} /\ scopes' = {} /\ victims' = {}
    /\ spared' = {} /\ doubt' = {}
    /\ UNCHANGED machine

-------------------------------------------------------------------------------
(***************************************************************************)
(* reap().                                                                 *)
(***************************************************************************)
\* sweep_stale over every directory; EPERM leaves another user's record.
SweepStale ==
    /\ phase = "idle" /\ launching = {}
    /\ held' = {c \in held : \/ c \in wrap \cup Foreign
                             \/ DirOf[c] \notin swept_dirs}
    /\ phase' = "requeue"
    /\ UNCHANGED <<wrap, card, anchored, running, mine, launching, crashes, sweep, history>>

\* Mutant: the runner's own jobs are not left alone.
RequeueOrphans_Own ==
    /\ phase = "requeue"
    /\ running' = running \cap wrap
    /\ phase' = "look"
    /\ UNCHANGED <<wrap, card, held, anchored, mine, launching, crashes, sweep, history>>

\* requeue_orphans.
RequeueOrphans ==
    /\ phase = "requeue"
    /\ running' = running \cap (mine \cup wrap)
    /\ phase' = "look"
    /\ UNCHANGED <<wrap, card, held, anchored, mine, launching, crashes, sweep, history>>

\* The timer is not due, or nvidia-smi cannot be read.
NoSweep ==
    /\ phase = "look"
    /\ phase' = "idle"
    /\ UNCHANGED <<machine, mine, launching, crashes, sweep, history>>

\* compute_apps
Look ==
    /\ phase = "look"
    /\ apps' = card
    /\ spared' = card \cap Accounted /\ doubt' = {}
    /\ phase' = "records"
    /\ UNCHANGED <<machine, mine, launching, crashes, records, protect, unledgered,
                   at, exempt, scopes, victims>>

\* records: what the configured directory says.
ReadRecords ==
    /\ phase = "records"
    /\ records' = live_claims(ConfigDir) \cup mine
    /\ phase' = "trees"
    /\ UNCHANGED <<machine, mine, launching, crashes, apps, protect, unledgered,
                   at, exempt, scopes, victims, history>>

\* descendants(): what ps shows of the trees in S.  It may fail or take too long
\* for any of them, which matters for one that has a process on the card.
Shown(S) ==
    {S \ failed : failed \in SUBSET (S \cap (apps \cup unledgered))}

\* Those that one of the readings so far has covered.
Covered ==
    protect \cup exempt \cup {p \in Owners : phase = "pids" /\ p \notin unledgered}

\* Of the trees in S, those in `shown' were shown.
Asked(S, shown) ==
    /\ doubt' = ((doubt \cup (S \ Covered)) \ shown) \cap spared
    /\ UNCHANGED spared

\* _running_trees: the descendants of every pid in running/.
RunningTrees == running \cap Tree

ReadTrees ==
    /\ phase = "trees"
    /\ \E shown \in Shown(RunningTrees) :
        protect' = shown /\ Asked(RunningTrees, shown)
    /\ phase' = "attribute"
    /\ UNCHANGED <<machine, mine, launching, crashes, apps, records, unledgered,
                   at, exempt, scopes, victims>>

\* attribute: no record's tree and no record's scope has it.  What was read for
\* it is not looked at again.
Attribute ==
    /\ phase = "attribute"
    /\ \E shown \in Shown(records \cap Tree) :
        /\ unledgered' = {p \in apps \ shown : ~in_scope(p, records \cap LiveScopes)}
        /\ Asked(records \cap Tree, shown)
    /\ apps' = {} /\ records' = {}
    /\ phase' = "pids"
    /\ UNCHANGED <<machine, mine, launching, crashes, protect, at, exempt, scopes,
                   victims>>

\* The next directory of all_claim_dirs(), or on to phase ph after the last.
Advance(ph) ==
    IF at < Len(all_claim_dirs)
    THEN at' = at + 1 /\ UNCHANGED phase
    ELSE at' = 1 /\ phase' = ph

\* Mutant: the reaper's own directory for every one of them.
OwnPids_OwnDirOnly(d) ==
    (live_claims(EnvDir) \ Scoped)
    \cup (IF d \in {EnvDir, ConfigDir} THEN mine \cap Tree ELSE {})

\* own_pids: the processes under the records of directory d; and, once, the
\* runner's own descendants, which the records of its jobs lead to as well.
OwnPids(d) ==
    (live_claims(d) \ Scoped)
    \cup (IF d \in {EnvDir, ConfigDir} THEN mine \cap Tree ELSE {})

ReadPids ==
    /\ phase = "pids"
    /\ LET own == OwnPids(all_claim_dirs[at])
       IN  \E shown \in Shown(own) : exempt' = exempt \cup shown /\ Asked(own, shown)
    /\ Advance("scopes")
    /\ UNCHANGED <<machine, mine, launching, crashes, apps, records, protect,
                   unledgered, scopes, victims>>

\* own_scopes: the scopes of directory d that still hold.
OwnScopes(d) == live_claims(d) \cap LiveScopes

ReadScopes ==
    /\ phase = "scopes"
    /\ scopes' = scopes \cup OwnScopes(all_claim_dirs[at])
    /\ Advance("term")
    /\ UNCHANGED <<machine, mine, launching, crashes, apps, records, protect,
                   unledgered, exempt, victims, history>>

\* SIGTERM to every victim.
Term ==
    /\ phase = "term"
    /\ victims' = {p \in unledgered \ (protect \cup exempt) :
                      ~in_scope(p, scopes)}
    /\ phase' = "kill"
    /\ protect' = {} /\ unledgered' = {} /\ exempt' = {} /\ scopes' = {}
    /\ UNCHANGED <<machine, mine, launching, crashes, apps, records, at, history>>

\* Mutant: no second rung.
Survivors_Spared == {}

\* Those that did not exit within ORPHAN_TERM_GRACE_S; another user's was not
\* signalled, and is not pursued.
Survivors == victims \ Foreign

\* SIGKILL, and the end of the sweep.
Kill ==
    /\ phase = "kill"
    /\ card' = card \ Survivors
    /\ phase' = "idle"
    /\ apps' = {} /\ records' = {} /\ protect' = {} /\ unledgered' = {}
    /\ at' = 1 /\ exempt' = {} /\ scopes' = {} /\ victims' = {}
    /\ spared' = {} /\ doubt' = {}
    /\ UNCHANGED <<wrap, held, anchored, running, mine, launching, crashes>>

SweepNext ==
    \/ SweepStale \/ RequeueOrphans \/ NoSweep \/ Look
    \/ ReadRecords \/ ReadTrees \/ Attribute \/ ReadPids \/ ReadScopes
    \/ Term \/ Kill

Next ==
    \/ \E c \in Claims : TakeClaim(c) \/ ReleaseClaim(c)
    \/ \E o \in Owners : WrapperDies(o) \/ Work(o) \/ Leave(o) \/ Recreate(o)
    \/ \E j \in Jobs : LaunchStart(j) \/ Collect(j)
    \/ LaunchRecord
    \/ Crash
    \/ SweepNext

Spec == Init /\ [][Next]_vars

\* The runner keeps ticking.
FairSpec == Spec /\ WF_vars(LaunchRecord \/ SweepNext)

-------------------------------------------------------------------------------
\* The type invariant of the sweep.
TypeOK ==
    /\ wrap \subseteq Owners /\ card \subseteq Owners
    /\ held \subseteq Claims /\ anchored \subseteq Scoped
    /\ mine \subseteq running /\ running \subseteq Jobs
    /\ phase \in {"idle", "requeue", "look", "records", "trees", "attribute",
                  "pids", "scopes", "term", "kill"}
    /\ launching \subseteq Jobs
    /\ crashes \in 0 .. MaxCrashes
    /\ apps \subseteq card /\ unledgered \subseteq card
    /\ records \subseteq Owners /\ protect \subseteq Jobs
    /\ at \in 1 .. Len(all_claim_dirs)
    /\ exempt \subseteq Owners /\ scopes \subseteq Scoped
    /\ victims \subseteq card /\ spared \subseteq card /\ doubt \subseteq spared

\* reaper.py: the exemptions are "the only thing standing between a direct
\* gpu-claim user's trainer and SIGKILL".  A process that a running job, a live
\* record in any swept directory or its scope accounted for from the nvidia-smi
\* sample on is not a victim, in whichever order the exemptions were read and
\* whoever supervises it, unless ps failed for it in every reading that asked for
\* its tree (descendants() then takes it for a pid without children): one that
\* showed it is enough.
SparesAccounted == victims \cap spared \subseteq doubt

\* What the sweep has read so far keeps everyone who is spared from its victims:
\* the parts of the inductive invariant.
SparedStill == spared \subseteq Accounted

RecordsKept ==
    phase \in {"trees", "attribute"} =>
        \A p \in spared \cap Claims : DirOf[p] = ConfigDir => p \in records

\* Covered by one of the readings, or missed by each that asked.
Settled(p) ==
    \/ p \in protect \cup exempt \cup doubt
    \/ phase \in {"pids", "scopes", "term"} /\ p \notin unledgered

TreesKept ==
    phase \in {"attribute", "pids", "scopes", "term"} =>
        \A p \in spared \cap Jobs : Settled(p)

LedgerKept ==
    phase \in {"pids", "scopes", "term"} =>
        \A p \in spared \cap Claims : DirOf[p] = ConfigDir => Settled(p)

\* Has the loop of phase ph over all_claim_dirs() read directory i?
HasRead(ph, i) == phase = ph => i < at

PidsKept ==
    phase \in {"pids", "scopes", "term"} =>
        \A p \in spared \cap (Claims \ Scoped), i \in 1 .. Len(all_claim_dirs) :
            DirOf[p] = all_claim_dirs[i] /\ HasRead("pids", i) => Settled(p)

ScopesKept ==
    phase \in {"scopes", "term"} =>
        \A p \in spared \cap Scoped, i \in 1 .. Len(all_claim_dirs) :
            DirOf[p] = all_claim_dirs[i] /\ HasRead("scopes", i) => p \in scopes

AtTheStart ==
    /\ phase \notin {"pids", "scopes"} => at = 1
    /\ phase \notin {"attribute", "pids", "scopes", "term"} => protect = {}

NoVictimYet == phase # "kill" => victims = {}

\* The inductive invariant of the sweep: of each exemption, whoever is spared is
\* in what has been read of it or in doubt, and the last one is read before anyone is
\* chosen (reap, kill_orphan_cuda).
SweepInv ==
    /\ TypeOK
    /\ SparedStill /\ RecordsKept /\ TreesKept /\ LedgerKept
    /\ PidsKept /\ ScopesKept /\ AtTheStart /\ NoVictimYet
    /\ SparesAccounted

\* A process of this user that nothing accounts for does not hold the card for
\* ever, while the sweep comes round and nvidia-smi can be read
\* (kill_orphan_cuda).
OrphansEnd ==
    []<>(phase = "records") =>
        \A p \in Owners \ Foreign : ~ <>[](p \in card \ Accounted)
===============================================================================
