------------------------------- MODULE GpuLane --------------------------------
(***************************************************************************)
(* The GPU lane of the runner on a card it shares: Runner.admit with       *)
(* _ready_card, _preflight_cached, _card_key_cached, _usable_mb,           *)
(* _take_card and _launch (runner.py), preflight.py and gpuid.py.          *)
(*                                                                         *)
(* The claim protocol is the book of module Card, which Ledger implements: *)
(* the runner's jobs and the gpu-claims of users are entered in the one    *)
(* book.  The files of the queue are module JobQueue's; here a job has a   *)
(* state and a number of attempts, and a user may cancel it while it is    *)
(* pending.                                                                *)
(*                                                                         *)
(* A process on the card that no record accounts for is a stray: one that  *)
(* somebody started without a claim, or the command of a job that survived *)
(* its runner, whose record died with it.                                  *)
(***************************************************************************)
EXTENDS Fits, Sequences

CONSTANTS
    Jobs,          \* the jobs of the gpu lane
    Users,         \* hand-run gpu-claims
    Strangers,     \* processes on the card without a claim
    Wants,         \* the vram_mb that jobs and users may have, as functions
    Rank,          \* the order of submission: (submitted_at, id)
    UsableMB,      \* the card's capacity minus the reserve
    TTL,           \* PREFLIGHT_TTL_S, in steps of the clock
    GPUID_STRIKES,
    MAX_ATTEMPTS,
    MaxCrashes     \* bounds the crashes and shutdowns of a run

ASSUME LaneAssumption ==
    /\ IsFiniteSet(Jobs) /\ IsFiniteSet(Users)
    /\ Rank \in [Jobs -> Nat]
    /\ \A i, j \in Jobs : Rank[i] = Rank[j] => i = j
    /\ Wants \subseteq [Jobs \cup Users -> Int \cup {None}]
    /\ Jobs \cap Users = {} /\ Jobs \cap Strangers = {}
    /\ UsableMB \in Nat \ {0}
    /\ MaxHolders \in Nat
    /\ TTL \in Nat \ {0}
    /\ GPUID_STRIKES \in Nat \ {0}
    /\ MAX_ATTEMPTS \in Nat /\ MaxCrashes \in Nat
    /\ None \notin Jobs

VARIABLES
    \* the card and those who share it
    book,       \* who is on the card and what each declared (Card)
    old,        \* does a gpu-claim from before the ledger hold the flock?
    answering,  \* does nvidia-smi answer?
    strangers,  \* the strangers on the card
    \* the queue
    want,       \* what is declared, as it is on disk: hand-edits included
    state, attempts,
    proc,       \* the process of a job: none, started, or with a CUDA context
    \* the runner
    phase,      \* where it is in its tick
    todo,       \* the jobs the loop under way still has to visit
    cur,        \* the job that has been given the card and is not yet active
    active,     \* the jobs it supervises
    usable,     \* _usable_mb_cache, None while there is no answer worth caching
    key,        \* is _card_key cached?
    strikes,    \* _gpuid_strikes, up to GPUID_STRIKES
    lookAge,    \* the age of the preflight verdict; TTL if expired or none
    lookClear,  \* the verdict: was the card clear?
    crashes,
    \* history
    unseen,     \* per stray: for how long the runner could have noticed it
    hist        \* the last GPUID_STRIKES passes: did gpu_key() fail?

card == <<book, old, answering, strangers>>
queue == <<want, state, attempts, proc>>
cache == <<usable, key, strikes, lookAge, lookClear>>
runner == <<phase, todo, cur, active, cache, crashes>>
history == <<unseen, hist>>
vars == <<card, queue, runner, history>>

Participants == Jobs \cup Users

Ledger == INSTANCE Card WITH
              Declarations <- UNION {{w[c] : c \in Participants} : w \in Wants}

\* What preflight reports: on the card, and no live record accounts for it.
Strays == strangers \cup {j \in Jobs : proc[j] = "cuda" /\ j \notin DOMAIN book}

Pending == {j \in Jobs : state[j] = "pending"}

\* _capacity("gpu")
Capacity == MaxHolders - Cardinality(active)

Init ==
    /\ book = [c \in {} |-> None] /\ old = FALSE
    /\ answering \in BOOLEAN /\ strangers = {}
    /\ want \in Wants
    /\ state = [j \in Jobs |-> "absent"]
    /\ attempts = [j \in Jobs |-> 0]
    /\ proc = [j \in Jobs |-> "none"]
    /\ phase = "reap" /\ todo = {} /\ cur = None /\ active = {}
    /\ usable = None /\ key = FALSE /\ strikes = 0
    /\ lookAge = TTL /\ lookClear = FALSE
    /\ crashes = 0
    /\ unseen = [x \in Jobs \cup Strangers |-> 0]
    /\ hist = [i \in 1 .. GPUID_STRIKES |-> FALSE]

-------------------------------------------------------------------------------
(***************************************************************************)
(* The users and the machine.                                              *)
(***************************************************************************)
Submit(j) ==
    /\ state[j] = "absent"
    /\ state' = [state EXCEPT ![j] = "pending"]
    /\ UNCHANGED <<card, want, attempts, proc, runner, history>>

Cancel(j) ==
    /\ state[j] = "pending"
    /\ state' = [state EXCEPT ![j] = "failed"]
    /\ UNCHANGED <<card, want, attempts, proc, runner, history>>

\* A gpu-claim is admitted, having learnt the capacity of the card or not.
\* With --no-preflight it does not mind strays.
UserTakes(u) ==
    /\ ~old /\ Ledger!Declarable(want[u])
    /\ \E usable_mb \in {UsableMB, None} : Ledger!Enter(u, want[u], usable_mb)
    /\ UNCHANGED <<old, answering, strangers, queue, runner, history>>

UserLeaves(u) ==
    /\ u \in DOMAIN book
    /\ Ledger!Depart({u})
    /\ UNCHANGED <<old, answering, strangers, queue, runner, history>>

\* A gpu-claim from before the ledger takes or drops the flock.
OldClaim ==
    /\ old' = ~old
    /\ UNCHANGED <<book, answering, strangers, queue, runner, history>>

StrangerArrives(x) ==
    /\ x \notin strangers
    /\ strangers' = strangers \cup {x}
    /\ UNCHANGED <<book, old, answering, queue, runner, history>>

\* It ends, by itself or by the orphan sweep.
StrangerLeaves(x) ==
    /\ x \in strangers
    /\ strangers' = strangers \ {x}
    /\ unseen' = [unseen EXCEPT ![x] = 0]
    /\ UNCHANGED <<book, old, answering, queue, runner, hist>>

\* The command of a job opens the card, ...
Work(j) ==
    /\ proc[j] = "started"
    /\ proc' = [proc EXCEPT ![j] = "cuda"]
    /\ UNCHANGED <<card, want, state, attempts, runner, history>>

\* ... and ends.
ProcEnds(j) ==
    /\ proc[j] # "none"
    /\ proc' = [proc EXCEPT ![j] = "none"]
    /\ unseen' = [unseen EXCEPT ![j] = 0]
    /\ UNCHANGED <<card, want, state, attempts, runner, hist>>

\* nvidia-smi starts or stops answering.
Flap ==
    /\ answering' = ~answering
    /\ UNCHANGED <<book, old, strangers, queue, runner, history>>

Older(age) == IF age < TTL THEN age + 1 ELSE TTL

\* Time passes, within a pass as well as between two.
Clock ==
    /\ lookAge' = Older(lookAge)
    /\ unseen' = [x \in DOMAIN unseen |->
                    IF x \in Strays THEN Older(unseen[x]) ELSE 0]
    /\ <<lookAge, unseen>>' # <<lookAge, unseen>>
    /\ UNCHANGED <<card, queue, phase, todo, cur, active, usable, key, strikes,
                   lookClear, crashes, hist>>

-------------------------------------------------------------------------------
(***************************************************************************)
(* The tick up to admit().                                                 *)
(***************************************************************************)

\* requeue_orphans: what nobody supervises and no process stands for is retried
\* once and then failed.
Reap ==
    LET orphans == {j \in Jobs : /\ state[j] = "running"
                                 /\ j \notin active /\ proc[j] = "none"}
        again == {j \in orphans : attempts[j] < MAX_ATTEMPTS}
    IN  /\ phase = "reap"
        /\ state' = [j \in Jobs |-> IF j \in again THEN "pending"
                                    ELSE IF j \in orphans THEN "failed"
                                    ELSE state[j]]
        /\ attempts' = [j \in Jobs |-> attempts[j] + IF j \in again THEN 1 ELSE 0]
        /\ phase' = "collect" /\ todo' = active
        /\ UNCHANGED <<card, want, proc, cur, active, cache, crashes, history>>

\* collect: the job still runs.
CollectRunning(j) ==
    /\ phase = "collect" /\ j \in todo
    /\ proc[j] # "none"
    /\ todo' = todo \ {j}
    /\ UNCHANGED <<card, queue, phase, cur, active, cache, crashes, history>>

\* collect and _settle: it has ended; the card is freed and the job finished.
CollectEnded(j) ==
    /\ phase = "collect" /\ j \in todo
    /\ proc[j] = "none"
    /\ Ledger!Depart({j})
    /\ \E how \in {"done", "failed"} : state' = [state EXCEPT ![j] = how]
    /\ active' = active \ {j}
    /\ todo' = todo \ {j}
    /\ UNCHANGED <<old, answering, strangers, want, attempts, proc, phase, cur, cache,
                   crashes, history>>

\* The pass is over for the GPU lane; the runner sleeps and starts over.
PassEnds == phase' = "reap" /\ todo' = {} /\ cur' = None

\* The pass saw (or did not see) a GpuIdError.
Recorded(failed) ==
    hist' = [i \in 1 .. GPUID_STRIKES |-> IF i = 1 THEN failed ELSE hist[i - 1]]

\* Mutant: strikes are not aged out by a pass that does not ask.
NoStrike_Frozen == UNCHANGED strikes /\ Recorded(FALSE)

\* Every pass without a GpuIdError resets the count, also one that never asked.
NoStrike == strikes' = 0 /\ Recorded(FALSE)

\* admit(): list the pending jobs; the card is only looked at if one of them
\* could be started.
AdmitBegins ==
    /\ phase = "collect" /\ todo = {}
    /\ IF Pending # {} /\ Capacity > 0
       THEN /\ phase' = "preflight" /\ todo' = Pending
            /\ UNCHANGED <<cur, strikes, hist>>
       ELSE PassEnds /\ NoStrike
    /\ UNCHANGED <<card, queue, active, usable, key, lookAge, lookClear, crashes,
                   unseen>>

-------------------------------------------------------------------------------
(***************************************************************************)
(* _ready_card: is the card usable, and which card is it?                  *)
(***************************************************************************)
Verdict(clear) ==
    IF clear
    THEN phase' = "identify" /\ UNCHANGED <<todo, cur, strikes, hist>>
    ELSE PassEnds /\ NoStrike

\* Mutant: a verdict is kept for good.
PreflightCached_ForGood ==
    /\ phase = "preflight"
    /\ lookAge < TTL \/ lookClear
    /\ Verdict(lookClear)
    /\ UNCHANGED <<card, queue, active, usable, key, lookAge, lookClear, crashes,
                   unseen>>

\* _preflight_cached: a verdict younger than its time to live is used again.
PreflightCached ==
    /\ phase = "preflight"
    /\ lookAge < TTL
    /\ Verdict(lookClear)
    /\ UNCHANGED <<card, queue, active, usable, key, lookAge, lookClear, crashes,
                   unseen>>

\* preflight: look for strays.  Without an answer from nvidia-smi there is
\* nothing to see, and the card passes on the lock alone.
PreflightLooks ==
    LET clear == ~answering \/ Strays = {}
    IN  /\ phase = "preflight"
        /\ lookAge = TTL
        /\ lookAge' = 0 /\ lookClear' = clear
        /\ unseen' = IF answering THEN unseen ELSE [x \in DOMAIN unseen |-> 0]
        /\ Verdict(clear)
        /\ UNCHANGED <<card, queue, active, usable, key, crashes>>

\* _card_key_cached: identified before, or now.
Identified ==
    /\ phase = "identify"
    /\ key \/ answering
    /\ key' = TRUE
    /\ NoStrike
    /\ phase' = "loop"
    /\ UNCHANGED <<card, queue, todo, cur, active, usable, lookAge, lookClear,
                   crashes, unseen>>

\* GpuIdError: defer the pass, or fail what is pending when the last
\* GPUID_STRIKES passes agree.
Unidentified ==
    /\ phase = "identify"
    /\ ~key /\ ~answering
    /\ strikes' = IF strikes < GPUID_STRIKES THEN strikes + 1 ELSE strikes
    /\ Recorded(TRUE)
    /\ IF strikes' < GPUID_STRIKES
       THEN PassEnds
       ELSE phase' = "nogpu" /\ UNCHANGED <<todo, cur>>
    /\ UNCHANGED <<card, queue, active, usable, key, lookAge, lookClear, crashes,
                   unseen>>

-------------------------------------------------------------------------------
(***************************************************************************)
(* The loop over the pending jobs, oldest first.                           *)
(***************************************************************************)
Visiting(ph, j) ==
    /\ phase = ph
    /\ j \in todo /\ \A i \in todo : Rank[j] <= Rank[i]

\* The visit to j is over.
Visited(j) == todo' = todo \ {j} /\ cur' = None

\* _fail_pending: unless it was cancelled since.
FailPending(j) ==
    /\ state' = [state EXCEPT ![j] = IF @ = "pending" THEN "failed" ELSE @]
    /\ Visited(j)

FailNoGpu(j) ==
    /\ Visiting("nogpu", j)
    /\ FailPending(j)
    /\ UNCHANGED <<card, want, attempts, proc, phase, active, cache, crashes, history>>

\* _usable_mb: an answer is cached, a failure is not.
usable_mb == IF usable = None /\ answering THEN UsableMB ELSE usable

\* _take_card, which also asks for the capacity of the card.
TakeCard(j) ==
    /\ Visiting("loop", j) /\ Capacity > 0
    /\ usable' = usable_mb

\* A declaration that the card can never take, or that gpu_claim refuses.
TakeFails(j) ==
    /\ TakeCard(j)
    /\ exceeds_capacity(want[j], usable') \/ ~Ledger!Declarable(want[j])
    /\ FailPending(j)
    /\ UNCHANGED <<card, want, attempts, proc, phase, active, key, strikes, lookAge,
                   lookClear, crashes, history>>

\* Mutant: a hand-edited declaration is not validated.
Claimable_AnyValue(j) == TakeCard(j) /\ ~exceeds_capacity(want[j], usable')

Claimable(j) ==
    /\ TakeCard(j)
    /\ ~exceeds_capacity(want[j], usable') /\ Ledger!Declarable(want[j])

\* MutexTimeout or CardClosed: nobody else gets in during this pass.
TakeEndsPass(j) ==
    /\ Claimable(j)
    /\ old \/ card_is_closed(DOMAIN book, book, usable')
    /\ PassEnds
    /\ UNCHANGED <<card, queue, active, key, strikes, lookAge, lookClear, crashes,
                   history>>

\* Mutant: a job that does not fit ends the pass.
TakeBusy_EndsPass(j) ==
    /\ Claimable(j)
    /\ ~old /\ ~card_is_closed(DOMAIN book, book, usable')
    /\ ~fits(DOMAIN book, book, want[j], usable')
    /\ PassEnds
    /\ UNCHANGED <<card, queue, active, key, strikes, lookAge, lookClear, crashes,
                   history>>

\* ClaimBusy: the job stays pending and the next one is tried.
TakeBusy(j) ==
    /\ Claimable(j)
    /\ ~old /\ ~card_is_closed(DOMAIN book, book, usable')
    /\ ~fits(DOMAIN book, book, want[j], usable')
    /\ Visited(j)
    /\ UNCHANGED <<card, queue, phase, active, key, strikes, lookAge, lookClear,
                   crashes, history>>

\* The card is taken, before the job is.
Taken(j) ==
    /\ Claimable(j)
    /\ ~old
    /\ Ledger!Enter(j, want[j], usable')
    /\ phase' = "claim" /\ cur' = j /\ todo' = todo \ {j}
    /\ UNCHANGED <<old, answering, strangers, queue, active, key, strikes, lookAge,
                   lookClear, crashes, history>>

ClaimJob ==
    /\ phase = "claim" /\ state[cur] = "pending"
    /\ state' = [state EXCEPT ![cur] = "running"]
    /\ phase' = "launch"
    /\ UNCHANGED <<card, want, attempts, proc, todo, cur, active, cache, crashes,
                   history>>

\* Mutant: the claim is kept.
ClaimLost_Kept ==
    /\ phase = "claim" /\ state[cur] # "pending"
    /\ phase' = "loop" /\ cur' = None
    /\ UNCHANGED <<card, queue, todo, active, cache, crashes, history>>

\* It was cancelled in the meantime: the card is given back.
ClaimLost ==
    /\ phase = "claim" /\ state[cur] # "pending"
    /\ Ledger!Depart({cur})
    /\ phase' = "loop" /\ cur' = None
    /\ UNCHANGED <<old, answering, strangers, queue, todo, active, cache, crashes,
                   history>>

\* _launch: the checkout or the start failed.
LaunchFails ==
    /\ phase = "launch"
    /\ Ledger!Depart({cur})
    /\ state' = [state EXCEPT ![cur] = "failed"]
    /\ phase' = "loop" /\ cur' = None
    /\ UNCHANGED <<old, answering, strangers, want, attempts, proc, todo, active, cache,
                   crashes, history>>

\* _launch: the command runs, supervised and charged to its record.
Launch ==
    /\ phase = "launch"
    /\ proc' = [proc EXCEPT ![cur] = "started"]
    /\ active' = active \cup {cur}
    /\ phase' = "loop" /\ cur' = None
    /\ UNCHANGED <<card, want, state, attempts, todo, cache, crashes, history>>

\* The pass is over when all were visited, or the lane is full: within a pass
\* nothing leaves it, and the rest is skipped.
LoopEnds ==
    /\ phase \in {"loop", "nogpu"}
    /\ todo # {} => Capacity <= 0
    /\ PassEnds
    /\ UNCHANGED <<card, queue, active, cache, crashes, history>>

-------------------------------------------------------------------------------
\* A new runner knows nothing, and no record of the old one is live.
Restarted ==
    /\ crashes < MaxCrashes /\ crashes' = crashes + 1
    /\ Ledger!Depart(Jobs \cap DOMAIN book)
    /\ PassEnds
    /\ active' = {}
    /\ usable' = None /\ key' = FALSE /\ strikes' = 0
    /\ lookAge' = TTL /\ lookClear' = FALSE
    /\ hist' = [i \in 1 .. GPUID_STRIKES |-> FALSE]
    /\ UNCHANGED <<old, answering, strangers, want, state, attempts>>

\* The runner dies at any step, and its jobs go on without it.  What is on the
\* card now, the next runner can see from its first look on.
Crash ==
    /\ Restarted
    /\ unseen' = [x \in DOMAIN unseen |->
                    IF x \in Strays \/ (x \in Jobs /\ proc[x] = "cuda")
                    THEN TTL ELSE 0]
    /\ UNCHANGED proc

\* shutdown(): what it supervises is killed and left to the next runner.
Shutdown ==
    /\ phase = "reap"
    /\ Restarted
    /\ proc' = [j \in Jobs |-> IF j \in active THEN "none" ELSE proc[j]]
    /\ unseen' = [x \in DOMAIN unseen |-> IF x \in Strays THEN TTL ELSE 0]

RunnerNext ==
    \/ Reap \/ AdmitBegins \/ PreflightCached \/ PreflightLooks
    \/ Identified \/ Unidentified
    \/ ClaimJob \/ ClaimLost \/ LaunchFails \/ Launch \/ LoopEnds
    \/ \E j \in Jobs :
        \/ CollectRunning(j) \/ CollectEnded(j)
        \/ FailNoGpu(j) \/ TakeFails(j) \/ TakeEndsPass(j) \/ TakeBusy(j) \/ Taken(j)

Next ==
    \/ RunnerNext
    \/ \E j \in Jobs : Submit(j) \/ Cancel(j) \/ Work(j) \/ ProcEnds(j)
    \/ \E u \in Users : UserTakes(u) \/ UserLeaves(u)
    \/ \E x \in Strangers : StrangerArrives(x) \/ StrangerLeaves(x)
    \/ OldClaim \/ Flap \/ Clock \/ Crash \/ Shutdown

Spec == Init /\ [][Next]_vars

\* The runner's loop goes on, and so does time.
Fairness == WF_vars(RunnerNext) /\ WF_vars(Clock)

FairSpec == Spec /\ Fairness

-------------------------------------------------------------------------------
\* The type invariant of the lane.
TypeOK ==
    /\ DOMAIN book \subseteq Participants
    /\ \A c \in DOMAIN book : book[c] = want[c] /\ Ledger!Declarable(book[c])
    /\ want \in Wants
    /\ old \in BOOLEAN /\ answering \in BOOLEAN
    /\ strangers \subseteq Strangers
    /\ state \in [Jobs -> {"absent", "pending", "running", "done", "failed"}]
    /\ attempts \in [Jobs -> 0 .. MAX_ATTEMPTS]
    /\ proc \in [Jobs -> {"none", "started", "cuda"}]
    /\ phase \in {"reap", "collect", "preflight", "identify", "nogpu", "loop",
                  "claim", "launch"}
    /\ todo \subseteq Jobs /\ active \subseteq Jobs
    /\ cur \in Jobs \cup {None}
    /\ usable \in {UsableMB, None}
    /\ key \in BOOLEAN
    /\ strikes \in 0 .. GPUID_STRIKES
    /\ lookAge \in 0 .. TTL /\ lookClear \in BOOLEAN
    /\ crashes \in 0 .. MaxCrashes
    /\ unseen \in [Jobs \cup Strangers -> 0 .. TTL]
    /\ hist \in [1 .. GPUID_STRIKES -> BOOLEAN]

\* The job under way is one, while there is one.
CurIsJob == phase \in {"claim", "launch"} <=> cur \in Jobs

\* The runner holds a claim for exactly the jobs that it supervises and the one
\* that it is about to start: a claim that nobody gives back would keep the
\* card from everybody, and a job without one would pass for a stray
\* (_take_card, _launch, _settle, shutdown).
ClaimsMatchJobs ==
    Jobs \cap DOMAIN book = active \cup ({cur} \ {None})

\* runner.py:639: "a stray process appearing is noticed up to `PREFLIGHT_TTL_S`
\* late", and deploying.md:730, of a job that outlives its runner: "Preflight is
\* what stops a new job colliding with it in the meantime".  No pass goes on to
\* hand out the card beside a stray that has been on it for that long, or since
\* before this runner started, unless nvidia-smi did not answer at the last
\* look (_preflight_cached).
StraysNoticed ==
    [][phase = "preflight" /\ phase' = "identify" =>
         \A x \in Strays : unseen'[x] < TTL]_vars

\* Jobs are only failed for want of a GPU when that many passes in a row could
\* not identify the card, in the life of this runner; one that could, or did
\* not ask, starts the count again (admit, GPUID_STRIKES).
NoGpuInARow ==
    [][\A j \in Jobs : /\ phase = "nogpu"
                       /\ state[j] = "pending" /\ state'[j] = "failed"
                       /\ j \in todo /\ j \notin todo'
                       => \A i \in 1 .. GPUID_STRIKES : hist[i]]_vars

\* The card answers, is free of strays and old claims, and has room for job j.
RoomFor(j) ==
    /\ answering /\ ~old /\ Strays = {}
    /\ Capacity > 0
    /\ fits(DOMAIN book, book, want[j], UsableMB)

\* runner.py:613: no "head-of-line blocking": a pending job does not stay
\* pending for ever while there is room for it, whatever does not fit before
\* it, and whatever the runner has cached (admit, ClaimBusy and CardClosed).
NoHeadOfLine == \A j \in Jobs : ~ <>[](state[j] = "pending" /\ RoomFor(j))
=============================================================================
