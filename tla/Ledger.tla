-------------------------------- MODULE Ledger --------------------------------
(***************************************************************************)
(* The per-card VRAM ledger: ledger.py, and claim.py's gpu_claim and       *)
(* sweep_stale.                                                            *)
(*                                                                         *)
(* A card is shared by processes that never talk to each other.  Each      *)
(* holder has one record file under <key>.lock.d/, naming the pid whose    *)
(* liveness governs it and the MiB it declared.  A flock serialises the    *)
(* read-decide-write of acquire(); everything else (release, the sweep of  *)
(* dead records, a crash) changes the directory without it.                *)
(*                                                                         *)
(* A member of Claims is one call of gpu_claim() and, at the same time,    *)
(* the record file that call writes: a file is named <pid>.<token>.json    *)
(* with a fresh token, so a claim can only start over once nothing names   *)
(* its old file.  Old is the set of claims made by a gpu-claim from before *)
(* the ledger: it takes the flock for its whole run and they all share the *)
(* one path <key>.lock.json.                                               *)
(***************************************************************************)
EXTENDS Fits

CONSTANTS
    Claims,       \* gpu_claim() calls
    Old,          \* the claims among them made by a pre-ledger gpu-claim
    Waiters,      \* the claims made with wait=True
    Askers,       \* the claims that leave usable_mb to gpu_claim (ours_to_ask)
    Foreign,      \* the claims whose record this user may not unlink
    Pids,         \* process ids
    PidOf,        \* the pid that makes a claim
    Sweepers,     \* concurrent sweeps: the runner's reaper, gpu-claim --reap
    Declarations, \* what callers pass as vram_mb, invalid values included
    Prompt,       \* does every participant leave acquire() within MUTEX_WAIT_S?
    UsableMB      \* the card's capacity minus the reserve

ASSUME ClaimsAssumption ==
    /\ IsFiniteSet(Claims)
    /\ Old \subseteq Claims
    /\ Waiters \subseteq Claims
    /\ Askers \subseteq Claims
    /\ Foreign \subseteq Claims
    /\ PidOf \in [Claims -> Pids]

ASSUME NoneAssumption == None \notin Int /\ None \notin Claims

ASSUME PromptAssumption == Prompt \in BOOLEAN

ASSUME UsableAssumption == UsableMB \in Nat \ {0}

VARIABLES
    pc,        \* where each claim is
    want,      \* vram_mb of a claim under way, or of the record it left
    usable,    \* usable_mb, as the claim under way knows it
    disk,      \* the record files that exist
    mutex,     \* who holds the flock, or None
    alive,     \* the pids for which pid_alive() is true
    answering, \* would the card answer a capacity query now?
    listed,    \* per sweep: records it listed and has yet to judge
    doomed     \* per sweep: the record it found dead and is about to unlink

vars == <<pc, want, usable, disk, mutex, alive, answering, listed, doomed>>

New == Claims \ Old

\* A call that is not under way: not begun, or left with an exception.
Out == {"idle", "ValueError", "CannotEverFit", "CardClosed", "ClaimBusy",
        "MutexTimeout"}

\* Inside acquire(), with the flock held.
Locked == {"locked", "room", "closed", "busy", "wrote"}

PCs == Out \cup {"queued", "sleeping", "holding"} \cup Locked

\* The claims whose caller is, or is about to be, on the card.
Holders == {c \in New : pc[c] \in {"wrote", "holding"}}

OldHolders == {c \in Old : pc[c] = "holding"}

Waiting(c) == pc[c] \in {"queued", "sleeping"} \cup (Locked \ {"wrote"})

live_records(recs) == {r \in recs : PidOf[r] \in alive}

\* The file a record lives in: its own, or the one all old claims share.
Path(r) == IF r \in Old THEN Old ELSE {r}

-------------------------------------------------------------------------------
Init ==
    /\ pc = [c \in Claims |-> "idle"]
    /\ want = [c \in Claims |-> None]
    /\ usable = [c \in Claims |-> None]
    /\ disk = {}
    /\ mutex = None
    /\ alive = Pids
    /\ answering \in BOOLEAN
    /\ listed = [s \in Sweepers |-> {}]
    /\ doomed = [s \in Sweepers |-> {}]

\* default_usable_mb() (and Runner._usable_mb): None when the card would not say.
default_usable_mb == IF answering THEN UsableMB ELSE None

\* Mutant: record files without a token, reused while a sweep has them in hand.
Fresh_NoToken(c) == c \notin disk

\* Nothing names the record file that claim c wrote before: its next one has
\* a token of its own, so c only stands for it from then on.
Fresh(c) ==
    /\ c \notin disk
    /\ \A s \in Sweepers : c \notin listed[s] /\ c \notin doomed[s]

\* gpu_claim() up to its wait loop: validate, size the card, and refuse at
\* once what no waiting can admit.  A process makes one such call at a time;
\* the runner then keeps several claims held.
Begin(c, w) ==
    /\ c \in New /\ pc[c] \in Out /\ Fresh(c)
    /\ PidOf[c] \in alive
    /\ \A d \in New : PidOf[d] = PidOf[c] => pc[d] \in Out \cup {"holding"}
    /\ IF w # None /\ ~IsDeclaredMB(w)
       THEN /\ pc' = [pc EXCEPT ![c] = "ValueError"]
            /\ UNCHANGED <<want, usable>>
       ELSE IF exceeds_capacity(w, default_usable_mb)
       THEN /\ pc' = [pc EXCEPT ![c] = "CannotEverFit"]
            /\ UNCHANGED <<want, usable>>
       ELSE /\ pc' = [pc EXCEPT ![c] = "queued"]
            /\ want' = [want EXCEPT ![c] = w]
            /\ usable' = [usable EXCEPT ![c] = default_usable_mb]
    /\ UNCHANGED <<disk, mutex, alive, answering, listed, doomed>>

\* Mutant: go ahead although the flock is held.
TakeMutex_Ignored(c) ==
    /\ pc[c] = "queued"
    /\ mutex' = c
    /\ pc' = [pc EXCEPT ![c] = "locked"]
    /\ UNCHANGED <<want, usable, disk, alive, answering, listed, doomed>>

\* _take_mutex(): the LOCK_NB poll that succeeds.
TakeMutex(c) ==
    /\ pc[c] = "queued"
    /\ mutex = None
    /\ mutex' = c
    /\ pc' = [pc EXCEPT ![c] = "locked"]
    /\ UNCHANGED <<want, usable, disk, alive, answering, listed,
                   doomed>>

\* The call ends and its locals go with it.
Leave(c, how) ==
    /\ pc' = [pc EXCEPT ![c] = how]
    /\ want' = [want EXCEPT ![c] = None]
    /\ usable' = [usable EXCEPT ![c] = None]

\* acquire() raises: a caller that waits sleeps on it, any other gets it.
Raise(c, exception) ==
    IF c \in Waiters
    THEN pc' = [pc EXCEPT ![c] = "sleeping"] /\ UNCHANGED <<want, usable>>
    ELSE Leave(c, exception)

\* _take_mutex(): the deadline passes with the flock held by someone else.
MutexTimesOut(c) ==
    /\ pc[c] = "queued"
    /\ mutex # None
    /\ Prompt => mutex \in Old
    /\ Raise(c, "MutexTimeout")
    /\ UNCHANGED <<disk, mutex, alive, answering,
                   listed, doomed>>

\* The records as acquire() reads them: a pre-ledger record is the whole card
\* whatever it says (_load_legacy).
Vram == [r \in Claims |-> IF r \in Old THEN None ELSE want[r]]

\* acquire() reads the live records and decides on them; they may be gone by
\* the time it acts on the decision.
ReadLedger(c) ==
    LET live == live_records(disk)
    IN  /\ pc[c] = "locked"
        /\ pc' = [pc EXCEPT ![c] =
                     IF fits(live, Vram, want[c], usable[c]) THEN "room"
                     ELSE IF card_is_closed(live, Vram, usable[c])
                     THEN "closed" ELSE "busy"]
        /\ UNCHANGED <<want, usable, disk, mutex, alive, answering, listed,
                       doomed>>

\* acquire(): there was room, so the record is written (os.replace, atomic).
Admit(c) ==
    /\ pc[c] = "room"
    /\ disk' = disk \cup {c}
    /\ pc' = [pc EXCEPT ![c] = "wrote"]
    /\ UNCHANGED <<want, usable, mutex, alive, answering, listed, doomed>>

\* acquire(): no room; raise, and unlock on the way out.
Refuse(c) ==
    /\ pc[c] \in {"closed", "busy"}
    /\ Raise(c, IF pc[c] = "closed" THEN "CardClosed" ELSE "ClaimBusy")
    /\ mutex' = None
    /\ UNCHANGED <<disk, alive, answering, listed, doomed>>

\* The flock is dropped and acquire() returns the record.
Unlock(c) ==
    /\ pc[c] = "wrote"
    /\ mutex' = None
    /\ pc' = [pc EXCEPT ![c] = "holding"]
    /\ UNCHANGED <<want, usable, disk, alive, answering, listed,
                   doomed>>

\* Mutant: a failed capacity query is latched.
Wake_Latched(c) ==
    /\ pc[c] = "sleeping"
    /\ pc' = [pc EXCEPT ![c] = "queued"]
    /\ UNCHANGED <<want, usable, disk, mutex, alive, answering, listed, doomed>>

\* Mutant: the answer to the second query is not checked against the request.
Wake_NoRefusal(c) ==
    /\ pc[c] = "sleeping"
    /\ pc' = [pc EXCEPT ![c] = "queued"]
    /\ usable' = [usable EXCEPT ![c] =
                     IF c \in Askers /\ @ = None THEN default_usable_mb ELSE @]
    /\ UNCHANGED <<want, disk, mutex, alive, answering, listed, doomed>>

\* The end of a sleep in the wait loop: ask the card again if the capacity is
\* still unknown and it was ours to ask, and try again.
Wake(c) ==
    /\ pc[c] = "sleeping"
    /\ IF c \in Askers /\ usable[c] = None
       THEN IF exceeds_capacity(want[c], default_usable_mb)
            THEN Leave(c, "CannotEverFit")
            ELSE /\ pc' = [pc EXCEPT ![c] = "queued"]
                 /\ usable' = [usable EXCEPT ![c] = default_usable_mb]
                 /\ UNCHANGED want
       ELSE /\ pc' = [pc EXCEPT ![c] = "queued"]
            /\ UNCHANGED <<want, usable>>
    /\ UNCHANGED <<disk, mutex, alive, answering, listed, doomed>>

\* The with-block ends: the record is unlinked, without the mutex.
Release(c) ==
    /\ c \in New /\ pc[c] = "holding"
    /\ disk' = disk \ {c}
    /\ Leave(c, "idle")
    /\ UNCHANGED <<mutex, alive, answering, listed, doomed>>

(***************************************************************************)
(* A gpu-claim from before the ledger.                                     *)
(***************************************************************************)
OldTake(c) ==
    /\ c \in Old /\ pc[c] \in Out
    /\ PidOf[c] \in alive
    /\ mutex = None
    /\ mutex' = c
    /\ disk' = (disk \ Path(c)) \cup {c}
    /\ pc' = [pc EXCEPT ![c] = "holding"]
    /\ UNCHANGED <<want, usable, alive, answering, listed, doomed>>

OldRelease(c) ==
    /\ c \in Old /\ pc[c] = "holding"
    /\ mutex' = None
    /\ disk' = disk \ Path(c)
    /\ pc' = [pc EXCEPT ![c] = "idle"]
    /\ UNCHANGED <<want, usable, alive, answering, listed, doomed>>

(***************************************************************************)
(* The sweep of dead records: list, then for each record judge its pid and *)
(* unlink, with anything happening in between.                             *)
(***************************************************************************)
\* Mutant: sweep only what live_records() returns.
SweepList_Live(s) ==
    /\ listed[s] = {} /\ doomed[s] = {}
    /\ disk # {}
    /\ listed' = [listed EXCEPT ![s] = live_records(disk)]
    /\ UNCHANGED <<pc, want, usable, disk, mutex, alive, answering, doomed>>

SweepList(s) ==
    /\ listed[s] = {} /\ doomed[s] = {}
    /\ disk # {}
    /\ listed' = [listed EXCEPT ![s] = disk]
    /\ UNCHANGED <<pc, want, usable, disk, mutex, alive, answering,
                   doomed>>

SweepJudge(s, r) ==
    /\ doomed[s] = {} /\ r \in listed[s]
    /\ listed' = [listed EXCEPT ![s] = @ \ {r}]
    /\ doomed' = [doomed EXCEPT ![s] = IF PidOf[r] \in alive THEN {} ELSE {r}]
    /\ UNCHANGED <<pc, want, usable, disk, mutex, alive, answering>>

\* Unlinks whatever is at the path by now; an OSError leaves it ("stuck").
SweepUnlink(s, r) ==
    /\ r \in doomed[s]
    /\ doomed' = [doomed EXCEPT ![s] = {}]
    /\ IF r \in Foreign
       THEN UNCHANGED <<want, disk>>
       ELSE disk' = disk \ Path(r) /\ want' = [want EXCEPT ![r] = None]
    /\ UNCHANGED <<pc, usable, mutex, alive, answering, listed>>

(***************************************************************************)
(* The machine.                                                            *)
(***************************************************************************)

\* A process dies: the kernel drops its flock, its records stay behind.
Crash(p) ==
    LET dies(c) == PidOf[c] = p
    IN  /\ p \in alive
        /\ alive' = alive \ {p}
        /\ pc' = [c \in Claims |-> IF dies(c) THEN "idle" ELSE pc[c]]
        /\ usable' = [c \in Claims |-> IF dies(c) THEN None ELSE usable[c]]
        /\ want' = [c \in Claims |-> IF dies(c) /\ c \notin disk
                                     THEN None ELSE want[c]]
        /\ mutex' = IF mutex # None /\ dies(mutex) THEN None ELSE mutex
        /\ UNCHANGED <<disk, answering, listed, doomed>>

\* The kernel hands the pid out again, to a new participant or to a stranger.
Spawn(p) ==
    /\ p \notin alive
    /\ alive' = alive \cup {p}
    /\ UNCHANGED <<pc, want, usable, disk, mutex, answering, listed,
                   doomed>>

\* nvidia-smi starts or stops answering.
Flap ==
    /\ answering' = ~answering
    /\ UNCHANGED <<pc, want, usable, disk, mutex, alive, listed,
                   doomed>>

Next ==
    \/ \E c \in Claims :
        \/ \E w \in Declarations : Begin(c, w)
        \/ TakeMutex(c)
        \/ MutexTimesOut(c)
        \/ ReadLedger(c)
        \/ Admit(c)
        \/ Refuse(c)
        \/ Unlock(c)
        \/ Wake(c)
        \/ Release(c)
        \/ OldTake(c)
        \/ OldRelease(c)
    \/ \E s \in Sweepers :
        \/ SweepList(s)
        \/ \E r \in Claims : SweepJudge(s, r) \/ SweepUnlink(s, r)
    \/ \E p \in Pids : Crash(p) \/ Spawn(p)
    \/ Flap

Spec == Init /\ [][Next]_vars

\* A process that is inside gpu_claim keeps running, a sweep comes round with
\* every tick, and of the LOCK_NB polls that go on for ten seconds per round,
\* some poll finds the flock free if it keeps becoming free.
Fairness ==
    /\ \A c \in New :
        /\ SF_vars(TakeMutex(c))
        /\ WF_vars(MutexTimesOut(c))
        /\ WF_vars(ReadLedger(c))
        /\ WF_vars(Admit(c))
        /\ WF_vars(Refuse(c))
        /\ WF_vars(Unlock(c))
        /\ WF_vars(Wake(c))
    /\ \A s \in Sweepers :
        /\ WF_vars(SweepList(s))
        /\ \A r \in Claims : WF_vars(SweepJudge(s, r))
        /\ \A r \in Claims : WF_vars(SweepUnlink(s, r))

FairSpec == Spec /\ Fairness

-------------------------------------------------------------------------------
\* The type invariant of the ledger's state.
TypeOK ==
    /\ pc \in [Claims -> PCs]
    /\ want \in [Claims -> (Nat \ {0}) \cup {None}]
    /\ usable \in [Claims -> {UsableMB, None}]
    /\ disk \subseteq Claims
    /\ mutex \in Claims \cup {None}
    /\ alive \subseteq Pids
    /\ answering \in BOOLEAN
    /\ listed \in [Sweepers -> SUBSET Claims]
    /\ doomed \in [Sweepers -> SUBSET Claims]

\* The card is never double-booked (acquire, fits): as soon as two holders
\* share it, neither asked for the whole of it and together they declared no
\* more than it has, whatever died, was swept or came back in the meantime.
NoOverbook ==
    \A c, d \in Holders :
        c # d => /\ want[c] # None
                 /\ Charged(Holders, want) <= UsableMB

\* The latency budget gpu_max_jobs bounds everyone on the card, not just the
\* claims of one participant (fits, max_holders).
HolderCap == MaxHolders # None => Cardinality(Holders) <= MaxHolders

\* No sweep ever takes the record of a running holder away, even when the pid
\* of a dead one was handed out again between its judgement and its unlink
\* (_sweep_one): without the record the reaper would kill the holder's job.
HolderRecorded == Holders \subseteq live_records(disk)

\* While a pre-ledger gpu-claim holds the card, nobody gets in beside it: its
\* flock shuts acquire() out even if its record is lost (_take_mutex).
OldHolderUndisturbed ==
    [][OldHolders # {} => Holders' \subseteq Holders]_vars

\* CardClosed, on which the runner stops walking its queue, is raised exactly
\* when no declaration at all would be admitted (card_is_closed vs fits).
CardClosedIsExact ==
    \A u \in {UsableMB, None} :
        card_is_closed(live_records(disk), Vram, u) <=>
            \A w \in (1 .. UsableMB) \cup {None} :
                ~fits(live_records(disk), Vram, w, u)

\* Nobody waits for room that cannot appear: once a claim knows the capacity
\* of the card, a declaration larger than it is out of the wait loop, also
\* when the capacity was only learnt during the wait (_refuse_if_too_big).
NoHopelessWait ==
    \A c \in Claims : Waiting(c) => ~exceeds_capacity(want[c], usable[c])

\* The card answers and what is recorded on it leaves room for claim c.
RoomFor(c) ==
    /\ answering
    /\ OldHolders = {}
    /\ fits(live_records(disk), Vram, want[c], UsableMB)

\* A claim made with wait=True by a caller who leaves the capacity to gpu_claim
\* does not wait for ever while there is room for it, not even when its first
\* capacity query failed (gpu_claim's re-ask).
AskerAdmitted ==
    \A c \in New \cap Askers : ~ <>[](Waiting(c) /\ RoomFor(c))

\* design.md:216, of gpu-claim: "A declaration larger than the whole card never
\* fits however empty the ledger gets, so it is refused up front rather than
\* waited on".  No claim goes on waiting with such a declaration while the card
\* answers.
HopelessRefused ==
    \A c \in New :
        ~ <>[](Waiting(c) /\ answering /\ exceeds_capacity(want[c], UsableMB))

\* A record whose process is gone does not stay: it is swept, or its pid is
\* alive again (sweep_stale).
DeadRecordSwept ==
    \A c \in New \ Foreign :
        (c \in disk /\ PidOf[c] \notin alive)
            ~> (c \notin disk \/ PidOf[c] \in alive)

(***************************************************************************)
(* What NoOverbook, HolderCap and HolderRecorded rest on.                  *)
(***************************************************************************)

\* Only a live process is inside gpu_claim.
ActiveIsAlive == \A c \in Claims : pc[c] \notin Out => PidOf[c] \in alive

\* The flock and the position of its owner agree.
MutexOwner ==
    \A c \in Claims :
        /\ pc[c] \in Locked => mutex = c
        /\ c \in Old /\ pc[c] = "holding" => mutex = c

\* A record about to be unlinked belongs to nobody any more.
DoomedIsOut ==
    \A s \in Sweepers : \A r \in doomed[s] : r \in New => pc[r] \in Out

\* What acquire() decided still holds when it acts: there is room for the
\* claim beside everyone on the card.
RoomRemains ==
    \A c \in Claims :
        pc[c] = "room" => fits(Holders, want, want[c], usable[c])

\* Old claims go straight from idle to holding.
OldIsSimple == \A c \in Old : pc[c] \in Out \cup {"holding"}

\* The inductive invariant (acquire's critical section and the sweep).
LedgerInv ==
    /\ TypeOK
    /\ ActiveIsAlive
    /\ OldIsSimple
    /\ MutexOwner
    /\ DoomedIsOut
    /\ HolderRecorded
    /\ RoomRemains
    /\ NoOverbook
    /\ HolderCap

(***************************************************************************)
(* The ledger as a book of the card.                                       *)
(***************************************************************************)
Book == INSTANCE Card WITH
            Participants <- New,
            book <- [c \in Holders |-> want[c]]

\* The record files, the flock, the sweeps and the reused pids implement a
\* book in which a claim is entered in one step, and only if it fits beside
\* everybody who is on the card in that step (acquire): what acquire() read
\* before it wrote its record may be out of date, but never wrong.
ImplementsCard == Book!Spec
=============================================================================
