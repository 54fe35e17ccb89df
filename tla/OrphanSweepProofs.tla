--------------------------- MODULE OrphanSweepProofs ---------------------------
(***************************************************************************)
(* The sweep for orphaned CUDA processes spares whatever is accounted for, *)
(* for any jobs, claims, scopes and claim directories.                     *)
(***************************************************************************)
EXTENDS OrphanSweep, TLAPS

\* all_claim_dirs() has one or two entries, and both directories among them.
LEMMA ClaimDirs ==
    /\ Len(all_claim_dirs) \in {1, 2}
    /\ \A i \in 1 .. Len(all_claim_dirs) : all_claim_dirs[i] \in {EnvDir, DefaultDir}
    /\ \A d \in {EnvDir, DefaultDir} :
         \E i \in 1 .. Len(all_claim_dirs) : all_claim_dirs[i] = d
<1>1. CASE EnvDir = DefaultDir
  BY <1>1 DEF all_claim_dirs
<1>2. CASE EnvDir # DefaultDir
  <2>1. all_claim_dirs = <<EnvDir, DefaultDir>>
    BY <1>2 DEF all_claim_dirs
  <2>2. 1 \in 1 .. Len(all_claim_dirs) /\ 2 \in 1 .. Len(all_claim_dirs)
    BY <2>1
  <2> QED BY <2>1, <2>2
<1> QED BY <1>1, <1>2

\* Before the first claim there is nothing to spare and no victim.
LEMMA InitSweep == Init => SweepInv
  BY ClaimDirs, OwnersAssumption
     DEF Init, SweepInv, TypeOK, SparedStill, RecordsKept, TreesKept, LedgerKept,
         PidsKept, ScopesKept, AtTheStart, NoVictimYet, SparesAccounted

\* Whatever leaves the sweep's own state alone but for losing processes, and
\* tracks who is spared, keeps the invariant: claims come and go, wrappers die
\* and processes exit at any moment of a sweep.
LEMMA MachineKeeps ==
    ASSUME SweepInv, TypeOK', UNCHANGED <<phase, at, records, protect, exempt, scopes>>,
           spared' \subseteq spared \cap Accounted', doubt \cap spared' \subseteq doubt',
           unledgered' \subseteq unledgered, victims' \subseteq victims
    PROVE  SweepInv'
<1> USE DEF SweepInv
<1>1. SparedStill' BY DEF SparedStill
<1>2. RecordsKept' /\ TreesKept' /\ LedgerKept'
  BY DEF RecordsKept, TreesKept, LedgerKept, Settled
<1>3. PidsKept' /\ ScopesKept'
  BY DEF PidsKept, ScopesKept, HasRead, Settled
<1>4. AtTheStart' /\ NoVictimYet' /\ SparesAccounted'
  BY DEF AtTheStart, NoVictimYet, SparesAccounted
<1> QED BY <1>1, <1>2, <1>3, <1>4

\* The actions of people, processes and containers keep the invariant.
LEMMA ClaimsKeep ==
    ASSUME SweepInv, NEW c \in Claims, TakeClaim(c) \/ ReleaseClaim(c)
    PROVE  SweepInv'
<1>1. TypeOK'
  BY OwnersAssumption DEF SweepInv, TypeOK, TakeClaim, ReleaseClaim, Resolved,
     Owners, runner, sweep, Watched, AtTheStart
<1>2. /\ UNCHANGED <<phase, at, records, protect, exempt, scopes>>
      /\ spared' \subseteq spared \cap Accounted' /\ doubt \cap spared' \subseteq doubt'
      /\ unledgered' \subseteq unledgered /\ victims' \subseteq victims
  BY DEF TakeClaim, ReleaseClaim, runner, sweep, Watched
<1> QED BY <1>1, <1>2, MachineKeeps

LEMMA ProcessesKeep ==
    ASSUME SweepInv, NEW o \in Owners,
           WrapperDies(o) \/ Work(o) \/ Leave(o) \/ Recreate(o)
    PROVE  SweepInv'
<1>1. TypeOK'
  BY OwnersAssumption DEF SweepInv, TypeOK, WrapperDies, Work, Leave, Recreate, Gone,
     Owners, runner, sweep, Watched, history
<1>2. UNCHANGED <<phase, at, records, protect, exempt, scopes>>
  BY DEF WrapperDies, Work, Leave, Recreate, Gone, runner, sweep
<1>3. unledgered' \subseteq unledgered /\ victims' \subseteq victims
  BY DEF WrapperDies, Work, Leave, Recreate, Gone, sweep
<1>4. spared' \subseteq spared \cap Accounted' /\ doubt \cap spared' \subseteq doubt'
  <2>1. CASE WrapperDies(o)
    BY <2>1 DEF WrapperDies, Watched
  <2>2. CASE Work(o) \/ Leave(o)
    BY <2>2 DEF SweepInv, SparedStill, Work, Leave, Gone, Accounted, LiveScopes, history
  <2>3. CASE Recreate(o)
    BY <2>3 DEF SweepInv, SparedStill, Recreate, Gone, Accounted, LiveScopes
  <2> QED BY <2>1, <2>2, <2>3
<1> QED BY <1>1, <1>2, <1>3, <1>4, MachineKeeps

\* Launching and collecting a job, and a crash, happen outside of a sweep or end
\* it (_launch, collect).
LEMMA TickKeeps ==
    ASSUME SweepInv,
           \/ \E j \in Jobs : LaunchStart(j) \/ Collect(j)
           \/ LaunchRecord \/ Crash
    PROVE  SweepInv'
<1>1. CASE \E j \in Jobs : LaunchStart(j)
  <2>1. PICK j \in Jobs : LaunchStart(j) BY <1>1
  <2>2. TypeOK' BY <2>1, OwnersAssumption DEF SweepInv, TypeOK, LaunchStart, Owners,
     sweep, history
  <2>3. spared' \subseteq spared \cap Accounted' /\ UNCHANGED doubt
    BY <2>1 DEF SweepInv, SparedStill, LaunchStart, Accounted, LiveScopes, history
  <2> QED BY <2>1, <2>2, <2>3, MachineKeeps DEF LaunchStart, sweep
<1>2. CASE \E j \in Jobs : Collect(j)
  <2>1. PICK j \in Jobs : Collect(j) BY <1>2
  <2>2. TypeOK' BY <2>1, OwnersAssumption DEF SweepInv, TypeOK, Collect, sweep, history
  <2>3. spared' \subseteq spared \cap Accounted' /\ UNCHANGED doubt
    BY <2>1 DEF SweepInv, SparedStill, Collect, Accounted, LiveScopes, history
  <2> QED BY <2>1, <2>2, <2>3, MachineKeeps DEF Collect, sweep
<1>3. CASE LaunchRecord
  <2>1. TypeOK' BY <1>3 DEF SweepInv, TypeOK, LaunchRecord, sweep, history
  <2>2. spared' \subseteq spared \cap Accounted' /\ UNCHANGED doubt
    BY <1>3 DEF SweepInv, SparedStill, LaunchRecord, Accounted, LiveScopes, history
  <2> QED BY <1>3, <2>1, <2>2, MachineKeeps DEF LaunchRecord, sweep
<1>4. CASE Crash
  BY <1>4, ClaimDirs, OwnersAssumption
     DEF Crash, machine, SweepInv, TypeOK, SparedStill, RecordsKept, TreesKept,
         LedgerKept, PidsKept, ScopesKept, AtTheStart, NoVictimYet, SparesAccounted
<1> QED BY <1>1, <1>2, <1>3, <1>4

\* What reap() does before it looks at the card takes no cover from anyone:
\* the sweep of records takes dead ones, and requeue_orphans takes jobs whose
\* process is gone (sweep_stale, requeue_orphans).
LEMMA RecoveryKeeps ==
    ASSUME SweepInv, SweepStale \/ RequeueOrphans \/ NoSweep
    PROVE  SweepInv'
<1>1. TypeOK'
  BY DEF SweepInv, TypeOK, SweepStale, RequeueOrphans, NoSweep, machine, sweep, history
<1>2. SparedStill'
  BY DEF SweepInv, SparedStill, Accounted, LiveScopes, SweepStale, RequeueOrphans,
     NoSweep, machine, history
<1>3. at = 1 /\ victims = {}
  BY DEF SweepInv, AtTheStart, NoVictimYet, SweepStale, RequeueOrphans, NoSweep
<1> QED
  BY <1>1, <1>2, <1>3
     DEF SweepInv, RecordsKept, TreesKept, LedgerKept, PidsKept, ScopesKept,
         AtTheStart, NoVictimYet, SparesAccounted, SweepStale, RequeueOrphans, NoSweep,
         sweep, history

\* Of the trees that ps was asked for, those who are spared are shown, or were
\* covered before, or are in doubt now; and a doubt ends only by being shown.
LEMMA ShownSpared ==
    ASSUME NEW S, NEW shown \in Shown(S), Asked(S, shown), doubt \subseteq spared
    PROVE  /\ shown \subseteq S /\ spared' = spared /\ doubt' \subseteq spared
           /\ spared \cap S \subseteq shown \cup Covered \cup doubt'
           /\ doubt \subseteq shown \cup doubt'
BY DEF Shown, Asked

\* Looking and reading: each step puts those spared where the next one needs
\* them (compute_apps, live_records).
LEMMA ReadsKeep == ASSUME SweepInv, Look \/ ReadRecords PROVE SweepInv'
<1> USE DEF SweepInv, machine, history
<1>1. TypeOK'
  BY OwnersAssumption DEF TypeOK, NoVictimYet, Look, ReadRecords, live_claims, Owners
<1>2. SparedStill'
  BY DEF SparedStill, Accounted, LiveScopes, Look, ReadRecords
<1>3. at = 1 /\ at' = 1 /\ victims' = {}
  BY DEF AtTheStart, NoVictimYet, Look, ReadRecords
<1>4. RecordsKept'
  BY OwnersAssumption DEF RecordsKept, SparedStill, Accounted, LiveScopes, TypeOK,
     live_claims, Look, ReadRecords
<1>5. TreesKept' /\ LedgerKept' /\ PidsKept' /\ ScopesKept'
  BY DEF TreesKept, LedgerKept, PidsKept, ScopesKept, Look, ReadRecords
<1>6. AtTheStart' /\ NoVictimYet' /\ SparesAccounted'
  BY <1>3 DEF AtTheStart, NoVictimYet, SparesAccounted, Look, ReadRecords
<1> QED BY <1>1, <1>2, <1>4, <1>5, <1>6

\* The trees of the running jobs are protected (_running_trees).
LEMMA TreesKeep == ASSUME SweepInv, ReadTrees PROVE SweepInv'
<1> USE DEF SweepInv, machine
<1>1. PICK shown \in Shown(RunningTrees) :
        protect' = shown /\ Asked(RunningTrees, shown)
  BY DEF ReadTrees
<1>2. /\ shown \subseteq RunningTrees /\ spared' = spared /\ doubt' \subseteq spared
      /\ spared \cap RunningTrees \subseteq shown \cup Covered \cup doubt'
  BY <1>1, ShownSpared DEF TypeOK
<1>3. TypeOK'
  BY <1>1, <1>2, OwnersAssumption DEF TypeOK, ReadTrees, RunningTrees
<1>4. SparedStill'
  BY <1>2 DEF SparedStill, Accounted, LiveScopes, ReadTrees
<1>5. TreesKept'
  <2> SUFFICES ASSUME NEW p \in spared \cap Jobs
               PROVE  p \in (protect \cup exempt \cup doubt)'
    BY <1>2 DEF TreesKept, Settled
  <2>1. p \in RunningTrees
    BY <1>2, OwnersAssumption
       DEF SparedStill, Accounted, LiveScopes, TypeOK, RunningTrees, Tree
  <2>2. Covered = exempt /\ exempt' = exempt
    BY DEF Covered, AtTheStart, ReadTrees
  <2> QED BY <1>1, <1>2, <2>1, <2>2
<1>6. RecordsKept'
  BY <1>2 DEF RecordsKept, ReadTrees
<1>7. /\ LedgerKept' /\ PidsKept' /\ ScopesKept'
      /\ AtTheStart' /\ NoVictimYet' /\ SparesAccounted'
  BY DEF LedgerKept, PidsKept, ScopesKept, AtTheStart, NoVictimYet,
     SparesAccounted, ReadTrees
<1> QED BY <1>3, <1>4, <1>5, <1>6, <1>7

\* Whoever is spared by a record of the configured directory is not left over, or
\* in doubt (attribute).
LEMMA AttributeKeeps == ASSUME SweepInv, Attribute PROVE SweepInv'
<1> USE DEF SweepInv, machine
<1>1. PICK shown \in Shown(records \cap Tree) :
        /\ unledgered' = {p \in apps \ shown : ~in_scope(p, records \cap LiveScopes)}
        /\ Asked(records \cap Tree, shown)
  BY DEF Attribute
<1>2. /\ spared' = spared /\ doubt' \subseteq spared
      /\ spared \cap records \cap Tree \subseteq shown \cup Covered \cup doubt'
      /\ doubt \subseteq shown \cup doubt'
  BY <1>1, ShownSpared DEF TypeOK
<1>3. TypeOK'
  BY <1>1, <1>2 DEF TypeOK, Attribute
<1>4. SparedStill'
  BY <1>2 DEF SparedStill, Accounted, LiveScopes, Attribute
<1>5. /\ Covered = protect \cup exempt /\ UNCHANGED <<protect, exempt>>
      /\ phase = "attribute" /\ phase' = "pids"
      /\ \A p \in shown : p \notin unledgered'
  BY <1>1 DEF Covered, Attribute
<1>6. LedgerKept'
  <2> SUFFICES ASSUME NEW p \in spared \cap Claims, DirOf[p] = ConfigDir
               PROVE  Settled(p)'
    BY <1>2 DEF LedgerKept
  <2>1. p \in records /\ p \in wrap /\ (p \in Scoped => p \in LiveScopes)
    BY OwnersAssumption
       DEF RecordsKept, SparedStill, Accounted, LiveScopes, Attribute, TypeOK
  <2>2. CASE p \in Scoped
    BY <1>1, <1>5, <2>1, <2>2 DEF in_scope, Settled
  <2>3. CASE p \notin Scoped
    BY <1>2, <1>5, <2>1, <2>3 DEF Tree, Settled
  <2> QED BY <2>2, <2>3
<1>7. TreesKept'
  BY <1>2, <1>5 DEF TreesKept, Settled
<1>8. PidsKept'
  BY DEF AtTheStart, PidsKept, HasRead, Attribute
<1>9. RecordsKept' /\ ScopesKept' /\ AtTheStart' /\ NoVictimYet' /\ SparesAccounted'
  BY DEF RecordsKept, ScopesKept, AtTheStart, NoVictimYet, SparesAccounted, Attribute
<1> QED BY <1>3, <1>4, <1>6, <1>7, <1>8, <1>9

\* own_pids has those it spares in every directory it has read, whatever is
\* released or taken between two directories.
LEMMA PidsKeep == ASSUME SweepInv, ReadPids PROVE SweepInv'
<1> USE DEF SweepInv, machine
<1>1. /\ at' \in 1 .. Len(all_claim_dirs) /\ at \in 1 .. Len(all_claim_dirs)
      /\ phase = "pids" /\ phase' \in {"pids", "scopes"}
      /\ phase' = "pids" => at' = at + 1
      /\ phase' = "scopes" => at = Len(all_claim_dirs) /\ at' = 1
  BY ClaimDirs DEF ReadPids, Advance, TypeOK
<1>2. PICK shown \in Shown(OwnPids(all_claim_dirs[at])) :
        exempt' = exempt \cup shown /\ Asked(OwnPids(all_claim_dirs[at]), shown)
  BY DEF ReadPids
<1>3. /\ shown \subseteq OwnPids(all_claim_dirs[at])
      /\ spared' = spared /\ doubt' \subseteq spared
      /\ spared \cap OwnPids(all_claim_dirs[at]) \subseteq shown \cup Covered \cup doubt'
      /\ doubt \subseteq shown \cup doubt'
  BY <1>2, ShownSpared DEF TypeOK
<1>4. TypeOK'
  BY <1>1, <1>2, <1>3, OwnersAssumption
     DEF TypeOK, ReadPids, OwnPids, live_claims, Owners
<1>5. UNCHANGED <<protect, unledgered>>
  BY DEF ReadPids
<1>6. \A p \in Owners : Settled(p) => Settled(p)'
  BY <1>1, <1>2, <1>3, <1>5 DEF Settled
<1>7. \A p \in Covered \cup shown \cup doubt' : Settled(p)'
  BY <1>1, <1>2, <1>5 DEF Settled, Covered
<1>8. spared \subseteq Owners
  BY DEF TypeOK
<1>9. SparedStill' /\ TreesKept' /\ LedgerKept'
  BY <1>1, <1>3, <1>6, <1>8
     DEF SparedStill, Accounted, LiveScopes, TreesKept, LedgerKept, ReadPids
<1>10. PidsKept'
  <2> SUFFICES ASSUME NEW p \in spared \cap (Claims \ Scoped),
                      NEW i \in 1 .. Len(all_claim_dirs),
                      DirOf[p] = all_claim_dirs[i], HasRead("pids", i)'
               PROVE  Settled(p)'
    BY <1>3 DEF PidsKept
  <2>1. CASE i = at
    <3>1. p \in OwnPids(all_claim_dirs[at])
      BY <2>1, OwnersAssumption
         DEF OwnPids, live_claims, SparedStill, Accounted, LiveScopes, TypeOK
    <3> QED BY <1>3, <1>7, <3>1
  <2>2. CASE i # at
    <3>1. Settled(p)
      BY <1>1, <2>2 DEF PidsKept, HasRead
    <3> QED BY <1>6, <1>8, <3>1
  <2> QED BY <2>1, <2>2
<1>11. RecordsKept' /\ ScopesKept' /\ AtTheStart' /\ NoVictimYet' /\ SparesAccounted'
  BY <1>1 DEF RecordsKept, ScopesKept, HasRead, AtTheStart, NoVictimYet,
              SparesAccounted, ReadPids
<1> QED BY <1>4, <1>9, <1>10, <1>11

\* own_scopes likewise.
LEMMA ScopesKeep == ASSUME SweepInv, ReadScopes PROVE SweepInv'
<1> USE DEF SweepInv, machine, history
<1>1. /\ at' \in 1 .. Len(all_claim_dirs) /\ at \in 1 .. Len(all_claim_dirs)
      /\ phase' \in {"scopes", "term"}
      /\ phase' = "scopes" => at' = at + 1
      /\ phase' = "term" => at = Len(all_claim_dirs) /\ at' = 1
  BY ClaimDirs DEF ReadScopes, Advance, TypeOK
<1>2. TypeOK'
  BY <1>1 DEF TypeOK, ReadScopes, OwnScopes, LiveScopes
<1>3. SparedStill' /\ TreesKept' /\ LedgerKept' /\ PidsKept'
  BY <1>1 DEF SparedStill, Accounted, LiveScopes, TreesKept, LedgerKept, PidsKept,
     Settled, HasRead, ReadScopes
<1>4. ScopesKept'
  <2> SUFFICES ASSUME NEW p \in spared \cap Scoped,
                      NEW i \in 1 .. Len(all_claim_dirs),
                      DirOf[p] = all_claim_dirs[i], HasRead("scopes", i)'
               PROVE  p \in scopes'
    BY DEF ScopesKept, ReadScopes
  <2>1. CASE i = at
    BY <2>1, OwnersAssumption
       DEF ReadScopes, OwnScopes, live_claims, LiveScopes, SparedStill, Accounted,
           TypeOK
  <2>2. CASE i # at
    BY <1>1, <2>2 DEF ScopesKept, HasRead, ReadScopes
  <2> QED BY <2>1, <2>2
<1>5. RecordsKept' /\ AtTheStart' /\ NoVictimYet' /\ SparesAccounted'
  BY <1>1 DEF RecordsKept, AtTheStart, NoVictimYet, SparesAccounted, ReadScopes
<1> QED BY <1>2, <1>3, <1>4, <1>5

\* By the time victims are chosen every exemption has been read, so that nobody
\* who is spared is one of them (kill_orphan_cuda).
LEMMA TermKeeps == ASSUME SweepInv, Term PROVE SweepInv'
<1> USE DEF SweepInv, machine, history
<1>1. SparesAccounted'
  <2> SUFFICES ASSUME NEW p \in spared, p \in unledgered
               PROVE  p \in protect \cup exempt \cup scopes \cup doubt
    BY DEF SparesAccounted, Term, in_scope
  <2>1. CASE p \in Jobs
    BY <2>1 DEF TreesKept, Settled, Term
  <2>2. CASE p \notin Jobs
    <3>1. p \in Claims /\ DirOf[p] \in swept_dirs
      BY <2>2 DEF SparedStill, Accounted, LiveScopes, TypeOK
    <3>2. CASE DirOf[p] = ConfigDir
      BY <3>1, <3>2 DEF LedgerKept, Settled, Term
    <3>3. CASE DirOf[p] # ConfigDir
      <4>1. PICK i \in 1 .. Len(all_claim_dirs) : all_claim_dirs[i] = DirOf[p]
        BY <3>1, <3>3, ClaimDirs DEF swept_dirs
      <4> QED BY <3>1, <4>1 DEF PidsKept, ScopesKept, Settled, HasRead, Term
    <3> QED BY <3>2, <3>3
  <2> QED BY <2>1, <2>2
<1>2. TypeOK' /\ SparedStill'
  BY DEF TypeOK, SparedStill, Accounted, LiveScopes, Term
<1>3. /\ RecordsKept' /\ TreesKept' /\ LedgerKept' /\ PidsKept' /\ ScopesKept'
      /\ AtTheStart' /\ NoVictimYet'
  BY DEF RecordsKept, TreesKept, LedgerKept, PidsKept, ScopesKept, AtTheStart,
         NoVictimYet, Term
<1> QED BY <1>1, <1>2, <1>3

\* The end of a sweep forgets all it read.
LEMMA KillKeeps == ASSUME SweepInv, Kill PROVE SweepInv'
  BY ClaimDirs, OwnersAssumption
     DEF Kill, Survivors, SweepInv, TypeOK, SparedStill, RecordsKept, TreesKept,
         LedgerKept, PidsKept, ScopesKept, AtTheStart, NoVictimYet, SparesAccounted

-------------------------------------------------------------------------------
\* The sweep's invariant holds at every moment, for any jobs, claims and claim
\* directories (reap, kill_orphan_cuda, own_pids, own_scopes, _running_trees).
THEOREM SweepInvariant == Spec => []SweepInv
<1>1. SweepInv /\ [Next]_vars => SweepInv'
  <2> SUFFICES ASSUME SweepInv, [Next]_vars PROVE SweepInv'
    OBVIOUS
  <2>1. CASE \E c \in Claims : TakeClaim(c) \/ ReleaseClaim(c)
    BY <2>1, ClaimsKeep
  <2>2. CASE \E o \in Owners : WrapperDies(o) \/ Work(o) \/ Leave(o) \/ Recreate(o)
    BY <2>2, ProcessesKeep
  <2>3. CASE (\E j \in Jobs : LaunchStart(j) \/ Collect(j)) \/ LaunchRecord \/ Crash
    BY <2>3, TickKeeps
  <2>4. CASE SweepNext
    BY <2>4, RecoveryKeeps, ReadsKeep, TreesKeep, AttributeKeeps, PidsKeep,
       ScopesKeep, TermKeeps, KillKeeps DEF SweepNext
  <2>5. CASE UNCHANGED vars
    <3>1. TypeOK' /\ spared' \subseteq spared \cap Accounted'
      BY <2>5 DEF SweepInv, TypeOK, SparedStill, Accounted, LiveScopes, vars,
         machine, runner, sweep, history
    <3> QED BY <2>5, <3>1, MachineKeeps DEF vars, runner, sweep, history
  <2> QED BY <2>1, <2>2, <2>3, <2>4, <2>5 DEF Next
<1> QED BY InitSweep, <1>1, PTL DEF Spec

\* The type invariant of the sweep.
THEOREM SweepTypes == Spec => []TypeOK
<1>1. SweepInv => TypeOK BY DEF SweepInv
<1> QED BY <1>1, SweepInvariant, PTL

\* No process that is accounted for from the sample on becomes a victim of the
\* sweep, whatever directories claims are written to and whenever the exemptions
\* are read, unless each reading that asked for its tree failed (kill_orphan_cuda).
THEOREM AccountedSpared == Spec => []SparesAccounted
<1>1. SweepInv => SparesAccounted BY DEF SweepInv
<1> QED BY <1>1, SweepInvariant, PTL
================================================================================
