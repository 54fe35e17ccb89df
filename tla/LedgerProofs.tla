---------------------------- MODULE LedgerProofs ------------------------------
(***************************************************************************)
(* Ledger, for every set of participants and every capacity: the type      *)
(* invariant, and that the card is never double-booked, that the cap on    *)
(* its holders holds and that no running holder loses its record.          *)
(***************************************************************************)
EXTENDS Ledger, FitsProofs

-------------------------------------------------------------------------------
(***************************************************************************)
(* Type correctness.                                                       *)
(***************************************************************************)

\* Every step of the ledger keeps its state within its types.
LEMMA TypeStep == TypeOK /\ [Next]_vars => TypeOK'
<1> SUFFICES ASSUME TypeOK, [Next]_vars PROVE TypeOK'
  OBVIOUS
<1> USE ClaimsAssumption
<1>1. ASSUME NEW c \in Claims, NEW w \in Declarations, Begin(c, w) PROVE TypeOK'
  BY <1>1 DEF TypeOK, PCs, Out, Locked, Begin, default_usable_mb, IsDeclaredMB
<1>2. ASSUME NEW c \in Claims, TakeMutex(c) PROVE TypeOK'
  BY <1>2 DEF TypeOK, PCs, Out, Locked, TakeMutex
<1>3. ASSUME NEW c \in Claims, MutexTimesOut(c) PROVE TypeOK'
  BY <1>3 DEF TypeOK, PCs, Out, Locked, MutexTimesOut, Raise, Leave
<1>4. ASSUME NEW c \in Claims, ReadLedger(c) PROVE TypeOK'
  BY <1>4 DEF TypeOK, PCs, Out, Locked, ReadLedger
<1>5. ASSUME NEW c \in Claims, Admit(c) PROVE TypeOK'
  BY <1>5 DEF TypeOK, PCs, Out, Locked, Admit
<1>6. ASSUME NEW c \in Claims, Refuse(c) PROVE TypeOK'
  BY <1>6 DEF TypeOK, PCs, Out, Locked, Refuse, Raise, Leave
<1>7. ASSUME NEW c \in Claims, Unlock(c) PROVE TypeOK'
  BY <1>7 DEF TypeOK, PCs, Out, Locked, Unlock
<1>8. ASSUME NEW c \in Claims, Wake(c) PROVE TypeOK'
  BY <1>8 DEF TypeOK, PCs, Out, Locked, Wake, Leave, default_usable_mb
<1>9. ASSUME NEW c \in Claims, Release(c) PROVE TypeOK'
  BY <1>9 DEF TypeOK, PCs, Out, Locked, Release, Leave
<1>10. ASSUME NEW c \in Claims, OldTake(c) PROVE TypeOK'
  BY <1>10 DEF TypeOK, PCs, Out, Locked, OldTake, Path
<1>11. ASSUME NEW c \in Claims, OldRelease(c) PROVE TypeOK'
  BY <1>11 DEF TypeOK, PCs, Out, Locked, OldRelease, Path
<1>12. ASSUME NEW s \in Sweepers, SweepList(s) PROVE TypeOK'
  BY <1>12 DEF TypeOK, PCs, Out, Locked, SweepList
<1>13. ASSUME NEW s \in Sweepers, NEW r \in Claims, SweepJudge(s, r) PROVE TypeOK'
  BY <1>13 DEF TypeOK, PCs, Out, Locked, SweepJudge
<1>14. ASSUME NEW s \in Sweepers, NEW r \in Claims, SweepUnlink(s, r) PROVE TypeOK'
  BY <1>14 DEF TypeOK, PCs, Out, Locked, SweepUnlink, Path
<1>15. ASSUME NEW p \in Pids, Crash(p) PROVE TypeOK'
  BY <1>15 DEF TypeOK, PCs, Out, Locked, Crash
<1>16. ASSUME NEW p \in Pids, Spawn(p) PROVE TypeOK'
  BY <1>16 DEF TypeOK, PCs, Out, Locked, Spawn
<1>17. ASSUME Flap PROVE TypeOK'
  BY <1>17 DEF TypeOK, PCs, Out, Locked, Flap
<1>18. CASE UNCHANGED vars
  BY <1>18 DEF TypeOK, PCs, Out, Locked, vars
<1> QED BY <1>1, <1>2, <1>3, <1>4, <1>5, <1>6, <1>7, <1>8, <1>9, <1>10, <1>11,
     <1>12, <1>13, <1>14, <1>15, <1>16, <1>17, <1>18 DEF Next

\* The state of the ledger is always within its types.
THEOREM TypeCorrect == Spec => []TypeOK
<1>1. Init => TypeOK
  BY DEF Init, TypeOK, PCs, Out
<1> QED BY <1>1, TypeStep, PTL DEF Spec

-------------------------------------------------------------------------------
(***************************************************************************)
(* The critical section of acquire(), the sweep and crashes.               *)
(***************************************************************************)

Control ==
    /\ ActiveIsAlive
    /\ OldIsSimple
    /\ MutexOwner
    /\ DoomedIsOut
    /\ HolderRecorded

\* Every step keeps the flock with its owner, and the records of the holders
\* on disk (acquire, _sweep_one).
LEMMA ControlStep == TypeOK /\ Control /\ [Next]_vars => Control'
<1> SUFFICES ASSUME TypeOK, Control, [Next]_vars PROVE Control'
  OBVIOUS
<1> USE ClaimsAssumption, NoneAssumption
    DEF TypeOK, Control, ActiveIsAlive, OldIsSimple, MutexOwner, DoomedIsOut,
        HolderRecorded, Holders, New, live_records
<1>1. ASSUME NEW c \in Claims, NEW w \in Declarations, Begin(c, w) PROVE Control'
  BY <1>1 DEF PCs, Out, Locked, Begin, default_usable_mb, IsDeclaredMB, Fresh
<1>2. ASSUME NEW c \in Claims, TakeMutex(c) PROVE Control'
  BY <1>2 DEF PCs, Out, Locked, TakeMutex
<1>3. ASSUME NEW c \in Claims, MutexTimesOut(c) PROVE Control'
  BY <1>3 DEF PCs, Out, Locked, MutexTimesOut, Raise, Leave
<1>4. ASSUME NEW c \in Claims, ReadLedger(c) PROVE Control'
  BY <1>4 DEF PCs, Out, Locked, ReadLedger
<1>5. ASSUME NEW c \in Claims, Admit(c) PROVE Control'
  BY <1>5 DEF PCs, Out, Locked, Admit
<1>6. ASSUME NEW c \in Claims, Refuse(c) PROVE Control'
  BY <1>6 DEF PCs, Out, Locked, Refuse, Raise, Leave
<1>7. ASSUME NEW c \in Claims, Unlock(c) PROVE Control'
  BY <1>7 DEF PCs, Out, Locked, Unlock
<1>8. ASSUME NEW c \in Claims, Wake(c) PROVE Control'
  BY <1>8 DEF PCs, Out, Locked, Wake, Leave, default_usable_mb
<1>9. ASSUME NEW c \in Claims, Release(c) PROVE Control'
  BY <1>9 DEF PCs, Out, Locked, Release, Leave
<1>10. ASSUME NEW c \in Claims, OldTake(c) PROVE Control'
  BY <1>10 DEF PCs, Out, Locked, OldTake, Path
<1>11. ASSUME NEW c \in Claims, OldRelease(c) PROVE Control'
  BY <1>11 DEF PCs, Out, Locked, OldRelease, Path
<1>12. ASSUME NEW s \in Sweepers, SweepList(s) PROVE Control'
  BY <1>12 DEF PCs, Out, Locked, SweepList
<1>13. ASSUME NEW s \in Sweepers, NEW r \in Claims, SweepJudge(s, r) PROVE Control'
  BY <1>13 DEF PCs, Out, Locked, SweepJudge
<1>14. ASSUME NEW s \in Sweepers, NEW r \in Claims, SweepUnlink(s, r) PROVE Control'
  BY <1>14 DEF PCs, Out, Locked, SweepUnlink, Path
<1>15. ASSUME NEW p \in Pids, Crash(p) PROVE Control'
  BY <1>15 DEF PCs, Out, Locked, Crash
<1>16. ASSUME NEW p \in Pids, Spawn(p) PROVE Control'
  BY <1>16 DEF PCs, Out, Locked, Spawn
<1>17. ASSUME Flap PROVE Control'
  BY <1>17 DEF PCs, Out, Locked, Flap
<1>18. CASE UNCHANGED vars
  BY <1>18 DEF PCs, Out, Locked, vars
<1> QED BY <1>1, <1>2, <1>3, <1>4, <1>5, <1>6, <1>7, <1>8, <1>9, <1>10, <1>11,
     <1>12, <1>13, <1>14, <1>15, <1>16, <1>17, <1>18 DEF Next

(***************************************************************************)
(* Admission.                                                              *)
(***************************************************************************)

Admission == RoomRemains /\ NoOverbook /\ HolderCap

\* Holders are finitely many and declared something.
LEMMA HoldersFinite ==
    ASSUME TypeOK
    PROVE  /\ IsFiniteSet(Holders)
           /\ Cardinality(Holders) \in Nat
           /\ \A r \in Holders : want[r] \in MBs
<1>1. Holders \in SUBSET Claims
  BY ClaimsAssumption DEF Holders, New
<1>2. IsFiniteSet(Holders)
  BY <1>1, ClaimsAssumption, FS_Subset
<1>3. Cardinality(Holders) \in Nat
  BY <1>2, FS_CardinalityType
<1> QED BY <1>1, <1>2, <1>3 DEF TypeOK, MBs

\* A step that brings nobody onto the card and reaches no new decision keeps
\* all that is known of admission (release, sweep, crash, waiting).
LEMMA Shrink ==
    ASSUME TypeOK, Admission,
           Holders' \subseteq Holders,
           \A r \in Holders' : want'[r] = want[r],
           \A c \in Claims : pc'[c] = "room" =>
                /\ pc[c] = "room"
                /\ want'[c] = want[c]
                /\ usable'[c] = usable[c]
    PROVE  Admission'
<1>1. /\ IsFiniteSet(Holders)
      /\ Cardinality(Holders) \in Nat
      /\ \A r \in Holders : want[r] \in MBs
  BY HoldersFinite
<1>2. IsFiniteSet(Holders') /\ Cardinality(Holders') \in Nat
      /\ Cardinality(Holders') <= Cardinality(Holders)
  BY <1>1, FS_Subset, FS_CardinalityType
<1>3. RoomRemains'
  <2> SUFFICES ASSUME NEW c \in Claims, pc'[c] = "room"
               PROVE  fits(Holders', want', want'[c], usable'[c])
    BY DEF RoomRemains
  <2>1. want[c] \in MBs /\ usable[c] \in MBs
    BY UsableAssumption DEF TypeOK, MBs
  <2>2. fits(Holders, want, want[c], usable[c])
    BY DEF Admission, RoomRemains
  <2>3. fits(Holders', want, want[c], usable[c])
    BY <1>1, <2>1, <2>2, FitsAntitone
  <2>4. fits(Holders', want', want[c], usable[c])
    BY <2>3, FitsSame
  <2> QED BY <2>4
<1>4. NoOverbook'
  <2> SUFFICES ASSUME NEW c \in Holders', NEW d \in Holders', c # d
               PROVE  want'[c] # None /\ Charged(Holders', want') <= UsableMB
    BY DEF NoOverbook
  <2>1. want[c] # None /\ Charged(Holders, want) <= UsableMB
    BY DEF Admission, NoOverbook
  <2>2. Charged(Holders', want') = Charged(Holders', want)
    BY ChargedSame
  <2>3. Charged(Holders', want) <= Charged(Holders, want)
    BY <1>1, ChargedMonotone
  <2>4. Charged(Holders', want) \in Nat /\ Charged(Holders, want) \in Nat
    BY <1>1, <1>2, ChargedType
  <2> QED BY <2>1, <2>2, <2>3, <2>4, UsableAssumption
<1>5. HolderCap'
  BY <1>1, <1>2, MaxHoldersAssumption, NoneAssumption DEF Admission, HolderCap
<1> QED BY <1>3, <1>4, <1>5 DEF Admission

\* acquire() decides on the live records, which include every holder's, so
\* what it finds room for fits beside the holders.
LEMMA DecisionIsSound ==
    ASSUME TypeOK, Control, Admission, NEW c \in Claims, ReadLedger(c)
    PROVE  Admission'
<1> DEFINE live == live_records(disk)
<1>1. Holders' = Holders /\ want' = want /\ usable' = usable
  BY DEF ReadLedger, Holders, TypeOK, PCs, Locked
<1>2. IsFiniteSet(live) /\ \A r \in live : Vram[r] \in MBs
  <2>1. live \in SUBSET Claims
    BY DEF live_records, TypeOK
  <2> QED BY <2>1, ClaimsAssumption, FS_Subset DEF TypeOK, Vram, MBs
<1>3. Holders \in SUBSET live
  BY DEF Control, HolderRecorded
<1>4. \A r \in Holders : Vram[r] = want[r]
  BY DEF Holders, New, Vram
<1>5. RoomRemains'
  <2> SUFFICES ASSUME NEW d \in Claims, pc'[d] = "room"
               PROVE  fits(Holders, want, want[d], usable[d])
    BY <1>1 DEF RoomRemains
  <2>1. CASE d # c
    BY <2>1 DEF ReadLedger, TypeOK, Admission, RoomRemains
  <2>2. CASE d = c
    <3>1. fits(live, Vram, want[c], usable[c])
      BY <2>2 DEF ReadLedger, TypeOK
    <3>2. want[c] \in MBs /\ usable[c] \in MBs
      BY UsableAssumption DEF TypeOK, MBs
    <3>3. fits(Holders, Vram, want[c], usable[c])
      BY <1>2, <1>3, <3>1, <3>2, FitsAntitone
    <3> QED BY <1>4, <2>2, <3>3, FitsSame
  <2> QED BY <2>1, <2>2
<1> QED BY <1>1, <1>5 DEF Admission, NoOverbook, HolderCap

\* Writing the record of a claim there was room for double-books nothing.
LEMMA AdmitIsSound ==
    ASSUME TypeOK, Control, Admission, NEW c \in Claims, Admit(c)
    PROVE  Admission'
<1>1. want' = want /\ usable' = usable /\ c \notin Holders
      /\ Holders' = Holders \cup {c}
  BY DEF Admit, Holders, New, TypeOK, Control, OldIsSimple, Out
<1>2. fits(Holders, want, want[c], usable[c])
  BY DEF Admit, Admission, RoomRemains
<1>3. /\ IsFiniteSet(Holders)
      /\ Cardinality(Holders) \in Nat
      /\ \A r \in Holders : want[r] \in MBs
  BY HoldersFinite
<1>4. RoomRemains'
  \* Nobody else has decided: c has the flock.
  BY DEF Admit, TypeOK, Control, MutexOwner, Locked, RoomRemains
<1>5. HolderCap'
  <2>1. Cardinality(Holders \cup {c}) = Cardinality(Holders) + 1
    BY <1>1, <1>3, FS_AddElement
  <2> QED BY <1>1, <1>2, <1>3, <2>1, MaxHoldersAssumption, NoneAssumption
          DEF fits, at_cap, HolderCap
<1>6. NoOverbook'
  <2>1. CASE want[c] = None \/ usable[c] = None
    BY <1>1, <1>2, <2>1 DEF fits, NoOverbook
  <2>2. CASE ~(want[c] = None \/ usable[c] = None)
    <3>1. \A r \in Holders \cup {c} : want[r] # None
      BY <1>2, <2>2 DEF fits, has_exclusive
    <3>2. want[c] \in Nat /\ usable[c] = UsableMB /\ want[c] \in MBs
      BY <2>2 DEF TypeOK, MBs
    <3>3. Charged(Holders, want) + want[c] <= UsableMB
      BY <1>2, <2>2, <3>2 DEF fits
    <3>4. Charged(Holders \cup {c}, want) = Charged(Holders, want) + MB(want[c])
      BY <1>1, <1>3, <3>2, ChargedAdd
    <3>5. MB(want[c]) = want[c]
      BY <2>2 DEF MB
    <3> QED BY <1>1, <3>1, <3>3, <3>4, <3>5 DEF NoOverbook
  <2> QED BY <2>1, <2>2
<1> QED BY <1>4, <1>5, <1>6 DEF Admission

\* No step double-books the card or exceeds the cap on its holders.
LEMMA AdmissionStep ==
    TypeOK /\ Control /\ Admission /\ [Next]_vars => Admission'
<1> SUFFICES ASSUME TypeOK, Control, Admission, [Next]_vars PROVE Admission'
  OBVIOUS
<1> USE ClaimsAssumption DEF TypeOK, PCs, Out, Locked, Control, OldIsSimple,
                             DoomedIsOut
<1>1. ASSUME NEW c \in Claims, NEW w \in Declarations, Begin(c, w) PROVE Admission'
  BY <1>1, Shrink DEF Begin, default_usable_mb, IsDeclaredMB, Holders, New
<1>2. ASSUME NEW c \in Claims, TakeMutex(c) PROVE Admission'
  BY <1>2, Shrink DEF TakeMutex, Holders, New
<1>3. ASSUME NEW c \in Claims, MutexTimesOut(c) PROVE Admission'
  BY <1>3, Shrink DEF MutexTimesOut, Raise, Leave, Holders, New
<1>4. ASSUME NEW c \in Claims, ReadLedger(c) PROVE Admission'
  BY <1>4, DecisionIsSound
<1>5. ASSUME NEW c \in Claims, Admit(c) PROVE Admission'
  BY <1>5, AdmitIsSound
<1>6. ASSUME NEW c \in Claims, Refuse(c) PROVE Admission'
  BY <1>6, Shrink DEF Refuse, Raise, Leave, Holders, New
<1>7. ASSUME NEW c \in Claims, Unlock(c) PROVE Admission'
  BY <1>7, Shrink DEF Unlock, Holders, New
<1>8. ASSUME NEW c \in Claims, Wake(c) PROVE Admission'
  BY <1>8, Shrink DEF Wake, Leave, default_usable_mb, Holders, New
<1>9. ASSUME NEW c \in Claims, Release(c) PROVE Admission'
  BY <1>9, Shrink DEF Release, Leave, Holders, New
<1>10. ASSUME NEW c \in Claims, OldTake(c) PROVE Admission'
  BY <1>10, Shrink DEF OldTake, Path, Holders, New
<1>11. ASSUME NEW c \in Claims, OldRelease(c) PROVE Admission'
  BY <1>11, Shrink DEF OldRelease, Path, Holders, New
<1>12. ASSUME NEW s \in Sweepers, SweepList(s) PROVE Admission'
  BY <1>12, Shrink DEF SweepList, Holders, New
<1>13. ASSUME NEW s \in Sweepers, NEW r \in Claims, SweepJudge(s, r)
       PROVE  Admission'
  BY <1>13, Shrink DEF SweepJudge, Holders, New
<1>14. ASSUME NEW s \in Sweepers, NEW r \in Claims, SweepUnlink(s, r)
       PROVE  Admission'
  BY <1>14, Shrink DEF SweepUnlink, Path, Holders, New
<1>15. ASSUME NEW p \in Pids, Crash(p) PROVE Admission'
  BY <1>15, Shrink DEF Crash, Holders, New
<1>16. ASSUME NEW p \in Pids, Spawn(p) PROVE Admission'
  BY <1>16, Shrink DEF Spawn, Holders, New
<1>17. ASSUME Flap PROVE Admission'
  BY <1>17, Shrink DEF Flap, Holders, New
<1>18. CASE UNCHANGED vars
  BY <1>18, Shrink DEF vars, Holders
<1> QED BY <1>1, <1>2, <1>3, <1>4, <1>5, <1>6, <1>7, <1>8, <1>9, <1>10, <1>11,
     <1>12, <1>13, <1>14, <1>15, <1>16, <1>17, <1>18 DEF Next

\* LedgerInv is inductive.
THEOREM LedgerInvariant == Spec => []LedgerInv
<1>1. Init => LedgerInv
  <2> SUFFICES ASSUME Init PROVE LedgerInv
    OBVIOUS
  <2>1. TypeOK
    BY DEF Init, TypeOK, PCs, Out
  <2>2. Holders = {} /\ \A c \in Claims : pc[c] = "idle"
    BY ClaimsAssumption DEF Init, Holders, New
  <2>3. Control
    BY <2>2, ClaimsAssumption
       DEF Init, Control, ActiveIsAlive, OldIsSimple, MutexOwner, DoomedIsOut,
           HolderRecorded, Out, Locked
  <2>4. Admission
    BY <2>2, FS_EmptySet, MaxHoldersAssumption, NoneAssumption
       DEF Admission, RoomRemains, NoOverbook, HolderCap
  <2> QED BY <2>1, <2>3, <2>4 DEF LedgerInv, Control, Admission
<1>2. LedgerInv /\ [Next]_vars => LedgerInv'
  BY TypeStep, ControlStep, AdmissionStep DEF LedgerInv, Control, Admission
<1> QED BY <1>1, <1>2, PTL DEF Spec

\* The card is never double-booked, whoever crashes, sweeps, waits or reuses a
\* pid (acquire and fits).
THEOREM NeverOverbooked == Spec => []NoOverbook
BY LedgerInvariant, PTL DEF LedgerInv

\* Never more holders than gpu_max_jobs (fits).
THEOREM HolderCapKept == Spec => []HolderCap
BY LedgerInvariant, PTL DEF LedgerInv

\* A running holder's record is never swept away (_sweep_one).
THEOREM HolderNeverSwept == Spec => []HolderRecorded
BY LedgerInvariant, PTL DEF LedgerInv

\* While a pre-ledger gpu-claim is on the card, no step brings anyone beside it
\* (_take_mutex).
LEMMA OldHolderStep ==
    ASSUME LedgerInv, [Next]_vars, OldHolders # {}
    PROVE  Holders' \subseteq Holders
<1> USE ClaimsAssumption DEF LedgerInv, TypeOK, Holders, New, OldHolders
<1>1. ASSUME NEW c \in Claims, NEW w \in Declarations, Begin(c, w)
      PROVE  Holders' \subseteq Holders
  BY <1>1 DEF OldIsSimple, MutexOwner, Out, Locked, Begin, default_usable_mb,
       IsDeclaredMB, Fresh
<1>2. ASSUME NEW c \in Claims, TakeMutex(c) PROVE Holders' \subseteq Holders
  BY <1>2 DEF OldIsSimple, MutexOwner, Out, Locked, TakeMutex
<1>3. ASSUME NEW c \in Claims, MutexTimesOut(c) PROVE Holders' \subseteq Holders
  BY <1>3 DEF OldIsSimple, MutexOwner, Out, Locked, MutexTimesOut, Raise, Leave
<1>4. ASSUME NEW c \in Claims, ReadLedger(c) PROVE Holders' \subseteq Holders
  BY <1>4 DEF OldIsSimple, MutexOwner, Out, Locked, ReadLedger
<1>5. ASSUME NEW c \in Claims, Admit(c) PROVE Holders' \subseteq Holders
  BY <1>5 DEF OldIsSimple, MutexOwner, Out, Locked, Admit
<1>6. ASSUME NEW c \in Claims, Refuse(c) PROVE Holders' \subseteq Holders
  BY <1>6 DEF OldIsSimple, MutexOwner, Out, Locked, Refuse, Raise, Leave
<1>7. ASSUME NEW c \in Claims, Unlock(c) PROVE Holders' \subseteq Holders
  BY <1>7 DEF OldIsSimple, MutexOwner, Out, Locked, Unlock
<1>8. ASSUME NEW c \in Claims, Wake(c) PROVE Holders' \subseteq Holders
  BY <1>8 DEF OldIsSimple, MutexOwner, Out, Locked, Wake, Leave, default_usable_mb
<1>9. ASSUME NEW c \in Claims, Release(c) PROVE Holders' \subseteq Holders
  BY <1>9 DEF OldIsSimple, MutexOwner, Out, Locked, Release, Leave
<1>10. ASSUME NEW c \in Claims, OldTake(c) PROVE Holders' \subseteq Holders
  BY <1>10 DEF OldIsSimple, MutexOwner, Out, Locked, OldTake, Path
<1>11. ASSUME NEW c \in Claims, OldRelease(c) PROVE Holders' \subseteq Holders
  BY <1>11 DEF OldIsSimple, MutexOwner, Out, Locked, OldRelease, Path
<1>12. ASSUME NEW s \in Sweepers, SweepList(s) PROVE Holders' \subseteq Holders
  BY <1>12 DEF OldIsSimple, MutexOwner, Out, Locked, SweepList
<1>13. ASSUME NEW s \in Sweepers, NEW r \in Claims, SweepJudge(s, r)
       PROVE  Holders' \subseteq Holders
  BY <1>13 DEF OldIsSimple, MutexOwner, Out, Locked, SweepJudge
<1>14. ASSUME NEW s \in Sweepers, NEW r \in Claims, SweepUnlink(s, r)
       PROVE  Holders' \subseteq Holders
  BY <1>14 DEF OldIsSimple, MutexOwner, Out, Locked, SweepUnlink, Path
<1>15. ASSUME NEW p \in Pids, Crash(p) PROVE Holders' \subseteq Holders
  BY <1>15 DEF OldIsSimple, MutexOwner, Out, Locked, Crash
<1>16. ASSUME NEW p \in Pids, Spawn(p) PROVE Holders' \subseteq Holders
  BY <1>16 DEF OldIsSimple, MutexOwner, Out, Locked, Spawn
<1>17. ASSUME Flap PROVE Holders' \subseteq Holders
  BY <1>17 DEF OldIsSimple, MutexOwner, Out, Locked, Flap
<1>18. CASE UNCHANGED vars
  BY <1>18 DEF vars
<1> QED BY <1>1, <1>2, <1>3, <1>4, <1>5, <1>6, <1>7, <1>8, <1>9, <1>10, <1>11,
     <1>12, <1>13, <1>14, <1>15, <1>16, <1>17, <1>18 DEF Next

\* A pre-ledger gpu-claim keeps newcomers off the card for as long as it runs,
\* also when a sweep removed its record by mistake (_take_mutex).
THEOREM OldHolderSafe == Spec => OldHolderUndisturbed
<1>1. LedgerInv /\ [Next]_vars => [OldHolders # {} => Holders' \subseteq Holders]_vars
  BY OldHolderStep
<1> QED BY <1>1, LedgerInvariant, PTL DEF Spec, OldHolderUndisturbed

\* No step lets a claim that knows the card is too small wait for it.
LEMMA NoHopelessWaitStep ==
    TypeOK /\ NoHopelessWait /\ [Next]_vars => NoHopelessWait'
<1> SUFFICES ASSUME TypeOK, NoHopelessWait, [Next]_vars PROVE NoHopelessWait'
  OBVIOUS
<1> USE ClaimsAssumption, NoneAssumption
    DEF TypeOK, NoHopelessWait, Waiting, exceeds_capacity, PCs, Out, Locked
<1>1. ASSUME NEW c \in Claims, NEW w \in Declarations, Begin(c, w)
      PROVE  NoHopelessWait'
  BY <1>1 DEF Begin, default_usable_mb, IsDeclaredMB, Fresh
<1>2. ASSUME NEW c \in Claims, TakeMutex(c) PROVE NoHopelessWait'
  BY <1>2 DEF TakeMutex
<1>3. ASSUME NEW c \in Claims, MutexTimesOut(c) PROVE NoHopelessWait'
  BY <1>3 DEF MutexTimesOut, Raise, Leave
<1>4. ASSUME NEW c \in Claims, ReadLedger(c) PROVE NoHopelessWait'
  BY <1>4 DEF ReadLedger
<1>5. ASSUME NEW c \in Claims, Admit(c) PROVE NoHopelessWait'
  BY <1>5 DEF Admit
<1>6. ASSUME NEW c \in Claims, Refuse(c) PROVE NoHopelessWait'
  BY <1>6 DEF Refuse, Raise, Leave
<1>7. ASSUME NEW c \in Claims, Unlock(c) PROVE NoHopelessWait'
  BY <1>7 DEF Unlock
<1>8. ASSUME NEW c \in Claims, Wake(c) PROVE NoHopelessWait'
  BY <1>8 DEF Wake, Leave, default_usable_mb
<1>9. ASSUME NEW c \in Claims, Release(c) PROVE NoHopelessWait'
  BY <1>9 DEF Release, Leave
<1>10. ASSUME NEW c \in Claims, OldTake(c) PROVE NoHopelessWait'
  BY <1>10 DEF OldTake, Path
<1>11. ASSUME NEW c \in Claims, OldRelease(c) PROVE NoHopelessWait'
  BY <1>11 DEF OldRelease, Path
<1>12. ASSUME NEW s \in Sweepers, SweepList(s) PROVE NoHopelessWait'
  BY <1>12 DEF SweepList
<1>13. ASSUME NEW s \in Sweepers, NEW r \in Claims, SweepJudge(s, r)
       PROVE  NoHopelessWait'
  BY <1>13 DEF SweepJudge
<1>14. ASSUME NEW s \in Sweepers, NEW r \in Claims, SweepUnlink(s, r)
       PROVE  NoHopelessWait'
  BY <1>14 DEF SweepUnlink, Path
<1>15. ASSUME NEW p \in Pids, Crash(p) PROVE NoHopelessWait'
  BY <1>15 DEF Crash
<1>16. ASSUME NEW p \in Pids, Spawn(p) PROVE NoHopelessWait'
  BY <1>16 DEF Spawn
<1>17. ASSUME Flap PROVE NoHopelessWait'
  BY <1>17 DEF Flap
<1>18. CASE UNCHANGED vars
  BY <1>18 DEF vars
<1> QED BY <1>1, <1>2, <1>3, <1>4, <1>5, <1>6, <1>7, <1>8, <1>9, <1>10, <1>11,
     <1>12, <1>13, <1>14, <1>15, <1>16, <1>17, <1>18 DEF Next

\* A claim that cannot ever fit is refused, not left waiting
\* (_refuse_if_too_big).
THEOREM NeverHopeless == Spec => []NoHopelessWait
<1>1. Init => NoHopelessWait
  BY DEF Init, NoHopelessWait, Waiting, Locked
<1>2. TypeOK /\ TypeOK' /\ NoHopelessWait /\ [Next]_vars => NoHopelessWait'
  BY NoHopelessWaitStep
<1> QED BY <1>1, <1>2, TypeCorrect, PTL DEF Spec

\* Whenever acquire() looks, CardClosed means that it would refuse every
\* declaration, and ClaimBusy that some other declaration would fit.
THEOREM ClosedIsExact == Spec => []CardClosedIsExact
<1>1. TypeOK => CardClosedIsExact
  <2> SUFFICES ASSUME TypeOK PROVE CardClosedIsExact
    OBVIOUS
  <2> DEFINE live == live_records(disk)
  <2>1. live \in SUBSET Claims
    BY DEF live_records, TypeOK
  <2>2. IsFiniteSet(live)
    BY <2>1, ClaimsAssumption, FS_Subset
  <2>3. \A r \in live : Vram[r] \in MBs
    BY <2>1 DEF TypeOK, Vram, MBs
  <2> HIDE DEF live
  <2>4. ASSUME NEW u \in {UsableMB, None}
        PROVE  card_is_closed(live, Vram, u) <=>
                 \A w \in (1 .. UsableMB) \cup {None} : ~fits(live, Vram, w, u)
    BY <2>2, <2>3, UsableAssumption, ClosedMeansNothingFits
  <2> QED BY <2>4 DEF CardClosedIsExact, live
<1> QED BY <1>1, TypeCorrect, PTL

-------------------------------------------------------------------------------
(***************************************************************************)
(* The record files implement the book of the card.                        *)
(***************************************************************************)

\* Whoever is inside gpu_claim wants something a caller may declare.
WantDeclared ==
    \A c \in New : pc[c] \notin Out => want[c] \in Declarations

\* No step changes what a claim under way wants (gpu_claim).
LEMMA WantDeclaredStep ==
    LedgerInv /\ WantDeclared /\ [Next]_vars => WantDeclared'
<1> SUFFICES ASSUME LedgerInv, WantDeclared, [Next]_vars PROVE WantDeclared'
  OBVIOUS
<1> USE ClaimsAssumption
    DEF LedgerInv, TypeOK, WantDeclared, New, PCs, Out, Locked, DoomedIsOut,
        ActiveIsAlive
<1>1. ASSUME NEW c \in Claims, NEW w \in Declarations, Begin(c, w)
      PROVE  WantDeclared'
  BY <1>1 DEF Begin, default_usable_mb, IsDeclaredMB
<1>2. ASSUME NEW c \in Claims, TakeMutex(c) PROVE WantDeclared'
  BY <1>2 DEF TakeMutex
<1>3. ASSUME NEW c \in Claims, MutexTimesOut(c) PROVE WantDeclared'
  BY <1>3 DEF MutexTimesOut, Raise, Leave
<1>4. ASSUME NEW c \in Claims, ReadLedger(c) PROVE WantDeclared'
  BY <1>4 DEF ReadLedger
<1>5. ASSUME NEW c \in Claims, Admit(c) PROVE WantDeclared'
  BY <1>5 DEF Admit
<1>6. ASSUME NEW c \in Claims, Refuse(c) PROVE WantDeclared'
  BY <1>6 DEF Refuse, Raise, Leave
<1>7. ASSUME NEW c \in Claims, Unlock(c) PROVE WantDeclared'
  BY <1>7 DEF Unlock
<1>8. ASSUME NEW c \in Claims, Wake(c) PROVE WantDeclared'
  BY <1>8 DEF Wake, Leave, default_usable_mb
<1>9. ASSUME NEW c \in Claims, Release(c) PROVE WantDeclared'
  BY <1>9 DEF Release, Leave
<1>10. ASSUME NEW c \in Claims, OldTake(c) PROVE WantDeclared'
  BY <1>10 DEF OldTake, Path
<1>11. ASSUME NEW c \in Claims, OldRelease(c) PROVE WantDeclared'
  BY <1>11 DEF OldRelease, Path
<1>12. ASSUME NEW s \in Sweepers, SweepList(s) PROVE WantDeclared'
  BY <1>12 DEF SweepList
<1>13. ASSUME NEW s \in Sweepers, NEW r \in Claims, SweepJudge(s, r)
      PROVE  WantDeclared'
  BY <1>13 DEF SweepJudge
<1>14. ASSUME NEW s \in Sweepers, NEW r \in Claims, SweepUnlink(s, r)
      PROVE  WantDeclared'
  BY <1>14 DEF SweepUnlink, Path
<1>15. ASSUME NEW p \in Pids, Crash(p) PROVE WantDeclared'
  BY <1>15 DEF Crash
<1>16. ASSUME NEW p \in Pids, Spawn(p) PROVE WantDeclared'
  BY <1>16 DEF Spawn
<1>17. ASSUME Flap PROVE WantDeclared'
  BY <1>17 DEF Flap
<1>18. CASE UNCHANGED vars
  BY <1>18 DEF vars
<1> QED BY <1>1, <1>2, <1>3, <1>4, <1>5, <1>6, <1>7, <1>8, <1>9, <1>10, <1>11,
     <1>12, <1>13, <1>14, <1>15, <1>16, <1>17, <1>18 DEF Next

\* A step that brings nobody onto the card is a departure in the book, of
\* nobody perhaps.
LEMMA BookShrinks ==
    ASSUME Holders' \subseteq Holders, \A r \in Holders' : want'[r] = want[r]
    PROVE  Book!Next
<1> DEFINE S == Holders \ Holders'
           bk == [c \in Holders |-> want[c]]
<1>1. DOMAIN bk = Holders /\ S \in SUBSET DOMAIN bk
  OBVIOUS
<1>2. [c \in Holders' |-> want'[c]] = [d \in DOMAIN bk \ S |-> bk[d]]
  BY <1>1
<1> HIDE DEF S
<1> QED BY <1>1, <1>2 DEF Book!Next, Book!Depart

\* Writing the record of a claim there was room for enters it in the book.
LEMMA BookGrows ==
    ASSUME LedgerInv, WantDeclared, NEW c \in Claims, Admit(c)
    PROVE  Book!Next
<1> DEFINE bk == [d \in Holders |-> want[d]]
<1>1. c \in New /\ c \notin Holders /\ Holders' = Holders \cup {c} /\ want' = want
  BY DEF Admit, Holders, New, LedgerInv, TypeOK, OldIsSimple, Out
<1>2. /\ want[c] \in Declarations /\ usable[c] \in {UsableMB, None}
      /\ Book!Declarable(want[c])
  BY <1>1 DEF Admit, WantDeclared, Out, LedgerInv, TypeOK, Book!Declarable,
              Book!IsDeclaredMB
<1>3. fits(Holders, want, want[c], usable[c])
  BY DEF Admit, LedgerInv, RoomRemains
<1>4. fits(Holders, bk, want[c], usable[c])
  <2>1. \A r \in Holders : want[r] = bk[r]
    OBVIOUS
  <2> HIDE DEF bk
  <2> QED BY <1>3, <2>1, FitsSame
<1>5. Book!fits(DOMAIN bk, bk, want[c], usable[c])
  <2>1. DOMAIN bk = Holders
    OBVIOUS
  <2> HIDE DEF bk
  <2>2. Book!Blocks(Holders, bk) = Blocks(Holders, bk)
    BY DEF Blocks, MB, Book!Blocks, Book!MB
  <2>3. ASSUME NEW S PROVE Book!Cardinality(S) = Cardinality(S)
    BY DEF Cardinality, Book!Cardinality
  <2>4. Book!Charged(Holders, bk) = Charged(Holders, bk)
    BY <2>2, <2>3 DEF Charged, Book!Charged
  <2> QED BY <1>4, <2>1, <2>3, <2>4 DEF fits, at_cap, has_exclusive, Book!fits,
                                  Book!at_cap, Book!has_exclusive
<1>6. [d \in Holders' |-> want'[d]] =
        [d \in DOMAIN bk \cup {c} |-> IF d = c THEN want[c] ELSE bk[d]]
  BY <1>1
<1> QED BY <1>1, <1>2, <1>5, <1>6 DEF Book!Next, Book!Enter

\* Every step of the ledger is a step of the book or leaves it alone.
LEMMA BookStep ==
    ASSUME LedgerInv, WantDeclared, [Next]_vars
    PROVE  Book!Next
<1> USE ClaimsAssumption
    DEF LedgerInv, TypeOK, PCs, Out, Locked, OldIsSimple, DoomedIsOut, Holders,
        New
<1>1. ASSUME NEW c \in Claims, NEW w \in Declarations, Begin(c, w)
      PROVE  Book!Next
  BY <1>1, BookShrinks DEF Begin, default_usable_mb, IsDeclaredMB
<1>2. ASSUME NEW c \in Claims, TakeMutex(c) PROVE Book!Next
  BY <1>2, BookShrinks DEF TakeMutex
<1>3. ASSUME NEW c \in Claims, MutexTimesOut(c) PROVE Book!Next
  BY <1>3, BookShrinks DEF MutexTimesOut, Raise, Leave
<1>4. ASSUME NEW c \in Claims, ReadLedger(c) PROVE Book!Next
  BY <1>4, BookShrinks DEF ReadLedger
<1>5. ASSUME NEW c \in Claims, Admit(c) PROVE Book!Next
  BY <1>5, BookGrows
<1>6. ASSUME NEW c \in Claims, Refuse(c) PROVE Book!Next
  BY <1>6, BookShrinks DEF Refuse, Raise, Leave
<1>7. ASSUME NEW c \in Claims, Unlock(c) PROVE Book!Next
  BY <1>7, BookShrinks DEF Unlock
<1>8. ASSUME NEW c \in Claims, Wake(c) PROVE Book!Next
  BY <1>8, BookShrinks DEF Wake, Leave, default_usable_mb
<1>9. ASSUME NEW c \in Claims, Release(c) PROVE Book!Next
  BY <1>9, BookShrinks DEF Release, Leave
<1>10. ASSUME NEW c \in Claims, OldTake(c) PROVE Book!Next
  BY <1>10, BookShrinks DEF OldTake, Path
<1>11. ASSUME NEW c \in Claims, OldRelease(c) PROVE Book!Next
  BY <1>11, BookShrinks DEF OldRelease, Path
<1>12. ASSUME NEW s \in Sweepers, SweepList(s) PROVE Book!Next
  BY <1>12, BookShrinks DEF SweepList
<1>13. ASSUME NEW s \in Sweepers, NEW r \in Claims, SweepJudge(s, r)
      PROVE  Book!Next
  BY <1>13, BookShrinks DEF SweepJudge
<1>14. ASSUME NEW s \in Sweepers, NEW r \in Claims, SweepUnlink(s, r)
      PROVE  Book!Next
  BY <1>14, BookShrinks DEF SweepUnlink, Path
<1>15. ASSUME NEW p \in Pids, Crash(p) PROVE Book!Next
  BY <1>15, BookShrinks DEF Crash
<1>16. ASSUME NEW p \in Pids, Spawn(p) PROVE Book!Next
  BY <1>16, BookShrinks DEF Spawn
<1>17. ASSUME Flap PROVE Book!Next
  BY <1>17, BookShrinks DEF Flap
<1>18. CASE UNCHANGED vars
  BY <1>18, BookShrinks DEF vars
<1> QED BY <1>1, <1>2, <1>3, <1>4, <1>5, <1>6, <1>7, <1>8, <1>9, <1>10, <1>11,
     <1>12, <1>13, <1>14, <1>15, <1>16, <1>17, <1>18 DEF Next

\* The ledger implements the book of the card: for any participants, every
\* acquire() takes effect in one step, in which its declaration fits beside
\* everybody on the card (acquire, release, sweep_stale).
THEOREM LedgerImplementsCard == Spec => ImplementsCard
<1>1. Init => Book!Init
  BY ClaimsAssumption DEF Init, Book!Init, Holders, New
<1>2. Init => WantDeclared
  BY ClaimsAssumption DEF Init, WantDeclared, New, Out
<1>3. LedgerInv /\ WantDeclared /\ [Next]_vars => WantDeclared'
  BY WantDeclaredStep
<1>4. LedgerInv /\ WantDeclared /\ [Next]_vars =>
        [Book!Next]_[c \in Holders |-> want[c]]
  BY BookStep
<1> QED BY <1>1, <1>2, <1>3, <1>4, LedgerInvariant, PTL
        DEF Spec, ImplementsCard, Book!Spec
=============================================================================
