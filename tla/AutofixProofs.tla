---------------------------- MODULE AutofixProofs -----------------------------
(***************************************************************************)
(* Autofix, for every set of faults, every budget, cooldown and length of  *)
(* a day, every number of crashes and of unreadable state files: the type  *)
(* invariant, the budget of fix runs per day, what the budget is spent on, *)
(* and that no second issue is filed for a fault.                          *)
(***************************************************************************)
EXTENDS Autofix, FiniteSetTheorems, SequenceTheorems, TLAPS

Issues == Sigs \cup Others

Requests == [sig : Sigs, stamp : Stamps, throttled : BOOLEAN]

\* A filing is about a fault of this box.
SigIsFault == pc # "idle" => sig \in Sigs

Filed == pc = "idle" <=> stamp = None

-------------------------------------------------------------------------------
(***************************************************************************)
(* Types.                                                                  *)
(***************************************************************************)

\* The parts of TypeOK, so that a step need only speak of those it touches.
GithubTyped ==
    /\ labels \subseteq Labels /\ ensured \subseteq Labels
    /\ issues \in Seq(Issues)
    /\ sent \subseteq Requests

FilerTyped ==
    /\ pc \in Stages /\ sig \in Sigs \cup {None} /\ stamp \in Stamps \cup {None}
    /\ Filed /\ SigIsFault

BoxTyped ==
    /\ spent \subseteq Stamps /\ cool \in [Sigs -> 0 .. report_cooldown_s]
    /\ crashes \in 0 .. MaxCrashes /\ blind \in 0 .. MaxBlind
    /\ age \in [Stamps -> 0 .. Horizon]
    /\ runs \subseteq Stamps /\ excused \subseteq Stamps /\ wasted \subseteq Stamps

FlagsTyped == up \in BOOLEAN /\ throttled \in BOOLEAN /\ missed \in BOOLEAN

Typed == GithubTyped /\ FilerTyped /\ BoxTyped /\ FlagsTyped

LEMMA TypeParts == Typed => TypeOK
BY DEF Typed, GithubTyped, FilerTyped, BoxTyped, FlagsTyped, Filed, TypeOK, Issues,
       Requests

\* A call that returns leaves no report behind (file_bug).
LEMMA ReturnsTyped ==
    Returns => FilerTyped' /\ throttled' \in BOOLEAN /\ missed' \in BOOLEAN
BY AutofixAssumption DEF Returns, FilerTyped, Filed, SigIsFault, Stages

\* A request that may have reached GitHub (_create_issue).
LEMMA SentTyped ==
    ASSUME Typed, pc # "idle", MayBeSent \/ UNCHANGED sent
    PROVE  sent' \subseteq Requests
<1>1. Request \in Requests
  BY DEF Request, Requests, Typed, FilerTyped, FlagsTyped, Filed, SigIsFault
<1> QED BY <1>1 DEF MayBeSent, Typed, GithubTyped

\* One issue less (Close).
LEMMA IssueClosed ==
    ASSUME GithubTyped, NEW i \in 1 .. Len(issues), Close(i)
    PROVE  /\ issues' \in Seq(Issues)
           /\ Len(issues') = Len(issues) - 1
           /\ \A k \in 1 .. Len(issues') :
                issues'[k] = issues[IF k < i THEN k ELSE k + 1]
<1> DEFINE a == SubSeq(issues, 1, i - 1)
           b == SubSeq(issues, i + 1, Len(issues))
<1>1. issues \in Seq(Issues) /\ Len(issues) \in Nat
  BY DEF GithubTyped
<1>2. /\ a \in Seq(Issues) /\ Len(a) = i - 1
      /\ \A k \in 1 .. i - 1 : a[k] = issues[k]
  BY <1>1
<1>3. /\ b \in Seq(Issues) /\ Len(b) = Len(issues) - i
      /\ \A k \in 1 .. Len(issues) - i : b[k] = issues[k + i]
  BY <1>1
<1>4. issues' = a \o b
  BY DEF Close
<1> HIDE DEF a, b
<1>5. /\ a \o b \in Seq(Issues) /\ Len(a \o b) = Len(a) + Len(b)
      /\ \A k \in 1 .. Len(a) + Len(b) :
           (a \o b)[k] = IF k <= Len(a) THEN a[k] ELSE b[k - Len(a)]
  BY <1>2, <1>3, ConcatProperties
<1>6. ASSUME NEW k \in 1 .. Len(issues) - 1
      PROVE  issues'[k] = issues[IF k < i THEN k ELSE k + 1]
  <2>1. CASE k < i
    BY <1>1, <1>2, <1>3, <1>4, <1>5, <2>1
  <2>2. CASE k >= i
    <3>1. /\ k - Len(a) \in 1 .. Len(issues) - i /\ k - Len(a) + i = k + 1
          /\ ~(k <= Len(a)) /\ k \in 1 .. Len(a) + Len(b)
      BY <1>1, <1>2, <1>3, <2>2
    <3>2. (a \o b)[k] = b[k - Len(a)]
      BY <1>5, <3>1
    <3>3. b[k - Len(a)] = issues[k - Len(a) + i]
      BY <1>3, <3>1
    <3>4. issues'[k] = issues[k + 1]
      BY <1>4, <3>1, <3>2, <3>3
    <3> QED BY <1>1, <2>2, <3>4
  <2> QED BY <1>1, <2>1, <2>2
<1>7. Len(issues') = Len(issues) - 1 /\ issues' \in Seq(Issues)
  BY <1>1, <1>2, <1>3, <1>4, <1>5
<1> QED BY <1>6, <1>7

\* What is left alone keeps its type.
LEMMA TypeFrame ==
    /\ GithubTyped /\ UNCHANGED <<labels, ensured, issues, sent>> => GithubTyped'
    /\ FilerTyped /\ UNCHANGED <<pc, sig, stamp>> => FilerTyped'
    /\ BoxTyped /\ UNCHANGED <<spent, cool, crashes, blind, age, runs, excused, wasted>>
         => BoxTyped'
    /\ FlagsTyped /\ UNCHANGED <<up, throttled, missed>> => FlagsTyped'
<1>1. GithubTyped /\ UNCHANGED <<labels, ensured, issues, sent>> => GithubTyped'
  BY DEF GithubTyped
<1>2. FilerTyped /\ UNCHANGED <<pc, sig, stamp>> => FilerTyped'
  BY DEF FilerTyped, Filed, SigIsFault
<1>3. BoxTyped /\ UNCHANGED <<spent, cool, crashes, blind, age, runs, excused, wasted>>
        => BoxTyped'
  BY DEF BoxTyped
<1>4. FlagsTyped /\ UNCHANGED <<up, throttled, missed>> => FlagsTyped'
  BY DEF FlagsTyped
<1> QED BY <1>1, <1>2, <1>3, <1>4

\* The steps of a filing that ends, and of one that goes on.
LEMMA FilerTypeStep ==
    ASSUME Typed, Filer
    PROVE  Typed'
<1> USE DEF github, filing, bounds, history
<1>0. GithubTyped /\ FilerTyped /\ BoxTyped /\ FlagsTyped
  BY DEF Typed
<1>1. ASSUME NEW from \in Stages \ {"idle"}, NEW to \in Stages \ {"idle"},
             Goes(from, to)
      PROVE  Typed'
  <2>1. FilerTyped'
    BY <1>0, <1>1 DEF Goes, FilerTyped, Filed, SigIsFault
  <2> QED BY <1>0, <1>1, <2>1, TypeFrame DEF Goes, Typed
<1>2. CASE FoundIssue \/ FoundPr \/ NoPr \/ LookedForClosed
  BY <1>1, <1>2 DEF FoundIssue, FoundPr, NoPr, LookedForClosed, Stages
<1>3. CASE GhError \/ Recurred
  <2>1. Returns /\ UNCHANGED <<github, spent, cool, ensured, bounds, history>>
    BY <1>3 DEF GhError, Recurred
  <2> QED BY <1>0, <2>1, ReturnsTyped, TypeFrame DEF Typed, FlagsTyped
<1>4. CASE NoIssue \/ NoListing
  <2>1. /\ pc = "issue" /\ pc' = "pr"
        /\ UNCHANGED <<github, spent, cool, ensured, sig, stamp, throttled, crashes,
                       history>>
    BY <1>4 DEF NoIssue, NoListing
  <2>2. FilerTyped'
    BY <1>0, <2>1 DEF FilerTyped, Filed, SigIsFault, Stages
  <2>3. BoxTyped'
    <3>1. blind' = blind \/ (blind < MaxBlind /\ blind' = blind + 1)
      BY <1>4, Zenon DEF NoIssue, NoListing
    <3> QED BY <1>0, <2>1, <3>1, AutofixAssumption DEF BoxTyped
  <2>4. FlagsTyped'
    <3>1. missed' \in BOOLEAN
      BY <1>4, Zenon DEF NoIssue, NoListing
    <3> QED BY <1>0, <2>1, <3>1, Zenon DEF FlagsTyped
  <2> QED BY <1>0, <2>1, <2>2, <2>3, <2>4, TypeFrame DEF Typed
<1>5. CASE Throttle \/ DebitFails \/ Debit \/ DebitBlind
  <2>1. pc = "budget" /\ pc' = "labels" /\ UNCHANGED <<github, ensured, sig, stamp>>
    BY <1>5 DEF Throttle, DebitFails, Debit, DebitBlind
  <2>2. FilerTyped' /\ stamp \in Stamps
    BY <1>0, <2>1 DEF FilerTyped, Filed, SigIsFault, Stages
  <2>3. FlagsTyped'
    BY <1>0, <1>5, Zenon DEF Throttle, DebitFails, Debit, DebitBlind, FlagsTyped
  <2>4. BoxTyped'
    BY <1>0, <1>5, <2>2, AutofixAssumption
    DEF Throttle, DebitFails, Debit, DebitBlind, BoxTyped
  <2> QED BY <1>0, <2>1, <2>2, <2>3, <2>4, TypeFrame DEF Typed
<1>6. CASE EnsureLabels
  <2>1. FilerTyped'
    BY <1>0, <1>6 DEF EnsureLabels, FilerTyped, Filed, SigIsFault, Stages
  <2>2. GithubTyped'
    BY <1>0, <1>6 DEF EnsureLabels, GithubTyped
  <2> QED BY <1>0, <1>6, <2>1, <2>2, TypeFrame DEF EnsureLabels, Typed
<1>7. CASE Create
  <2>1. sig \in Sigs /\ stamp \in Stamps
    BY <1>0, <1>7 DEF Create, FilerTyped, Filed, SigIsFault
  <2>2. GithubTyped'
    BY <1>0, <1>7, <2>1 DEF Create, GithubTyped, Issues
  <2>3. BoxTyped'
    BY <1>0, <1>7, <2>1 DEF Create, BoxTyped
  <2>4. FilerTyped' /\ FlagsTyped'
    BY <1>0, <1>7, ReturnsTyped DEF Create, FlagsTyped
  <2> QED BY <2>2, <2>3, <2>4 DEF Typed
<1>8. CASE CreateFails
  <2>1. sig \in Sigs /\ stamp \in Stamps /\ pc # "idle"
    BY <1>0, <1>8 DEF CreateFails, FilerTyped, Filed, SigIsFault
  <2>2. GithubTyped'
    BY <1>0, <1>8, <2>1, SentTyped DEF CreateFails, GithubTyped
  <2>3. BoxTyped'
    BY <1>0, <1>8, <2>1 DEF CreateFails, Refund, BoxTyped
  <2>4. FilerTyped' /\ FlagsTyped'
    BY <1>0, <1>8, ReturnsTyped DEF CreateFails, FlagsTyped
  <2> QED BY <2>2, <2>3, <2>4 DEF Typed
<1> QED BY <1>2, <1>3, <1>4, <1>5, <1>6, <1>7, <1>8 DEF Filer

\* Every step keeps the state of the filer within its types.
LEMMA TypeStep == Typed /\ [Next]_vars => Typed'
<1> SUFFICES ASSUME Typed, [Next]_vars PROVE Typed'
  OBVIOUS
<1> USE DEF github, filing, bounds, history
<1>0. GithubTyped /\ FilerTyped /\ BoxTyped /\ FlagsTyped
  BY DEF Typed
<1>1. ASSUME NEW s \in Sigs, Report(s) PROVE Typed'
  <2>1. FilerTyped'
    BY <1>1, AutofixAssumption DEF Report, FilerTyped, Filed, SigIsFault, Stages
  <2>2. 0 \in 0 .. Horizon /\ report_cooldown_s \in 0 .. report_cooldown_s
    BY AutofixAssumption DEF Horizon
  <2>3. BoxTyped'
    BY <1>0, <1>1, <2>2 DEF Report, Cooldown, BoxTyped
  <2> QED BY <1>0, <1>1, <2>1, <2>3, TypeFrame DEF Report, Typed
<1>2. ASSUME NEW s \in Sigs, CallerFault(s) PROVE Typed'
  <2>1. BoxTyped'
    BY <1>0, <1>2, AutofixAssumption DEF CallerFault, Cooldown, BoxTyped
  <2> QED BY <1>0, <1>2, <2>1, TypeFrame DEF CallerFault, Typed
<1>3. ASSUME NEW r \in sent, Land(r) PROVE Typed'
  <2>1. r \in Requests
    BY <1>0 DEF GithubTyped
  <2>2. r.sig \in Sigs /\ r.stamp \in Stamps
    BY <2>1 DEF Requests
  <2>3. GithubTyped'
    BY <1>0, <1>3, <2>2 DEF Land, Appears, GithubTyped, Issues
  <2>4. BoxTyped'
    BY <1>0, <1>3, <2>2 DEF Land, BoxTyped
  <2>5. FlagsTyped'
    BY <1>0, <1>3, Zenon DEF Land, Appears, FlagsTyped
  <2> QED BY <1>0, <1>3, <2>3, <2>4, <2>5, TypeFrame DEF Land, Typed
<1>4. ASSUME NEW o \in Others, OtherBox(o) PROVE Typed'
  <2>1. GithubTyped'
    BY <1>0, <1>4 DEF OtherBox, Appears, GithubTyped, Issues
  <2>2. FlagsTyped'
    BY <1>0, <1>4, Zenon DEF OtherBox, Appears, FlagsTyped
  <2> QED BY <1>0, <1>4, <2>1, <2>2, TypeFrame DEF OtherBox, Typed
<1>5. ASSUME NEW i \in 1 .. Len(issues), Close(i) PROVE Typed'
  <2>1. GithubTyped'
    BY <1>0, <1>5, IssueClosed DEF Close, GithubTyped
  <2>2. FlagsTyped'
    BY <1>0, <1>5, Zenon DEF Close, FlagsTyped
  <2> QED BY <1>0, <1>5, <2>1, <2>2, TypeFrame DEF Close, Typed
<1>6. CASE Crash
  <2>1. GithubTyped'
    <3>1. sent' \subseteq Requests
      BY <1>0, <1>6, SentTyped DEF Crash, GithubTyped
    <3> QED BY <1>0, <1>6, <3>1 DEF Crash, GithubTyped
  <2>2. BoxTyped'
    BY <1>0, <1>6, AutofixAssumption DEF Crash, BoxTyped
  <2>3. FilerTyped' /\ FlagsTyped'
    BY <1>0, <1>6, ReturnsTyped DEF Crash, FlagsTyped
  <2> QED BY <2>1, <2>2, <2>3 DEF Typed
<1>7. CASE Flap
  <2>1. FlagsTyped'
    BY <1>0, <1>7, Zenon DEF Flap, FlagsTyped
  <2> QED BY <1>0, <1>7, <2>1, TypeFrame DEF Flap, Typed
<1>8. CASE AgentReport
  <2>1. GithubTyped'
    BY <1>0, <1>8 DEF AgentReport, GithubTyped
  <2> QED BY <1>0, <1>8, <2>1, TypeFrame DEF AgentReport, Typed
<1>9. CASE Clock
  <2>1. Horizon \in Nat
    BY AutofixAssumption DEF Horizon
  <2>2. age' \in [Stamps -> 0 .. Horizon]
    BY <1>0, <1>9, <2>1 DEF Clock, BoxTyped
  <2>3. cool' \in [Sigs -> 0 .. report_cooldown_s]
    BY <1>0, <1>9, AutofixAssumption DEF Clock, BoxTyped
  <2>4. BoxTyped'
    BY <1>0, <1>9, <2>2, <2>3 DEF Clock, BoxTyped
  <2>5. GithubTyped'
    BY <1>0, <1>9 DEF Clock, GithubTyped
  <2> QED BY <1>0, <1>9, <2>4, <2>5, TypeFrame DEF Clock, Typed
<1>10. CASE UNCHANGED vars
  BY <1>0, <1>10, TypeFrame DEF vars, Typed
<1> QED BY <1>1, <1>2, <1>3, <1>4, <1>5, <1>6, <1>7, <1>8, <1>9, <1>10,
           FilerTypeStep
        DEF Next

LEMMA TypeInit == Init => Typed
<1> SUFFICES ASSUME Init PROVE Typed
  OBVIOUS
<1>1. GithubTyped
  BY DEF Init, GithubTyped
<1>2. FilerTyped
  BY DEF Init, FilerTyped, Filed, SigIsFault, Stages
<1>3. BoxTyped
  BY AutofixAssumption DEF Init, BoxTyped, Horizon
<1>4. FlagsTyped
  BY Zenon DEF Init, FlagsTyped
<1> QED BY <1>1, <1>2, <1>3, <1>4 DEF Typed

\* The state of the filer is always within its types.
THEOREM TypeCorrect == Spec => []TypeOK
BY TypeInit, TypeStep, TypeParts, PTL DEF Spec

-------------------------------------------------------------------------------
(***************************************************************************)
(* The budget.                                                             *)
(***************************************************************************)

\* The filing under way has a fresh stamp, which is in the file from the debit on.
StampOK ==
    /\ pc # "idle" => age[stamp] <= Filing
    /\ stamp \notin runs /\ stamp \notin Requested
    /\ pc \notin {"labels", "create"} => stamp \notin spent
    /\ throttled => stamp \notin spent
    /\ pc \in {"labels", "create"} /\ ~throttled => stamp \in spent
    /\ pc \notin {"labels", "create"} => ~throttled

AgesOK ==
    /\ \A t \in spent : age[t] < Horizon
    /\ \A t \in runs : age[t] < DAY
    /\ \A t \in Requested : age[t] <= Filing

Debited == pc \in {"labels", "create"} /\ ~throttled

\* The runs that the file has authorised and that it still knows of: those that
\* happened, may still happen, or will.
Authorised ==
    ((spent \cap (runs \cup Requested)) \ excused)
        \cup {t \in {stamp} : Debited}

BudgetOK ==
    /\ runs \ excused \subseteq spent
    /\ Cardinality(Authorised) <= max_dispatches_per_day

BudgetInv == StampOK /\ AgesOK /\ BudgetOK /\ SpentOnRuns

LEMMA TimeFacts ==
    /\ DAY \in Nat /\ Filing \in Nat /\ Filing < DAY /\ Horizon \in Nat
    /\ Horizon = DAY + Filing
BY AutofixAssumption DEF Horizon

LEMMA StampFacts ==
    ASSUME Typed
    PROVE  /\ pc = "idle" <=> stamp = None
           /\ pc # "idle" => stamp \in Stamps
           /\ None \notin spent \cup runs \cup Requested
           /\ Requested \subseteq Stamps
           /\ \A t \in Stamps : age[t] \in 0 .. Horizon
<1>1. Requested \subseteq Stamps
  BY DEF Typed, GithubTyped, Requests, Requested
<1> QED BY <1>1, AutofixAssumption DEF Typed, FilerTyped, BoxTyped, Filed

\* Fewer runs are no more runs.
LEMMA AuthorisedFewer ==
    ASSUME Typed, BudgetOK, Authorised' \subseteq Authorised,
           (runs \ excused)' \subseteq spent'
    PROVE  BudgetOK'
<1>1. Authorised \subseteq Stamps \cup {stamp}
  BY DEF Authorised, Typed, BoxTyped
<1>2. IsFiniteSet(Authorised)
  BY <1>1, AutofixAssumption, FS_AddElement, FS_Subset
<1>3. /\ Cardinality(Authorised') <= Cardinality(Authorised)
      /\ Cardinality(Authorised') \in Nat /\ Cardinality(Authorised) \in Nat
  BY <1>2, FS_Subset, FS_CardinalityType
<1> QED BY <1>3, AutofixAssumption DEF BudgetOK

\* What may_dispatch counts includes every run that was authorised, so that one
\* more is within the budget (record_dispatch).
LEMMA DebitWithinBudget ==
    ASSUME Typed, BudgetInv, Debit
    PROVE  BudgetOK'
<1> DEFINE X == (spent \cap (runs \cup Requested)) \ excused
           C == {t \in spent : age[t] - age[stamp] < DAY}
<1>1. /\ pc = "budget" /\ Cardinality(C) < max_dispatches_per_day
      /\ spent' = spent \cup {stamp} /\ pc' = "labels"
      /\ UNCHANGED <<runs, sent, excused, stamp>>
  BY DEF Debit, dispatches_in_last_day, history, github
<1>2. stamp \in Stamps /\ age[stamp] \in 0 .. Horizon
  BY <1>1, StampFacts
<1>3. X \subseteq C
  <2> SUFFICES ASSUME NEW t \in X PROVE age[t] - age[stamp] < DAY
    OBVIOUS
  <2>1. age[t] \in 0 .. Horizon /\ age[t] < DAY
    BY StampFacts, TimeFacts DEF Typed, BoxTyped, BudgetInv, AgesOK
  <2> QED BY <1>2, <2>1, TimeFacts
<1>4. IsFiniteSet(C)
  <2>1. C \subseteq Stamps
    BY DEF Typed, BoxTyped
  <2> QED BY <2>1, AutofixAssumption, FS_Subset
<1>5. /\ IsFiniteSet(X) /\ Cardinality(X) <= Cardinality(C)
      /\ Cardinality(X) \in Nat /\ Cardinality(C) \in Nat
  BY <1>3, <1>4, FS_Subset, FS_CardinalityType
<1>6. Requested' = Requested
  BY <1>1 DEF Requested
<1>7. Authorised' \subseteq X \cup {stamp}
  BY <1>1, <1>6 DEF Authorised
<1> HIDE DEF X, C
<1>8. /\ IsFiniteSet(X \cup {stamp}) /\ Cardinality(X \cup {stamp}) \in Nat
      /\ Cardinality(X \cup {stamp}) <= Cardinality(X) + 1
  <2>1. /\ IsFiniteSet(X \cup {stamp})
        /\ \/ Cardinality(X \cup {stamp}) = Cardinality(X)
           \/ Cardinality(X \cup {stamp}) = Cardinality(X) + 1
    BY <1>5, FS_AddElement
  <2> QED BY <1>5, <2>1
<1>9. /\ Cardinality(Authorised') <= Cardinality(X \cup {stamp})
      /\ Cardinality(Authorised') \in Nat
  BY <1>7, <1>8, FS_Subset, FS_CardinalityType
<1>10. Cardinality(Authorised') <= max_dispatches_per_day
  BY <1>1, <1>5, <1>8, <1>9, AutofixAssumption
<1>11. (runs \ excused)' \subseteq spent'
  BY <1>1 DEF BudgetInv, BudgetOK
<1> QED BY <1>10, <1>11 DEF BudgetOK

\* A filing that could not read the file is the only one it knows of.
LEMMA BlindWithinBudget ==
    ASSUME Typed, BudgetInv, DebitBlind
    PROVE  BudgetOK'
<1>1. /\ pc = "budget" /\ max_dispatches_per_day > 0
      /\ spent' \in {{stamp}, spent \cup {stamp}}
      /\ excused' = excused \cup (spent \cap (runs \cup Requested))
      /\ UNCHANGED <<runs, sent, stamp>>
  BY DEF DebitBlind, github
<1>2. Requested' = Requested
  BY <1>1 DEF Requested
<1>3. Authorised' \subseteq {stamp}
  BY <1>1, <1>2 DEF Authorised
<1>4. IsFiniteSet({stamp}) /\ Cardinality({stamp}) = 1
  BY FS_Singleton
<1>5. Cardinality(Authorised') <= 1 /\ Cardinality(Authorised') \in Nat
  BY <1>3, <1>4, FS_Subset, FS_CardinalityType
<1>6. (runs \ excused)' \subseteq spent'
  BY <1>1 DEF BudgetInv, BudgetOK
<1> QED BY <1>1, <1>5, <1>6, AutofixAssumption DEF BudgetOK

\* A step that leaves the stamps, the runs and the filing as they are.
LEMMA BudgetFrame ==
    ASSUME Typed, BudgetInv, UNCHANGED <<spent, sent, runs, excused, wasted, age, stamp>>,
           \/ UNCHANGED <<pc, throttled>>
           \/ UNCHANGED throttled /\ pc # "idle" /\ pc' # "idle"
              /\ (pc \in {"labels", "create"} <=> pc' \in {"labels", "create"})
    PROVE  BudgetInv'
<1>1. UNCHANGED <<Requested, Debited>> /\ UNCHANGED Authorised
  BY DEF Requested, Debited, Authorised
<1>2. BudgetOK'
  BY <1>1 DEF BudgetInv, BudgetOK
<1>3. StampOK'
  BY <1>1 DEF BudgetInv, StampOK
<1>4. AgesOK' /\ SpentOnRuns'
  BY <1>1 DEF BudgetInv, AgesOK, SpentOnRuns
<1> QED BY <1>2, <1>3, <1>4 DEF BudgetInv

\* A filing that ends before the debit has cost nothing.
LEMMA ReturnsBudget ==
    ASSUME Typed, BudgetInv, Returns, pc \notin {"labels", "create"},
           UNCHANGED <<spent, sent, runs, excused, wasted, age>>
    PROVE  BudgetInv'
<1>1. UNCHANGED Requested /\ stamp' = None /\ pc' = "idle" /\ ~throttled'
  BY DEF Requested, Returns
<1>2. StampOK'
  BY <1>1, StampFacts DEF StampOK
<1>3. BudgetOK'
  <2>1. Authorised' \subseteq Authorised
    BY <1>1 DEF Authorised, Debited
  <2> QED BY <2>1, AuthorisedFewer DEF BudgetInv, BudgetOK
<1>4. AgesOK' /\ SpentOnRuns'
  BY <1>1 DEF BudgetInv, AgesOK, SpentOnRuns
<1> QED BY <1>2, <1>3, <1>4 DEF BudgetInv

\* The debit, or its refusal.
LEMMA BudgetStageStep ==
    ASSUME Typed, BudgetInv, Throttle \/ DebitFails \/ Debit \/ DebitBlind
    PROVE  BudgetInv'
<1>0. StampOK /\ AgesOK /\ BudgetOK /\ SpentOnRuns
  BY DEF BudgetInv
<1>1. /\ pc = "budget" /\ pc' = "labels" /\ UNCHANGED <<sent, runs, age, stamp>>
      /\ spent' \subseteq spent \cup {stamp}
  BY DEF Throttle, DebitFails, Debit, DebitBlind, github, history
<1>2. stamp \in Stamps /\ age[stamp] <= Filing /\ age[stamp] \in 0 .. Horizon
  BY <1>0, <1>1, StampFacts DEF StampOK
<1>3. Requested' = Requested
  BY <1>1 DEF Requested
<1>4. AgesOK'
  BY <1>0, <1>1, <1>2, <1>3, TimeFacts DEF AgesOK
<1>5. CASE Throttle \/ DebitFails
  <2>1. UNCHANGED <<spent, excused, wasted>> /\ throttled'
    BY <1>5 DEF Throttle, DebitFails, history
  <2>2. StampOK'
    BY <1>0, <1>1, <1>3, <2>1 DEF StampOK
  <2>3. Authorised' \subseteq Authorised
    BY <1>1, <1>3, <2>1 DEF Authorised, Debited
  <2>4. SpentOnRuns'
    BY <1>0, <1>1, <2>1 DEF SpentOnRuns
  <2> QED BY <1>0, <1>1, <1>4, <2>1, <2>2, <2>3, <2>4, AuthorisedFewer
      DEF BudgetInv, BudgetOK
<1>6. CASE Debit \/ DebitBlind
  <2>1. stamp \in spent' /\ UNCHANGED throttled
    BY <1>6 DEF Debit, DebitBlind
  <2>2. StampOK'
    BY <1>0, <1>1, <1>3, <2>1 DEF StampOK
  <2>3. SpentOnRuns'
    <3>1. \A t \in spent' : t \in wasted => t \in wasted'
      BY <1>6 DEF Debit, DebitBlind, history
    <3> QED BY <1>0, <1>1, <3>1 DEF SpentOnRuns
  <2>4. BudgetOK'
    BY <1>6, DebitWithinBudget, BlindWithinBudget
  <2> QED BY <1>4, <2>2, <2>3, <2>4 DEF BudgetInv
<1> QED BY <1>5, <1>6

\* The issue is created, or is not, or the runner dies.
LEMMA CreateBudget ==
    ASSUME Typed, BudgetInv, Create \/ CreateFails \/ Crash
    PROVE  BudgetInv'
<1>0. StampOK /\ AgesOK /\ BudgetOK /\ SpentOnRuns
  BY DEF BudgetInv
<1>1. /\ Returns /\ UNCHANGED <<excused, age>> /\ spent' \subseteq spent
      /\ spent \subseteq spent' \cup {stamp} /\ wasted \subseteq wasted'
  BY DEF Create, CreateFails, Crash, Refund
<1>2. stamp' = None /\ pc' = "idle" /\ ~throttled'
  BY <1>1 DEF Returns
<1>3. stamp \in Stamps => age[stamp] \in 0 .. Horizon
  BY StampFacts
<1>4. /\ runs \subseteq runs' /\ runs' \subseteq runs \cup {stamp}
      /\ runs' # runs => pc = "create" /\ ~throttled /\ UNCHANGED spent
  BY DEF Create, CreateFails, Crash
<1>5. Requested' \subseteq Requested \cup ({stamp} \ {None})
  <2>1. CASE UNCHANGED sent
    BY <2>1 DEF Requested
  <2>2. CASE pc = "create" /\ sent' = {Request}
    <3>1. Requested' = {stamp}
      BY <2>2 DEF Requested, Request
    <3> QED BY <2>2, <3>1, StampFacts
  <2> QED BY <2>1, <2>2 DEF Create, CreateFails, Crash, MayBeSent
<1>6. None \notin spent' \cup runs' \cup Requested'
  BY <1>1, <1>4, <1>5, StampFacts
<1>7. StampOK'
  BY <1>2, <1>6 DEF StampOK
<1>8. AgesOK'
  <2>1. \A t \in Requested' : age[t] <= Filing
    BY <1>0, <1>5, StampFacts DEF AgesOK, StampOK
  <2>2. \A t \in runs' : age[t] < DAY
    BY <1>0, <1>3, <1>4, StampFacts, TimeFacts DEF AgesOK, StampOK
  <2> QED BY <1>0, <1>1, <2>1, <2>2 DEF AgesOK
<1>9. BudgetOK'
  <2>1. stamp \in spent => Debited
    BY <1>0 DEF StampOK, Debited
  <2>2. Authorised' \subseteq Authorised
    BY <1>1, <1>2, <1>4, <1>5, <2>1 DEF Authorised, Debited
  <2>3. (runs \ excused)' \subseteq spent'
    <3>1. CASE runs' = runs
      BY <1>0, <1>1, <3>1 DEF BudgetOK, StampOK
    <3>2. CASE runs' # runs
      BY <1>0, <1>1, <1>4, <3>2 DEF BudgetOK, StampOK
    <3> QED BY <3>1, <3>2
  <2> QED BY <1>0, <2>2, <2>3, AuthorisedFewer
<1>10. SpentOnRuns'
  <2>1. stamp \in spent' => stamp \in runs' \cup wasted'
    BY <1>0 DEF Create, CreateFails, Crash, Refund, StampOK
  <2> QED BY <1>0, <1>1, <1>4, <2>1 DEF SpentOnRuns
<1> QED BY <1>7, <1>8, <1>9, <1>10 DEF BudgetInv

\* A request that lands is a run the file knows of, or an excused one.
LEMMA LandBudget ==
    ASSUME Typed, BudgetInv, NEW r \in sent, Land(r)
    PROVE  BudgetInv'
<1>0. StampOK /\ AgesOK /\ BudgetOK /\ SpentOnRuns
  BY DEF BudgetInv
<1>1. /\ UNCHANGED <<spent, pc, stamp, throttled, age, wasted>>
      /\ sent' \subseteq sent /\ excused \subseteq excused'
      /\ runs \subseteq runs' /\ runs' \subseteq runs \cup {r.stamp}
      /\ runs' # runs => r.stamp \in spent \/ r.stamp \in excused'
  BY DEF Land, filing
<1>2. r.stamp \in Requested /\ Requested' \subseteq Requested
  BY <1>1 DEF Requested
<1>3. StampOK'
  BY <1>0, <1>1, <1>2 DEF StampOK
<1>4. AgesOK'
  BY <1>0, <1>1, <1>2, StampFacts, TimeFacts DEF AgesOK
<1>5. BudgetOK'
  <2>1. Authorised' \subseteq Authorised
    BY <1>1, <1>2 DEF Authorised, Debited
  <2>2. (runs \ excused)' \subseteq spent'
    BY <1>0, <1>1 DEF BudgetOK
  <2> QED BY <1>0, <2>1, <2>2, AuthorisedFewer
<1>6. SpentOnRuns'
  BY <1>0, <1>1 DEF SpentOnRuns
<1> QED BY <1>3, <1>4, <1>5, <1>6 DEF BudgetInv

\* A new filing has a stamp that nothing else has.
LEMMA ReportBudget ==
    ASSUME Typed, BudgetInv, NEW s \in Sigs, Report(s)
    PROVE  BudgetInv'
<1>0. StampOK /\ AgesOK /\ BudgetOK /\ SpentOnRuns
  BY DEF BudgetInv
<1>1. PICK t \in Stamps \ InUse : stamp' = t /\ age' = [age EXCEPT ![t] = 0]
  BY DEF Report
<1>2. /\ pc = "idle" /\ pc' = "issue"
      /\ UNCHANGED <<spent, sent, runs, excused, wasted, throttled>>
  BY DEF Report, github
<1>3. Requested' = Requested /\ t \notin spent \cup runs \cup Requested
  BY <1>1, <1>2 DEF Requested, InUse
<1>4. age'[t] = 0 /\ \A u \in Stamps : u # t => age'[u] = age[u]
  BY <1>1 DEF Typed, BoxTyped
<1>5. StampOK'
  BY <1>0, <1>1, <1>2, <1>3, <1>4, TimeFacts DEF StampOK
<1>6. AgesOK'
  BY <1>0, <1>2, <1>3, <1>4, StampFacts DEF AgesOK, Typed, BoxTyped
<1>7. BudgetOK'
  <2>1. Authorised' \subseteq Authorised
    BY <1>2, <1>3 DEF Authorised, Debited
  <2> QED BY <1>0, <1>2, <2>1, AuthorisedFewer DEF BudgetOK
<1>8. SpentOnRuns'
  BY <1>0, <1>2, <1>3, <1>4 DEF SpentOnRuns, Typed, BoxTyped
<1> QED BY <1>5, <1>6, <1>7, <1>8 DEF BudgetInv

\* Time takes runs out of the day before it takes them out of the file.
LEMMA ClockBudget ==
    ASSUME Typed, BudgetInv, Clock
    PROVE  BudgetInv'
<1>0. StampOK /\ AgesOK /\ BudgetOK /\ SpentOnRuns
  BY DEF BudgetInv
<1>1. /\ pc # "idle" => age[stamp] < Filing
      /\ UNCHANGED <<pc, stamp, throttled>> /\ sent' = {}
      /\ spent' = {t \in spent : age'[t] < Horizon}
      /\ runs' = {t \in runs : age'[t] < DAY}
      /\ excused' = excused \cap runs' /\ wasted' = wasted \cap spent'
  BY DEF Clock, filing
<1>2. \A t \in Stamps : age'[t] = IF t \in InUse /\ age[t] < Horizon
                                  THEN age[t] + 1 ELSE 0
  BY DEF Clock
<1>3. Requested' = {}
  BY <1>1 DEF Requested
<1>4. ASSUME pc # "idle" PROVE age'[stamp] <= Filing /\ age'[stamp] < Horizon
  BY <1>1, <1>2, <1>4, StampFacts, TimeFacts DEF InUse
<1>5. StampOK'
  <2>1. pc # "idle" => (stamp \in spent <=> stamp \in spent')
    BY <1>1, <1>4
  <2>2. pc = "idle" => stamp \notin spent'
    BY <1>1, StampFacts
  <2>3. stamp \notin runs' /\ stamp \notin Requested'
    BY <1>0, <1>1, <1>3 DEF StampOK
  <2> QED BY <1>0, <1>1, <1>4, <2>1, <2>2, <2>3 DEF StampOK
<1>6. AgesOK'
  BY <1>1, <1>3 DEF AgesOK
<1>7. BudgetOK'
  <2>1. Authorised' \subseteq Authorised
    BY <1>1, <1>3 DEF Authorised, Debited
  <2>2. (runs \ excused)' \subseteq spent'
    <3>1. \A t \in runs' : age'[t] < Horizon
      <4>1. \A t \in runs' : age'[t] \in Int /\ age'[t] < DAY
        BY <1>1, <1>2, StampFacts DEF Typed, BoxTyped
      <4> QED BY <4>1, TimeFacts
    <3> QED BY <1>0, <1>1, <3>1 DEF BudgetOK
  <2> QED BY <1>0, <2>1, <2>2, AuthorisedFewer
<1>8. SpentOnRuns'
  <2> SUFFICES ASSUME NEW t \in spent',
                      ~(t \in runs' \cup wasted'),
                      ~(t = stamp /\ pc \in {"labels", "create"})
               PROVE  age'[t] >= DAY
    BY <1>1 DEF SpentOnRuns
  <2>1. /\ t \in spent /\ t \in Stamps /\ age[t] \in 0 .. Horizon
        /\ age'[t] = age[t] + 1
    BY <1>0, <1>1, <1>2, StampFacts DEF AgesOK, InUse, Typed, BoxTyped
  <2>2. age[t] >= DAY \/ t \in runs
    BY <1>0, <1>1, <2>1 DEF SpentOnRuns
  <2> QED BY <1>1, <2>1, <2>2, TimeFacts
<1> QED BY <1>5, <1>6, <1>7, <1>8 DEF BudgetInv

\* Every step keeps the budget.
LEMMA BudgetStep == Typed /\ BudgetInv /\ [Next]_vars => BudgetInv'
<1> SUFFICES ASSUME Typed, BudgetInv, [Next]_vars PROVE BudgetInv'
  OBVIOUS
<1> USE DEF github, filing, bounds, history
<1>1. CASE GhError \/ Recurred
  BY <1>1, ReturnsBudget DEF GhError, Recurred
<1>2. CASE FoundIssue \/ FoundPr \/ NoPr \/ LookedForClosed \/ NoIssue \/ NoListing
  BY <1>2, BudgetFrame
  DEF FoundIssue, FoundPr, NoPr, LookedForClosed, NoIssue, NoListing, Goes
<1>3. CASE EnsureLabels
  BY <1>3, BudgetFrame DEF EnsureLabels
<1>4. CASE \/ \E s \in Sigs : CallerFault(s)
           \/ \E o \in Others : OtherBox(o)
           \/ \E i \in 1 .. Len(issues) : Close(i)
           \/ Flap \/ AgentReport \/ UNCHANGED vars
  BY <1>4, BudgetFrame DEF CallerFault, OtherBox, Appears, Close, Flap, AgentReport, vars
<1> QED BY <1>1, <1>2, <1>3, <1>4, BudgetStageStep, CreateBudget, LandBudget,
           ReportBudget, ClockBudget
        DEF Next, Filer

LEMMA BudgetInit == Init => BudgetInv
<1> SUFFICES ASSUME Init PROVE BudgetInv
  OBVIOUS
<1>1. /\ pc = "idle" /\ ~throttled /\ stamp = None /\ Requested = {}
      /\ spent = {} /\ runs = {}
  BY DEF Init, Requested
<1>2. StampOK /\ AgesOK /\ SpentOnRuns
  BY <1>1 DEF StampOK, AgesOK, SpentOnRuns
<1>3. Authorised = {}
  BY <1>1 DEF Authorised, Debited
<1> QED BY <1>1, <1>2, <1>3, FS_EmptySet, AutofixAssumption DEF BudgetInv, BudgetOK

\* No more than max_dispatches_per_day fix runs are authorised in a day (may_dispatch,
\* record_dispatch, refund_dispatch).
THEOREM WithinBudget == Spec => []BudgetPerDay
<1>1. ASSUME Typed, BudgetInv PROVE BudgetPerDay
  <2>1. runs \ excused \subseteq Authorised /\ Authorised \subseteq Stamps \cup {stamp}
    BY <1>1 DEF Typed, BoxTyped, BudgetInv, BudgetOK, Authorised
  <2>2. IsFiniteSet(Authorised)
    BY <2>1, AutofixAssumption, FS_AddElement, FS_Subset
  <2>3. /\ Cardinality(runs \ excused) <= Cardinality(Authorised)
        /\ Cardinality(runs \ excused) \in Nat /\ Cardinality(Authorised) \in Nat
    BY <2>1, <2>2, FS_Subset, FS_CardinalityType
  <2> QED BY <1>1, <2>3, AutofixAssumption DEF BudgetInv, BudgetOK, BudgetPerDay
<1> QED BY <1>1, TypeInit, TypeStep, BudgetInit, BudgetStep, PTL DEF Spec

\* What the file counts against the day is a run, the filing under way, or what a
\* crash or a failed refund left there (refund_dispatch).
THEOREM SpendsOnRuns == Spec => []SpentOnRuns
<1>1. BudgetInv => SpentOnRuns
  BY DEF BudgetInv
<1> QED BY <1>1, TypeInit, TypeStep, BudgetInit, BudgetStep, PTL DEF Spec

-------------------------------------------------------------------------------
(***************************************************************************)
(* No second issue for a fault.                                            *)
(***************************************************************************)

\* While a filing that has found no open issue goes on there is none, but for
\* those that it could not see.
NoneSeen ==
    pc \in Unfound /\ ~missed => \A i \in 1 .. Len(issues) : issues[i] # sig

\* A step that leaves the issues alone, and finds out nothing.
LEMMA IssueFrame ==
    ASSUME NoneSeen, UNCHANGED <<issues, missed>>,
           pc' \in Unfound => pc \in Unfound /\ UNCHANGED sig
    PROVE  NoneSeen'
BY DEF NoneSeen

\* What the lookup finds out: an issue of this fault that is open is missed
\* (find_open_issue).
LEMMA LookupIssues ==
    ASSUME NoIssue \/ NoListing, Typed
    PROVE  NoneSeen'
<1>1. UNCHANGED <<issues, sig>> /\ Len(issues) \in Nat
      /\ DOMAIN issues = 1 .. Len(issues)
  <2>1. UNCHANGED <<issues, sig>>
    BY Zenon DEF NoIssue, NoListing, github
  <2> QED BY <2>1 DEF Typed, GithubTyped
<1>2. CASE NoIssue
  BY <1>1, <1>2 DEF NoIssue, NoneSeen
<1>3. CASE NoListing
  BY <1>1, <1>3 DEF NoListing, NoneSeen
<1> QED BY <1>2, <1>3

\* An issue that appears meanwhile is missed by the filing under way (Land, OtherBox).
LEMMA AppearsIssues ==
    ASSUME Typed, NoneSeen, NEW s \in Issues, Appears(s), UNCHANGED <<pc, sig>>
    PROVE  NoneSeen'
<1> SUFFICES ASSUME pc \in Unfound, ~missed', NEW i \in 1 .. Len(issues')
             PROVE  issues'[i] # sig
  BY DEF NoneSeen
<1>1. s # sig /\ ~missed
  BY DEF Appears
<1>2. /\ issues \in Seq(Issues) /\ Len(issues) \in Nat
      /\ Len(issues') = Len(issues) + 1 /\ issues'[Len(issues) + 1] = s
      /\ \A k \in 1 .. Len(issues) : issues'[k] = issues[k]
  BY AppendProperties DEF Appears, Typed, GithubTyped
<1> QED BY <1>1, <1>2 DEF NoneSeen

\* An issue that is closed is missed no more.
LEMMA CloseIssues ==
    ASSUME Typed, NoneSeen, NEW i \in 1 .. Len(issues), Close(i)
    PROVE  NoneSeen'
<1>1. /\ UNCHANGED <<pc, sig>> /\ Len(issues) \in Nat
      /\ missed' = (missed /\ \E k \in 1 .. Len(issues') : issues'[k] = sig)
  BY DEF Close, Typed, GithubTyped
<1>2. /\ Len(issues') = Len(issues) - 1
      /\ \A k \in 1 .. Len(issues') :
           issues'[k] = issues[IF k < i THEN k ELSE k + 1]
  BY IssueClosed DEF Typed
<1>3. \A k \in 1 .. Len(issues') : \E l \in 1 .. Len(issues) : issues'[k] = issues[l]
  BY <1>1, <1>2
<1> QED BY <1>1, <1>3 DEF NoneSeen

LEMMA IssueStep == Typed /\ NoneSeen /\ [Next]_vars => NoneSeen'
<1> SUFFICES ASSUME Typed, NoneSeen, [Next]_vars PROVE NoneSeen'
  OBVIOUS
<1> USE DEF github, filing, bounds, history
<1>1. ASSUME NEW r \in sent, Land(r) PROVE NoneSeen'
  <2>1. r.sig \in Issues
    BY DEF Typed, GithubTyped, Requests, Issues
  <2> QED BY <1>1, <2>1, AppearsIssues DEF Land
<1>2. ASSUME NEW o \in Others, OtherBox(o) PROVE NoneSeen'
  BY <1>2, AppearsIssues DEF OtherBox, Issues
<1>3. CASE GhError \/ Recurred \/ Create \/ CreateFails \/ Crash
  BY <1>3
  DEF GhError, Recurred, Create, CreateFails, Crash, Returns, NoneSeen, Unfound
<1>4. CASE \/ FoundIssue \/ FoundPr \/ NoPr \/ LookedForClosed
           \/ \E s \in Sigs : Report(s)
  BY <1>4, IssueFrame
  DEF FoundIssue, FoundPr, NoPr, LookedForClosed, Goes, Report, Unfound
<1>5. CASE Throttle \/ DebitFails \/ Debit \/ DebitBlind \/ EnsureLabels
  BY <1>5, IssueFrame
  DEF Throttle, DebitFails, Debit, DebitBlind, EnsureLabels, Unfound
<1>6. CASE \/ \E s \in Sigs : CallerFault(s)
           \/ Flap \/ AgentReport \/ Clock \/ UNCHANGED vars
  BY <1>6, IssueFrame DEF CallerFault, Flap, AgentReport, Clock, vars
<1> QED BY <1>1, <1>2, <1>3, <1>4, <1>5, <1>6, LookupIssues, CloseIssues
        DEF Next, Filer

\* No issue is filed for a fault that has an open one, unless the lookup could not
\* show it: past its limit, in an answer that could not be parsed, or not there yet
\* (find_open_issue, _create_issue).
THEOREM OneIssue == Spec => OneOpenIssue
<1>1. Init => NoneSeen
  BY DEF Init, NoneSeen, Unfound
<1>2. NoneSeen /\ [Next]_vars
        => [Create => missed \/ \A i \in 1 .. Len(issues) : issues[i] # sig]_vars
  BY DEF NoneSeen, Create, Unfound
<1> QED BY <1>1, <1>2, TypeInit, TypeStep, IssueStep, PTL DEF Spec, OneOpenIssue

=============================================================================
