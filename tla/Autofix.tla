------------------------------- MODULE Autofix --------------------------------
(***************************************************************************)
(* Runner._report_bug (runner.py) and file_bug (bugfiler.py): the runner   *)
(* files a bug against gpuq on GitHub, once per signature, and within a    *)
(* budget of fix runs per rolling day that is kept in a file.              *)
(*                                                                         *)
(* GitHub and its owner go on by themselves between two calls of gh.  A    *)
(* call that fails may have reached GitHub: what it asked for can still    *)
(* happen, after gh timed out or after the runner died.                    *)
(*                                                                         *)
(* Times are ages.  What the runner writes down for a filing is its stamp, *)
(* the time at which file_bug began; ages of stamps are in `age'.          *)
(***************************************************************************)
EXTENDS Integers, FiniteSets, Sequences

CONSTANTS
    Sigs,           \* signatures of the faults that happen on the box
    Others,         \* signatures of the faults that happen on other boxes: signature()
                    \* is the same on every box
    Stamps,         \* bounds the stamps in use at a time
    max_dispatches_per_day,
    report_cooldown_s,
    DAY,            \* a day
    Filing,         \* how long a filing takes at most: a few GH_TIMEOUT_S, which is
                    \* minutes
    OPEN_ISSUE_LIMIT,
    MaxOpen,        \* bounds the open issues that late and other ones join
    MaxCrashes,     \* bounds the crashes of a run
    MaxBlind,       \* bounds the times the state file or a listing cannot be read
    None

ASSUME AutofixAssumption ==
    /\ IsFiniteSet(Stamps) /\ None \notin Stamps /\ None \notin Sigs
    /\ max_dispatches_per_day \in Nat
    /\ report_cooldown_s \in Nat \ {0}
    /\ DAY \in Nat \ {0} /\ Filing \in Nat /\ Filing < DAY
    /\ OPEN_ISSUE_LIMIT \in Nat \ {0} /\ MaxOpen \in Nat
    /\ MaxCrashes \in Nat /\ MaxBlind \in Nat

VARIABLES
    \* GitHub
    up,         \* does it answer?
    labels,     \* the labels that exist
    issues,     \* the open gpuq-auto issues, oldest first: their signatures
    sent,       \* requests for an issue whose sender has given up
    \* the box
    spent,      \* the state file: the stamps that may still count
    cool,       \* _report_cooldowns: per signature, the time that is left
    ensured,    \* _labels_ensured
    pc,         \* where file_bug is
    sig, stamp, throttled, \* its report and what it has decided
    crashes, blind,
    \* history
    age,        \* how old each stamp is
    runs,       \* the fix runs of the last day, by stamp
    excused,    \* stamps the budget lost: not read, or refunded though used
    wasted,     \* stamps that a crash or a failed refund left in the file
    missed      \* is an issue of its fault open that the filing could not see?

github == <<up, labels, issues, sent>>
filing == <<pc, sig, stamp, throttled, missed>>
bounds == <<crashes, blind>>
history == <<age, runs, excused, wasted>>
vars == <<github, spent, cool, ensured, filing, bounds, history>>

AUTO_LABEL == "gpuq-auto"
THROTTLED_LABEL == "throttled"
Labels == {AUTO_LABEL, THROTTLED_LABEL}

Stages == {"idle", "issue", "recurrence", "pr", "closed", "budget", "labels",
           "create"}

\* The stages of a filing that has found no open issue.
Unfound == {"pr", "closed", "budget", "labels", "create"}

\* A stamp that is older counts for nothing any more.
Horizon == DAY + Filing

Requested == {r.stamp : r \in sent}

InUse == spent \cup runs \cup Requested \cup ({stamp} \ {None})

Init ==
    /\ up \in BOOLEAN
    /\ labels = {} /\ issues = <<>> /\ sent = {}
    /\ spent = {}
    /\ cool = [s \in Sigs |-> 0]
    /\ ensured = {}
    /\ pc = "idle" /\ sig = None /\ stamp = None /\ throttled = FALSE
    /\ missed = FALSE
    /\ crashes = 0 /\ blind = 0
    /\ age = [t \in Stamps |-> 0]
    /\ runs = {} /\ excused = {} /\ wasted = {}

-------------------------------------------------------------------------------
(***************************************************************************)
(* Runner._report_bug.                                                     *)
(***************************************************************************)

\* Mutant: one too many.
Cooldown_Late(s) == cool' = [cool EXCEPT ![s] = report_cooldown_s + 1]

\* The time of the attempt is noted before there is one.
Cooldown(s) == cool' = [cool EXCEPT ![s] = report_cooldown_s]

\* A fault outside its cooldown is filed; within it, nothing happens at all.
Report(s) ==
    /\ pc = "idle" /\ cool[s] = 0
    /\ Cooldown(s)
    /\ \E t \in Stamps \ InUse :
        /\ t = CHOOSE u \in Stamps : u \notin InUse
        /\ stamp' = t
        /\ age' = [age EXCEPT ![t] = 0]
    /\ sig' = s /\ pc' = "issue"
    /\ UNCHANGED <<github, spent, ensured, throttled, missed, bounds, runs,
                   excused, wasted>>

\* is_gpuq_fault: the caller's fault has a signature of its own kind or that of
\* a fault of gpuq (StartFailed, whatever its errno), and spends the cooldown.
CallerFault(s) ==
    /\ pc = "idle" /\ cool[s] = 0
    /\ Cooldown(s)
    /\ UNCHANGED <<github, spent, ensured, filing, bounds, history>>

\* file_bug is over, and with it _report_bug: it swallows what is raised.
Returns ==
    /\ pc' = "idle" /\ sig' = None /\ stamp' = None /\ throttled' = FALSE
    /\ missed' = FALSE

\* A call of gh before the issue is created fails, and ends the filing.
GhError ==
    /\ pc \in {"issue", "recurrence", "pr", "closed"}
    /\ ~up
    /\ Returns
    /\ UNCHANGED <<github, spent, cool, ensured, bounds, history>>

Goes(from, to) ==
    /\ pc = from /\ up
    /\ pc' = to
    /\ UNCHANGED <<github, spent, cool, ensured, sig, stamp, throttled, missed,
                   bounds, history>>

-------------------------------------------------------------------------------
(***************************************************************************)
(* find_open_issue, find_open_pr and find_recent_closed.                   *)
(***************************************************************************)

\* The newest issues that the list is limited to.
Listed == {i \in 1 .. Len(issues) : i > Len(issues) - OPEN_ISSUE_LIMIT}

\* An open issue: there will be no other.
FoundIssue ==
    /\ \E i \in Listed : issues[i] = sig
    /\ Goes("issue", "recurrence")

\* Mutant: the answer may be out of date.
NoIssue_Stale ==
    /\ pc = "issue" /\ up
    /\ pc' = "pr"
    /\ missed' = \E i \in DOMAIN issues \ Listed : issues[i] = sig
    /\ UNCHANGED <<github, spent, cool, ensured, sig, stamp, throttled, bounds,
                   history>>

\* None that is listed: an older one is missed.
NoIssue ==
    /\ pc = "issue" /\ up
    /\ \A i \in Listed : issues[i] # sig
    /\ pc' = "pr"
    /\ missed' = \E i \in DOMAIN issues \ Listed : issues[i] = sig
    /\ UNCHANGED <<github, spent, cool, ensured, sig, stamp, throttled, bounds,
                   history>>

\* An answer that is empty or no JSON lists nothing: whatever is open is missed.
NoListing ==
    /\ pc = "issue" /\ up /\ blind < MaxBlind
    /\ pc' = "pr"
    /\ missed' = \E i \in DOMAIN issues : issues[i] = sig
    /\ blind' = blind + 1
    /\ UNCHANGED <<github, spent, cool, ensured, sig, stamp, throttled, crashes,
                   history>>

\* An open pull request, if the search index has it.
FoundPr == Goes("pr", "recurrence")

NoPr == Goes("pr", "closed")

\* The recurrence is written down: a comment on the pull request; or on the
\* issue, if it was not seen for a day, and its body edited.
Recurred ==
    /\ pc = "recurrence" /\ up
    /\ Returns
    /\ UNCHANGED <<github, spent, cool, ensured, bounds, history>>

LookedForClosed == Goes("closed", "budget")

-------------------------------------------------------------------------------
(***************************************************************************)
(* may_dispatch, record_dispatch, refund_dispatch.                         *)
(***************************************************************************)
dispatches_in_last_day ==
    Cardinality({t \in spent : age[t] - age[stamp] < DAY})

\* The budget of the day is spent: the issue is filed all the same.
Throttle ==
    /\ pc = "budget"
    /\ dispatches_in_last_day >= max_dispatches_per_day
    /\ throttled' = TRUE /\ pc' = "labels"
    /\ UNCHANGED <<github, spent, cool, ensured, sig, stamp, missed, bounds,
                   history>>

\* The budget is debited before there is an issue.
Debit ==
    /\ pc = "budget"
    /\ dispatches_in_last_day < max_dispatches_per_day
    /\ spent' = spent \cup {stamp}
    /\ pc' = "labels"
    /\ UNCHANGED <<github, cool, ensured, sig, stamp, throttled, missed, bounds,
                   history>>

\* Mutant: the run is authorised all the same.
DebitFails_Dispatches ==
    /\ pc = "budget"
    /\ dispatches_in_last_day < max_dispatches_per_day
    /\ pc' = "labels"
    /\ UNCHANGED <<github, spent, cool, ensured, sig, stamp, throttled, missed,
                   bounds, history>>

\* The file cannot be written: filed as throttled.
DebitFails ==
    /\ pc = "budget"
    /\ dispatches_in_last_day < max_dispatches_per_day
    /\ throttled' = TRUE /\ pc' = "labels"
    /\ UNCHANGED <<github, spent, cool, ensured, sig, stamp, missed, bounds,
                   history>>

\* _load_dispatches: a file that cannot be read counts as empty, when it is
\* asked for the budget, and when it is written again without what was in it.
DebitBlind ==
    /\ pc = "budget" /\ blind < MaxBlind
    /\ max_dispatches_per_day > 0
    /\ spent' \in {{stamp}, spent \cup {stamp}}
    /\ excused' = excused \cup (spent \cap (runs \cup Requested))
    /\ wasted' = wasted \cap spent'
    /\ blind' = blind + 1
    /\ pc' = "labels"
    /\ UNCHANGED <<github, cool, ensured, sig, stamp, throttled, missed,
                   crashes, age, runs>>

-------------------------------------------------------------------------------
(***************************************************************************)
(* _create_issue.                                                          *)
(***************************************************************************)

\* Mutant: the whole set is remembered, whatever became of it.
EnsureLabels_Remembered ==
    /\ pc = "labels"
    /\ \E made \in SUBSET (Labels \ ensured) :
        /\ up => made = Labels \ ensured
        /\ labels' = labels \cup made
    /\ ensured' = Labels
    /\ pc' = "create"
    /\ UNCHANGED <<up, issues, sent, spent, cool, sig, stamp, throttled,
                   missed, bounds, history>>

\* ensure_labels: those that were not made are tried again the next time.
EnsureLabels ==
    /\ pc = "labels"
    /\ \E made \in SUBSET (Labels \ ensured) :
        /\ up => made = Labels \ ensured
        /\ labels' = labels \cup made
        /\ ensured' = ensured \cup made
    /\ pc' = "create"
    /\ UNCHANGED <<up, issues, sent, spent, cool, sig, stamp, throttled,
                   missed, bounds, history>>

\* GitHub refuses an issue with a label that it does not have.
Labelled ==
    {AUTO_LABEL} \cup (IF throttled THEN {THROTTLED_LABEL} ELSE {}) \subseteq labels

\* The workflow runs on a gpuq-auto issue that is opened without `throttled'.
Create ==
    /\ pc = "create" /\ up /\ Labelled
    /\ issues' = Append(issues, sig)
    /\ runs' = IF throttled THEN runs ELSE runs \cup {stamp}
    /\ Returns
    /\ UNCHANGED <<up, labels, sent, spent, cool, ensured, bounds, age,
                   excused, wasted>>

Request == [sig |-> sig, stamp |-> stamp, throttled |-> throttled]

\* GitHub got the request or it did not.
MayBeSent ==
    \/ UNCHANGED sent
    \/ Labelled /\ sent = {} /\ sent' = {Request}

\* Mutant: the budget is not given back.
Refund_Never == UNCHANGED <<spent, wasted>>

\* refund_dispatch, which may fail.
Refund ==
    \/ spent' = spent \ {stamp} /\ UNCHANGED wasted
    \/ UNCHANGED spent /\ wasted' = wasted \cup {stamp}

\* The call failed, was refused or timed out: what was debited is given back.
CreateFails ==
    /\ pc = "create"
    /\ ~Labelled \/ ~up
    /\ MayBeSent
    /\ IF throttled THEN UNCHANGED <<spent, wasted>> ELSE Refund
    /\ Returns
    /\ UNCHANGED <<up, labels, issues, cool, ensured, bounds, age, runs,
                   excused>>

\* The runner dies, at any step, and loses all it has in memory.
Crash ==
    /\ crashes < MaxCrashes /\ crashes' = crashes + 1
    /\ IF pc = "create" THEN MayBeSent ELSE UNCHANGED sent
    /\ wasted' = wasted \cup ({stamp} \cap spent)
    /\ Returns
    /\ cool' = [s \in Sigs |-> 0]
    /\ ensured' = {}
    /\ UNCHANGED <<up, labels, issues, spent, blind, age, runs, excused>>

-------------------------------------------------------------------------------
(***************************************************************************)
(* GitHub, its owner, and time.                                            *)
(***************************************************************************)
Flap ==
    /\ up' = ~up
    /\ UNCHANGED <<labels, issues, sent, spent, cool, ensured, filing,
                   bounds, history>>

\* An issue that this box's lookup has no part in; the filing under way for the
\* same fault does not see it any more.
Appears(s) ==
    /\ Len(issues) < MaxOpen
    /\ issues' = Append(issues, s)
    /\ missed' = (missed \/ (pc \in Unfound /\ sig = s))

\* What was asked for happens after all.
Land(r) ==
    /\ Appears(r.sig)
    /\ sent' = sent \ {r}
    /\ runs' = IF r.throttled THEN runs ELSE runs \cup {r.stamp}
    /\ excused' = IF r.throttled \/ r.stamp \in spent
                  THEN excused ELSE excused \cup {r.stamp}
    /\ UNCHANGED <<up, labels, spent, cool, ensured, pc, sig, stamp, throttled,
                   bounds, age, wasted>>

\* Another box files a bug in the same repository, a fault that this box may have too.
OtherBox(o) ==
    /\ Appears(o)
    /\ UNCHANGED <<up, labels, sent, spent, cool, ensured, pc, sig, stamp,
                   throttled, bounds, history>>

\* The owner closes an issue, or takes from it its label or its `sig:' line.
Close(i) ==
    /\ issues' = SubSeq(issues, 1, i - 1) \o SubSeq(issues, i + 1, Len(issues))
    /\ missed' = (missed /\ \E k \in 1 .. Len(issues') : issues'[k] = sig)
    /\ UNCHANGED <<up, labels, sent, spent, cool, ensured, pc, sig, stamp,
                   throttled, bounds, history>>

\* file_agent_report (`gpuq bug'): the labels are made; its issue is not a
\* gpuq-auto one, so that no lookup lists it and no run starts.
AgentReport ==
    /\ up /\ labels # Labels
    /\ labels' = Labels
    /\ UNCHANGED <<up, issues, sent, spent, cool, ensured, filing, bounds,
                   history>>

\* Time passes, a filing under way permitting.  A request that was sent has
\* arrived before it does, or never will.  What is out of the last day, counted
\* from the filing under way, is out of the model: record_dispatch removes it
\* from the file a day later.
Clock ==
    /\ pc # "idle" => age[stamp] < Filing
    /\ cool' = [s \in Sigs |-> IF cool[s] > 0 THEN cool[s] - 1 ELSE 0]
    /\ age' = [t \in Stamps |-> IF t \in InUse /\ age[t] < Horizon
                               THEN age[t] + 1 ELSE 0]
    /\ spent' = {t \in spent : age'[t] < Horizon}
    /\ runs' = {t \in runs : age'[t] < DAY}
    /\ excused' = excused \cap runs'
    /\ wasted' = wasted \cap spent'
    /\ sent' = {}
    /\ <<cool, age, runs, sent>>' # <<cool, age, runs, sent>>
    /\ UNCHANGED <<up, labels, issues, ensured, filing, bounds>>

Filer ==
    \/ GhError
    \/ FoundIssue \/ NoIssue \/ NoListing \/ FoundPr \/ NoPr \/ Recurred \/ LookedForClosed
    \/ Throttle \/ Debit \/ DebitFails \/ DebitBlind
    \/ EnsureLabels \/ Create \/ CreateFails

Next ==
    \/ Filer
    \/ \E s \in Sigs : Report(s) \/ CallerFault(s)
    \/ \E r \in sent : Land(r)
    \/ \E o \in Others : OtherBox(o)
    \/ \E i \in 1 .. Len(issues) : Close(i)
    \/ Crash \/ Flap \/ AgentReport \/ Clock

Spec == Init /\ [][Next]_vars

\* Every call of gh ends, if only by its timeout; time passes; and the faults
\* keep being reported.
Fairness ==
    /\ WF_vars(Filer) /\ WF_vars(Clock)
    /\ \A s \in Sigs : SF_vars(Report(s))

FairSpec == Spec /\ Fairness

-------------------------------------------------------------------------------
\* The type invariant of the filer.
TypeOK ==
    /\ up \in BOOLEAN
    /\ labels \subseteq Labels /\ ensured \subseteq Labels
    /\ issues \in Seq(Sigs \cup Others)
    /\ sent \subseteq [sig : Sigs, stamp : Stamps, throttled : BOOLEAN]
    /\ spent \subseteq Stamps
    /\ cool \in [Sigs -> 0 .. report_cooldown_s]
    /\ pc \in Stages
    /\ sig \in Sigs \cup {None}
    /\ stamp \in Stamps \cup {None}
    /\ pc = "idle" <=> stamp = None
    /\ throttled \in BOOLEAN /\ missed \in BOOLEAN
    /\ crashes \in 0 .. MaxCrashes /\ blind \in 0 .. MaxBlind
    /\ age \in [Stamps -> 0 .. Horizon]
    /\ runs \subseteq Stamps /\ excused \subseteq Stamps /\ wasted \subseteq Stamps

\* autofix-design.md:137: at most max_dispatches_per_day fix runs were
\* authorised in the last day, a crash, a restart, a failure of the file or of
\* GitHub between the debit and the issue notwithstanding.  Beside them there
\* are only runs that the box could not know of: those in a file that could not
\* be read at a later filing, and those of an issue that was created although
\* gh reported a failure, which refund_dispatch then takes for impossible.
BudgetPerDay == Cardinality(runs \ excused) <= max_dispatches_per_day

\* bugfiler.py:432: an outage does not "spend the day's cap on dispatches that
\* cannot happen": what the file counts against the day is a run, or the filing
\* under way, or was left there by a crash or by a refund that failed.
SpentOnRuns ==
    \A t \in spent : \/ age[t] >= DAY
                     \/ t \in runs \cup wasted
                     \/ t = stamp /\ pc \in {"labels", "create"}

\* No issue is filed for a fault that has an open one already (find_open_issue),
\* whatever the order of reports, failures, restarts and closings, except where
\* the lookup could not show it: it was older than all that is listed, the answer
\* could not be parsed, or it appeared only after the lookup (filed by another
\* box, or by a call of gh that had been given up).
OneOpenIssue ==
    [][Create => missed \/ \A i \in 1 .. Len(issues) : issues[i] # sig]_vars

\* "Evidence is never lost": while GitHub answers, a fault that keeps being
\* reported always comes to have an open issue or is noted on a pull request,
\* however the budget stands and whatever failed before (_report_bug,
\* ensure_labels, file_bug).  This takes for granted that it is reported again and
\* again: a fault of the caller with its signature does not always come first.
EvidenceFiled ==
    <>[]up => \A s \in Sigs :
                []<>(\/ pc = "recurrence" /\ sig = s
                     \/ \E i \in 1 .. Len(issues) : issues[i] = s)
=============================================================================
