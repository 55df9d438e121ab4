------------------------ MODULE DecisionComparisons ------------------------
(***************************************************************************)
(* What changed since the last review: the read-only comparison of         *)
(* src/src/reviews/decision-comparison.ts, over the task mutations of      *)
(* task-state/service.ts and the reviews of the decision services.         *)
(*                                                                         *)
(* No snapshot is kept of what a review was about.  The comparison takes   *)
(* the last task event not later than the review, and what the record's    *)
(* history holds by then, so it rests on clock readings: a mutation reads  *)
(* the clock for the history of the record, and again for its event.       *)
(* Mutations and reviews hold the task-state lock and are one step each;   *)
(* the comparison reads the task first, the reviews and the workflow       *)
(* later.  The clock does not go back, and may stand between readings; the *)
(* working tree is any snapshot whenever it is captured.                   *)
(*                                                                         *)
(* The task is completed, with one decision record and one required        *)
(* criterion that asks for no approval.  The digest of the adopted intent  *)
(* is whether the record is accepted; a legacy approval is bound to none.  *)
(***************************************************************************)
EXTENDS Naturals, Sequences

CONSTANTS
  Snapshots,     \* of the working tree
  Missing,       \* no review, no approval, no inspection
  Legacy,        \* the intent of an approval recorded before intent digests
  MaxClock,      \* bound: clock readings
  MaxTaskEvents  \* bound: events of the task

ASSUME ComparisonsAssumption ==
  /\ {MaxClock, MaxTaskEvents} \subseteq Nat
  /\ Legacy \notin BOOLEAN
  /\ Missing \notin [at : Nat, saw : Nat]
  /\ Missing \notin [plan : Nat, criterion : Nat, intent : BOOLEAN \union {Legacy}]

VARIABLES
  clock,       \* the last reading
  taskEvents,  \* the reading at the commit of each revision of the task
  history,     \* of the record: the status, the reading and (history) the event of each revision
  checked,     \* the criterion's revision, and its evidence of each tree
  review,      \* the latest review, and (history) how many revisions of the record there were
  grant,       \* the workflow's plan, and its approval
  inspection   \* what a comparison has read, or its report

comparisonVars == <<clock, taskEvents, history, checked, review, grant, inspection>>

RecordStatuses == {"proposed", "accepted", "retracted"}
Resolved == {"retracted"}
StatusesAfter == [proposed |-> {"proposed", "accepted", "retracted"}, accepted |-> {"retracted"},
                  retracted |-> {}]
StatusOf(h) == h[Len(h)].status
IntentOf(h) == h # <<>> /\ StatusOf(h) = "accepted"

ComparisonsInit ==
  /\ clock = 0
  /\ taskEvents = <<0>> /\ history = <<>>
  /\ checked = [revision |-> 1, of |-> [s \in Snapshots |-> 0], passed |-> {}]
  /\ review = Missing
  /\ grant = [plan |-> 1, approval |-> Missing]
  /\ inspection = [at |-> "idle"]

-----------------------------------------------------------------------------
(* Mutations of the task, reviews, and the workflow *)

\* commitEvent reads the clock again.
CommitsEvent(read) ==
  /\ Len(taskEvents) < MaxTaskEvents
  /\ clock' \in read..MaxClock
  /\ taskEvents' = Append(taskEvents, clock')

\* recordTaskRecord, reviseTaskRecord, transitionTaskRecord.
ChangeRecord ==
  /\ \E read \in clock..MaxClock :
       /\ CommitsEvent(read)
       /\ \E s \in IF history = <<>> THEN {"proposed"} ELSE StatusesAfter[StatusOf(history)] :
            history' = Append(history, [status |-> s, at |-> read, event |-> Len(taskEvents) + 1])
  /\ UNCHANGED <<checked, review, grant, inspection>>

\* recordEvidence, at the present tree for the present criterion.
RecordOutcome ==
  /\ CommitsEvent(clock)
  /\ \E present \in Snapshots, passes \in BOOLEAN :
       checked' = [checked EXCEPT !.of = [@ EXCEPT ![present] = checked.revision],
                                  !.passed = IF passes THEN @ \union {present} ELSE @ \ {present}]
  /\ UNCHANGED <<history, review, grant, inspection>>

NewCriterion ==
  /\ CommitsEvent(clock)
  /\ checked' = [checked EXCEPT !.revision = @ + 1]
  /\ UNCHANGED <<history, review, grant, inspection>>

\* An approval of a specification or a result, or notes on it.
Review ==
  /\ clock' \in clock..MaxClock
  /\ review' = [at |-> clock', saw |-> Len(history)]
  /\ UNCHANGED <<taskEvents, history, checked, grant, inspection>>

\* The workflow gets another plan; its approval binds the task as it is.
Replan ==
  /\ grant.plan = 1
  /\ grant' = [grant EXCEPT !.plan = 2]
  /\ UNCHANGED <<clock, taskEvents, history, checked, review, inspection>>

ApprovePlan ==
  /\ \E intent \in {IntentOf(history)} \union (IF history = <<>> THEN {Legacy} ELSE {}) :
       grant' = [grant EXCEPT !.approval = [plan |-> grant.plan, criterion |-> checked.revision,
                                            intent |-> intent]]
  /\ UNCHANGED <<clock, taskEvents, history, checked, review, inspection>>

-----------------------------------------------------------------------------
(* The comparison: k is the task it read *)

LastOf(S) == CHOOSE i \in S : \A j \in S : j <= i

\* resolveBaseline: the reading of the last event not later than the review.
AtEvent(k, at) == k.events[LastOf({i \in 1..Len(k.events) : k.events[i] <= at})]

\* The baselines: the review, or an event that the caller names.  Without either the review
\* is an initial one and the baseline holds nothing.
Initial == [cutoff |-> 0, saw |-> 0, initial |-> TRUE]
SawBy(k, n) == {i \in 1..Len(k.history) : k.history[i].event <= n}
ReviewBaseline(k, r) ==
  IF r = Missing THEN Initial
  ELSE [cutoff |-> AtEvent(k, r.at), saw |-> r.saw, initial |-> FALSE]

\* recordStateAsOf: the revision of the record that the baseline has, if any.
RevisionsBy(k, b) ==
  IF b.initial THEN {} ELSE {i \in 1..Len(k.history) : k.history[i].at <= b.cutoff}

\* classifyChange.
ChangeFrom(k, was) ==
  IF k.history[was].status \notin Resolved /\ StatusOf(k.history) \in Resolved THEN "removed"
  ELSE IF was # Len(k.history) THEN "changed" ELSE "unchanged"
Classified(k, b) ==
  IF RevisionsBy(k, b) = {} THEN "added" ELSE ChangeFrom(k, LastOf(RevisionsBy(k, b)))

\* criterionEvidenceView: by the latest evidence of the present criterion and the tree, or
\* what older evidence there is.
EvidenceOf(k, revisions) == {s \in Snapshots : k.checked.of[s] \in revisions}
EvidenceStatus(k) ==
  IF k.tree \in EvidenceOf(k, {k.checked.revision})
  THEN IF k.tree \in k.checked.passed THEN "current-pass" ELSE "current-fail"
  ELSE IF EvidenceOf(k, {k.checked.revision}) # {} THEN "stale"
  ELSE IF EvidenceOf(k, {0}) # Snapshots THEN "historical" ELSE "missing"

\* workflowApprovalCoverage: why an approval does not cover the task.
StaleReasons(k, g) ==
  (IF g.approval.plan # g.plan THEN {"plan"} ELSE {})
  \union (IF g.approval.criterion # k.checked.revision THEN {"criteria"} ELSE {})
  \union (IF (IF g.approval.intent = Legacy THEN FALSE ELSE g.approval.intent) # IntentOf(k.history)
          THEN {"intent"} ELSE {})
Covered(k, g) == g.approval # Missing /\ StaleReasons(k, g) = {}

StartComparison ==
  /\ inspection.at = "idle"
  /\ \E present \in Snapshots :
       inspection' = [at |-> "read", events |-> taskEvents, history |-> history,
                      checked |-> checked, tree |-> present]
  /\ UNCHANGED <<clock, taskEvents, history, checked, review, grant>>

Reported(k, b) ==
  [at |-> "report", task |-> k, baseline |-> b, change |-> Classified(k, b),
   evidence |-> EvidenceStatus(k), grant |-> grant, covered |-> Covered(k, grant)]

\* Of a task with a decision record; baselineRevision may name an event.
EndComparison ==
  /\ inspection.at = "read" /\ inspection.history # <<>>
  /\ \/ inspection' = Reported(inspection, ReviewBaseline(inspection, review))
     \/ \E n \in 1..Len(inspection.events), saw \in 0..Len(inspection.history) :
          /\ SawBy(inspection, n) = 1..saw
          /\ inspection' = Reported(inspection, [cutoff |-> inspection.events[n], saw |-> saw,
                                                 initial |-> FALSE])
  /\ UNCHANGED <<clock, taskEvents, history, checked, review, grant>>

CloseComparison ==
  /\ inspection.at \in {"read", "report"}
  /\ inspection' = [at |-> "idle"]
  /\ UNCHANGED <<clock, taskEvents, history, checked, review, grant>>

ComparisonsNext ==
  \/ ChangeRecord \/ RecordOutcome \/ NewCriterion
  \/ Review \/ Replan \/ ApprovePlan
  \/ StartComparison \/ EndComparison \/ CloseComparison

ComparisonsSpec == ComparisonsInit /\ [][ComparisonsNext]_comparisonVars

-----------------------------------------------------------------------------
HistoryEntries == [status : RecordStatuses, at : Nat, event : Nat]
CheckStates == [revision : Nat, of : [Snapshots -> Nat], passed : SUBSET Snapshots]
ComparedTasks == [at : {"read"}, events : Seq(Nat), history : Seq(HistoryEntries),
                  checked : CheckStates, tree : Snapshots]
Grants == [plan : Nat, approval : {Missing} \union [plan : Nat, criterion : Nat,
                                                    intent : BOOLEAN \union {Legacy}]]
Reports == [at : {"report"}, task : ComparedTasks,
            baseline : [cutoff : Nat, saw : Nat, initial : BOOLEAN],
            change : {"added", "removed", "changed", "unchanged"},
            evidence : {"current-pass", "current-fail", "stale", "historical", "missing"},
            grant : Grants, covered : BOOLEAN]

ComparisonsTypeOK ==
  /\ clock \in Nat /\ taskEvents \in Seq(Nat) /\ history \in Seq(HistoryEntries)
  /\ checked \in CheckStates
  /\ review \in {Missing} \union [at : Nat, saw : Nat]
  /\ grant \in Grants
  /\ inspection \in [at : {"idle"}] \union ComparedTasks \union Reports

\* A report of change is true: with a baseline, something was done to the record since.
ChangeIsReal(r) ==
  ~r.baseline.initial /\ r.change # "unchanged" => Len(r.task.history) > r.baseline.saw

\* A report of no change is true, unless the clock stood: the last revision of the record was
\* begun at the reading of the event before it, or committed at that of the review.
NothingMissed(r) ==
  LET n == Len(r.task.history)
      e == r.task.history[n].event
  IN  r.change = "unchanged" /\ n > r.baseline.saw =>
        \/ r.task.history[n].at = r.task.events[e - 1]
        \/ r.task.events[e] = r.baseline.cutoff

\* Evidence is shown as a current pass just where the task's own check finds no failure, and an
\* approval as covering just where the workflow would act on it (verificationFailures,
\* approvalValid).
AgreesWithGates(r) ==
  LET k == r.task
      a == r.grant.approval
  IN  /\ r.evidence = "current-pass" <=>
           k.checked.of[k.tree] = k.checked.revision /\ k.tree \in k.checked.passed
      /\ r.covered <=>
           /\ a # Missing
           /\ a.plan = r.grant.plan /\ a.criterion = k.checked.revision
           /\ a.intent = IntentOf(k.history) \/ (a.intent = Legacy /\ ~IntentOf(k.history))

\* What the comparison says is so, although no review left a snapshot.
ComparisonsHold ==
  inspection.at = "report" =>
    ChangeIsReal(inspection) /\ NothingMissed(inspection) /\ AgreesWithGates(inspection)
=============================================================================
