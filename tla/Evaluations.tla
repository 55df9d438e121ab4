----------------------------- MODULE Evaluations -----------------------------
(***************************************************************************)
(* The evaluation harness (src/evaluations/runner.ts).  A behavioural      *)
(* scenario runs an injected executor against a timer in a fresh copy of   *)
(* its fixture, and is scored when either ends.  A requirement-change      *)
(* scenario runs a scripted controller twice, in a baseline arm and in an  *)
(* arm that first reconciles a task; a gate judges what the controller did *)
(* to the files and what it says it did, and metrics are computed beside   *)
(* it from the same hashes.                                                *)
(***************************************************************************)
EXTENDS Naturals, FiniteSets, Functions

CONSTANTS Preserved,    \* artifacts the scenario asks to preserve
          Targets,      \* files the change is meant to touch
          Mandatory,    \* mandatory acceptance assertions
          Preexisting,  \* assertions that held before the change
          Dependencies  \* dependencies whose impact is seeded as unknown

ASSUME EvaluationsAssumption == IsFiniteSet(Preserved)

Artifacts == Preserved \union Targets
Assertions == Mandatory \union Preexisting
Bytes == {"absent", "seeded", "changed"}

VARIABLES trial,          \* the behavioural scenario
          tree,           \* the files of the arm's workspace
          arm,            \* the arm under way and how far it is
          authorization,  \* the task of the reconciliation arm
          report          \* what the last arm reported

evaluationVars == <<trial, tree, arm, authorization, report>>

NoLog == [touched |-> {}, applied |-> FALSE, authorized |-> FALSE,
          complete |-> FALSE]
NoTrial == [at |-> "done", expects |-> {}, output |-> "nothing", outcome |-> "none",
            said |-> FALSE, evidenced |-> FALSE, timer |-> "armed", verdict |-> "none"]
NoReport == [status |-> "none", failures |-> {}, lost |-> 0, omitted |-> 0,
             falseCompletion |-> FALSE, discarded |-> 0, invalidated |-> 0,
             retained |-> 0, uncertain |-> {}, regressions |-> {}]
NoIntent == [revision |-> 0, reviewed |-> 0, old |-> "none", new |-> "none",
             staleRejected |-> FALSE]

EvaluationsInit ==
  /\ trial \in [at : {"running"}, expects : SUBSET {"execution", "evidence", "response"},
                output : {"nothing"}, outcome : {"none"}, said : {FALSE},
                evidenced : {FALSE}, timer : {"armed"}, verdict : {"none"}]
       \union {NoTrial}
  /\ tree \in [Artifacts -> {"absent", "seeded"}]
  /\ \A f \in Targets : tree[f] = "seeded"
  /\ arm = [name |-> "baseline", at |-> IF trial = NoTrial THEN "copied" ELSE "end",
            before |-> tree, after |-> [f \in {} |-> "absent"], log |-> NoLog]
  /\ trial # NoTrial => \A f \in Artifacts : tree[f] = "seeded"
  /\ authorization = NoIntent
  /\ report = NoReport

-----------------------------------------------------------------------------
(* evaluateScenario.  The executor writes what the scenario wants, sooner  *)
(* or later; an aborted one may still write while the files are scored.    *)
ExecutorWrites ==
  /\ trial.at \in {"running", "scoring"}
  /\ trial.output = "nothing"
  /\ trial' = [trial EXCEPT !.output = "present"]
  /\ UNCHANGED <<tree, arm, authorization, report>>

ExecutorReturns ==
  /\ trial.at = "running"
  /\ \E outcome \in {"exited-0", "failed", "skipped"}, said, evidenced \in BOOLEAN :
       trial' = [trial EXCEPT
                   !.at = IF outcome = "skipped" THEN "done" ELSE "scoring",
                   !.outcome = outcome, !.said = said, !.evidenced = evidenced,
                   !.verdict = IF outcome = "skipped" THEN "skipped" ELSE @]
  /\ UNCHANGED <<tree, arm, authorization, report>>

(* The timer settles the race with a response of its own. *)
TimerFires ==
  /\ trial.at = "running"
  /\ trial' = [trial EXCEPT !.at = "scoring", !.outcome = "timed-out",
                            !.said = TRUE, !.timer = "fired"]
  /\ UNCHANGED <<tree, arm, authorization, report>>

(* An executor that answers after the timer settles nothing. *)
LateAnswerCounts(t) == [t EXCEPT !.outcome = "exited-0"]
LateAnswer(t) == t

ExecutorReturnsLate ==
  /\ trial.timer = "fired"
  /\ trial.at = "scoring"
  /\ trial' = [LateAnswer(trial) EXCEPT !.timer = "answered"]
  /\ UNCHANGED <<tree, arm, authorization, report>>

(* score: every expectation is a check, and all of them must pass. *)
ChecksPass ==
  /\ trial.output = "present"
  /\ "execution" \in trial.expects => trial.outcome = "exited-0"
  /\ "evidence" \in trial.expects => trial.evidenced
  /\ "response" \in trial.expects => trial.said

Score ==
  /\ trial.at = "scoring"
  /\ trial' = [trial EXCEPT !.at = "done",
                            !.verdict = IF ChecksPass THEN "passed" ELSE "failed"]
  /\ UNCHANGED <<tree, arm, authorization, report>>

-----------------------------------------------------------------------------
(* runReconciliationArm: the initial requirement becomes an accepted       *)
(* decision, the change is previewed, and a record added after the preview *)
(* makes the first apply stale.                                            *)
SeedDecision ==
  /\ arm.name = "reconciliation" /\ arm.at = "copied"
  /\ authorization' = [authorization EXCEPT !.revision = 4, !.old = "accepted"]
  /\ arm' = [arm EXCEPT !.at = "seeded"]
  /\ report' = NoReport
  /\ UNCHANGED <<trial, tree>>

PreviewChange ==
  /\ arm.at = "seeded"
  /\ authorization' = [authorization EXCEPT !.revision = @ + 1, !.reviewed = authorization.revision]
  /\ arm' = [arm EXCEPT !.at = "moved on"]
  /\ UNCHANGED <<trial, tree, report>>

ApplyStale ==
  /\ arm.at = "moved on"
  /\ authorization' = [authorization EXCEPT !.staleRejected = authorization.reviewed # authorization.revision]
  /\ arm' = [arm EXCEPT !.at = "reviewed"]
  /\ UNCHANGED <<trial, tree, report>>

ApplyFresh ==
  /\ arm.at = "reviewed"
  /\ authorization' = [authorization EXCEPT !.revision = @ + 2, !.reviewed = authorization.revision,
                              !.old = "superseded", !.new = "accepted"]
  /\ arm' = [arm EXCEPT !.at = "briefed"]
  /\ UNCHANGED <<trial, tree, report>>

(* The scripted controller changes files and keeps a change log; the log   *)
(* says what it likes.  It may also decline, and then there is no other    *)
(* arm.                                                                    *)
ControllerReady == IF arm.name = "baseline" THEN arm.at = "copied" ELSE arm.at = "briefed"

ApplyChange ==
  /\ ControllerReady
  /\ tree' \in [Artifacts -> Bytes]
  /\ \A f \in Artifacts : tree'[f] # "changed" => tree'[f] \in {tree[f], "absent"}
  /\ \E log \in [touched : SUBSET Preserved, applied : BOOLEAN, authorized : BOOLEAN,
                 complete : BOOLEAN] :
       arm' = [arm EXCEPT !.at = "applied", !.log = log]
  /\ UNCHANGED <<trial, authorization, report>>

DeclineChange ==
  /\ arm.name = "baseline" /\ arm.at = "copied"
  /\ arm' = [arm EXCEPT !.at = "end"]
  /\ report' = [NoReport EXCEPT !.status = "unavailable"]
  /\ UNCHANGED <<trial, tree, authorization>>

(* hashWorkspaceFiles over the files of before and of after. *)
Known(files) == {f \in DOMAIN files : files[f] # "absent"}
HashedAfter == Known(arm.before) \union Known(tree)

HashFiles ==
  /\ arm.at = "applied"
  /\ arm' = [arm EXCEPT !.at = "hashed", !.after = Restrict(tree, HashedAfter)]
  /\ UNCHANGED <<trial, tree, authorization, report>>

HashOf(files, f) == IF f \in DOMAIN files THEN files[f] ELSE "absent"

-----------------------------------------------------------------------------
(* evaluateRequirementChangeGate. *)
Dropped(results) == {a \in Mandatory : ~results[a]}
SilentlyLost ==
  {f \in Preserved : /\ HashOf(arm.before, f) # HashOf(arm.after, f)
                     /\ f \notin arm.log.touched}
Authorized == arm.log.applied /\ arm.log.authorized

Failures(results) ==
  {rule \in {"dropped", "lost", "unauthorized", "stale"} :
     \/ rule = "dropped" /\ Dropped(results) # {}
     \/ rule = "lost" /\ SilentlyLost # {}
     \/ rule = "unauthorized" /\ ~Authorized
     \/ rule = "stale" /\ arm.log.complete /\ Dropped(results) # {}}

(* computeRequirementChangeMetrics, from the same hashes by another way. *)
ChangedFiles == {f \in DOMAIN arm.after : arm.after[f] # HashOf(arm.before, f)}

Report(results) ==
  [status |-> "completed", failures |-> Failures(results),
   lost |-> Cardinality(SilentlyLost), omitted |-> Cardinality(Dropped(results)),
   falseCompletion |-> arm.log.complete /\ Dropped(results) # {},
   discarded |-> Cardinality(Preserved \intersect ChangedFiles),
   invalidated |-> Cardinality(Preserved \intersect ChangedFiles
                                 \intersect arm.log.touched),
   retained |-> Cardinality(Preserved \ ChangedFiles),
   uncertain |-> Dependencies,
   regressions |-> {a \in Preexisting : ~results[a]}]

(* The acceptance module runs after the files are hashed; then the arm's   *)
(* workspace is removed and the other arm starts from a fresh copy.        *)
Judge ==
  /\ arm.at = "hashed"
  /\ \E results \in [Assertions -> BOOLEAN] :
       report' = Report(results)
  /\ IF arm.name = "baseline"
     THEN /\ arm' = [arm EXCEPT !.name = "reconciliation", !.at = "copied",
                                !.after = [f \in {} |-> "absent"], !.log = NoLog]
          /\ tree' = arm.before
     ELSE /\ arm' = [arm EXCEPT !.at = "end"]
          /\ tree' = tree
  /\ UNCHANGED <<trial, authorization>>

EvaluationsNext ==
  \/ ExecutorWrites \/ ExecutorReturns \/ TimerFires \/ ExecutorReturnsLate \/ Score
  \/ SeedDecision \/ PreviewChange \/ ApplyStale \/ ApplyFresh
  \/ ApplyChange \/ DeclineChange \/ HashFiles \/ Judge

EvaluationsSpec == EvaluationsInit /\ [][EvaluationsNext]_evaluationVars

-----------------------------------------------------------------------------
EvaluationsTypeOK ==
  /\ trial.at \in {"running", "scoring", "done"}
  /\ trial.verdict \in {"none", "passed", "failed", "skipped"}
  /\ tree \in [Artifacts -> Bytes]
  /\ arm.name \in {"baseline", "reconciliation"}
  /\ DOMAIN arm.after \subseteq Artifacts
  /\ authorization.reviewed <= authorization.revision

(* A report whose gate passes is about the workspace as the controller     *)
(* left it: every preserved artifact, those the fixture did not have       *)
(* included, is as it was or is named in the change log.  The metrics,     *)
(* computed by another way, tell the same story: what was discarded is     *)
(* what was declared plus what the gate calls silently lost, and a false   *)
(* completion is never reported by one of them only                        *)
(* (evaluateRequirementChangeGate, computeRequirementChangeMetrics).       *)
ReportIsHonest(told) ==
  /\ told.failures = {} =>
       \A f \in Preserved : tree[f] = arm.before[f] \/ f \in arm.log.touched
  /\ told.discarded = told.invalidated + told.lost
  /\ told.retained + told.discarded = Cardinality(Preserved)
  /\ told.falseCompletion <=> "stale" \in told.failures

GateIsHonest ==
  [][report' # report /\ report'.status = "completed"
       => ReportIsHonest(report')]_evaluationVars

(* The timer and the executor race, and whichever ends first is scored: a  *)
(* scenario that asks for an execution never passes on a run that was      *)
(* timed out (evaluateScenario, score).                                    *)
TimedOutNeverPasses ==
  [][trial'.timer # "armed" /\ "execution" \in trial'.expects
       => trial'.verdict # "passed"]_evaluationVars

(* An evaluation is never better than the run it scored: neither the gate  *)
(* nor a scenario passes on what did not happen (src/evaluations).         *)
EvaluationsHold == GateIsHonest /\ TimedOutNeverPasses
=============================================================================
