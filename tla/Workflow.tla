------------------------------ MODULE Workflow ------------------------------
(***************************************************************************)
(* The delivery workflow of one task: the controller of                    *)
(* src/src/workflows/service.ts over the policy of policy.ts, the routes   *)
(* of routing.ts and the store of store.ts and contracts.ts; reconcile.ts  *)
(* tells it of changed records.                                            *)
(*                                                                         *)
(* Every process (server, command line) that works on the workflow has at  *)
(* most one driver for it.  A driver reads the record, asks the policy for *)
(* the next action, journals the action as pending by a compare-and-set,   *)
(* carries it out, and commits the result.  Meanwhile people approve,      *)
(* resume and cancel through any process, revise the task and edit the     *)
(* source; processes die, and any step may fail.                           *)
(*                                                                         *)
(* A record's revision is abstracted to who has read it since it last      *)
(* changed; the criteria and the adopted records of the task are one       *)
(* revision, its intent; of artifacts only their existence counts.         *)
(***************************************************************************)
EXTENDS Naturals, Sequences

CONSTANTS
  Procs,          \* processes
  Sources,        \* snapshots of the working tree
  Route,          \* phases of the route selected at the start
  NeedsApproval,  \* whether that route requires an approved plan
  Reviewer,       \* whether a review provider is known from the start
  RepairLimit,    \* repair attempts the policy allows (3 in the code)
  MaxCalls,       \* bound: runs, approvals, resumptions, cancellations
  MaxUpsets,      \* bound: edits, revisions and halts of the task, shutdowns, crashes
  None

PhaseNames == {"requirements", "plan", "implementation", "verification", "review", "handoff"}
HighImpact == <<"requirements", "plan", "implementation", "verification", "review">>

Statuses == {"running", "awaiting-input", "awaiting-approval", "blocked",
             "interrupted", "cancelled", "verified"}
Outcomes == {"none", "passed", "failed", "needs-input", "error"}
Effects  == {"invoke", "verify", "review", "complete"}
Intents  == 0..MaxUpsets
Approval == [intent : Intents, source : Sources]
Action   == [by : Procs, kind : Effects, phase : PhaseNames, repair : BOOLEAN, source : Sources]

\* "verified" is the source after the last passed verification, "retry" says that
\* the last action was an implementation to be retried, "notice" that the summary
\* is the notice of an escalated route.
Record == [status : Statuses, phase : PhaseNames, outcome : Outcomes,
           requirements : BOOLEAN, plan : BOOLEAN, approval : Approval \union {None},
           repairs : 0..RepairLimit, retry : BOOLEAN, high : BOOLEAN, notice : BOOLEAN,
           reviewer : BOOLEAN, pending : Action \union {None}, verified : Sources \union {None}]

\* "proof" is the source that evidence passes for under the present intent, "ours"
\* that the pending action recorded it.
Task == [state : {"idle", "running", "completed", "verified", "cancelled"}, intent : Intents,
         proof : Sources \union {None}, ours : BOOLEAN]

ASSUME WorkflowAssumption ==
  /\ Route \in Seq(PhaseNames) /\ Route # <<>>
  /\ {NeedsApproval, Reviewer} \subseteq BOOLEAN
  /\ \A i \in 2..Len(Route) :   \* as in every profile of routing.ts
       NeedsApproval /\ Route[i] = "implementation" => Route[i - 1] # "requirements"
  /\ {RepairLimit, MaxCalls, MaxUpsets} \subseteq Nat
  /\ None \notin Procs \union Sources \union Approval \union Action

\* What a driver is about to do: an effect, or a status to mark.  "basis" is the
\* source it depends on, "intent" the task's when the policy was asked.
Todo == [kind : Effects \union Statuses, phase : PhaseNames, repair : BOOLEAN,
         basis : Sources \union {None}, intent : Intents]

Phases == {"off", "read", "mark", "prepare", "own", "journal", "effect", "close", "commit",
           "failed", "excuse", "settle", "settling", "leave"}

VARIABLES
  record,       \* the workflow record
  task,         \* the task it works on
  source,       \* the working tree
  pc,           \* where the driver of each process is, "off" when it has none
  todo,         \* what the driver is about to do
  result,       \* what its effect has come to
  fresh,        \* drivers whose record is still the stored one
  taskFresh,    \* drivers whose inspected task is still the stored one
  owns,         \* LIVE_ACTION_OWNERS: drivers that journalled, and are not done
  abort,        \* drivers whose abort signal is set
  approving,    \* what an approval under way will bind
  cancelling,   \* cancellations that still have to cancel the task
  up,           \* processes that run
  calls,        \* calls so far
  upsets        \* upsets so far

vars == <<record, task, source, pc, todo, result, fresh, taskFresh, owns, abort,
          approving, cancelling, up, calls, upsets>>
people == <<cancelling, up, calls, upsets>>

-----------------------------------------------------------------------------
(* The policy: next_step *)

Path(r)       == IF r.high THEN HighImpact ELSE Route
Approves(r)   == r.high \/ NeedsApproval
Followers(r)  == {Path(r)[i] : i \in {j \in 2..Len(Path(r)) : Path(r)[j - 1] = r.phase}}

\* Variant: an approval outlives changes of what was approved.
ApprovalOutlives(r, intent) == r.approval # None /\ r.requirements /\ r.plan

ApprovalValid(r, intent) ==
  r.approval # None /\ r.requirements /\ r.plan /\ r.approval.intent = intent

Do(kind, phase, repair) == [kind |-> kind, phase |-> phase, repair |-> repair]
Start(phase) ==
  Do(CASE phase = "verification" -> "verify" [] phase = "review" -> "review" [] OTHER -> "invoke",
     phase, FALSE)

\* Failed checks and reviews are repaired, a limited number of times.
Repairable(r) == r.phase \in {"verification", "review"} /\ r.repairs < RepairLimit

NextAction(r, intent) ==
  CASE r.outcome = "error"       -> Do("blocked", r.phase, FALSE)
    [] r.outcome = "needs-input" -> Do("awaiting-input", r.phase, FALSE)
    [] /\ r.outcome \in {"none", "passed", "failed"}
       /\ Approves(r) /\ ~ApprovalValid(r, intent)
       /\ r.phase # "requirements"
       /\ ~(r.phase = "plan" /\ r.outcome = "none")
                                 -> Do("awaiting-approval", "plan", FALSE)
    [] OTHER ->
       CASE r.outcome = "none"   -> Start(r.phase)
         [] r.outcome = "failed" -> IF Repairable(r) THEN Do("invoke", "implementation", TRUE)
                                                     ELSE Do("blocked", r.phase, FALSE)
         [] r.outcome = "passed" -> IF Followers(r) = {} THEN Do("complete", "handoff", FALSE)
                                    ELSE Start(CHOOSE phase \in Followers(r) : TRUE)

-----------------------------------------------------------------------------
(* The store *)

\* assertWorkflowRecord, of every record that is written
Valid(r) ==
  /\ r.reviewer \/ ~r.high \/ (r.status = "blocked" /\ r.notice)
  /\ r.status = "awaiting-approval" => r.requirements /\ r.plan
  /\ r.approval # None => r.requirements /\ r.plan
  /\ r.status = "verified" => r.pending = None
  /\ r.pending # None => r.pending.phase = r.phase
  /\ r.repairs <= RepairLimit

\* mutateWorkflow: whoever read the record before holds an old revision now.
Put(r) ==
  /\ Valid(r)
  /\ record' = r
  /\ fresh' = {}
  /\ approving' = [p \in Procs |-> None]

Keep == UNCHANGED <<record, fresh, approving>>

Goto(p, phase) == pc' = [pc EXCEPT ![p] = phase]

\* What a driver knew is no longer used.
Forget(p) ==
  /\ todo' = [todo EXCEPT ![p] = None]
  /\ result' = [result EXCEPT ![p] = "none"]
  /\ fresh' = fresh \ {p}
  /\ taskFresh' = taskFresh \ {p}

\* markStatus
Marked(r, status) ==
  [r EXCEPT !.status = status, !.notice = FALSE,
            !.outcome = CASE status = "awaiting-input" -> "needs-input"
                          [] status \in {"blocked", "interrupted"} -> "error"
                          [] OTHER -> @]

\* The driver of p journalled the pending action.
Owned(p) == p \in owns /\ record.pending # None /\ record.pending.by = p

\* Variant: the owner is looked for in the asking process only.
OwnDriversOnly(p) == record.pending.by = p /\ p \in owns

\* actionOwnerIsLive, asked in process p: it knows its own drivers, and probes the
\* processes of others.
OwnerLive(p) ==
  IF record.pending.by = p THEN p \in owns ELSE record.pending.by \in up

\* The pending action is over without a result.
Abandoned(r) == [r EXCEPT !.pending = None, !.retry = FALSE]

\* schedule: a driver starts unless the process still has one.
Schedule(p) ==
  /\ pc' = IF pc[p] = "off" THEN [pc EXCEPT ![p] = "read"] ELSE pc
  /\ UNCHANGED <<todo, result>>

Init ==
  /\ record = [status |-> "running", phase |-> Route[1], outcome |-> "none",
               requirements |-> FALSE,
               plan |-> (\E i \in DOMAIN Route : Route[i] = "verification")
                          /\ ~(\E i \in DOMAIN Route : Route[i] = "plan"),
               approval |-> None, repairs |-> 0, retry |-> FALSE, high |-> FALSE,
               notice |-> FALSE, reviewer |-> Reviewer, pending |-> None, verified |-> None]
  /\ source \in Sources
  /\ task = [state |-> "idle", intent |-> 0, proof |-> None, ours |-> FALSE]
  /\ \E p \in Procs : pc = [q \in Procs |-> IF q = p THEN "read" ELSE "off"]
  /\ todo = [p \in Procs |-> None]
  /\ result = [p \in Procs |-> "none"]
  /\ fresh = {} /\ taskFresh = {} /\ owns = {} /\ abort = {} /\ cancelling = {}
  /\ approving = [p \in Procs |-> None]
  /\ up = Procs
  /\ calls = 0 /\ upsets = 0

-----------------------------------------------------------------------------
(* The driver: reading and deciding *)

\* Statuses in which drive returns.
Stops == {"awaiting-input", "awaiting-approval", "blocked", "cancelled", "verified"}

\* The source the step depends on: what was approved for a first implementation,
\* what was verified for completion.
Basis(step) ==
  CASE step.kind = "complete" -> record.verified
    [] step.kind = "invoke" /\ step.phase = "implementation" /\ ~step.repair
         /\ ~record.retry /\ record.approval # None -> record.approval.source
    [] OTHER -> None

\* What the record lacks for the step.
Lacking(step) ==
  \/ step.kind = "verify" /\ ~record.plan
  \/ step.kind = "review" /\ ~record.reviewer
  \/ step.kind = "complete" /\ record.verified = None

Planned(step) ==
  [kind |-> step.kind, phase |-> step.phase, repair |-> step.repair,
   basis |-> Basis(step), intent |-> task.intent]

\* drive reads the record and the task and asks the policy.
Read(p) ==
  /\ pc[p] = "read"
  /\ LET step == IF record.pending # None THEN Do("interrupted", record.phase, FALSE)
                 ELSE NextAction(record, task.intent)
     IN \/ /\ record.status \in Stops
           /\ Goto(p, "settle") /\ UNCHANGED <<todo, fresh, taskFresh>>
        \/ /\ record.status \notin Stops
           /\ fresh' = fresh \union {p}
           /\ taskFresh' = taskFresh \union {p}
           /\ todo' = [todo EXCEPT ![p] = Planned(step)]
           /\ Goto(p, CASE step.kind \in Statuses -> "mark"
                        [] p \in abort /\ step.kind # "complete" -> "settle"
                        [] Lacking(step) -> "failed"
                        [] OTHER -> "prepare")
  /\ UNCHANGED <<record, approving, task, source, result, owns, abort>>

\* The status the policy asks for is marked, and drive returns.
Mark(p) ==
  /\ pc[p] = "mark" /\ p \in fresh
  /\ Put(Marked(record, todo[p].kind))
  /\ Goto(p, "settle")
  /\ UNCHANGED <<task, source, todo, result, taskFresh, owns, abort>>

\* invoke: an implementation starts from the approved source.
PrepareInvoke(p) ==
  /\ pc[p] = "prepare" /\ todo[p].kind = "invoke"
  /\ Goto(p, CASE todo[p].phase # "implementation"     -> "journal"
               [] todo[p].basis \in {None, source}     -> "own"
               [] OTHER                                -> "failed")
  /\ UNCHANGED <<task, source, todo, result, taskFresh, owns, abort>> /\ Keep

PrepareReview(p) ==
  /\ pc[p] = "prepare" /\ todo[p].kind = "review"
  /\ Goto(p, "journal")
  /\ UNCHANGED <<task, source, todo, result, taskFresh, owns, abort>> /\ Keep

\* executeVerification: the changed paths may ask for the high-impact route, which
\* is recorded before the driver throws.
PrepareVerify(p) ==
  /\ pc[p] = "prepare" /\ todo[p].kind = "verify"
  /\ \/ Goto(p, "own") /\ Keep
     \/ /\ p \in fresh /\ ~record.high
        /\ Put([record EXCEPT !.high = TRUE, !.status = "blocked",
                              !.outcome = "error", !.notice = TRUE])
        /\ Goto(p, "failed")
  /\ UNCHANGED <<task, source, todo, result, taskFresh, owns, abort>>

\* Variant: a completed task passes for a verified one.
CompletedIsEnough == task.state \in {"completed", "verified"}

AlreadyVerified == task.state = "verified"

\* complete: only what was verified is completed.
PrepareComplete(p) ==
  /\ pc[p] = "prepare" /\ todo[p].kind = "complete"
  /\ \/ /\ source # todo[p].basis /\ p \in fresh
        /\ Put([record EXCEPT !.phase = "verification", !.status = "running",
                              !.outcome = "failed", !.notice = FALSE])
        /\ Goto(p, "read") /\ UNCHANGED taskFresh
     \/ /\ source = todo[p].basis /\ AlreadyVerified /\ p \in fresh
        /\ Put([record EXCEPT !.status = "verified", !.outcome = "passed", !.notice = FALSE])
        /\ Goto(p, "settle") /\ UNCHANGED taskFresh
     \/ /\ source = todo[p].basis /\ task.state \in {"running", "completed"}
        /\ taskFresh' = taskFresh \union {p}
        /\ Goto(p, "journal") /\ Keep
  /\ UNCHANGED <<task, source, todo, result, owns, abort>>

\* ensureRunningTask
Own(p) ==
  /\ pc[p] = "own" /\ task.state \in {"idle", "running", "completed"}
  /\ task' = [task EXCEPT !.state = "running"]
  /\ taskFresh' = IF task.state = "running" THEN taskFresh ELSE {}
  /\ Goto(p, "journal")
  /\ UNCHANGED <<source, todo, result, owns, abort>> /\ Keep

-----------------------------------------------------------------------------
(* The driver: the journalled effect *)

\* Variant: repairs are not counted.
Uncounted(p) ==
  LET step == todo[p]
  IN [record EXCEPT
        !.pending = [by |-> p, kind |-> step.kind, phase |-> step.phase,
                     repair |-> step.repair, source |-> source],
        !.phase = step.phase, !.status = "running", !.outcome = "none", !.notice = FALSE]

\* The action is journalled before its effect.
Journalled(p) ==
  LET step == todo[p]
  IN [record EXCEPT
        !.pending = [by |-> p, kind |-> step.kind, phase |-> step.phase,
                     repair |-> step.repair, source |-> source],
        !.phase = step.phase, !.status = "running", !.outcome = "none", !.notice = FALSE,
        !.repairs = IF step.repair THEN @ + 1 ELSE @]

Journal(p) ==
  /\ pc[p] = "journal" /\ p \in fresh
  /\ record.pending = None
  /\ Put(Journalled(p))
  /\ owns' = owns \union {p}
  /\ task' = [task EXCEPT !.ours = FALSE]
  /\ Goto(p, "effect")
  /\ UNCHANGED <<source, todo, result, taskFresh, abort>>

\* The effect ends with an outcome to commit, or, aborted, without one.
Ends(p, outcome) ==
  \/ Goto(p, "commit") /\ result' = [result EXCEPT ![p] = outcome]
  \/ p \in abort /\ Goto(p, "failed") /\ UNCHANGED result

\* A provider's process runs and, to implement, edits the source; a late exit may
\* beat the abort.
Invoke(p) ==
  /\ pc[p] = "effect" /\ todo[p].kind = "invoke"
  /\ \E outcome \in Outcomes \ {"none"} : Ends(p, outcome)
  /\ source' \in IF todo[p].phase = "implementation" THEN Sources ELSE {source}
  /\ UNCHANGED <<task, todo, taskFresh, owns, abort>> /\ Keep

\* The acceptance checks run and record evidence for the task that runs, or throw.
Verify(p) ==
  /\ pc[p] = "effect" /\ todo[p].kind = "verify"
  /\ \/ /\ task.state = "running"
        /\ \E outcome \in {"passed", "failed"} :
             /\ task' = [task EXCEPT !.proof = IF outcome = "passed" THEN source ELSE None,
                                     !.ours = (outcome = "passed")]
             /\ result' = [result EXCEPT ![p] = outcome]
        /\ taskFresh' = {}
     \/ /\ result' = [result EXCEPT ![p] = "failed"]
        /\ UNCHANGED <<task, taskFresh>>
  /\ Goto(p, IF p \in abort THEN "failed" ELSE "commit")
  /\ UNCHANGED <<source, todo, owns, abort>> /\ Keep

\* A review passes only on the source that was journalled.
Review(p) ==
  /\ pc[p] = "effect" /\ todo[p].kind = "review"
  /\ \E outcome \in {"passed", "failed"} :
       /\ outcome = "passed" => Owned(p) /\ source = record.pending.source
       /\ result' = [result EXCEPT ![p] = outcome]
  /\ Goto(p, IF p \in abort THEN "failed" ELSE "commit")
  /\ UNCHANGED <<task, source, todo, taskFresh, owns, abort>> /\ Keep

\* The inspected task is completed unless it was, ...
CompleteTask(p) ==
  /\ pc[p] = "effect" /\ todo[p].kind = "complete" /\ p \in taskFresh
  /\ IF task.state = "running"
     THEN task' = [task EXCEPT !.state = "completed"] /\ taskFresh' = {p}
     ELSE UNCHANGED <<task, taskFresh>>
  /\ Goto(p, IF p \in abort THEN "failed" ELSE "close")
  /\ UNCHANGED <<source, todo, result, owns, abort>> /\ Keep

\* ... and then verified, if its evidence is of the present source.
VerifyTask(p) ==
  /\ pc[p] = "close" /\ p \in taskFresh
  /\ task.state = "completed" /\ task.proof = source
  /\ task' = [task EXCEPT !.state = "verified"]
  /\ taskFresh' = {}
  /\ result' = [result EXCEPT ![p] = "passed"]
  /\ Goto(p, IF p \in abort THEN "failed" ELSE "commit")
  /\ UNCHANGED <<source, todo, owns, abort>> /\ Keep

Committed(kind, outcome) ==
  LET passed == outcome = "passed"
      phase  == record.phase
      made(name) == kind = "invoke" /\ passed /\ phase = name
  IN [Abandoned(record) EXCEPT
        !.outcome = outcome, !.notice = FALSE,
        !.status = CASE kind = "invoke" /\ outcome = "needs-input"         -> "awaiting-input"
                     [] kind = "invoke" /\ outcome \in {"failed", "error"} -> "blocked"
                     [] kind = "complete"                                  -> "verified"
                     [] OTHER                                              -> @,
        !.requirements = @ \/ made("requirements"),
        !.plan = @ \/ made("plan"),
        !.approval = IF made("plan") THEN None ELSE @,
        !.verified = IF kind = "verify" /\ passed THEN source ELSE @]

\* Variant: a result that comes after a cancellation is committed.
AcceptsLate(p) == Owned(p)

\* commitAction correlates the result with the pending action; it drops a result that
\* comes after a cancellation.
Accepts(p) == record.status # "cancelled" /\ Owned(p)

\* When the commit throws, an invocation or a check commits its failure instead.
Outcome(p, outcome) ==
  \/ outcome = result[p]
  \/ todo[p].kind = "invoke" /\ outcome = "error"
  \/ todo[p].kind \in {"verify", "review"} /\ outcome = "failed"

Commit(p) ==
  /\ pc[p] = "commit"
  /\ \E outcome \in Outcomes :
       /\ Outcome(p, outcome)
       /\ IF Accepts(p) THEN Put(Committed(todo[p].kind, outcome)) ELSE Owned(p) /\ Keep
       /\ Goto(p, CASE todo[p].kind = "complete" -> "settle"
                    [] outcome = "error"         -> "failed"
                    [] OTHER                     -> "read")
  /\ UNCHANGED <<task, source, todo, result, taskFresh, owns, abort>>

-----------------------------------------------------------------------------
(* The driver: failing and ending *)

\* Every step that reads, writes or compares may throw.
Throw(p) ==
  /\ pc[p] \in {"read", "mark", "prepare", "own", "journal", "effect", "close", "commit"}
  /\ pc[p] = "effect" => todo[p].kind = "complete"
  /\ Goto(p, "failed") /\ Forget(p)
  /\ UNCHANGED <<record, approving, task, source, owns, abort>>

\* schedule catches what drive throws, and reads the record once more ...
Caught(p) ==
  /\ pc[p] = "failed"
  /\ IF record.status = "cancelled"
     THEN Goto(p, "settle") /\ UNCHANGED <<todo, fresh>>
     ELSE /\ todo' = [todo EXCEPT ![p] =
                        Planned(Do(IF record.pending # None THEN "interrupted" ELSE "blocked",
                                   record.phase, FALSE))]
          /\ fresh' = fresh \union {p}
          /\ Goto(p, "excuse")
  /\ UNCHANGED <<record, approving, task, source, result, taskFresh, owns, abort>>

\* ... to mark it; a failure to do so is swallowed.
Excuse(p) ==
  /\ pc[p] = "excuse"
  /\ \/ p \in fresh /\ Put(Marked(record, todo[p].kind))
     \/ Keep
  /\ Goto(p, "settle")
  /\ UNCHANGED <<task, source, todo, result, taskFresh, owns, abort>>

\* The finally block: the owner is no longer live ...
Settle(p) ==
  /\ pc[p] = "settle"
  /\ owns' = owns \ {p}
  /\ Goto(p, IF Owned(p) THEN "settling" ELSE "leave") /\ Forget(p)
  /\ UNCHANGED <<record, approving, task, source, abort>>

\* ... and settleCancelledAction gives up its pending action, or fails to.
Leave(p) ==
  /\ pc[p] \in {"settling", "leave"}
  /\ \/ /\ pc[p] = "settling" /\ record.status = "cancelled"
        /\ record.pending # None /\ record.pending.by = p
        /\ Put(Abandoned(record))
     \/ Keep
  /\ Goto(p, "off")
  /\ abort' = abort \ {p}
  /\ UNCHANGED <<task, source, todo, result, taskFresh, owns>>

Drive(p) ==
  /\ \/ Read(p) \/ Mark(p)
     \/ PrepareInvoke(p) \/ PrepareReview(p) \/ PrepareVerify(p) \/ PrepareComplete(p)
     \/ Own(p) \/ Journal(p)
     \/ Invoke(p) \/ Verify(p) \/ Review(p) \/ CompleteTask(p) \/ VerifyTask(p) \/ Commit(p)
     \/ Throw(p) \/ Caught(p) \/ Excuse(p) \/ Settle(p) \/ Leave(p)
  /\ UNCHANGED people

-----------------------------------------------------------------------------
(* Calls *)

Called(p) ==
  /\ p \in up /\ calls < MaxCalls
  /\ calls' = calls + 1

\* run, of a task that has a workflow
Run(p) ==
  /\ Called(p)
  /\ record.status = "running" /\ record.pending = None
  /\ Schedule(p) /\ Keep
  /\ UNCHANGED <<task, source, taskFresh, owns, abort, cancelling, up, upsets>>

\* approve reads the task and the source ...
BeginApprove(p) ==
  /\ Called(p)
  /\ record.status = "awaiting-approval" /\ approving[p] = None
  /\ approving' = [approving EXCEPT ![p] = [intent |-> task.intent, source |-> source]]
  /\ UNCHANGED <<record, task, source, pc, todo, result, fresh, taskFresh, owns, abort,
                 cancelling, up, upsets>>

\* ... and binds them to the record the person saw.
FinishApprove(p) ==
  /\ approving[p] # None
  /\ record.status = "awaiting-approval" /\ record.requirements /\ record.plan
  /\ Put([record EXCEPT !.approval = approving[p], !.status = "running",
                        !.outcome = "passed", !.notice = FALSE])
  /\ Schedule(p)
  /\ UNCHANGED <<task, source, taskFresh, owns, abort, cancelling, up, calls, upsets>>

\* What resume makes of an uncertain action whose owner is gone ...
Retried(r) ==
  [r EXCEPT !.pending = None, !.notice = FALSE,
            !.outcome = IF r.pending.kind = "complete" THEN "passed" ELSE "none",
            !.retry = r.pending.kind = "invoke" /\ r.pending.phase = "implementation"]

GivenUp(r) == [Abandoned(r) EXCEPT !.outcome = "error", !.notice = FALSE]

Observed(r) ==
  [Abandoned(r) EXCEPT !.outcome = "passed", !.notice = FALSE, !.verified = source]

Observable == record.pending.kind = "verify" /\ record.plan /\ task.ours /\ task.proof = source

\* ... and of a record that has none: an answer, a checkpoint, or a new start on the
\* high-impact route.
Answered(r) == [r EXCEPT !.outcome = "none", !.notice = FALSE]

Replanned(r) ==
  [r EXCEPT !.phase = "requirements", !.requirements = FALSE, !.plan = FALSE,
            !.approval = None, !.reviewer = TRUE, !.outcome = "none", !.notice = FALSE]

Resumptions ==
  IF record.pending # None
  THEN {Retried(record), GivenUp(record)} \union (IF Observable THEN {Observed(record)} ELSE {})
  ELSE CASE record.status = "awaiting-input"                           -> {Answered(record)}
         [] record.status = "running"                                  -> {record}
         [] record.status = "blocked" /\ record.high /\ record.notice -> {Replanned(record)}
         [] OTHER                                                      -> {}

Resumable(p) == record.pending # None => ~OwnerLive(p)

Resume(p) ==
  /\ Called(p) /\ Resumable(p)
  /\ \E r \in Resumptions :
       LET status == IF r.outcome = "error" THEN "blocked" ELSE "running"
       IN /\ Put([r EXCEPT !.status = status])
          /\ IF status = "running" THEN Schedule(p) ELSE UNCHANGED <<pc, todo, result>>
  /\ UNCHANGED <<task, source, taskFresh, owns, abort, cancelling, up, upsets>>

\* Variant: the signal outlives a driver that has ended.
AbortsUndriven(p) == abort \union {p}

Aborted(p) == IF pc[p] = "off" THEN abort ELSE abort \union {p}

\* cancel marks the workflow, stops the driver of its process ...
Cancel(p) ==
  /\ Called(p)
  /\ LET dead == record.pending # None /\ ~OwnerLive(p)
     IN Put([(IF dead THEN Abandoned(record) ELSE record) EXCEPT
               !.status = "cancelled", !.outcome = "error", !.notice = FALSE])
  /\ abort' = Aborted(p)
  /\ cancelling' = cancelling \union {p}
  /\ UNCHANGED <<task, source, pc, todo, result, taskFresh, owns, up, upsets>>

\* ... and cancels the task, or fails to.
FinishCancel(p) ==
  /\ p \in cancelling
  /\ cancelling' = cancelling \ {p}
  /\ \/ /\ task.state \notin {"cancelled", "verified"}
        /\ task' = [task EXCEPT !.state = "cancelled"]
        /\ taskFresh' = {}
     \/ UNCHANGED <<task, taskFresh>>
  /\ UNCHANGED <<source, pc, todo, result, owns, abort, up, calls, upsets>> /\ Keep

Upset == upsets < MaxUpsets /\ upsets' = upsets + 1

\* shutdown stops the drivers of its process.
Shutdown(p) ==
  /\ Upset /\ pc[p] # "off" /\ p \notin abort
  /\ abort' = abort \union {p}
  /\ UNCHANGED <<task, source, pc, todo, result, taskFresh, owns, cancelling, up, calls>>
  /\ Keep

Crash(p) ==
  /\ Upset /\ p \in up
  /\ up' = up \ {p}
  /\ Goto(p, "off") /\ Forget(p)
  /\ approving' = [approving EXCEPT ![p] = None]
  /\ owns' = owns \ {p} /\ abort' = abort \ {p} /\ cancelling' = cancelling \ {p}
  /\ UNCHANGED <<record, task, source, calls>>

-----------------------------------------------------------------------------
(* What others do *)

Others ==
  /\ Upset
  /\ UNCHANGED <<pc, todo, result, owns, abort, cancelling, up, calls>>

\* Somebody, or the provider at work, edits the working tree.
Edit == /\ \E s \in Sources \ {source} : source' = s
        /\ UNCHANGED <<task, taskFresh>> /\ Others /\ Keep

\* The criteria change: evidence no longer counts, a completed task is open again.
Revise ==
  /\ task.state \notin {"verified", "cancelled"}
  /\ task' = [task EXCEPT !.intent = @ + 1, !.proof = None, !.ours = FALSE,
                          !.state = IF @ = "completed" THEN "idle" ELSE @]
  /\ taskFresh' = {}
  /\ UNCHANGED source /\ Others /\ Keep

\* The adopted records are reconciled, but not under an action whose process is up;
\* the workflow is told, unless that fails.
Reconcile ==
  /\ task.state \notin {"verified", "cancelled"}
  /\ record.pending # None => record.pending.by \notin up
  /\ task' = [task EXCEPT !.intent = @ + 1]
  /\ taskFresh' = {}
  /\ Put(record) \/ Keep
  /\ UNCHANGED source /\ Others

\* The task is paused, or cancelled, by hand.
Halt ==
  /\ \/ task.state = "running" /\ task' = [task EXCEPT !.state = "idle"]
     \/ task.state \notin {"verified", "cancelled"} /\ task' = [task EXCEPT !.state = "cancelled"]
  /\ taskFresh' = {}
  /\ UNCHANGED source /\ Others /\ Keep

Next ==
  \/ \E p \in Procs :
       \/ Drive(p)
       \/ Run(p) \/ BeginApprove(p) \/ FinishApprove(p) \/ Resume(p)
       \/ Cancel(p) \/ FinishCancel(p) \/ Shutdown(p) \/ Crash(p)
  \/ Edit \/ Revise \/ Reconcile \/ Halt

\* A driver that runs goes on: providers, checks and reviews have time limits.
Spec == Init /\ [][Next]_vars /\ \A p \in Procs : WF_vars(Drive(p))

-----------------------------------------------------------------------------
(* Properties *)

Drivers == {p \in Procs : pc[p] # "off"}

\* Types, among them the bound on repair attempts, and that what drivers know, own
\* and are told belongs to a driver that runs in a process that is up.
TypeOK ==
  /\ record \in Record
  /\ task \in Task
  /\ source \in Sources
  /\ pc \in [Procs -> Phases]
  /\ todo \in [Procs -> Todo \union {None}]
  /\ result \in [Procs -> Outcomes]
  /\ approving \in [Procs -> Approval \union {None}]
  /\ owns \subseteq Drivers /\ abort \subseteq Drivers
  /\ fresh \subseteq Drivers /\ taskFresh \subseteq Drivers
  /\ Drivers \union cancelling \subseteq up /\ up \subseteq Procs /\ calls \in 0..MaxCalls
  /\ upsets \in 0..MaxUpsets

\* While an effect runs, the journal names it: nobody resolves, retries or replaces
\* an action that a live driver is carrying out, so two effects never overlap.
OnlyOwnerRuns ==
  \A p \in Procs : pc[p] \in {"effect", "close", "commit"} => Owned(p)

\* A workflow that says verified has a verified task.
VerifiedTogether == record.status = "verified" => task.state = "verified"

\* Where the route demands an approval, an implementation under way has one, for the
\* very intent the driver read.
ApprovedWork ==
  \A p \in Procs :
    /\ pc[p] = "effect" /\ todo[p].phase = "implementation"
    /\ Approves(record)
    => /\ record.approval # None /\ record.requirements /\ record.plan
       /\ record.approval.intent = todo[p].intent

\* A driver never changes a cancelled workflow, except to give up the action it owns.
CancelledIsInert ==
  [][record.status = "cancelled" /\ (\E p \in Procs : Drive(p))
       => record' \in {record, Abandoned(record)}]_vars

\* Every driver ends: repairs are counted, and a step that fails ends it.
DriversEnd == \A p \in Procs : pc[p] # "off" ~> pc[p] = "off"

\* Cancellation is final: nobody revives a cancelled workflow.
CancellationIsFinal ==
  [][record.status = "cancelled" => record'.status = "cancelled"]_vars

\* A workflow that was blocked for the high-impact route can be taken up on it:
\* resume knows it by the notice.
EscalationResumable ==
  record.high /\ record.status = "blocked" /\ record.plan /\ ~record.requirements
    => record.notice \/ (\E p \in Procs : pc[p] \in {"failed", "excuse"})
=============================================================================
