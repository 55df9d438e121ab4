--------------------------- MODULE DirectSessions ---------------------------
(***************************************************************************)
(* Direct provider sessions of one task: the execution fence of            *)
(* runtime/execution-fence.ts, run, resume and cancel of                   *)
(* runtime/task-controller.ts, and the child that                          *)
(* runtime/process-runner.ts owns for them.                                *)
(*                                                                         *)
(* A controller is a process.  Its ACTIVE map is memory and dies with it,  *)
(* while its children are detached and survive it.  Every read and every   *)
(* write of a store is a step of its own, because each is a locked section *)
(* between two awaits.  The task revision is the set "current" of the      *)
(* calls that have read it and would still find it: a commit empties it.   *)
(* The workflow of the task is external here: it journals an action when   *)
(* no fence is held, and a child of it runs while the action is pending.   *)
(***************************************************************************)
EXTENDS Naturals, FiniteSets

CONSTANTS
  Controllers,  \* processes that create a task controller
  MaxSessions   \* bound: calls of start and resume

ASSUME SessionsAssumption == MaxSessions \in Nat /\ Controllers \intersect Nat = {}

\* A call stands for the owner, the run and the session it creates.
Sessions  == 1..MaxSessions
NoSession == 0

VARIABLES
  living,                       \* controllers whose process lives
  taskState, taskOwner,
  current,                      \* calls whose revision of the task is the present one
  fence,                        \* the session whose run claimed .latchkit/tasks/execution-fences.json
  workflow,                     \* the durable workflow of the task: none that is active, between actions, acting
  saved,                        \* sessions.json: state, a recorded pid, a provider identity
  child,                        \* the provider process of each session
  signalled,                    \* the AbortController of each session has been aborted
  saving,                       \* the write of the pid is in flight
  unsaved,                      \* ... and failed (eventWriteFailure)
  active,                       \* the ACTIVE map of each controller, at this task
  at, by, of, target,           \* each run: its place, controller, resumed session, the fence to clear
  canceller, cancelAt, reached  \* a call of cancel: its controller, place, what ACTIVE named

sessionVars == <<living, taskState, taskOwner, current, fence, workflow, saved, child, signalled,
                 saving, unsaved, active, at, by, of, target, canceller, cancelAt, reached>>

Store  == <<taskState, taskOwner, current>>
Memory == <<child, signalled, saving, unsaved, active>>
Call   == <<by, of, target>>
Cancelling == <<canceller, cancelAt, reached>>

SessionPlaces == {"idle", "read", "clearing", "ready", "chosen", "fenced", "owned", "saved",
                  "running", "ended", "settling", "pausing", "closing", "releasing", "over", "kept"}
CancelPlaces  == {"idle", "called", "inspected", "committed", "marking", "refused", "over"}
MaybeSession  == Sessions \union {NoSession}
Unknown == [state |-> "none", pid |-> FALSE, resumable |-> FALSE]

SessionsInit ==
  /\ living = Controllers
  /\ taskState = "open" /\ taskOwner = NoSession /\ current = {}
  /\ fence = NoSession
  /\ workflow = "none"
  /\ saved = [s \in Sessions |-> Unknown]
  /\ child = [s \in Sessions |-> "none"]
  /\ signalled = [s \in Sessions |-> FALSE]
  /\ saving = [s \in Sessions |-> FALSE] /\ unsaved = [s \in Sessions |-> FALSE]
  /\ active = [c \in Controllers |-> NoSession]
  /\ at = [s \in Sessions |-> "idle"]
  /\ by = [s \in Sessions |-> NoSession] /\ of = [s \in Sessions |-> NoSession]
  /\ target = [s \in Sessions |-> NoSession]
  /\ cancelAt = "idle" /\ canceller = NoSession /\ reached = NoSession

\* Identities are fresh: the calls take them in order.
Unused(s) == at[s] = "idle" /\ \A r \in 1..(s - 1) : at[r] # "idle"

Moves(s, place) == at' = [at EXCEPT ![s] = place]
SessionRuns(s, place) == at[s] = place /\ by[s] \in living
Untouched == UNCHANGED <<living, Store, workflow, saved, Memory, Call, Cancelling>>

\* processIsLive: of the process of a fence's controller, and of a session's recorded child.
FenceOwnerLive(s) == by[s] \in living
ChildLive(s)      == child[s] = "live"

-----------------------------------------------------------------------------
(* start, resume, run *)

\* start, up to the claim: the task is inspected, the plan is made.
StartSession(c, s) ==
  /\ c \in living /\ Unused(s)
  /\ taskState # "cancelled"
  /\ by' = [by EXCEPT ![s] = c]
  /\ current' = current \union {s}
  /\ Moves(s, "chosen")
  /\ UNCHANGED <<living, taskState, taskOwner, fence, workflow, saved, Memory, of, target,
                 Cancelling>>

\* resume reads the session it continues.
ResumeSession(c, s, old) ==
  /\ c \in living /\ Unused(s)
  /\ saved[old].state \notin {"none", "cancelled"} /\ saved[old].resumable
  /\ by' = [by EXCEPT ![s] = c] /\ of' = [of EXCEPT ![s] = old]
  /\ Moves(s, "read")
  /\ UNCHANGED <<living, Store, fence, workflow, saved, Memory, target, Cancelling>>

\* It inspects the fence: a direct one is cleared when its owner and the child of the
\* session are gone.
MayBeActive(s) == FenceOwnerLive(fence) \/ (saved[of[s]].pid /\ ChildLive(of[s]))

InspectFence(s) ==
  /\ SessionRuns(s, "read")
  /\ Moves(s, IF fence = NoSession THEN "ready" ELSE IF MayBeActive(s) THEN "over" ELSE "clearing")
  /\ target' = [target EXCEPT ![s] = IF at'[s] = "clearing" THEN fence ELSE NoSession]
  /\ UNCHANGED <<living, Store, fence, workflow, saved, Memory, by, of, Cancelling>>

\* clearExecutionFence: an absent fence is well, another one a conflict.
Cleared(s) == IF fence = s THEN NoSession ELSE fence

ClearFence(s) ==
  /\ SessionRuns(s, "clearing")
  /\ Moves(s, IF fence \in {target[s], NoSession} THEN "ready" ELSE "over")
  /\ fence' = Cleared(target[s])
  /\ target' = [target EXCEPT ![s] = NoSession]
  /\ UNCHANGED <<living, Store, workflow, saved, Memory, by, of, Cancelling>>

\* run of a resumed session inspects the task.
InspectTask(s) ==
  /\ SessionRuns(s, "ready")
  /\ Moves(s, IF taskState = "cancelled" THEN "over" ELSE "chosen")
  /\ current' = current \union {s}
  /\ UNCHANGED <<living, taskState, taskOwner, fence, workflow, saved, Memory, Call, Cancelling>>

\* claimExecutionFence.  (The variant leaves out assertNoActiveWorkflowUnlocked.)
OverlooksWorkflow == fence = NoSession
Claimable == fence = NoSession /\ workflow = "none"

ClaimFence(s) ==
  /\ SessionRuns(s, "chosen")
  /\ \/ Claimable /\ fence' = s /\ Moves(s, "fenced")
     \/ ~Claimable /\ fence' = fence /\ Moves(s, "over")
  /\ Untouched

\* resumeTask.  A task that still names an owner is taken over when its process is gone.
Takeable(s) == s \in current /\ taskState # "cancelled"
               /\ (taskOwner # NoSession => by[taskOwner] \notin living)

OwnTask(s) ==
  /\ SessionRuns(s, "fenced")
  /\ \/ /\ Takeable(s)
        /\ taskState' = "running" /\ taskOwner' = s /\ current' = {}
        /\ Moves(s, "owned")
     \/ ~Takeable(s) /\ Moves(s, "releasing") /\ UNCHANGED Store
  /\ UNCHANGED <<living, fence, workflow, saved, Memory, Call, Cancelling>>

\* save of the launching session, and ACTIVE.set when it returns; it may fail.
SaveSession(s) ==
  /\ SessionRuns(s, "owned")
  /\ \/ /\ saved' = [saved EXCEPT ![s] = [state |-> "launching", pid |-> FALSE,
                       resumable |-> of[s] # NoSession]]
        /\ active' = [active EXCEPT ![by[s]] = s]
        /\ Moves(s, "saved")
     \/ Moves(s, "releasing") /\ UNCHANGED <<saved, active>>
  /\ of' = [of EXCEPT ![s] = NoSession]
  /\ UNCHANGED <<living, Store, fence, workflow, child, signalled, saving, unsaved, by, target,
                 Cancelling>>

\* runProviderProcess: refused or not spawned, or a child whose pid is being saved.
LaunchChild(s) ==
  /\ SessionRuns(s, "saved")
  /\ \/ /\ child' = [child EXCEPT ![s] = "live"]
        /\ saving' = [saving EXCEPT ![s] = TRUE]
        /\ Moves(s, "running")
     \/ Moves(s, "ended") /\ UNCHANGED <<child, saving>>
  /\ UNCHANGED <<living, Store, fence, workflow, saved, signalled, unsaved, active, Call,
                 Cancelling>>

\* The save of the pid ends; when it fails the child is stopped.
SavePid(s) ==
  /\ saving[s] /\ by[s] \in living
  /\ saving' = [saving EXCEPT ![s] = FALSE]
  /\ \/ /\ saved' = [saved EXCEPT ![s].state = "running", ![s].pid = TRUE]
        /\ UNCHANGED <<signalled, unsaved>>
     \/ /\ signalled' = [signalled EXCEPT ![s] = TRUE]
        /\ unsaved' = [unsaved EXCEPT ![s] = TRUE]
        /\ UNCHANGED saved
  /\ UNCHANGED <<living, Store, fence, workflow, child, active, at, Call, Cancelling>>

\* The child exits, by itself or by the signals of cancel(why).
ChildExits(s) ==
  /\ child[s] = "live"
  /\ child' = [child EXCEPT ![s] = "gone"]
  /\ UNCHANGED <<living, Store, fence, workflow, saved, signalled, saving, unsaved, active, at,
                 Call, Cancelling>>

\* "close" settles the run, and the write of the pid is awaited.
ChildClosed(s) ==
  /\ SessionRuns(s, "running")
  /\ child[s] = "gone" /\ ~saving[s]
  /\ Moves(s, IF unsaved[s] THEN "closing" ELSE "ended")
  /\ UNCHANGED <<living, Store, fence, workflow, saved, Memory, Call, Cancelling>>

\* save of the ended session; it may fail.
FinishSession(s) ==
  /\ SessionRuns(s, "ended")
  /\ \/ /\ \E known \in {saved[s].resumable, TRUE} :
             saved' = [saved EXCEPT ![s] =
               [state |-> IF signalled[s] THEN "cancelled" ELSE "finished",
                pid |-> child[s] # "none", resumable |-> known]]
        /\ Moves(s, "settling")
     \/ Moves(s, "closing") /\ UNCHANGED saved
  /\ UNCHANGED <<living, Store, fence, workflow, Memory, Call, Cancelling>>

\* inspectTask again, and pauseTask of a task that this run still owns.
SettleTask(s) ==
  /\ SessionRuns(s, "settling")
  /\ IF taskState = "running" /\ taskOwner = s
     THEN current' = current \union {s} /\ Moves(s, "pausing")
     ELSE UNCHANGED current /\ Moves(s, "closing")
  /\ UNCHANGED <<living, taskState, taskOwner, fence, workflow, saved, Memory, Call, Cancelling>>

PauseOwned(s) ==
  /\ SessionRuns(s, "pausing")
  /\ IF s \in current
     THEN taskState' = "open" /\ taskOwner' = NoSession /\ current' = {}
     ELSE UNCHANGED Store
  /\ Moves(s, "closing")
  /\ UNCHANGED <<living, fence, workflow, saved, Memory, Call, Cancelling>>

\* The inner finally, then releaseExecutionFence of this run's own claim.
CloseSession(s) ==
  /\ SessionRuns(s, "closing")
  /\ active' = [active EXCEPT ![by[s]] = NoSession]
  /\ Moves(s, "releasing")
  /\ UNCHANGED <<living, Store, fence, workflow, saved, child, signalled, saving, unsaved, Call,
                 Cancelling>>

ReleasesOwn(s) == Cleared(s)

\* Its error is swallowed: a release that fails leaves the claim to the process.
ReleaseFence(s) ==
  /\ SessionRuns(s, "releasing")
  /\ \/ fence' = ReleasesOwn(s) /\ Moves(s, "over")
     \/ fence = s /\ fence' = fence /\ Moves(s, "kept")
  /\ Untouched

-----------------------------------------------------------------------------
(* cancel, crashes, and the workflow *)

\* cancel reads ACTIVE, then inspects the task.  (Bound: one call.)
CallCancel(c) ==
  /\ c \in living /\ cancelAt = "idle"
  /\ canceller' = c /\ reached' = active[c]
  /\ cancelAt' = "called"
  /\ UNCHANGED <<living, Store, fence, workflow, saved, Memory, at, Call>>

CancelStep(from, to) ==
  canceller \in living /\ cancelAt = from /\ cancelAt' = to /\ UNCHANGED <<canceller, reached>>

InspectToCancel ==
  /\ CancelStep("called", "inspected")
  /\ current' = current \union {canceller}
  /\ UNCHANGED <<living, taskState, taskOwner, fence, workflow, saved, Memory, at, Call>>

\* cancelTask, and the abort of the child ACTIVE named.  A stale revision ends the call.
CommitCancel ==
  /\ canceller \in current
  /\ CancelStep("inspected", "committed")
  /\ taskState' = "cancelled" /\ taskOwner' = NoSession /\ current' = {}
  /\ signalled' = [s \in Sessions |-> signalled[s] \/ s = reached]
  /\ UNCHANGED <<living, fence, workflow, saved, child, saving, unsaved, active, at, Call>>

RefuseCancel ==
  /\ canceller \notin current
  /\ CancelStep("inspected", "refused")
  /\ UNCHANGED <<living, Store, fence, workflow, saved, Memory, at, Call>>

\* It clears the fence it finds; when that changed in between, the conflict is ignored.
ClearCancelled ==
  /\ CancelStep("committed", "marking")
  /\ fence' \in {NoSession, fence}
  /\ UNCHANGED <<living, Store, workflow, saved, Memory, at, Call>>

MarkCancelled ==
  /\ CancelStep("marking", "over")
  /\ saved' = [s \in Sessions |-> IF saved[s].state \in {"none", "finished"} THEN saved[s]
                                  ELSE [saved[s] EXCEPT !.state = "cancelled"]]
  /\ UNCHANGED <<living, Store, fence, workflow, Memory, at, Call>>

\* observe of a provider's session-terminated event: a checkpoint of the run that owns the
\* task moves its revision.
ObserveTermination(s) ==
  /\ saved[s].state # "none" /\ taskState = "running" /\ taskOwner = s
  /\ current # {} /\ current' = {}
  /\ UNCHANGED <<living, taskState, taskOwner, fence, workflow, saved, Memory, at, Call,
                 Cancelling>>

\* A controller's process dies, with its calls and its memory; its children are detached.
ControllerCrash(c) ==
  /\ c \in living /\ Cardinality(living) > 1
  /\ living' = living \ {c}
  /\ active' = [active EXCEPT ![c] = NoSession]
  /\ at' = [s \in Sessions |-> IF by[s] = c THEN "over" ELSE at[s]]
  /\ LET lost(flags) == [s \in Sessions |-> flags[s] /\ by[s] # c]
     IN saving' = lost(saving) /\ unsaved' = lost(unsaved) /\ signalled' = lost(signalled)
  /\ current' = {x \in current \ {c} : x \notin Sessions \/ by[x] # c}
  /\ UNCHANGED <<taskState, taskOwner, fence, workflow, saved, child, Call, Cancelling>>

\* External: the workflow is created, journals an action (journalWorkflowAction), which
\* runs a child when the task is not cancelled, commits it, and ends.
WorkflowMoves ==
  /\ \/ workflow = "none" /\ taskState # "cancelled" /\ workflow' = "idle"
     \/ workflow = "idle" /\ fence = NoSession /\ taskState # "cancelled" /\ workflow' = "acting"
     \/ workflow = "acting" /\ workflow' = "idle"
     \/ workflow = "idle" /\ workflow' = "none"
  /\ UNCHANGED <<living, Store, fence, saved, Memory, at, Call, Cancelling>>

SessionStep(s) ==
  \/ InspectFence(s) \/ ClearFence(s) \/ InspectTask(s) \/ ClaimFence(s) \/ OwnTask(s)
  \/ SaveSession(s) \/ LaunchChild(s) \/ SavePid(s) \/ ChildExits(s) \/ ChildClosed(s)
  \/ FinishSession(s) \/ SettleTask(s) \/ PauseOwned(s) \/ CloseSession(s) \/ ReleaseFence(s)

CancelSteps == InspectToCancel \/ CommitCancel \/ RefuseCancel \/ ClearCancelled \/ MarkCancelled

SessionsNext ==
  \/ \E s \in Sessions : SessionStep(s) \/ ObserveTermination(s)
  \/ \E c \in Controllers, s \in Sessions : StartSession(c, s)
  \/ \E c \in Controllers, s, old \in Sessions : ResumeSession(c, s, old)
  \/ \E c \in Controllers : CallCancel(c) \/ ControllerCrash(c)
  \/ CancelSteps
  \/ WorkflowMoves

\* A living controller goes on and every child exits in the end (a signalled one is killed
\* after the grace period; the others are assumed to finish).
SessionsFairness == \A s \in Sessions : WF_sessionVars(SessionStep(s))

SessionsSpec == SessionsInit /\ [][SessionsNext]_sessionVars /\ SessionsFairness

-----------------------------------------------------------------------------
SessionsTypeOK ==
  /\ living \subseteq Controllers /\ current \subseteq Sessions \union Controllers
  /\ taskState \in {"open", "running", "cancelled"}
  /\ {taskOwner, fence} \subseteq MaybeSession
  /\ workflow \in {"none", "idle", "acting"}
  /\ saved \in [Sessions -> [state : {"none", "launching", "running", "finished", "cancelled"},
                             pid : BOOLEAN, resumable : BOOLEAN]]
  /\ child \in [Sessions -> {"none", "live", "gone"}]
  /\ {signalled, saving, unsaved} \subseteq [Sessions -> BOOLEAN]
  /\ active \in [Controllers -> MaybeSession] /\ reached \in MaybeSession
  /\ at \in [Sessions -> SessionPlaces] /\ cancelAt \in CancelPlaces
  /\ by \in [Sessions -> Controllers \union {NoSession}]
  /\ {of, target} \subseteq [Sessions -> MaybeSession]

\* While the task is not cancelled, at most one provider works on it for a process that
\* lives: the child of one direct session, or the pending action of the workflow.
OwnedChildren == {s \in Sessions : ChildLive(s) /\ by[s] \in living}

OneProvider ==
  taskState # "cancelled" =>
    /\ Cardinality(OwnedChildren) <= 1
    /\ workflow = "acting" => OwnedChildren = {}

\* A run whose controller lives tries to give its claim back, however it ends: only a
\* release that fails leaves the claim, and the task to nobody but a cancellation,
\* until that process is gone.
FenceReturned ==
  \A s \in Sessions : fence = s ~> (fence # s \/ by[s] \notin living \/ at[s] = "kept")

=============================================================================
