----------------------------- MODULE MCServices -----------------------------
(***************************************************************************)
(* What runs concurrently, one service at a time for TLC: the task-state   *)
(* lock, direct sessions, process runs, the scheduler, reviews, the        *)
(* managed tool and the restart handoff.  A scene picks the service that   *)
(* moves; the others stay idle.                                            *)
(***************************************************************************)
EXTENDS TaskStateLock, DirectSessions, ProcessRunner, Scheduler, Reviews, ManagedTool, Updates

\* The limit that the review asks for.
Limits == [r \in Reviews |-> 1]

VARIABLE scene   \* the component that moves

allVars == <<scene, vars, sessionVars, runnerVars, schedulerVars, reviewVars, toolVars,
           updateVars>>

MCInit ==
  /\ scene \in {"lock", "sessions", "runner", "scheduler", "reviews", "tool", "updates"}
  /\ Init /\ (scene # "lock" => lock = None)
  /\ SessionsInit
  /\ RunnerInit
  /\ SchedulerInit
  /\ scene # "scheduler" => \A i \in Schedules : ~plan[i].authorized
  /\ ReviewsInit
  /\ ManagedToolInit
  /\ UpdatesInit /\ (scene # "updates" => staged = Nobody)

MCNext ==
  \/ /\ scene = "lock" /\ Next
     /\ UNCHANGED <<scene, sessionVars, runnerVars, schedulerVars, reviewVars, toolVars,
                    updateVars>>
  \/ /\ scene = "sessions" /\ SessionsNext
     /\ UNCHANGED <<scene, vars, runnerVars, schedulerVars, reviewVars, toolVars, updateVars>>
  \/ /\ scene = "runner" /\ RunnerNext
     /\ UNCHANGED <<scene, vars, sessionVars, schedulerVars, reviewVars, toolVars, updateVars>>
  \/ /\ scene = "scheduler" /\ SchedulerNext
     /\ UNCHANGED <<scene, vars, sessionVars, runnerVars, reviewVars, toolVars, updateVars>>
  \/ /\ scene = "reviews" /\ ReviewsNext
     /\ UNCHANGED <<scene, vars, sessionVars, runnerVars, schedulerVars, toolVars, updateVars>>
  \/ /\ scene = "tool" /\ ManagedToolNext
     /\ UNCHANGED <<scene, vars, sessionVars, runnerVars, schedulerVars, reviewVars, updateVars>>
  \/ /\ scene = "updates" /\ UpdatesNext
     /\ UNCHANGED <<scene, vars, sessionVars, runnerVars, schedulerVars, reviewVars, toolVars>>

\* The fairness of each service, in its own scene.
MCFairness ==
  /\ \A p \in Procs : WF_vars(scene = "lock" /\ Step(p)) /\ WF_vars(scene = "lock" /\ Expire(p))
  /\ \A s \in Sessions : WF_sessionVars(scene = "sessions" /\ SessionStep(s))
  /\ WF_runnerVars(scene = "runner" /\ Close) /\ WF_runnerVars(scene = "runner" /\ Escalate)
  /\ WF_runnerVars(scene = "runner" /\ Timeout)
  /\ \A f \in Foregrounds :
       /\ WF_schedulerVars(scene = "scheduler" /\ SchedulerSteps(f))
       /\ WF_schedulerVars(scene = "scheduler" /\ RunSteps(f))
       /\ WF_schedulerVars(scene = "scheduler" /\ EndRun(f))
  /\ \A r \in Reviews :
       /\ WF_reviewVars(scene = "reviews" /\ PollCancel(r))
       /\ WF_reviewVars(scene = "reviews" /\ Conclude(r))
       /\ WF_reviewVars(scene = "reviews" /\ FinishReview(r))
       /\ \A a \in Assigned(r) : WF_reviewVars(scene = "reviews" /\ FairItem(r, a))
  /\ \A c \in ToolControllers :
       /\ WF_toolVars(scene = "tool" /\ ToolReady(c))
       /\ WF_toolVars(scene = "tool" /\ ControllerExits(c))
       /\ WF_toolVars(scene = "tool" /\ ~controllers[c].committed /\ ShutsDown(c))
  /\ \A h \in Handoffs : WF_updateVars(scene = "updates" /\ HandoffStep(h))
  /\ \A s \in Servers :
       /\ WF_updateVars(scene = "updates" /\ CountRequest(s))
       /\ WF_updateVars(scene = "updates" /\ EndRequest(s))

MCSpec == MCInit /\ [][MCNext]_allVars /\ MCFairness

-----------------------------------------------------------------------------
\* The state of every component has its type.
TypesOK ==
  /\ scene = "lock" => TypeOK
  /\ scene = "sessions" => SessionsTypeOK
  /\ scene = "scheduler" => SchedulerTypeOK
  /\ scene = "reviews" => ReviewsTypeOK
  /\ scene = "tool" => ManagedToolTypeOK
  /\ scene = "updates" => UpdatesTypeOK

(* What was begun ends: a call for the lock is answered, a run gives its   *)
(* claim back, a process that is to stop takes its group along, a run or a *)
(* review that is to be cancelled is, a controller nobody committed exits, *)
(* and a restart is over (task-state/lock.ts, execution-fence.ts,          *)
(* process-runner.ts, scheduler/service.ts, reviews/orchestrator.ts,       *)
(* fcc-controller.ts, updates/handoff.ts).                                 *)
CallsEnd ==
  /\ AcquireSettles /\ FenceReturned /\ StoppedSettles
  /\ CancelEnds /\ CancelEndsReview /\ UncommittedEnds /\ HandoffsEnd
=============================================================================
