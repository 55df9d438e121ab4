---------------------------- MODULE MCExecution ----------------------------
(***************************************************************************)
(* What works on a task, one part at a time for TLC: the evidence it       *)
(* gathers, the worktree it is in, direct sessions, schedules, reviews,    *)
(* the managed tool and the evaluation of a run.  A scene picks the        *)
(* component that moves; the others stay in one initial state.             *)
(***************************************************************************)
EXTENDS TaskState, Workspaces, Evaluations, DirectSessions, Scheduler, Reviews, ManagedTool, TLC

CONSTANTS c1, t1

\* One criterion that comes to need an approval.
OneApproval == {c1 :> [text |-> t1, approval |-> FALSE], c1 :> [text |-> t1, approval |-> TRUE]}

Symmetry == Permutations(Sources)

\* The limit that each review asks for.
Limits == 1 :> 1 @@ 2 :> 2

VARIABLE scene   \* the component that moves

allVars == <<scene, vars, workspaceVars, evaluationVars, sessionVars, schedulerVars, reviewVars,
           toolVars>>

MCInit ==
  /\ scene \in {"task", "workspaces", "evaluations", "sessions", "scheduler", "reviews", "tool"}
  /\ Init
  /\ scene # "task" => /\ ~authorized /\ ~criteria[c1].approval
                       /\ source = (CHOOSE s \in Sources : TRUE)
  /\ WorkspacesInit /\ (scene # "workspaces" => registry = {})
  /\ EvaluationsInit
  /\ scene # "evaluations" => trial = NoTrial /\ \A f \in Artifacts : tree[f] = "seeded"
  /\ SessionsInit
  /\ SchedulerInit
  /\ scene # "scheduler" => \A i \in Schedules : ~plan[i].authorized
  /\ ReviewsInit
  /\ ManagedToolInit

MCNext ==
  \/ /\ scene = "task" /\ Next
     /\ UNCHANGED <<scene, workspaceVars, evaluationVars, sessionVars, schedulerVars,
                    reviewVars, toolVars>>
  \/ /\ scene = "workspaces" /\ WorkspacesNext
     /\ UNCHANGED <<scene, vars, evaluationVars, sessionVars, schedulerVars, reviewVars,
                    toolVars>>
  \/ /\ scene = "evaluations" /\ EvaluationsNext
     /\ UNCHANGED <<scene, vars, workspaceVars, sessionVars, schedulerVars, reviewVars, toolVars>>
  \/ /\ scene = "sessions" /\ SessionsNext
     /\ UNCHANGED <<scene, vars, workspaceVars, evaluationVars, schedulerVars, reviewVars,
                    toolVars>>
  \/ /\ scene = "scheduler" /\ SchedulerNext
     /\ UNCHANGED <<scene, vars, workspaceVars, evaluationVars, sessionVars, reviewVars,
                    toolVars>>
  \/ /\ scene = "reviews" /\ ReviewsNext
     /\ UNCHANGED <<scene, vars, workspaceVars, evaluationVars, sessionVars, schedulerVars,
                    toolVars>>
  \/ /\ scene = "tool" /\ ManagedToolNext
     /\ UNCHANGED <<scene, vars, workspaceVars, evaluationVars, sessionVars, schedulerVars,
                    reviewVars>>
  \/ scene # "task" /\ UNCHANGED allVars   \* the other scenes stop at their bounds

MCSpec == MCInit /\ [][MCNext]_allVars

\* All that moves in a scene.
Moving ==
  <<scene,
    CASE scene = "task" -> vars
      [] scene = "workspaces" -> workspaceVars
      [] scene = "evaluations" -> evaluationVars
      [] scene = "sessions" -> sessionVars
      [] scene = "scheduler" -> schedulerVars
      [] scene = "reviews" -> reviewVars
      [] scene = "tool" -> toolVars>>

-----------------------------------------------------------------------------
\* The state of every component has its type.
TypesOK ==
  /\ scene = "task" => TypeOK
  /\ scene = "workspaces" => WorkspacesTypeOK
  /\ scene = "evaluations" => EvaluationsTypeOK
  /\ scene = "sessions" => SessionsTypeOK
  /\ scene = "scheduler" => SchedulerTypeOK
  /\ scene = "reviews" => ReviewsTypeOK
  /\ scene = "tool" => ManagedToolTypeOK
=============================================================================
