------------------------------ MODULE Workspaces ------------------------------
(***************************************************************************)
(* Worktrees owned by tasks (src/workspaces/git.ts).  The registry under   *)
(* Git's common directory is read, changed and written without a lock, by  *)
(* callers that reviewers and sessions run concurrently; Git's own         *)
(* commands are atomic.  A worktree without a record is what an            *)
(* interrupted creation, or a registry written by somebody else meanwhile, *)
(* leaves behind.                                                          *)
(*                                                                         *)
(* A review workspace then receives a copy of the source checkout, file by *)
(* file, and is refused unless source and copy agree with what the source  *)
(* was when the copy began.                                                *)
(***************************************************************************)
EXTENDS Naturals, FiniteSets

CONSTANTS Clients, WorkTasks, SourceFiles, FileTexts,
          Deleted,              \* a file that is not there
          MaxTouches, MaxCalls  \* bounds: edits, calls

ASSUME WorkspacesAssumption == FileTexts # {} /\ Deleted \notin FileTexts

VARIABLES registry,    \* tasks with a record
          checkout,    \* what the checkout of each task holds
          branch,      \* task branches, which are never removed
          doing,       \* what each caller is doing, and what it has read
          sourceTree,  \* the checkout under review
          copyTree,    \* the copy in each task's worktree
          inspected,   \* tasks whose review workspace was returned, and of what
          touches, callsMade

workspaceVars == <<registry, checkout, branch, doing, sourceTree, copyTree, inspected,
                   touches, callsMade>>

ClientKinds == {"create", "review", "cancel", "cleanup"}
NotCalling == [step |-> "none"]
Trees == [SourceFiles -> FileTexts \union {Deleted}]
Empty == [f \in SourceFiles |-> Deleted]

WorkspacesInit ==
  /\ registry \in SUBSET WorkTasks /\ branch = registry
  /\ checkout = [t \in WorkTasks |-> IF t \in registry THEN "clean" ELSE "none"]
  /\ doing = [c \in Clients |-> NotCalling]
  /\ sourceTree = [f \in SourceFiles |-> CHOOSE text \in FileTexts : TRUE]
  /\ copyTree = [t \in WorkTasks |-> Empty]
  /\ inspected = [t \in WorkTasks |-> Empty]
  /\ touches = 0 /\ callsMade = 0

CallAt(c, step) == doing[c].step = step
Return(c) == doing' = [doing EXCEPT ![c] = NotCalling]

-----------------------------------------------------------------------------
(* A caller reads the registry; a review has read the source before. *)
BeginCall(c, t, kind) ==
  /\ CallAt(c, "none") /\ callsMade < MaxCalls
  /\ callsMade' = callsMade + 1
  /\ doing' = [doing EXCEPT ![c] =
       [step |-> kind, kind |-> kind, task |-> t, seen |-> registry,
        before |-> IF kind = "review" THEN sourceTree ELSE Empty,
        left |-> SourceFiles, looked |-> "none"]]
  /\ UNCHANGED <<registry, checkout, branch, sourceTree, copyTree, inspected, touches>>

Creates(c) == CallAt(c, "create") \/ CallAt(c, "review")

(* A record that matches is reconciled; so is a clean worktree at the
   requested commit, which is recorded now. *)
Reconcile(c) ==
  LET t == doing[c].task IN
  /\ Creates(c)
  /\ t \in doing[c].seen
  /\ IF checkout[t] = "none" THEN Return(c)
     ELSE doing' = [doing EXCEPT ![c].step = "created"]
  /\ UNCHANGED <<registry, checkout, branch, sourceTree, copyTree, inspected, touches, callsMade>>

RecoverWorktree(c) ==
  LET t == doing[c].task IN
  /\ Creates(c)
  /\ t \notin doing[c].seen /\ checkout[t] # "none"
  /\ IF checkout[t] = "clean" THEN doing' = [doing EXCEPT ![c].step = "record"]
                              ELSE Return(c)
  /\ UNCHANGED <<registry, checkout, branch, sourceTree, copyTree, inspected, touches, callsMade>>

(* git worktree add -b, never over a branch that exists. *)
AddWorktree(c) ==
  LET t == doing[c].task IN
  /\ Creates(c)
  /\ t \notin doing[c].seen /\ checkout[t] = "none"
  /\ IF t \in branch THEN Return(c) /\ UNCHANGED <<checkout, branch>>
     ELSE /\ checkout' = [checkout EXCEPT ![t] = "clean"]
          /\ branch' = branch \union {t}
          /\ doing' = [doing EXCEPT ![c].step = "record"]
  /\ UNCHANGED <<registry, sourceTree, copyTree, inspected, touches, callsMade>>

(* The whole registry is written, as it was read. *)
WriteRegistry(c) ==
  LET t == doing[c].task IN
  /\ CallAt(c, "record")
  /\ registry' = doing[c].seen \union {t}
  /\ doing' = [doing EXCEPT ![c].step = "created"]
  /\ UNCHANGED <<checkout, branch, sourceTree, copyTree, inspected, touches, callsMade>>

Created(c) ==
  /\ CallAt(c, "created") /\ doing[c].kind = "create"
  /\ Return(c)
  /\ UNCHANGED <<registry, checkout, branch, sourceTree, copyTree, inspected, touches, callsMade>>

-----------------------------------------------------------------------------
(* createReviewWorkspace copies into a clean worktree ... *)
BeginCopy(c) ==
  LET t == doing[c].task IN
  /\ CallAt(c, "created") /\ doing[c].kind = "review"
  /\ IF checkout[t] = "clean"
       THEN /\ doing' = [doing EXCEPT ![c].step = "copy"]
            /\ copyTree' = [copyTree EXCEPT ![t] = Empty]
            /\ checkout' = [checkout EXCEPT ![t] = "changed"]
       ELSE Return(c) /\ UNCHANGED <<copyTree, checkout>>
  /\ UNCHANGED <<registry, branch, sourceTree, inspected, touches, callsMade>>

CopyFile(c, f) ==
  LET t == doing[c].task IN
  /\ CallAt(c, "copy") /\ f \in doing[c].left
  /\ copyTree' = [copyTree EXCEPT ![t][f] = sourceTree[f]]
  /\ doing' = [doing EXCEPT ![c].left = @ \ {f}]
  /\ UNCHANGED <<registry, checkout, branch, sourceTree, inspected, touches, callsMade>>

(* Mutant of Proved: the copy itself is not compared. *)
ProvesSource(c, t) == doing[c].before = sourceTree

Proved(c, t) == doing[c].before = sourceTree /\ doing[c].before = copyTree[t]

(* ... and proves afterwards that nothing moved. *)
FinishCopy(c) ==
  LET t == doing[c].task IN
  /\ CallAt(c, "copy") /\ doing[c].left = {}
  /\ Return(c)
  /\ inspected' = IF Proved(c, t) THEN [inspected EXCEPT ![t] = doing[c].before] ELSE inspected
  /\ UNCHANGED <<registry, checkout, branch, sourceTree, copyTree, touches, callsMade>>

(* cancelTaskWorkspace keeps the worktree; it too writes the registry that
   it had read. *)
CancelRecord(c) ==
  LET t == doing[c].task IN
  /\ CallAt(c, "cancel")
  /\ registry' = IF t \in doing[c].seen /\ checkout[t] # "none" THEN doing[c].seen
                                                              ELSE registry
  /\ Return(c)
  /\ UNCHANGED <<checkout, branch, sourceTree, copyTree, inspected, touches, callsMade>>

-----------------------------------------------------------------------------
LooksClean(t) == checkout[t] = "clean"

(* cleanupTaskWorkspace looks for anything at all ... *)
LookBeforeCleanup(c) ==
  LET t == doing[c].task IN
  /\ CallAt(c, "cleanup")
  /\ IF t \in doing[c].seen /\ checkout[t] # "none" /\ LooksClean(t)
       THEN doing' = [doing EXCEPT ![c] = [@ EXCEPT !.step = "remove", !.looked = checkout[t]]]
       ELSE Return(c)
  /\ UNCHANGED <<registry, checkout, branch, sourceTree, copyTree, inspected, touches, callsMade>>

(* ... and Git refuses a worktree with changes, but not one with ignored
   files only. *)
RemoveWorktree(c) ==
  LET t == doing[c].task IN
  /\ CallAt(c, "remove")
  /\ IF checkout[t] \in {"clean", "ignored"}
       THEN /\ checkout' = [checkout EXCEPT ![t] = "none"]
            /\ copyTree' = [copyTree EXCEPT ![t] = Empty]
            /\ inspected' = [inspected EXCEPT ![t] = Empty]
            /\ doing' = [doing EXCEPT ![c].step = "forget"]
       ELSE Return(c) /\ UNCHANGED <<checkout, copyTree, inspected>>
  /\ UNCHANGED <<registry, branch, sourceTree, touches, callsMade>>

ForgetRecord(c) ==
  /\ CallAt(c, "forget")
  /\ registry' = doing[c].seen \ {doing[c].task}
  /\ Return(c)
  /\ UNCHANGED <<checkout, branch, sourceTree, copyTree, inspected, touches, callsMade>>

-----------------------------------------------------------------------------
CrashCall(c) ==
  /\ ~CallAt(c, "none")
  /\ Return(c)
  /\ UNCHANGED <<registry, checkout, branch, sourceTree, copyTree, inspected, touches, callsMade>>

(* Somebody works in a worktree, or in the source checkout. *)
TouchWorktree(t) ==
  /\ touches < MaxTouches
  /\ touches' = touches + 1
  /\ checkout[t] # "none"
  /\ \E kind \in {"changed", "ignored"} : checkout' = [checkout EXCEPT ![t] = kind]
  /\ UNCHANGED <<registry, branch, doing, sourceTree, copyTree, inspected, callsMade>>

TouchSource(f) ==
  /\ touches < MaxTouches
  /\ touches' = touches + 1
  /\ \E text \in FileTexts \union {Deleted} : sourceTree' = [sourceTree EXCEPT ![f] = text]
  /\ UNCHANGED <<registry, checkout, branch, doing, copyTree, inspected, callsMade>>

WorkspacesNext ==
  \/ \E c \in Clients :
       \/ \E t \in WorkTasks, kind \in ClientKinds : BeginCall(c, t, kind)
       \/ Reconcile(c) \/ RecoverWorktree(c) \/ AddWorktree(c) \/ WriteRegistry(c) \/ Created(c)
       \/ BeginCopy(c) \/ \E f \in SourceFiles : CopyFile(c, f)
       \/ FinishCopy(c)
       \/ LookBeforeCleanup(c) \/ RemoveWorktree(c) \/ ForgetRecord(c)
       \/ CancelRecord(c) \/ CrashCall(c)
  \/ \E t \in WorkTasks : TouchWorktree(t)
  \/ \E f \in SourceFiles : TouchSource(f)

WorkspacesSpec == WorkspacesInit /\ [][WorkspacesNext]_workspaceVars

-----------------------------------------------------------------------------
WorkspacesTypeOK ==
  /\ registry \subseteq WorkTasks /\ branch \subseteq WorkTasks
  /\ checkout \in [WorkTasks -> {"none", "clean", "changed", "ignored"}]
  /\ sourceTree \in Trees /\ copyTree \in [WorkTasks -> Trees]

(* A review workspace that was returned holds, file for file, what the
   source was when its review began, whatever was edited during the copy. *)
SnapshotIsSource ==
  [][\A t \in WorkTasks :
       inspected'[t] # Empty => copyTree'[t] = inspected'[t]]_workspaceVars

(* A worktree goes only without changes, and only ignored files that came
   after the cleanup had looked can go with it. *)
CleanupLosesNothingSeen ==
  [][\A t \in WorkTasks :
       checkout[t] # "none" /\ checkout'[t] = "none" =>
         /\ checkout[t] # "changed"
         /\ \E c \in Clients : doing[c] # NotCalling /\ doing[c].task = t
                              /\ doing[c].looked = "clean"]_workspaceVars

(* A workspace is a copy of one state of its source, and cleanup removes
   nothing it could have seen (createReviewWorkspace, cleanupTaskWorkspace). *)
WorkspacesHold == SnapshotIsSource /\ CleanupLosesNothingSeen
=============================================================================
