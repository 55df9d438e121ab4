---------------------------- MODULE ContextBriefs ----------------------------
(***************************************************************************)
(* The context brief of a dispatch: src/src/context-brief/service.ts and   *)
(* contracts.ts, and the binding of a brief in workflows/service.ts        *)
(* (drive, invoke, journal).                                               *)
(*                                                                         *)
(* A driver reads the workflow, then the task, assembles a brief from what *)
(* it read and the working tree of that moment, and binds the brief in the *)
(* same write that claims the action.  What changed since the last run is  *)
(* told from the binding the workflow carried when it was read.            *)
(*                                                                         *)
(* Digests are the values they are digests of: of the criteria their       *)
(* revisions, of the intent whether the one decision is adopted.  Evidence *)
(* passes when its outcome does and, where the criterion asks for one, it  *)
(* is an approval under an authorization the task has.  Which optional     *)
(* items fit the byte budget is any choice.                                *)
(***************************************************************************)
EXTENDS Naturals, FiniteSets

CONSTANTS
  Drivers,     \* processes that drive the workflow of the task
  Work,        \* its required criteria
  Trees,       \* snapshots of the working tree
  NoBrief,     \* no binding, nothing read, nobody acting
  Gone,        \* a driver that died while it acted
  MaxRevision, \* bound: revisions of the task
  MaxDispatch  \* bound: revisions of the workflow that are read

ASSUME BriefsAssumption ==
  /\ {MaxRevision, MaxDispatch} \subseteq Nat
  /\ {NoBrief, Gone} \intersect Drivers = {} /\ NoBrief # Gone
  /\ NoBrief \notin [revision : Nat, workflow : Nat, criteria : [Work -> Nat],
                     adopted : BOOLEAN, tree : Trees]

VARIABLES
  work,     \* the task: its revision, criteria, intent, reconciliations and evidence
  tree,     \* the working tree
  flow,     \* the workflow: its revision, lastDispatchedContext and who acts for pendingAction
  driver,   \* what each driver has read and assembled
  edits,    \* history: the revisions of the task that were direct edits
  told,     \* history: the reconciliations that bound briefs told of
  first     \* history: the revision of the task in the first bound brief

briefVars == <<work, tree, flow, driver, edits, told, first>>

NoEvidence == [of |-> 0, passes |-> FALSE]
Asleep     == [at |-> "idle"]

BriefsInit ==
  /\ work = [revision |-> 1, criteria |-> [w \in Work |-> 1], adopted |-> FALSE,
             reconciled |-> {}, evidence |-> [w \in Work |-> [t \in Trees |-> NoEvidence]]]
  /\ tree \in Trees
  /\ flow = [revision |-> 1, last |-> NoBrief, acting |-> NoBrief]
  /\ driver = [d \in Drivers |-> Asleep]
  /\ edits = {} /\ told = {} /\ first = 0

-----------------------------------------------------------------------------
(* assembleContextBrief: task k, binding b of the workflow, tree t *)

\* currentPassingEvidence: the latest of the present tree, if it is of the present criterion.
Passing(k, w, t) == k.evidence[w][t].of = k.criteria[w] /\ k.evidence[w][t].passes

\* The reconciliations committed after the bound task.
Since(k, b) == {r \in k.reconciled : r.revision > b.revision}

\* Criteria or adopted intent differ from the bound ones, and no reconciliation explains it.
UnreconciledChange(k, b) ==
  (k.criteria # b.criteria \/ k.adopted # b.adopted) /\ Since(k, b) = {}

Attention(k, b) == UNION {r.flagged : r \in Since(k, b)}
CompletedWork(k, b, t) == {w \in Work \ Attention(k, b) : Passing(k, w, t)}

\* growList: what does not fit is listed among the omitted.
Fitted(items, kept) == [kept |-> kept, omitted |-> items \ kept]

\* emptyChangeSinceLastRun, without a prior dispatch or for the digest of another one.
NoChangeKnown == [available |-> FALSE, reconciliations |-> Fitted({}, {}), outside |-> FALSE,
                  attention |-> {}, completed |-> {}]
ChangeSince(k, b, t, kept) ==
  [available |-> TRUE, reconciliations |-> Fitted(Since(k, b), kept),
   outside |-> UnreconciledChange(k, b),
   attention |-> Attention(k, b), completed |-> CompletedWork(k, b, t)]

\* The binding of a brief of task k at tree t, for a workflow read at revision n.
Binding(k, n, t) == [revision |-> k.revision, workflow |-> n, criteria |-> k.criteria,
                     adopted |-> k.adopted, tree |-> t]

Change(k, b, t, kept) == IF b = NoBrief THEN NoChangeKnown ELSE ChangeSince(k, b, t, kept)
Listed(k, b) == IF b = NoBrief THEN {} ELSE Since(k, b)

-----------------------------------------------------------------------------
(* The drivers *)

DriverGoes(d, to) == driver' = [driver EXCEPT ![d] = to]

\* drive: the workflow is read first; a pending action stops it.
ReadWorkflow(d) ==
  /\ driver[d].at = "idle" /\ flow.acting = NoBrief /\ flow.revision < MaxDispatch
  /\ DriverGoes(d, [at |-> "read", flow |-> flow])
  /\ UNCHANGED <<work, tree, flow, edits, told, first>>

InspectWork(d) ==
  /\ driver[d].at = "read"
  /\ DriverGoes(d, [at |-> "inspected", flow |-> driver[d].flow, work |-> work])
  /\ UNCHANGED <<work, tree, flow, edits, told, first>>

\* bindDispatchContext: the tree is captured now, the task is the one that was read.  Mandatory
\* content beyond the budget fails the dispatch.
Assemble(d) ==
  /\ driver[d].at = "inspected"
  /\ \/ DriverGoes(d, Asleep)
     \/ \E kept \in SUBSET Listed(driver[d].work, driver[d].flow.last) :
          DriverGoes(d, [at |-> "assembled", revision |-> driver[d].flow.revision,
                         since |-> driver[d].flow.last,
                         binding |-> Binding(driver[d].work, driver[d].flow.revision, tree),
                         change |-> Change(driver[d].work, driver[d].flow.last, tree, kept)])
  /\ UNCHANGED <<work, tree, flow, edits, told, first>>

\* journalWorkflowAction compares the revision of the workflow.  (The variant does not.)
ActsOnAnyRevision(d) == flow.acting = NoBrief
ActsOnRead(d) == flow.acting = NoBrief /\ flow.revision = driver[d].revision

\* journal: the binding is written with the claim of the action, or neither is.
Journal(d) ==
  /\ driver[d].at = "assembled"
  /\ IF ActsOnRead(d)
     THEN LET changes == driver[d].change.reconciliations
          IN  /\ flow' = [revision |-> flow.revision + 1, last |-> driver[d].binding, acting |-> d]
              /\ DriverGoes(d, [at |-> "acting"])
              /\ told' = told \union changes.kept \union changes.omitted
              /\ first' = IF first = 0 THEN driver[d].binding.revision ELSE first
     ELSE DriverGoes(d, Asleep) /\ UNCHANGED <<flow, told, first>>
  /\ UNCHANGED <<work, tree, edits>>

\* commitAction.
EndAction(d) ==
  /\ driver[d].at = "acting"
  /\ flow' = [flow EXCEPT !.revision = @ + 1, !.acting = NoBrief]
  /\ DriverGoes(d, Asleep)
  /\ UNCHANGED <<work, tree, edits, told, first>>

\* A driver dies; the action it claimed is settled by somebody who resumes the workflow.
DriverDies(d) ==
  /\ driver[d].at # "idle"
  /\ flow' = [flow EXCEPT !.acting = IF @ = d THEN Gone ELSE @]
  /\ DriverGoes(d, Asleep)
  /\ UNCHANGED <<work, tree, edits, told, first>>

SettleAction ==
  /\ flow.acting = Gone
  /\ flow' = [flow EXCEPT !.revision = @ + 1, !.acting = NoBrief]
  /\ UNCHANGED <<work, tree, driver, edits, told, first>>

-----------------------------------------------------------------------------
(* What happens to the task meanwhile *)

Raised(criteria, S) == [w \in Work |-> IF w \in S THEN criteria[w] + 1 ELSE criteria[w]]

\* applyTaskReconciliation: not while a live owner acts; the workflow is told best-effort.
Reconcile ==
  /\ work.revision < MaxRevision
  /\ flow.acting \in {NoBrief, Gone}
  /\ \E changed \in SUBSET Work, flagged \in SUBSET Work, adopted, acknowledged \in BOOLEAN :
       /\ changed \subseteq flagged
       /\ work' = [work EXCEPT !.revision = @ + 1, !.criteria = Raised(@, changed),
                               !.adopted = adopted,
                               !.reconciled = @ \union {[revision |-> work.revision + 1,
                                                         flagged |-> flagged]}]
       /\ flow' = [flow EXCEPT !.revision = IF acknowledged THEN @ + 1 ELSE @]
  /\ UNCHANGED <<tree, driver, edits, told, first>>

\* reviseCriterion, transitionTaskRecord: an edit outside a reconciliation.
EditDirectly ==
  /\ work.revision < MaxRevision
  /\ \E changed \in SUBSET Work, adopted \in BOOLEAN :
       work' = [work EXCEPT !.revision = @ + 1, !.criteria = Raised(@, changed),
                            !.adopted = adopted]
  /\ edits' = edits \union {work.revision + 1}
  /\ UNCHANGED <<tree, flow, driver, told, first>>

\* recordEvidence, of the criterion as it is and the tree.
Checked(w, passes) ==
  [work.evidence EXCEPT ![w][tree] = [of |-> work.criteria[w], passes |-> passes]]

RecordCheck ==
  /\ work.revision < MaxRevision
  /\ \E w \in Work, passes \in BOOLEAN :
       work' = [work EXCEPT !.revision = @ + 1, !.evidence = Checked(w, passes)]
  /\ UNCHANGED <<tree, flow, driver, edits, told, first>>

ChangeTree ==
  /\ tree' \in Trees
  /\ UNCHANGED <<work, flow, driver, edits, told, first>>

BriefsNext ==
  \/ \E d \in Drivers : \/ ReadWorkflow(d) \/ InspectWork(d) \/ Assemble(d) \/ Journal(d)
                        \/ EndAction(d) \/ DriverDies(d)
  \/ SettleAction \/ Reconcile \/ EditDirectly \/ RecordCheck \/ ChangeTree

BriefsSpec == BriefsInit /\ [][BriefsNext]_briefVars

-----------------------------------------------------------------------------
Reconciliations == [revision : Nat, flagged : SUBSET Work]
Tasks == [revision : Nat, criteria : [Work -> Nat], adopted : BOOLEAN,
          reconciled : SUBSET Reconciliations,
          evidence : [Work -> [Trees -> [of : Nat, passes : BOOLEAN]]]]
Bindings == [revision : Nat, workflow : Nat, criteria : [Work -> Nat], adopted : BOOLEAN,
             tree : Trees]
Flows == [revision : Nat, last : Bindings \union {NoBrief}, acting : Drivers \union {NoBrief, Gone}]
Changes == [available : BOOLEAN, outside : BOOLEAN, attention : SUBSET Work,
            completed : SUBSET Work,
            reconciliations : [kept : SUBSET Reconciliations, omitted : SUBSET Reconciliations]]
DriverStates ==
  [at : {"idle", "acting"}] \union [at : {"read"}, flow : Flows]
  \union [at : {"inspected"}, flow : Flows, work : Tasks]
  \union [at : {"assembled"}, revision : Nat, since : Bindings \union {NoBrief},
          binding : Bindings, change : Changes]

BriefsTypeOK ==
  /\ work \in Tasks /\ tree \in Trees /\ flow \in Flows
  /\ driver \in [Drivers -> DriverStates]
  /\ edits \subseteq Nat /\ told \subseteq work.reconciled /\ first \in Nat

\* Every reconciliation since the first dispatch is told of, listed or among the omitted, by
\* the time a brief is bound of a task that has it: also one that was committed between the
\* read of the task and the binding, and with several drivers (invoke, journal).
NothingUntold ==
  flow.last # NoBrief =>
    \A r \in work.reconciled : r.revision \in (first + 1)..flow.last.revision => r \in told

\* No brief about to be bound blames an edit that nobody made: criteria or intent that it says
\* changed outside a reconciliation were edited directly after the bound task.
BlameIsTrue ==
  \A d \in Drivers :
    driver[d].at = "assembled" /\ driver[d].change.outside =>
      \E e \in edits : e \in (driver[d].since.revision + 1)..driver[d].binding.revision

\* Work that a brief calls completed passes as the task is, in the tree the brief was made for,
\* unless the task moved on while the brief was made.
CompletedPasses ==
  \A d \in Drivers : driver[d].at = "assembled" =>
    \A w \in driver[d].change.completed :
      \/ work.evidence[w][driver[d].binding.tree] = [of |-> work.criteria[w], passes |-> TRUE]
      \/ driver[d].binding.revision < work.revision

\* What the next agent is told of the change since the last run was not told before.
ToldOnce ==
  [][\A d \in Drivers : driver[d].at = "assembled" /\ driver'[d].at = "acting" =>
        (driver[d].change.reconciliations.kept \union driver[d].change.reconciliations.omitted)
          \intersect told = {}]_briefVars

BriefsTrue == NothingUntold /\ BlameIsTrue /\ CompletedPasses

BriefsHold == []BriefsTrue /\ ToldOnce
=============================================================================
