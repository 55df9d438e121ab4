------------------------------- MODULE MCTask -------------------------------
(***************************************************************************)
(* What is written about a task, one store at a time for TLC: the task     *)
(* itself, its records, the decisions about it, its contracts with other   *)
(* tasks, the specifications imported into it, the comments on its diff,   *)
(* the usage it reports, the memory of its project; and what its readers   *)
(* are told of it: the brief of a dispatch, the comparison of a review,    *)
(* and the result of a check.                                              *)
(* A scene picks the component that moves; the others stay in one initial  *)
(* state.                                                                  *)
(***************************************************************************)
EXTENDS TaskState, TaskRecords, Decisions, Contracts, SpecImports, SpecDiscovery,
        DiffAnnotations, UsageLedger,
        ContextBriefs, DecisionComparisons, ProjectMemory, AcceptanceChecks, TLC

CONSTANTS c1, t1, t2

Asked(c, text, needed) == c :> [text |-> text, approval |-> needed]

\* One criterion, in two wordings of which one comes with an approval, or none.
OneCriterion == {Asked(c1, t1, FALSE), Asked(c1, t2, TRUE), c1 :> None}

\* (Digests and Statements have the same values as Callers and Runs.)
Symmetry == Permutations(Callers) \union Permutations(Runs)

AnyRecord == CHOOSE k \in RecordKinds : TRUE
AnyFile   == CHOOSE f \in Files : TRUE
AnyTerm   == CHOOSE t \in Terms : TRUE
Untouched == [e \in Entries |-> CHOOSE x \in Contents : TRUE]

VARIABLE scene   \* the component that moves

allVars == <<scene, vars, recordVars, decisionVars, contractVars, specImportVars, discoveryVars,
             annotationVars, usageVars, briefVars, comparisonVars, memoryVars,
             checkVars>>

Scenes == {"task", "records", "decisions", "contracts", "imports", "discovery", "annotations",
           "usage", "briefs", "comparisons", "memory", "checks"}

AnyTree == CHOOSE t \in Trees : TRUE

MCInit ==
  /\ scene \in Scenes
  /\ Init /\ (scene # "task" => ~authorized /\ criteria[c1] = None)
  /\ RecordsInit /\ file = AnyFile   \* (whichever: the files are alike)
  /\ scene # "records" => records[1] = NewRecord(AnyRecord, 0, 0)
  /\ DecisionsInit /\ (scene # "decisions" => kind = "spec")
  /\ ContractsInit
  /\ scene # "contracts" => producer.text = AnyTerm /\ document = NoAssociation
  /\ SpecImportsInit /\ (scene # "imports" => artifact = Untouched)
  /\ DiscoveryInit
  /\ scene # "discovery" => /\ adapter = "tinyspec" /\ candidates = 0 /\ ~truncated
                            /\ budget.files = MaxTotalFiles
  /\ AnnotationsInit
  /\ UsageInit /\ (scene # "usage" => ~observing)
  /\ BriefsInit /\ (scene # "briefs" => tree = AnyTree)
  /\ ComparisonsInit
  /\ MemoryInit
  /\ ChecksInit

\* The components other than that of a scene.
OthersStay(s) ==
  /\ IF s = "task" THEN TRUE ELSE UNCHANGED vars
  /\ IF s = "records" THEN TRUE ELSE UNCHANGED recordVars
  /\ IF s = "decisions" THEN TRUE ELSE UNCHANGED decisionVars
  /\ IF s = "contracts" THEN TRUE ELSE UNCHANGED contractVars
  /\ IF s = "imports" THEN TRUE ELSE UNCHANGED specImportVars
  /\ IF s = "discovery" THEN TRUE ELSE UNCHANGED discoveryVars
  /\ IF s = "annotations" THEN TRUE ELSE UNCHANGED annotationVars
  /\ IF s = "usage" THEN TRUE ELSE UNCHANGED usageVars
  /\ IF s = "briefs" THEN TRUE ELSE UNCHANGED briefVars
  /\ IF s = "comparisons" THEN TRUE ELSE UNCHANGED comparisonVars
  /\ IF s = "memory" THEN TRUE ELSE UNCHANGED memoryVars
  /\ IF s = "checks" THEN TRUE ELSE UNCHANGED checkVars
  /\ UNCHANGED scene

MCNext ==
  \/ scene = "task" /\ Next /\ OthersStay("task")
  \/ scene = "records" /\ RecordsNext /\ OthersStay("records")
  \/ scene = "decisions" /\ DecisionsNext /\ OthersStay("decisions")
  \/ scene = "contracts" /\ ContractsNext /\ OthersStay("contracts")
  \/ scene = "imports" /\ SpecImportsNext /\ OthersStay("imports")
  \/ scene = "discovery" /\ DiscoveryNext /\ OthersStay("discovery")
  \/ scene = "annotations" /\ AnnotationsNext /\ OthersStay("annotations")
  \/ scene = "usage" /\ UsageNext /\ OthersStay("usage")
  \/ scene = "briefs" /\ BriefsNext /\ OthersStay("briefs")
  \/ scene = "comparisons" /\ ComparisonsNext /\ OthersStay("comparisons")
  \/ scene = "memory" /\ MemoryNext /\ OthersStay("memory")
  \/ scene = "checks" /\ ChecksNext /\ OthersStay("checks")
  \/ scene # "task" /\ UNCHANGED allVars   \* the other scenes stop at their bounds

MCSpec == MCInit /\ [][MCNext]_allVars

\* All that moves in a scene.
Moving ==
  <<scene,
    CASE scene = "task" -> vars
      [] scene = "records" -> recordVars
      [] scene = "decisions" -> decisionVars
      [] scene = "contracts" -> contractVars
      [] scene = "imports" -> specImportVars
      [] scene = "discovery" -> discoveryVars
      [] scene = "annotations" -> annotationVars
      [] scene = "usage" -> usageVars
      [] scene = "briefs" -> briefVars
      [] scene = "comparisons" -> comparisonVars
      [] scene = "memory" -> memoryVars
      [] scene = "checks" -> checkVars>>

-----------------------------------------------------------------------------
\* The state of every component has its type.
TypesOK ==
  /\ scene = "task" => TypeOK
  /\ scene = "records" => RecordsTypeOK
  /\ scene = "decisions" => DecisionsTypeOK
  /\ scene = "contracts" => ContractsTypeOK
  /\ scene = "imports" => SpecImportsTypeOK
  /\ scene = "discovery" => DiscoveryTypeOK
  /\ scene = "annotations" => AnnotationsTypeOK
  /\ scene = "usage" => UsageTypeOK
  /\ scene = "briefs" => BriefsTypeOK
  /\ scene = "comparisons" => ComparisonsTypeOK
  /\ scene = "memory" => MemoryTypeOK
  /\ scene = "checks" => ChecksTypeOK

(* The import of a specification keeps its two books together: discovery   *)
(* stays within its budget and says when it left something out, and no     *)
(* entry has two live imported records, however often a registration is    *)
(* interrupted and repeated (src/spec-imports).                            *)
ImportsHold == DiscoveryBounded /\ OneImportPerEntry

(* What changes a store on the strength of a reading changes what was      *)
(* read: a reconciliation applies the report that was reviewed, as far as  *)
(* its digest binds it, a comment is resolved on the revision that was     *)
(* shown, a memory is replaced as it was seen, and a dispatch is bound to  *)
(* the workflow as it was read, so that nothing is told twice; a deletion  *)
(* is final and an import only adds (task-state/service.ts,                *)
(* reviews/diff-annotations.ts, project-memory, workflows/store.ts).       *)
ChangedAsRead == RecordsAsReviewed /\ NoBlindReview /\ MemoryHolds /\ ToldOnce

(* What its readers are told of a task is so: the agent of a dispatch, of  *)
(* what changed since the last one, the reviewer of a comparison, of what  *)
(* changed since the last review, and who reads the evidence of a check,   *)
(* of how it ended (src/context-brief, reviews/decision-comparison.ts,     *)
(* acceptance/service.ts).                                                 *)
ReadersToldTrue == BriefsTrue /\ ComparisonsHold /\ ChecksHold
=============================================================================
