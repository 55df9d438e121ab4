------------------------------ MODULE TaskRecords ------------------------------
(***************************************************************************)
(* Knowledge records of one task, and the reconciliation of changed        *)
(* intent: task-state/records.ts, reconcile.ts and the record and          *)
(* reconciliation mutations of task-state/service.ts, committed through    *)
(* the validator of task-state/contracts.ts.                               *)
(*                                                                         *)
(* Every mutation runs under the task-state lock with the revision of the  *)
(* task its sender read, so it is one step here, but for a reconciliation. *)
(* Its outcome is computed twice, for the preview without the lock and for *)
(* the application under it, and reads one file, memory and working tree   *)
(* after the other; what the reviewer saw is then known by its digest      *)
(* alone.  (The task and its workflow are read one after the other too: an *)
(* outcome of two that were never there together has the digest of no      *)
(* other.)                                                                 *)
(*                                                                         *)
(* Text, reasons and provenance are left out; a record's history has one   *)
(* entry per revision, so its length is the revision.  The task has one    *)
(* required criterion, and records may link to one file and to one         *)
(* revision of a memory.                                                   *)
(***************************************************************************)
EXTENDS Naturals, FiniteSets

CONSTANTS
  RecordKinds,  \* a subset of RECORD_KINDS
  MaxRecords,   \* MAX_RECORDS_PER_TASK
  MaxHistory,   \* MAX_RECORD_HISTORY
  Files,        \* digests of the linked file
  TheCriterion, \* its required criterion, as the target of a link
  TheFile,      \* the file, as the target a link is asked for: linked with its digest
  TheMemory,    \* the revision of the memory, as the target of a link
  NoRecord,
  MaxChanges    \* bound: changes of the task, its workflow and its source

RecordIds == 1..MaxRecords

RecordTransitions ==
  [decision    |-> [proposed  |-> {"accepted", "retracted", "superseded"},
                    accepted  |-> {"retracted", "superseded"}],
   assumption  |-> [tentative |-> {"confirmed", "contradicted", "retracted", "superseded"},
                    confirmed |-> {"contradicted", "retracted", "superseded"},
                    contradicted |-> {"retracted", "superseded"}],
   observation |-> [unverified |-> {"verified", "stale", "retracted", "superseded"},
                    verified  |-> {"stale", "retracted", "superseded"},
                    stale     |-> {"verified", "retracted", "superseded"}],
   question    |-> [open      |-> {"answered", "withdrawn", "superseded"},
                    answered  |-> {"withdrawn", "superseded"}]]
InitialStatus == [decision |-> "proposed", assumption |-> "tentative",
                  observation |-> "unverified", question |-> "open"]
Authoritative == [decision |-> "accepted", assumption |-> "confirmed",
                  observation |-> "none", question |-> "answered"]
TerminalStatuses == {"retracted", "superseded"}

StatusesOf(kind) ==
  LET t == RecordTransitions[kind] IN DOMAIN t \union UNION {t[from] : from \in DOMAIN t}
MayBecome(r) ==
  IF r.status \in DOMAIN RecordTransitions[r.kind] THEN RecordTransitions[r.kind][r.status] ELSE {}

LinkTargets == RecordIds \union {0, TheCriterion, TheMemory} \union Files
AskedTargets == RecordIds \union {0, TheCriterion, TheMemory, TheFile}
RecordsOf(revisions) ==
  [kind : RecordKinds, status : UNION {StatusesOf(k) : k \in RecordKinds}, revision : revisions,
   link : LinkTargets, supersedes : RecordIds \union {0}, supersededBy : RecordIds \union {0},
   authorized : BOOLEAN]
TaskRecord == RecordsOf(1..MaxHistory)

ASSUME RecordsAssumption ==
  /\ RecordKinds \subseteq DOMAIN RecordTransitions
  /\ {MaxRecords, MaxChanges} \subseteq Nat /\ MaxHistory \in Nat \ {0}
  /\ (RecordIds \union {0, NoRecord, TheCriterion, TheFile, TheMemory}) \intersect Files = {}
  /\ NoRecord \notin RecordsOf(Nat)

VARIABLES
  records,      \* task.records: of each ID, or NoRecord
  criterion,    \* the criterion was not removed
  passed,       \* passing evidence is recorded, and whether it is of the present working tree
  file,         \* the linked file, as it is
  memoryMoved,  \* the memory was revised or deleted
  approval,     \* the workflow's approval: the adopted intent it is bound to, or NoRecord
  effect,       \* the workflow has an action in flight whose owner lives
  revisions,    \* of the task, its workflow and the working tree
  outcome,      \* the outcome being computed, or NoRecord
  preview,      \* a reviewed preview, or NoRecord
  changes       \* history: used up bound

recordVars == <<records, criterion, passed, file, memoryMoved, approval, effect, revisions, outcome,
                preview, changes>>

KnownRecords(rs) == {i \in DOMAIN rs : rs[i] # NoRecord}
DependsOn(r) == {r.link, r.supersedes} \intersect RecordIds

\* detectRecordDependencyCycle: a set whose members all depend on a member.
CyclicRecords(rs) ==
  \E S \in SUBSET KnownRecords(rs) \ {{}} : \A i \in S : DependsOn(rs[i]) \intersect S # {}

\* validateTaskRecords, which reads and writes of the store both pass.
ValidHistory(r) == r.revision \in 1..MaxHistory
ValidLinks(rs, i, crit) == /\ rs[i].link \in RecordIds => rs[i].link \in KnownRecords(rs)
                           /\ rs[i].link = TheCriterion => crit
ValidSupersession(rs, i) ==
  /\ rs[i].supersedes # 0 =>
       LET old == rs[rs[i].supersedes]
       IN  old.kind = rs[i].kind /\ old.status = "superseded" /\ old.supersededBy = i
  /\ rs[i].supersededBy # 0 => rs[rs[i].supersededBy].supersedes = i
ValidRecords(rs, crit) ==
  /\ ~CyclicRecords(rs)
  /\ \A i \in KnownRecords(rs) :
       ValidHistory(rs[i]) /\ ValidLinks(rs, i, crit) /\ ValidSupersession(rs, i)

-----------------------------------------------------------------------------
(* applyRecordCreateOp, applyRecordReviseOp, applyRecordTransitionOp *)

\* recordTransitionRequiresAuthority.
RequiresAuthority(r, to) == Authoritative[r.kind] \in {r.status, to}

SupersededBy(r, by) == [r EXCEPT !.status = "superseded", !.supersededBy = by, !.revision = @ + 1,
                               !.authorized = RequiresAuthority(r, "superseded")]
NewRecord(kind, link, old) ==
  [kind |-> kind, status |-> InitialStatus[kind], revision |-> 1, link |-> link,
   supersedes |-> old, supersededBy |-> 0, authorized |-> FALSE]

\* A task with its first record.
RecordsInit ==
  /\ \E k \in RecordKinds, l \in {0, TheCriterion, TheMemory} \union Files :
       records = [i \in RecordIds |-> IF i = 1 THEN NewRecord(k, l, 0) ELSE NoRecord]
  /\ criterion = TRUE /\ passed = "none" /\ changes = 0
  /\ file \in Files /\ memoryMoved = FALSE
  /\ approval = NoRecord /\ effect = FALSE
  /\ revisions = [task |-> 1, workflow |-> 1, tree |-> 1]
  /\ outcome = NoRecord /\ preview = NoRecord

\* An operation: what is asked of which record, and whether an authorization comes with it.
\* (Bound: one link, and of a successor one to a record only.)
RecordOps == [op : {"create", "revise"}, id : RecordIds, kind : RecordKinds, link : AskedTargets,
              authority : BOOLEAN]
      \union [op : {"transition"}, id : RecordIds, to : UNION {StatusesOf(k) : k \in RecordKinds},
              authority : BOOLEAN]
      \union [op : {"supersede"}, id : RecordIds, link : RecordIds \union {0}, authority : BOOLEAN]

NextId(rs) == Cardinality(KnownRecords(rs)) + 1

\* normalizeRecordLink: a link to what exists, or to any memory; a file is linked with the
\* digest f that it has then.
Linkable(rs, l) ==
  l \in {0, TheFile, TheMemory} \union KnownRecords(rs) \/ (l = TheCriterion /\ criterion)
Linked(l, f) == IF l = TheFile THEN f ELSE l

\* applyRecordCreateOp, without and with a record to supersede.
CreateAllowed(rs, o) == o.id = NextId(rs) /\ ~o.authority /\ Linkable(rs, o.link)
SupersedeAllowed(rs, o) ==
  /\ o.id \in KnownRecords(rs) /\ NextId(rs) \in RecordIds
  /\ rs[o.id].status \notin TerminalStatuses
  /\ RequiresAuthority(rs[o.id], "superseded") = o.authority /\ Linkable(rs, o.link)

WithRecord(rs, o, f) == [rs EXCEPT ![o.id] = NewRecord(o.kind, Linked(o.link, f), 0)]
WithSuccessor(rs, o, f) ==
  [rs EXCEPT ![o.id] = SupersededBy(@, NextId(rs)),
             ![NextId(rs)] = NewRecord(rs[o.id].kind, Linked(o.link, f), o.id)]

\* applyRecordReviseOp: neither a resolved nor an adopted record is revised.
ReviseAllowed(rs, o) ==
  /\ o.id \in KnownRecords(rs) /\ o.kind = rs[o.id].kind /\ ~o.authority
  /\ rs[o.id].status \notin TerminalStatuses \union {Authoritative[o.kind]}
  /\ rs[o.id].revision < MaxHistory /\ Linkable(rs, o.link)
WithRevision(rs, o, f) ==
  [rs EXCEPT ![o.id] = [@ EXCEPT !.link = Linked(o.link, f), !.revision = rs[o.id].revision + 1,
                                !.authorized = FALSE]]

\* applyRecordTransitionOp: an observation is verified by passing evidence of the present source.
TransitionAllowed(rs, o) ==
  /\ o.id \in KnownRecords(rs) /\ o.to \in MayBecome(rs[o.id]) /\ rs[o.id].revision < MaxHistory
  /\ RequiresAuthority(rs[o.id], o.to) = o.authority
  /\ (rs[o.id].kind = "observation" /\ o.to = "verified") => passed = "now"
WithStatus(rs, o) ==
  [rs EXCEPT ![o.id] = [@ EXCEPT !.status = o.to, !.revision = rs[o.id].revision + 1,
                                !.authorized = o.authority]]

OpAllowed(rs, o) ==
  \/ o.op = "create" /\ CreateAllowed(rs, o)
  \/ o.op = "supersede" /\ SupersedeAllowed(rs, o)
  \/ o.op = "revise" /\ ReviseAllowed(rs, o)
  \/ o.op = "transition" /\ TransitionAllowed(rs, o)

OpApplied(rs, o, f) ==
  CASE o.op = "create" -> WithRecord(rs, o, f)
    [] o.op = "supersede" -> WithSuccessor(rs, o, f)
    [] o.op = "revise" -> WithRevision(rs, o, f)
    [] o.op = "transition" -> WithStatus(rs, o)

\* An application holds the task-state lock, which updates of memories take too and editors do not.
Unlocked == outcome # NoRecord => outcome.by = "preview"
RecordsCounted == changes' = changes + 1
RecordChange(what) ==
  /\ RecordsCounted /\ revisions' = [revisions EXCEPT ![what] = @ + 1]
  /\ what # "tree" => Unlocked

\* What is committed is validated as the store writes it.
CommitRecords(rs) ==
  /\ RecordChange("task")
  /\ ValidRecords(rs, criterion)
  /\ records' = rs
  /\ UNCHANGED <<criterion, passed, file, memoryMoved, approval, effect, outcome, preview>>

RecordTaskRecord(o) ==
  /\ o.op \in {"create", "supersede"} /\ OpAllowed(records, o)
  /\ CommitRecords(OpApplied(records, o, file))
ReviseTaskRecord(o) ==
  o.op = "revise" /\ OpAllowed(records, o) /\ CommitRecords(OpApplied(records, o, file))
TransitionTaskRecord(o) ==
  o.op = "transition" /\ OpAllowed(records, o) /\ CommitRecords(OpApplied(records, o, file))

-----------------------------------------------------------------------------
(* previewTaskReconciliation, applyTaskReconciliation *)

\* A patch: an operation on a record, or a criteria replacement that changes or removes the
\* criterion.  (Bound: one of them.)
NoOp == [op |-> "none", id |-> 0, authority |-> FALSE]
Patches == [record : {o \in RecordOps : o.op # "create"}, criteria : {"kept"}]
           \union [record : {NoOp}, criteria : {"changed", "removed"}]

Patchable(p) == /\ p.record # NoOp => OpAllowed(records, p.record)
                /\ p.criteria # "kept" => criterion
PatchedRecords(p) == IF p.record = NoOp THEN records ELSE OpApplied(records, p.record, file)
PatchedCriterion(p) == criterion /\ p.criteria # "removed"

\* buildImpactGraph: the records and the criterion (0) that declared links, in either
\* direction, connect with what the patch names.
DeclaredLinks(r) == DependsOn(r) \union ({r.supersededBy} \ {0})
RelatedRecords(rs, i, j) == j \in DeclaredLinks(rs[i]) \/ i \in DeclaredLinks(rs[j])
LinkedNodes(rs, i, j) ==
  \/ i = 0 /\ rs[j].link = TheCriterion
  \/ j = 0 /\ rs[i].link = TheCriterion
  \/ i # 0 /\ j # 0 /\ RelatedRecords(rs, i, j)
Reach(rs, S) ==
  LET nodes == KnownRecords(rs) \union {0}
      Closed(T) == \A i \in T, j \in nodes \ T : ~LinkedNodes(rs, i, j)
  IN  {n \in nodes : \A T \in SUBSET nodes : S \subseteq T /\ Closed(T) => n \in T}
NamedBy(p) == (IF p.record = NoOp THEN {} ELSE {p.record.id})
            \union (IF p.record.op = "supersede" THEN {NextId(records)} ELSE {})
            \union (IF p.criteria = "kept" THEN {} ELSE {0})

\* computeIntentDigest: the adopted decisions and assumptions; no adopted record is revised.
Adopted(rs) ==
  {i \in KnownRecords(rs) :
     rs[i].kind \in {"decision", "assumption"} /\ rs[i].status = Authoritative[rs[i].kind]}

\* buildReconciliationOutcome, up to its first look at a link: what the patch leaves, what it
\* reaches, and whether the workflow's approval survives.
ImpactReport(p) ==
  LET after == PatchedRecords(p)
  IN [records |-> after, criterion |-> PatchedCriterion(p), reached |-> Reach(after, NamedBy(p)),
      survives |-> approval = Adopted(after) /\ p.criteria = "kept"]

\* The reached records whose link it looks up.
Links(report, targets) == {i \in report.reached \ {0} : report.records[i].link \in targets}

Outcome(who, p) ==
  LET report == ImpactReport(p)
  IN [by |-> who, at |-> "links", patch |-> p, report |-> report,
      unread |-> Links(report, Files \union {TheMemory}), doubtful |-> {},
      task |-> revisions.task, workflow |-> revisions.workflow, tree |-> 0,
      edited |-> FALSE, memory |-> memoryMoved]   \* history: what moved meanwhile

OutcomeStep ==
  UNCHANGED <<records, criterion, passed, file, memoryMoved, approval, effect, revisions, changes>>

BeginPreview(p) ==
  /\ preview = NoRecord /\ outcome = NoRecord /\ Patchable(p)
  /\ outcome' = Outcome("preview", p)
  /\ OutcomeStep /\ UNCHANGED preview

BeginReconciliation ==
  /\ preview # NoRecord /\ outcome = NoRecord
  /\ preview.digest.task = revisions.task   \* assertExpected
  /\ ~effect /\ Patchable(preview.patch)
  /\ outcome' = Outcome("apply", preview.patch)
  /\ OutcomeStep /\ UNCHANGED preview

\* reconcileSourceLinkStatus, inspectProjectMemory: whether what is linked moved on.
Doubtful(link) == link \in Files \ {file} \/ (link = TheMemory /\ memoryMoved)

ReadLinkStatus(i) ==
  /\ outcome # NoRecord /\ i \in outcome.unread
  /\ outcome' = [outcome EXCEPT !.unread = @ \ {i},
                    !.doubtful = IF Doubtful(outcome.report.records[i].link) THEN @ \union {i}
                                 ELSE @]
  /\ OutcomeStep /\ UNCHANGED preview

CaptureTree ==
  /\ outcome # NoRecord /\ outcome.at = "links" /\ outcome.unread = {}
  /\ outcome' = [outcome EXCEPT !.at = "tree", !.tree = revisions.tree]
  /\ OutcomeStep /\ UNCHANGED preview

\* The digest: the revisions, the working tree, and the file if a reached record links to it.
\* No memory is in it.
DigestOf(o) ==
  [task |-> o.task, workflow |-> o.workflow, tree |-> o.tree,
   file |-> IF Links(o.report, Files) # {} THEN file ELSE NoRecord]

ShowPreview ==
  /\ outcome # NoRecord /\ outcome.by = "preview" /\ outcome.at = "tree"
  /\ preview' = [patch |-> outcome.patch, report |-> outcome.report, doubtful |-> outcome.doubtful,
                 edited |-> outcome.edited, memory |-> outcome.memory, digest |-> DigestOf(outcome)]
  /\ outcome' = NoRecord
  /\ OutcomeStep

\* (The variant binds the revision of the task and the working tree only.)
BindsTaskAndTree ==
  preview.digest.task = outcome.task /\ preview.digest.tree = outcome.tree
DigestMatches == preview.digest = DigestOf(outcome)

\* One commit for the whole patch, of what was computed under the lock.
ApplyPreview ==
  /\ outcome # NoRecord /\ outcome.by = "apply" /\ outcome.at = "tree" /\ DigestMatches
  /\ ValidRecords(outcome.report.records, outcome.report.criterion)
  /\ passed # "none" => outcome.report.criterion
  /\ records' = outcome.report.records /\ criterion' = outcome.report.criterion
  /\ outcome' = NoRecord /\ preview' = NoRecord
  /\ revisions' = [revisions EXCEPT !.task = @ + 1] /\ RecordsCounted
  /\ UNCHANGED <<passed, file, memoryMoved, approval, effect>>

\* A refusal, an unreadable file or a crash: nothing was written yet.
GiveUpOutcome ==
  /\ outcome # NoRecord /\ outcome' = NoRecord
  /\ OutcomeStep /\ UNCHANGED preview

-----------------------------------------------------------------------------
(* What else changes the task, its workflow and the source *)

RecordPassed ==
  /\ criterion /\ passed # "now"
  /\ passed' = "now"
  /\ RecordChange("task")
  /\ UNCHANGED <<records, criterion, file, memoryMoved, approval, effect, outcome, preview>>

\* The linked file need not be one that the fingerprint of the working tree covers.
EditSource ==
  /\ \/ /\ file' \in Files \ {file} /\ RecordsCounted
        /\ outcome' = IF outcome = NoRecord THEN NoRecord ELSE [outcome EXCEPT !.edited = TRUE]
        /\ UNCHANGED <<passed, revisions>>
     \/ passed' = "before" /\ passed = "now" /\ RecordChange("tree") /\ UNCHANGED <<file, outcome>>
  /\ UNCHANGED <<records, criterion, memoryMoved, approval, effect, preview>>

\* updateProjectMemory, deleteProjectMemory.
MoveMemory ==
  /\ ~memoryMoved /\ memoryMoved' = TRUE /\ Unlocked
  /\ RecordsCounted
  /\ UNCHANGED <<records, criterion, passed, file, approval, effect, revisions, outcome, preview>>

\* The workflow is approved, or starts or ends an action.
ApproveWorkflow ==
  /\ ~effect /\ approval # Adopted(records)
  /\ approval' = Adopted(records)
  /\ RecordChange("workflow")
  /\ UNCHANGED <<records, criterion, passed, file, memoryMoved, effect, outcome, preview>>

WorkflowActs ==
  /\ approval = Adopted(records) \/ effect
  /\ effect' = ~effect
  /\ RecordChange("workflow")
  /\ UNCHANGED <<records, criterion, passed, file, memoryMoved, approval, outcome, preview>>

\* (Bound: what is computed after the last change could not be applied any more.)
RecordsNext ==
  /\ changes < MaxChanges
  /\ \/ \E o \in RecordOps : RecordTaskRecord(o) \/ ReviseTaskRecord(o) \/ TransitionTaskRecord(o)
     \/ \E p \in Patches : BeginPreview(p)
     \/ \E i \in RecordIds : ReadLinkStatus(i)
     \/ BeginReconciliation \/ CaptureTree \/ ShowPreview \/ ApplyPreview \/ GiveUpOutcome
     \/ RecordPassed \/ EditSource \/ MoveMemory \/ ApproveWorkflow \/ WorkflowActs

RecordsSpec == RecordsInit /\ [][RecordsNext]_recordVars

-----------------------------------------------------------------------------
RecordsTypeOK ==
  /\ records \in [RecordIds -> TaskRecord \union {NoRecord}]
  /\ passed \in {"none", "before", "now"} /\ {criterion, effect, memoryMoved} \subseteq BOOLEAN
  /\ file \in Files /\ revisions \in [{"task", "workflow", "tree"} -> Nat]

\* Intent is adopted, and an adopted one given up or replaced, only with an authorization of
\* the user, which the record's last history entry names: on every path, patches included.
IntentIsAuthorized ==
  [][\A i \in KnownRecords(records) :
        LET was == records[i].status = Authoritative[records[i].kind]
            is  == records'[i].status = Authoritative[records'[i].kind]
        IN  was # is => records'[i].authorized]_recordVars

\* A patch does what its reviewer saw, however task, workflow, files and memories moved between
\* and within the two computations: the records but for their links, the impact and the fate of
\* the approval are those of the preview; and so are the links and the doubts about them, but
\* for those to a file that was edited while one of the two was computed, and to a memory that
\* moved since the preview was begun (applyTaskReconciliation).
SnapshotOf(rs) ==
  [i \in RecordIds |-> IF rs[i] = NoRecord THEN NoRecord ELSE [rs[i] EXCEPT !.link = 0]]

AppliedAsReviewed ==
  [][preview # NoRecord /\ preview' = NoRecord =>
       LET shown == preview.report
           doubts == {i \in shown.reached : (i \in preview.doubtful) # (i \in outcome.doubtful)}
       IN  /\ SnapshotOf(records') = SnapshotOf(shown.records) /\ criterion' = shown.criterion
           /\ shown.reached = Reach(records', NamedBy(preview.patch))
           /\ shown.survives = (approval = Adopted(records') /\ preview.patch.criteria = "kept")
           /\ ~preview.edited /\ ~outcome.edited =>
                records' = shown.records /\ doubts \subseteq Links(shown, {TheMemory})
           /\ preview.memory = memoryMoved => doubts \subseteq Links(shown, Files)]_recordVars

\* The records say what a person agreed to: intent only with his authorization, and a patch only
\* as he was shown it (applyTaskReconciliation, validateTaskRecords).
RecordsAsReviewed == IntentIsAuthorized /\ AppliedAsReviewed
=============================================================================
