----------------------------- MODULE Task_proofs ------------------------------
(***************************************************************************)
(* A task and what is written about it: one section per store, with its    *)
(* inductive invariant, the lemmas that its actions keep it, and what      *)
(* follows from it; last, all together.                                    *)
(*                                                                         *)
(* The task, for any callers, verifiers, engines, checks, criteria and     *)
(* sources: the enrolled mapping stays sound (MappingCovers), and a        *)
(* conflict is answered only to calls that can no longer be fresh or       *)
(* applied (ConflictMeansBehind).                                          *)
(*                                                                         *)
(* Contracts, for any requests, contents, moves of the two tasks and       *)
(* crashes: a consumer is launched only on a contract it has received as   *)
(* accepted, and a prepared journal always fits the document beside it. A  *)
(* receipt is not looked up when a launch is decided: it is a field of the *)
(* association that was read. The inductive invariant therefore follows    *)
(* the association wherever it is kept (document, journal, the caller's    *)
(* base and the check's copy) and says of each of them that a current      *)
(* receipt was really given (Receipted).                                   *)
(*                                                                         *)
(* Decisions, for any requests, however often and late they are sent:      *)
(* every answered request is on the ledger of the record (Ledger), and the *)
(* revision an approval expects names what its caller was shown            *)
(* (RevisionsName).                                                        *)
(*                                                                         *)
(* Imports: a registration that is under way knows that its entry has no   *)
(* live record yet, whatever a person does meanwhile (RegisteringKnows),   *)
(* and an association belongs to a record of its entry                     *)
(* (AssociatedIsRecorded). Discovery: no entry reads beyond its limits     *)
(* while it is read. Comments: nobody was shown what is not written yet    *)
(* (ShownWasWritten).                                                      *)
(*                                                                         *)
(* Records: until the task or its workflow moves, what is computed of a    *)
(* patch, and the preview made of it, is what the patch would do with the  *)
(* file it read (OutcomeInv, PreviewInv), so that equal digests make equal *)
(* outcomes; and IDs are given in order (InOrder). Usage: a key has one record (OneOfAKey), and  *)
(* nothing is recorded that has not happened (AllHappened); that the bound *)
(* of the ledger drops a record which is in it is argued from the least of *)
(* a set of naturals.                                                      *)
(***************************************************************************)
EXTENDS MCTask, Context_proofs

\* Every write keeps the mapping of the enhanced workflow total and sound.
MappingCovers == enhanced # None => Covers(enhanced.of, Present)

\* A conflict is answered only to calls that are behind, which never catch up.
ConflictMeansBehind == refused \intersect (applied \union fresh) = {}

IInv ==
  /\ TypeOK
  /\ OwnershipAgrees
  /\ EvidenceOfText
  /\ MappingCovers
  /\ ConflictMeansBehind
  /\ VerifiedStands

\* The variables that the calls and the surroundings of a task change.
task == <<state, intent, owner, run, evidence>>

\* Reconciling types criteria with criteria, and ends with those asked for.
LEMMA ReconciledType ==
  ASSUME TypeOK, NEW goal \in Goals,
         \A c \in {d \in Criteria : goal[d] # None} : Reconciled(goal)[c].revision <= MaxRevisions
  PROVE  /\ Reconciled(goal) \in [Criteria -> Criterion \union {None}]
         /\ \A c \in Criteria : Reconciled(goal)[c] # None <=> goal[c] # None
PROOF
<1>1. ASSUME NEW c \in Criteria
      PROVE  /\ Reconciled(goal)[c] \in Criterion \union {None}
             /\ Reconciled(goal)[c] # None <=> goal[c] # None
  <2>1. CASE goal[c] = None
    BY <2>1 DEF Reconciled
  <2>2. CASE goal[c] # None
    <3>1. goal[c] \in Shape
      BY <2>2, TaskStateAssumption
    <3>2. Reconciled(goal)[c] \in [revision : Nat \ {0}, text : Texts, approval : BOOLEAN]
      BY <2>2, <3>1 DEF Reconciled, Shape, Criterion, TypeOK, Revisions
    <3>3. Reconciled(goal)[c] \in Criterion
      BY <2>2, <3>2, TaskStateAssumption DEF Criterion, Revisions
    <3> QED BY <2>2, <3>3, TaskStateAssumption
  <2> QED BY <2>1, <2>2
<1> QED BY <1>1 DEF Reconciled

\* What a change of intent leaves: typed criteria, and evidence of present ones.
LEMMA IntendedType ==
  ASSUME TypeOK, EvidenceOfText, NEW goal \in Goals \union {None}, Intends(goal)
  PROVE  /\ criteria' \in [Criteria -> Criterion \union {None}]
         /\ \A i \in DOMAIN evidence : evidence[i].criterion \in Present'
PROOF
<1>1. CASE goal = None
  BY <1>1, TaskStateAssumption DEF Intends, TypeOK, EvidenceOfText, Present
<1>2. CASE goal # None
  <2>1. /\ goal \in Goals
        /\ criteria' = Reconciled(goal)
        /\ EvidenceKept({c \in Criteria : goal[c] # None})
        /\ \A c \in {c \in Criteria : goal[c] # None} :
             Reconciled(goal)[c].revision <= MaxRevisions
    BY <1>2 DEF Intends
  <2> QED BY <2>1, ReconciledType DEF EvidenceKept, Present
<1> QED BY <1>1, <1>2

\* A criterion that keeps its revision keeps its text.
LEMMA RevisionTells ==
  ASSUME TypeOK, NEW goal \in Goals \union {None}, Intends(goal),
         NEW c \in Criteria, criteria[c] # None, criteria'[c] # None
  PROVE  /\ criteria[c].revision <= criteria'[c].revision
         /\ criteria[c].revision = criteria'[c].revision => criteria[c].text = criteria'[c].text
PROOF
<1>0. criteria[c] \in Criterion
  BY DEF TypeOK
<1>1. CASE goal = None
  BY <1>0, <1>1 DEF Intends, Criterion, Revisions
<1>2. CASE goal # None
  <2>1. goal \in Goals /\ criteria' = Reconciled(goal)
    BY <1>2 DEF Intends
  <2>2. goal[c] # None
    BY <2>1 DEF Reconciled
  <2>3. criteria'[c].text = goal[c].text
    BY <2>1, <2>2 DEF Reconciled
  <2>4. criteria'[c].revision = IF <<criteria[c].text, criteria[c].approval>>
                                     = <<goal[c].text, goal[c].approval>>
                                THEN criteria[c].revision ELSE criteria[c].revision + 1
    BY <2>1, <2>2 DEF Reconciled
  <2> QED BY <1>0, <2>3, <2>4 DEF Criterion, Revisions
<1> QED BY <1>1, <1>2

-----------------------------------------------------------------------------
(* Types *)

\* A task as createTask leaves it satisfies the invariant.
LEMMA InitIInv == Init => IInv
PROOF
<1> SUFFICES ASSUME Init PROVE IInv
  OBVIOUS
<1>1. criteria \in [Criteria -> Criterion \union {None}]
  <2>1. PICK goal \in Goals :
          criteria = [c \in Criteria |->
                       IF goal[c] = None THEN None
                       ELSE [revision |-> 1, text |-> goal[c].text, approval |-> goal[c].approval]]
    BY DEF Init
  <2>2. \A c \in Criteria : goal[c] # None => goal[c] \in Shape
    BY TaskStateAssumption
  <2> QED BY <2>1, <2>2, TaskStateAssumption DEF Criterion, Shape, Revisions
<1>2. TypeOK
  <2>1. evidence \in Seq(Evidence) /\ Len(evidence) = 0
    BY DEF Init
  <2>2. Len(evidence) <= MaxEvidence
    BY <2>1, TaskStateAssumption
  <2>3. state \in States /\ authorized \in BOOLEAN /\ live \in BOOLEAN
    BY Zenon DEF Init, States
  <2>4. run \in [Runs -> RunStates] /\ testing \in [Verifiers -> Test \union {None}]
    BY DEF Init, RunStates
  <2> QED BY <1>1, <2>1, <2>2, <2>3, <2>4 DEF Init, TypeOK
<1>3. OwnershipAgrees
  BY DEF Init, OwnershipAgrees
<1>4. EvidenceOfText /\ MappingCovers /\ ConflictMeansBehind
  BY DEF Init, EvidenceOfText, MappingCovers, ConflictMeansBehind
<1>5. VerifiedStands
  BY DEF Init, VerifiedStands
<1> QED BY <1>2, <1>3, <1>4, <1>5 DEF IInv


-----------------------------------------------------------------------------
(* Steps *)

\* A committed call leaves the calls typed, and answered conflicts behind.
LEMMA CommitKeepsCalls ==
  ASSUME IInv, NEW s \in fresh, Commit(s)
  PROVE  /\ sent' \subseteq Slots /\ fresh' \subseteq sent' /\ applied' \subseteq sent'
         /\ refused' \subseteq sent'
         /\ source' \in Sources
         /\ testing' \in [Verifiers -> Test \union {None}]
         /\ ConflictMeansBehind'
BY DEF IInv, TypeOK, Commit, ConflictMeansBehind, world

\* A step that leaves the task alone keeps what is said of it.
LEMMA TaskUntouched ==
  ASSUME IInv, UNCHANGED task, live' \in BOOLEAN, source' \in Sources,
         testing' \in [Verifiers -> Test \union {None}],
         sent' \subseteq Slots, fresh' \subseteq sent', applied' \subseteq sent',
         refused' \subseteq sent', ConflictMeansBehind'
  PROVE  IInv'
PROOF
<1>1. UNCHANGED <<state, authorized, criteria, enhanced, owner, run, evidence>>
  BY DEF task, intent
<1>2. TypeOK'
  BY <1>1 DEF IInv, TypeOK
<1>3. OwnershipAgrees'
  BY <1>1 DEF IInv, OwnershipAgrees
<1>4. EvidenceOfText' /\ MappingCovers'
  BY <1>1 DEF IInv, EvidenceOfText, MappingCovers, Covers, Present
<1>5. VerifiedStands'
  BY <1>1 DEF IInv, VerifiedStands, Counts, Present
<1> QED BY <1>2, <1>3, <1>4, <1>5 DEF IInv

\* A call that commits and leaves intent and evidence alone keeps the invariant when
\* ownership still agrees and the task is not verified by it.
LEMMA Lifecycle ==
  ASSUME IInv, NEW s \in fresh, Commit(s), UNCHANGED <<criteria, enhanced, evidence>>,
         state' \in States \ {"verified"}, authorized' \in BOOLEAN, live' \in BOOLEAN,
         owner' \in Runs \union {None}, run' \in [Runs -> RunStates], OwnershipAgrees'
  PROVE  IInv'
PROOF
<1>1. TypeOK' /\ ConflictMeansBehind'
  BY CommitKeepsCalls DEF IInv, TypeOK
<1>2. EvidenceOfText' /\ MappingCovers'
  BY DEF IInv, EvidenceOfText, MappingCovers, Covers, Present
<1>3. VerifiedStands'
  BY DEF VerifiedStands
<1> QED BY <1>1, <1>2, <1>3 DEF IInv

\* Releasing the owner leaves no run active.
LEMMA ReleasedEnds ==
  ASSUME IInv, NEW how \in RunStates \ {"running"}
  PROVE  /\ Released(how) \in [Runs -> RunStates]
         /\ \A r \in Runs : Released(how)[r] # "running"
BY DEF IInv, TypeOK, OwnershipAgrees, Released

\* Authorization starts no run and ends none.
LEMMA AuthorizeStep ==
  ASSUME IInv, NEW s \in Callers, Authorize(s) PROVE IInv'
PROOF
<1>1. OwnershipAgrees'
  BY DEF IInv, OwnershipAgrees, Authorize
<1> QED
  BY <1>1, Lifecycle DEF IInv, TypeOK, Authorize, Expected, States, Terminal

\* A resume makes its run the only active one, and the owner.
LEMMA ResumeStep ==
  ASSUME IInv, NEW s \in Callers, NEW r \in Runs, NEW probed \in BOOLEAN, Resume(s, r, probed)
  PROVE  IInv'
PROOF
<1>1. /\ Released("interrupted") \in [Runs -> RunStates]
      /\ \A q \in Runs : Released("interrupted")[q] # "running"
  BY ReleasedEnds DEF RunStates
<1>2. r # None
  BY TaskStateAssumption
<1>3. run' \in [Runs -> RunStates] /\ \A q \in Runs : run'[q] = "running" <=> q = r
  BY <1>1 DEF Resume, RunStates
<1>4. OwnershipAgrees'
  BY <1>2, <1>3 DEF Resume, OwnershipAgrees
<1> QED
  BY <1>3, <1>4, Lifecycle DEF IInv, TypeOK, Resume, Expected, States, intent

\* A pause leaves no owner and no active run.
LEMMA PauseStep ==
  ASSUME IInv, NEW s \in Callers, NEW to \in {"awaiting-decision", "blocked"}, Pause(s, to)
  PROVE  IInv'
PROOF
<1>1. run' \in [Runs -> RunStates] /\ \A r \in Runs : run'[r] # "running"
  BY ReleasedEnds DEF RunStates, Pause
<1>2. OwnershipAgrees'
  BY <1>1 DEF Pause, OwnershipAgrees
<1> QED
  BY <1>1, <1>2, Lifecycle DEF IInv, TypeOK, Pause, Expected, States, intent

\* A cancellation leaves no owner and no active run.
LEMMA CancelStep ==
  ASSUME IInv, NEW s \in Callers, Cancel(s) PROVE IInv'
PROOF
<1>1. run' \in [Runs -> RunStates] /\ \A r \in Runs : run'[r] # "running"
  BY ReleasedEnds DEF RunStates, Cancel
<1>2. OwnershipAgrees'
  BY <1>1 DEF Cancel, OwnershipAgrees
<1> QED
  BY <1>1, <1>2, Lifecycle DEF IInv, TypeOK, Cancel, Expected, States, intent

\* A completion ends the run of the owner.
LEMMA CompleteStep ==
  ASSUME IInv, NEW s \in Callers, NEW r \in Runs, Complete(s, r) PROVE IInv'
PROOF
<1>1. run' \in [Runs -> RunStates] /\ \A q \in Runs : run'[q] # "running"
  BY DEF IInv, TypeOK, OwnershipAgrees, Complete, Active, RunStates
<1>2. OwnershipAgrees'
  BY <1>1 DEF Complete, OwnershipAgrees
<1> QED
  BY <1>1, <1>2, Lifecycle DEF IInv, TypeOK, Complete, Expected, States, intent


\* Evidence for a present criterion survives a change of intent, about its text.
LEMMA IntentKeepsEvidence ==
  ASSUME IInv, NEW goal \in Goals \union {None}, Intends(goal), UNCHANGED evidence
  PROVE  EvidenceOfText'
PROOF
<1> SUFFICES ASSUME NEW i \in DOMAIN evidence
    PROVE  /\ evidence[i].criterion \in Present'
           /\ evidence[i].revision <= criteria'[evidence[i].criterion].revision
           /\ evidence[i].revision = criteria'[evidence[i].criterion].revision
                => evidence[i].text = criteria'[evidence[i].criterion].text
  BY DEF EvidenceOfText
<1> DEFINE c == evidence[i].criterion
<1>1. /\ c \in Present
      /\ evidence[i].revision <= criteria[c].revision
      /\ evidence[i].revision = criteria[c].revision => evidence[i].text = criteria[c].text
  BY DEF IInv, EvidenceOfText
<1>2. c \in Present'
  BY IntendedType DEF IInv
<1>3. /\ criteria[c].revision <= criteria'[c].revision
      /\ criteria[c].revision = criteria'[c].revision => criteria[c].text = criteria'[c].text
  BY <1>1, <1>2, RevisionTells DEF IInv, Present
<1>4. evidence[i].revision \in Int /\ criteria[c].revision \in Int /\ criteria'[c].revision \in Int
  <2>1. evidence[i] \in Evidence
    BY DEF IInv, TypeOK
  <2>2. criteria[c] \in Criterion /\ criteria'[c] \in Criterion
    BY <1>1, <1>2, IntendedType DEF IInv, TypeOK, Present
  <2> QED BY <2>1, <2>2 DEF Evidence, Criterion, Revisions
<1> QED BY <1>1, <1>2, <1>3, <1>4

\* A revision keeps the evidence, about present texts, and the mapping covering.
LEMMA ReviseStep ==
  ASSUME IInv, NEW s \in Callers, NEW goal \in Goals, Revise(s, goal) PROVE IInv'
PROOF
<1>1. Intends(goal) /\ s \in fresh /\ Commit(s)
      /\ UNCHANGED <<authorized, owner, run, enhanced, evidence, live>>
  BY DEF Revise, Expected
<1>2. state' \in States \ {"verified"} /\ (state' = "running" <=> state = "running")
  BY DEF IInv, TypeOK, Revise, Reopened, States, Terminal
<1>3. TypeOK' /\ ConflictMeansBehind'
  BY <1>1, <1>2, CommitKeepsCalls, IntendedType DEF IInv, TypeOK
<1>4. OwnershipAgrees'
  BY <1>1, <1>2 DEF IInv, OwnershipAgrees
<1>5. EvidenceOfText'
  BY <1>1, IntentKeepsEvidence
<1>6. MappingCovers'
  BY <1>1 DEF Revise, MappingCovers, Covers, Present
<1>7. VerifiedStands'
  BY <1>2 DEF VerifiedStands
<1> QED BY <1>3, <1>4, <1>5, <1>6, <1>7 DEF IInv

\* A registration leaves a mapping that covers, and evidence about present texts.
LEMMA RegisterStep ==
  ASSUME IInv, NEW s \in Callers, NEW goal \in Goals \union {None}, NEW of \in Mapping,
         NEW defined \in SUBSET Checks, Register(s, goal, of, defined)
  PROVE  IInv'
PROOF
<1>1. Intends(goal) /\ s \in fresh /\ Commit(s)
      /\ UNCHANGED <<authorized, owner, run, evidence, live>>
  BY DEF Register, Expected
<1>2. state' \in States \ {"verified"} /\ (state' = "running" <=> state = "running")
  BY DEF IInv, TypeOK, Register, Reopened, States, Terminal
<1>3. enhanced' \in Enhanced
  <2> DEFINE next == IF enhanced = None THEN 1 ELSE enhanced.revision + 1
  <2>1. next \in Revisions
    BY TaskStateAssumption DEF IInv, TypeOK, Register, Enhanced, Revisions
  <2>2. enhanced' = [revision |-> next, of |-> of, defined |-> defined]
    BY DEF Register
  <2> HIDE DEF next
  <2> QED BY <2>1, <2>2 DEF Enhanced
<1>4. TypeOK' /\ ConflictMeansBehind'
  BY <1>1, <1>2, <1>3, CommitKeepsCalls, IntendedType DEF IInv, TypeOK
<1>5. OwnershipAgrees'
  BY <1>1, <1>2 DEF IInv, OwnershipAgrees
<1>6. EvidenceOfText'
  BY <1>1, IntentKeepsEvidence
<1>7. MappingCovers'
  <2>1. enhanced'.of = of /\ Covers(of, Present')
    BY DEF Register
  <2> QED BY <2>1 DEF MappingCovers, Covers, Present
<1>8. VerifiedStands'
  BY <1>2 DEF VerifiedStands
<1> QED BY <1>4, <1>5, <1>6, <1>7, <1>8 DEF IInv

\* New evidence for a criterion as it reads keeps the invariant of a running task.
LEMMA EvidenceStep ==
  ASSUME IInv, NEW s \in fresh, Commit(s), Active(owner),
         NEW item \in Evidence, AppendEvidence(item),
         item.criterion \in Present, item.revision = criteria[item.criterion].revision,
         item.text = criteria[item.criterion].text,
         UNCHANGED <<state, owner, run, criteria, enhanced, live>>, authorized' \in BOOLEAN
  PROVE  IInv'
PROOF
<1>1. evidence' \in Seq(Evidence) /\ Len(evidence') <= MaxEvidence
  BY TaskStateAssumption DEF IInv, TypeOK, AppendEvidence
<1>2. TypeOK' /\ ConflictMeansBehind'
  BY <1>1, CommitKeepsCalls DEF IInv, TypeOK
<1>3. OwnershipAgrees' /\ MappingCovers'
  BY DEF IInv, OwnershipAgrees, MappingCovers, Covers, Present
<1>4. EvidenceOfText'
  <2> SUFFICES ASSUME NEW i \in DOMAIN evidence'
      PROVE  /\ evidence'[i].criterion \in Present'
             /\ evidence'[i].revision <= criteria'[evidence'[i].criterion].revision
             /\ evidence'[i].revision = criteria'[evidence'[i].criterion].revision
                  => evidence'[i].text = criteria'[evidence'[i].criterion].text
    BY DEF EvidenceOfText
  <2>1. evidence'[i] = item \/ (i \in DOMAIN evidence /\ evidence'[i] = evidence[i])
    BY DEF IInv, TypeOK, AppendEvidence
  <2>2. item.revision <= criteria[item.criterion].revision
    BY DEF Evidence, Revisions
  <2> QED BY <2>1, <2>2 DEF IInv, EvidenceOfText, Present
<1>5. VerifiedStands'
  BY DEF IInv, OwnershipAgrees, VerifiedStands, Active
<1> QED BY <1>2, <1>3, <1>4, <1>5 DEF IInv

\* The result of a check is recorded about the criterion as it reads.
LEMMA RecordStep ==
  ASSUME IInv, NEW v \in Verifiers, Record(v) PROVE IInv'
PROOF
<1> DEFINE t == testing[v]
           item == [criterion |-> t.criterion, revision |-> criteria[t.criterion].revision,
                     kind |-> t.kind, verdict |-> t.verdict, source |-> source,
                     enrolled |-> IF t.kind \in Checks THEN enhanced.revision ELSE 0,
                     text |-> criteria[t.criterion].text]
<1>1. t \in Test /\ t.verdict # None
  BY DEF IInv, TypeOK, Record
<1>2. criteria[t.criterion] \in Criterion /\ t.criterion \in Present
  BY <1>1 DEF IInv, TypeOK, Record, Present
<1>3. t.kind \in Checks => enhanced \in Enhanced
  BY DEF IInv, TypeOK, Record, Acceptable
<1>4. item \in Evidence
  <2>1. (IF t.kind \in Checks THEN enhanced.revision ELSE 0) \in {0} \union Revisions
    BY <1>3 DEF Enhanced
  <2>2. t.kind \in Kinds \union {"approval"} /\ t.verdict \in {"passed", "failed"}
        /\ t.criterion \in Criteria /\ source \in Sources
    BY <1>1 DEF Test, IInv, TypeOK
  <2>3. criteria[t.criterion].revision \in Revisions /\ criteria[t.criterion].text \in Texts
    BY <1>2 DEF Criterion
  <2> QED BY <2>1, <2>2, <2>3 DEF Evidence
<1>5. v \in fresh /\ Commit(v) /\ Active(owner) /\ AppendEvidence(item)
      /\ UNCHANGED <<state, owner, run, criteria, enhanced, live>> /\ authorized' = authorized
  BY DEF Record, intent
<1>6. /\ item.criterion \in Present
      /\ item.revision = criteria[item.criterion].revision
      /\ item.text = criteria[item.criterion].text
  BY <1>2
<1>7. authorized' \in BOOLEAN
  BY <1>5 DEF IInv, TypeOK
<1> HIDE DEF item
<1> QED BY <1>4, <1>5, <1>6, <1>7, EvidenceStep

\* A result from elsewhere is recorded about the criterion as it reads.
LEMMA ReportStep ==
  ASSUME IInv, NEW s \in Callers, NEW c \in Criteria, NEW how \in Kinds,
         NEW verdict \in {"passed", "failed"}, RecordReported(s, c, how, verdict)
  PROVE  IInv'
PROOF
<1> DEFINE item == [criterion |-> c, revision |-> criteria[c].revision, kind |-> how,
                     verdict |-> verdict, source |-> source, enrolled |-> 0,
                     text |-> criteria[c].text]
<1>1. criteria[c] \in Criterion /\ c \in Present
  BY DEF IInv, TypeOK, RecordReported, Present
<1>2. item \in Evidence
  BY <1>1 DEF IInv, TypeOK, Evidence, Criterion
<1>3. s \in fresh /\ Commit(s) /\ Active(owner) /\ AppendEvidence(item)
      /\ UNCHANGED <<state, owner, run, criteria, enhanced, live>> /\ authorized' = authorized
  BY DEF RecordReported, Expected, intent
<1>4. /\ item.criterion \in Present
      /\ item.revision = criteria[item.criterion].revision
      /\ item.text = criteria[item.criterion].text
  BY <1>1
<1>5. authorized' \in BOOLEAN
  BY <1>3 DEF IInv, TypeOK
<1> HIDE DEF item
<1> QED BY <1>2, <1>3, <1>4, <1>5, EvidenceStep

\* An approval is recorded about the criterion as it reads.
LEMMA ApproveStep ==
  ASSUME IInv, NEW s \in Callers, NEW c \in Criteria, Approve(s, c) PROVE IInv'
PROOF
<1> DEFINE item == [criterion |-> c, revision |-> criteria[c].revision, kind |-> "approval",
                     verdict |-> "passed", source |-> source, enrolled |-> 0,
                     text |-> criteria[c].text]
<1>1. criteria[c] \in Criterion /\ c \in Present
  BY DEF IInv, TypeOK, Approve, Present
<1>2. item \in Evidence
  BY <1>1 DEF IInv, TypeOK, Evidence, Criterion
<1>3. s \in fresh /\ Commit(s) /\ Active(owner) /\ AppendEvidence(item)
      /\ UNCHANGED <<state, owner, run, criteria, enhanced, live>> /\ authorized' \in BOOLEAN
  BY DEF Approve, Expected
<1>4. /\ item.criterion \in Present
      /\ item.revision = criteria[item.criterion].revision
      /\ item.text = criteria[item.criterion].text
  BY <1>1
<1> HIDE DEF item
<1> QED BY <1>2, <1>3, <1>4, EvidenceStep


\* Evidence at the present revision is evidence that counts.
LEMMA CurrentCounts ==
  ASSUME IInv, NEW c \in Present, NEW i \in DOMAIN evidence
  PROVE  i \in Current(c) <=> Counts(i, c, source)
BY DEF IInv, EvidenceOfText, Current, Counts

\* What verifyTask finds complete is what VerifiedStands asks for.
LEMMA VerifyStep ==
  ASSUME IInv, NEW s \in Callers, Verify(s) PROVE IInv'
PROOF
<1>1. s \in fresh /\ Commit(s) /\ state = "completed" /\ state' = "verified" /\ Verifiable
      /\ UNCHANGED <<authorized, criteria, enhanced, owner, run, evidence, live>>
  BY DEF Verify, Expected, intent
<1>2. TypeOK' /\ ConflictMeansBehind'
  BY <1>1, CommitKeepsCalls DEF IInv, TypeOK, States
<1>3. OwnershipAgrees'
  BY <1>1 DEF IInv, OwnershipAgrees
<1>4. EvidenceOfText' /\ MappingCovers'
  BY <1>1 DEF IInv, EvidenceOfText, MappingCovers, Covers, Present
<1>5. VerifiedStands'
  <2>1. ASSUME NEW c \in Present
        PROVE  \E i \in DOMAIN evidence :
                 /\ Counts(i, c, source)
                 /\ evidence[i].verdict = "passed"
                 /\ criteria[c].approval => evidence[i].kind = "approval"
                 /\ \A j \in DOMAIN evidence : j > i => ~Counts(j, c, source)
    <3>1. PICK i \in Newest(Current(c)) :
            /\ evidence[i].verdict = "passed"
            /\ criteria[c].approval => evidence[i].kind = "approval"
      BY <1>1 DEF Verifiable
    <3>2. i \in DOMAIN evidence /\ i \in Current(c) /\ \A j \in Current(c) : j <= i
      BY DEF Newest, Current
    <3>3. \A j \in DOMAIN evidence : j > i => ~Counts(j, c, source)
      <4>1. \A j \in DOMAIN evidence : j \in Int
        BY DEF IInv, TypeOK
      <4> QED BY <3>2, <4>1, CurrentCounts
    <3> QED BY <3>1, <3>2, <3>3, CurrentCounts
  <2>2. ASSUME enhanced # None, NEW k \in Checks, enhanced.of[k] # None
        PROVE  \E i \in DOMAIN evidence :
                 /\ Counts(i, enhanced.of[k], source)
                 /\ <<evidence[i].kind, evidence[i].verdict>> = <<k, "passed">>
                 /\ k \in enhanced.defined => evidence[i].enrolled = enhanced.revision
                 /\ \A j \in DOMAIN evidence :
                      j > i /\ evidence[j].kind = k => ~Counts(j, enhanced.of[k], source)
    <3> DEFINE c == enhanced.of[k]
               I == {j \in Current(c) : evidence[j].kind = k}
    <3>1. c \in Present
      BY <2>2 DEF IInv, MappingCovers, Covers
    <3>2. PICK i \in Newest(I) :
            /\ evidence[i].verdict = "passed"
            /\ k \in enhanced.defined => evidence[i].enrolled = enhanced.revision
      BY <1>1, <2>2, <3>1 DEF Verifiable
    <3>3. i \in DOMAIN evidence /\ i \in Current(c) /\ evidence[i].kind = k /\ \A j \in I : j <= i
      BY DEF Newest, Current
    <3>4. \A j \in DOMAIN evidence : j > i /\ evidence[j].kind = k => ~Counts(j, c, source)
      <4>1. \A j \in DOMAIN evidence : j \in Int
        BY DEF IInv, TypeOK
      <4>2. \A j \in DOMAIN evidence : evidence[j].kind = k /\ Counts(j, c, source) => j \in I
        BY <3>1, CurrentCounts
      <4> HIDE DEF I
      <4> QED BY <3>3, <4>1, <4>2
    <3>5. Counts(i, c, source)
      BY <3>1, <3>3, CurrentCounts
    <3> QED BY <3>2, <3>3, <3>4, <3>5
  <2>3. source \in Sources
    BY DEF IInv, TypeOK
  <2> QED BY <1>1, <2>1, <2>2, <2>3 DEF VerifiedStands, Counts, Present
<1> QED BY <1>2, <1>3, <1>4, <1>5 DEF IInv

\* An answer or the end of a call changes no task.
LEMMA SlotStep ==
  ASSUME IInv, NEW s \in Slots, Refuse(s) \/ Forget(s) PROVE IInv'
PROOF
<1>1. CASE Refuse(s)
  BY <1>1, TaskUntouched DEF IInv, TypeOK, ConflictMeansBehind, Refuse, task, intent, world
<1>2. CASE Forget(s)
  BY <1>2, TaskUntouched DEF IInv, TypeOK, ConflictMeansBehind, Forget, task, intent
<1> QED BY <1>1, <1>2

\* Reading the task makes a call fresh and changes no task.
LEMMA ReadStep ==
  ASSUME IInv, NEW s \in Callers, Read(s) PROVE IInv'
BY TaskUntouched DEF IInv, TypeOK, ConflictMeansBehind, Read, task, intent, world, Slots

\* Checkpoints and modes keep the invariant.
LEMMA AnnotateStep ==
  ASSUME IInv, NEW s \in Callers, Annotate(s) PROVE IInv'
PROOF
<1>1. s \in fresh /\ Commit(s) /\ UNCHANGED task /\ UNCHANGED live
  BY DEF Annotate, Expected, task
<1> QED BY <1>1, CommitKeepsCalls, TaskUntouched DEF IInv, TypeOK

\* Starting a check changes no task.
LEMMA LaunchStep ==
  ASSUME IInv, NEW v \in Verifiers, NEW by, NEW c \in Criteria, NEW k \in Kinds,
         Starts(v, by, c, k)
  PROVE  IInv'
PROOF
<1>1. testing' \in [Verifiers -> Test \union {None}]
  BY DEF IInv, TypeOK, Starts, Test
<1> QED
  BY <1>1, TaskUntouched DEF IInv, TypeOK, ConflictMeansBehind, Starts, task, intent, Slots

\* The end of a check changes no task.
LEMMA EndStep ==
  ASSUME IInv, NEW v \in Verifiers, NEW verdict \in {"passed", "failed"},
         EndCheck(v, verdict) \/ EndGate(v, verdict)
  PROVE  IInv'
PROOF
<1>1. testing' \in [Verifiers -> Test \union {None}]
  <2>1. testing[v] \in Test
    BY DEF IInv, TypeOK, EndCheck, EndGate
  <2>2. PICK judged \in {"passed", "failed"} : testing' = [testing EXCEPT ![v].verdict = judged]
    BY DEF EndCheck, EndGate
  <2>3. [testing[v] EXCEPT !.verdict = judged] \in Test
    BY <2>1 DEF Test
  <2> QED BY <2>2, <2>3 DEF IInv, TypeOK
<1> QED
  BY <1>1, TaskUntouched
  DEF IInv, TypeOK, ConflictMeansBehind, EndCheck, EndGate, task, intent, calls

\* Neither a death nor an edit changes a task.
LEMMA SurroundingsStep ==
  ASSUME IInv, Die \/ \E to \in Sources : Edit(to) PROVE IInv'
BY TaskUntouched DEF IInv, TypeOK, ConflictMeansBehind, Die, Edit, task, intent, world, calls

\* Every step keeps the invariant.
LEMMA NextIInv == IInv /\ [Next]_vars => IInv'
PROOF
<1> SUFFICES ASSUME IInv, [Next]_vars PROVE IInv'
  OBVIOUS
<1>1. CASE UNCHANGED vars
  BY <1>1, TaskUntouched DEF IInv, TypeOK, ConflictMeansBehind, vars, task, intent
<1>2. CASE \E s \in Slots : Refuse(s) \/ Forget(s)
  BY <1>2, SlotStep
<1>3. CASE \E s \in Callers : Read(s) \/ Authorize(s) \/ Cancel(s) \/ Annotate(s) \/ Verify(s)
  BY <1>3, ReadStep, AuthorizeStep, CancelStep, AnnotateStep, VerifyStep
<1>4. CASE \E s \in Callers, r \in Runs, probed \in BOOLEAN : Resume(s, r, probed)
  BY <1>4, ResumeStep
<1>5. CASE \E s \in Callers, to \in {"awaiting-decision", "blocked"} : Pause(s, to)
  BY <1>5, PauseStep
<1>6. CASE \E s \in Callers, r \in Runs : Complete(s, r)
  BY <1>6, CompleteStep
<1>7. CASE \E s \in Callers, goal \in Goals : Revise(s, goal)
  BY <1>7, ReviseStep
<1>8. CASE \E s \in Callers, goal \in Goals \union {None}, of \in Mapping,
              defined \in SUBSET Checks : Register(s, goal, of, defined)
  BY <1>8, RegisterStep
<1>9. CASE \E s \in Callers, c \in Criteria : Approve(s, c)
  BY <1>9, ApproveStep
<1>10. CASE \E v \in Verifiers : Record(v)
  BY <1>10, RecordStep
<1>11. CASE \E v \in Verifiers, c \in Criteria :
              LaunchGate(v, c) \/ \E k \in Kinds : LaunchCheck(v, c, k)
  BY <1>11, LaunchStep DEF LaunchGate, LaunchCheck, Kinds
<1>12. CASE \E v \in Verifiers, verdict \in {"passed", "failed"} :
              EndCheck(v, verdict) \/ EndGate(v, verdict)
  BY <1>12, EndStep
<1>13. CASE Die \/ \E to \in Sources : Edit(to)
  BY <1>13, SurroundingsStep
<1>14. CASE \E s \in Callers, c \in Criteria, how \in Kinds, verdict \in {"passed", "failed"} :
              RecordReported(s, c, how, verdict)
  BY <1>14, ReportStep
<1> QED
  BY <1>1, <1>2, <1>3, <1>4, <1>5, <1>6, <1>7, <1>8, <1>9, <1>10, <1>11, <1>12, <1>13, <1>14
  DEF Next

-----------------------------------------------------------------------------
(* Theorems *)

\* The inductive invariant holds of every history of a task.
THEOREM Invariance == Spec => []IInv
BY InitIInv, NextIInv, PTL DEF Spec

\* The store keeps the shapes of contracts.ts.
THEOREM TypeCorrect == Spec => []TypeOK
<1>1. IInv => TypeOK
  BY DEF IInv
<1> QED BY <1>1, Invariance, PTL

\* Running state, owner and active run agree whatever calls arrive in what order:
\* validateTask never has to turn a mutation away for it.
THEOREM OwnershipAlwaysAgrees == Spec => []OwnershipAgrees
<1>1. IInv => OwnershipAgrees
  BY DEF IInv
<1> QED BY <1>1, Invariance, PTL

\* Evidence that counts is about the criterion as it reads now.
THEOREM EvidenceIsOfText == Spec => []EvidenceOfText
<1>1. IInv => EvidenceOfText
  BY DEF IInv
<1> QED BY <1>1, Invariance, PTL

\* A verified task stays what verifyTask found it to be.
THEOREM VerificationStands == Spec => []VerifiedStands
<1>1. IInv => VerifiedStands
  BY DEF IInv
<1> QED BY <1>1, Invariance, PTL

\* A revision conflict is never the answer to a call that was carried out.
THEOREM ConflictIsHonest == Spec => []ConflictMeansUnapplied
<1>1. IInv => ConflictMeansUnapplied
  BY DEF IInv, ConflictMeansBehind, ConflictMeansUnapplied
<1> QED BY <1>1, Invariance, PTL

-----------------------------------------------------------------------------

ContractDigests == Terms \union {Unwritten}
Associations == [revision : Nat, digest : ContractDigests, status : {"none", "accepted", "pending"},
                 acknowledged : ContractDigests, at : Nat, current : BOOLEAN, done : SUBSET Requests]
Questions == [kind : {"create", "accept", "propose", "acknowledge"}, revision : Nat,
              producer : Nat, consumer : Nat, digest : ContractDigests]
Journals == {[state |-> "none"]}
              \union [state : {"prepared", "committed"}, base : Associations, target : Associations]
ContractCallers == {NoCaller} \union [step : {"recover", "write", "commit"}, request : Requests]
             \union [step : {"apply"}, request : Requests, base : Associations]
ContractChecks == {NoCheck} \union [step : {"tasks", "document", "both"}, text : ContractDigests, at : Nat,
                            seen : Associations]

ContractTypes ==
  /\ producer \in [revision : Nat, text : Terms] /\ consumer \in Nat
  /\ document \in Associations /\ contractJournal \in Journals
  /\ asked \in [Requests -> {NotAsked} \union Questions]
  /\ caller \in ContractCallers /\ check \in ContractChecks

\* Whoever is about to apply sent a request, and works on the document as it is.
Applying ==
  /\ caller # NoCaller => asked[caller.request] # NotAsked
  /\ caller.step = "apply" => caller.base = document
  /\ caller.step \in {"write", "commit"} => contractJournal.state = "prepared"

\* A current receipt was given, for this content and at this revision of the consumer.
Receipt(a) == [text |-> a.digest, at |-> a.at] \in agreed
Receipted(a) == a.current /\ a.acknowledged = a.digest => Receipt(a)

KeptReceipts ==
  /\ Receipted(document)
  /\ contractJournal.state = "prepared" => Receipted(contractJournal.target)
  /\ check # NoCheck => Receipted(check.seen)

ContractsIInv == ContractTypes /\ Applying /\ KeptReceipts /\ ContractsHold

-----------------------------------------------------------------------------
USE ContractsAssumption

LEMMA NoAssociationType == NoAssociation \in Associations /\ Receipted(NoAssociation)
  BY DEF NoAssociation, Associations, ContractDigests, Receipted

\* Nobody has received anything of a contract that has just been written.
LEMMA ContractsInitial == ContractsInit => ContractsIInv
  <1> SUFFICES ASSUME ContractsInit PROVE ContractsIInv
    OBVIOUS
  <1> USE DEF ContractsInit
  <1>1. document \in Associations /\ Receipted(document)
    <2>1. CASE document = NoAssociation
      BY <2>1, NoAssociationType
    <2>2. CASE document # NoAssociation
      <3>1. document = [revision |-> 1, digest |-> producer.text, status |-> "accepted",
                        acknowledged |-> Unwritten, at |-> 0, current |-> TRUE, done |-> {}]
        BY <2>2 DEF NoAssociation
      <3>2. producer.text \in Terms /\ producer.text # Unwritten
        OBVIOUS
      <3>3. QED BY <3>1, <3>2 DEF Associations, ContractDigests, Receipted
    <2>3. QED BY <2>1, <2>2
  <1>2. producer \in [revision : Nat, text : Terms] /\ consumer \in Nat
    OBVIOUS
  <1>3. contractJournal \in Journals /\ caller \in ContractCallers /\ check \in ContractChecks
    BY DEF Journals, ContractCallers, ContractChecks
  <1>4. asked \in [Requests -> {NotAsked} \union Questions]
    OBVIOUS
  <1>5. ContractTypes
    BY <1>1, <1>2, <1>3, <1>4 DEF ContractTypes
  <1>6. Applying
    BY DEF Applying, NoCaller
  <1>7. KeptReceipts
    BY <1>1 DEF KeptReceipts
  <1>8. ContractsHold
    BY DEF ContractsHold, DispatchedAgrees, ContractRecoverable
  <1>9. QED BY <1>5, <1>6, <1>7, <1>8 DEF ContractsIInv

\* What was received stays received.
LEMMA ReceiptedStays ==
  ASSUME NEW a, Receipted(a), agreed \subseteq agreed'
  PROVE  a.current /\ a.acknowledged = a.digest => [text |-> a.digest, at |-> a.at] \in agreed'
  BY DEF Receipted, Receipt

\* The tasks move, or a request is sent or sent again: documents and receipts stay.
LEMMA OutsideKeeps ==
  ASSUME ContractsIInv, TaskMoves \/ \E r \in Requests : Send(r) PROVE ContractsIInv'
  <1> USE DEF ContractsIInv
  <1>1. document' = document /\ contractJournal' = contractJournal /\ check' = check
        /\ dispatched' = dispatched /\ agreed' = agreed
    BY DEF TaskMoves, Send
  <1>2. KeptReceipts' /\ ContractsHold'
    BY <1>1 DEF KeptReceipts, Receipted, Receipt, ContractsHold, DispatchedAgrees,
                ContractRecoverable
  <1>3. CASE TaskMoves
    <2>1. producer' \in [revision : Nat, text : Terms] /\ consumer' \in Nat
      BY <1>3 DEF TaskMoves, ContractTypes
    <2>2. asked' = asked /\ caller' = caller
      BY <1>3 DEF TaskMoves
    <2>3. QED BY <1>1, <1>2, <2>1, <2>2 DEF ContractTypes, Applying
  <1>4. ASSUME NEW r \in Requests, Send(r) PROVE ContractsIInv'
    <2> USE <1>4 DEF Send
    <2>1. document.revision \in Nat /\ document.digest \in ContractDigests
          /\ producer.revision \in Nat /\ consumer \in Nat
      BY DEF ContractTypes, Associations
    <2>2. asked' \in [Requests -> {NotAsked} \union Questions] /\ asked'[r] # NotAsked
      <3>1. CASE asked[r] = NotAsked
        <4>1. PICK q \in Questions : asked' = [asked EXCEPT ![r] = q]
          BY <3>1, <2>1 DEF Questions
        <4>2. q # NotAsked
          BY DEF Questions, NotAsked
        <4>3. QED BY <4>1, <4>2 DEF ContractTypes
      <3>2. CASE asked[r] # NotAsked
        BY <3>2 DEF ContractTypes
      <3>3. QED BY <3>1, <3>2
    <2>3. caller' \in ContractCallers
      BY DEF ContractCallers
    <2>4. ContractTypes'
      BY <1>1, <2>2, <2>3 DEF ContractTypes
    <2>5. Applying'
      BY <2>2 DEF Applying
    <2>6. QED BY <1>2, <2>4, <2>5
  <1>5. QED BY <1>3, <1>4

\* Recovery brings the document to the target of the journal, or leaves both.
LEMMA RecoverKeeps == ASSUME ContractsIInv, RecoverContracts PROVE ContractsIInv'
  <1> USE DEF ContractsIInv, RecoverContracts
  <1>1. caller \in [step : {"recover", "write", "commit"}, request : Requests]
    BY DEF ContractTypes, ContractCallers, NoCaller
  <1>2. document' \in Associations /\ contractJournal' \in Journals
        /\ Receipted(document') /\ ContractRecoverable'
        /\ (contractJournal'.state = "prepared" => Receipted(contractJournal'.target))
    <2>1. CASE contractJournal.state # "prepared"
      BY <2>1 DEF ContractTypes, KeptReceipts, ContractsHold, ContractRecoverable
    <2>2. CASE contractJournal.state = "prepared"
      <3>1. contractJournal.base \in Associations /\ contractJournal.target \in Associations
            /\ contractJournal \in [state : {"prepared", "committed"}, base : Associations,
                                     target : Associations]
        BY <2>2 DEF ContractTypes, Journals
      <3>2. CASE document = contractJournal.target /\ document' = document
                 /\ contractJournal' = [contractJournal EXCEPT !.state = "committed"]
        BY <3>1, <3>2 DEF ContractTypes, KeptReceipts, Journals, ContractRecoverable
      <3>3. CASE document' = contractJournal.target /\ contractJournal' = contractJournal
        BY <2>2, <3>1, <3>3 DEF ContractTypes, KeptReceipts, ContractRecoverable
      <3>4. QED BY <2>2, <3>2, <3>3
    <2>3. QED BY <2>1, <2>2
  <1>3. caller' \in ContractCallers
    BY <1>1, <1>2 DEF ContractCallers
  <1>4. ContractTypes'
    BY <1>2, <1>3 DEF ContractTypes
  <1>5. Applying'
    BY <1>1 DEF Applying, NoCaller
  <1>6. KeptReceipts'
    BY <1>2 DEF KeptReceipts, Receipted, Receipt
  <1>7. ContractsHold'
    BY <1>2 DEF ContractsHold, DispatchedAgrees
  <1>8. QED BY <1>4, <1>5, <1>6, <1>7

\* What a request makes of an association: only an acknowledgment of an accepted version makes a
\* receipt current, and it is recorded as received.
LEMMA TargetReceipted ==
  ASSUME ContractTypes, NEW a \in Associations, NEW r \in Requests, NEW q \in Questions,
         Admitted(a, q), Target(a, q, r) # a
  PROVE  /\ Target(a, q, r) \in Associations
         /\ LET b == Target(a, q, r) IN
            b.current /\ b.acknowledged = b.digest
              => /\ q.kind = "acknowledge"
                 /\ [text |-> b.digest, at |-> b.at] \in Received(a)
  <1> USE DEF ContractTypes
  <1>0. producer.text \in Terms /\ producer.text # Unwritten /\ consumer \in Nat
    OBVIOUS
  <1>1. CASE q.kind = "create"
    <2>1. Target(a, q, r) = Create(a, q, r)
      BY <1>1 DEF Target
    <2>2. NoAssociation \in Associations /\ NoAssociation.acknowledged = Unwritten
      BY NoAssociationType DEF NoAssociation
    <2>3. producer.text \in ContractDigests /\ {r} \in SUBSET Requests
      BY <1>0 DEF ContractDigests
    <2>4. Create(a, q, r) \in Associations
      BY <2>2, <2>3 DEF Create, Associations
    <2>5. Create(a, q, r).digest = producer.text /\ Create(a, q, r).acknowledged = Unwritten
      BY <2>2 DEF Create, Associations
    <2>6. QED BY <1>0, <2>1, <2>4, <2>5
  <1>2. CASE q.kind \in {"accept", "propose"}
    <2>1. Target(a, q, r) = Propose(a, q.kind = "accept", r)
      BY <1>2 DEF Target
    <2> DEFINE b == Target(a, q, r)
    <2>2. PICK digest \in ContractDigests, status \in {"accepted", "pending"}, received \in ContractDigests, at \in Nat :
            b = [revision |-> a.revision + 1, digest |-> digest, status |-> status,
                 acknowledged |-> received, at |-> at, current |-> FALSE, done |-> a.done \union {r}]
      <3>1. a = [revision |-> a.revision, digest |-> a.digest, status |-> a.status,
                 acknowledged |-> a.acknowledged, at |-> a.at, current |-> a.current, done |-> a.done]
        BY DEF Associations
      <3>2. a.digest \in ContractDigests /\ a.acknowledged \in ContractDigests /\ a.at \in Nat
        BY DEF Associations
      <3>3. CASE a.digest = producer.text /\ a.status = "pending" /\ q.kind = "accept"
        <4>1. b = [revision |-> a.revision + 1, digest |-> a.digest, status |-> "accepted",
                   acknowledged |-> a.acknowledged, at |-> a.at, current |-> FALSE,
                   done |-> a.done \union {r}]
          BY <2>1, <3>1, <3>3 DEF Propose
        <4>2. QED BY <3>2, <4>1
      <3>4. CASE ~(a.digest = producer.text /\ q.kind = "accept")
        <4>1. b = [revision |-> a.revision + 1, digest |-> producer.text,
                   status |-> IF q.kind = "accept" THEN "accepted" ELSE "pending",
                   acknowledged |-> Unwritten, at |-> 0, current |-> FALSE,
                   done |-> a.done \union {r}]
          BY <2>1, <3>1, <3>4 DEF Propose
        <4>2. QED BY <1>0, <4>1 DEF ContractDigests
      <3>5. QED BY <2>1, <3>3, <3>4 DEF Propose
    <2>3. b \in Associations
      BY <2>2 DEF Associations
    <2>4. b.current = FALSE
      BY <2>2
    <2>5. QED BY <2>3, <2>4
  <1>3. CASE q.kind = "acknowledge"
    <2>1. Target(a, q, r) = Acknowledge(a, r)
      BY <1>3 DEF Target
    <2>2. /\ a.revision + 1 \in Nat /\ a.digest \in ContractDigests /\ a.status \in {"none", "accepted", "pending"}
          /\ a.done \union {r} \in SUBSET Requests
      BY DEF Associations
    <2>3. CASE a.status = "accepted"
      <3> DEFINE b == [a EXCEPT !.revision = @ + 1, !.acknowledged = a.digest, !.at = consumer,
                                !.current = TRUE, !.done = @ \union {r}]
      <3>1. Acknowledge(a, r) = b
        BY <2>3 DEF Acknowledge
      <3>2. b \in Associations
        BY <1>0, <2>2 DEF Associations
      <3>3. b.current = TRUE /\ b.digest = a.digest /\ b.at = consumer
        BY DEF Associations
      <3> HIDE DEF b
      <3>4. QED BY <1>3, <2>1, <2>3, <3>1, <3>2, <3>3 DEF Received
    <2>4. CASE a.status # "accepted"
      <3> DEFINE b == [a EXCEPT !.revision = @ + 1, !.acknowledged = a.digest, !.at = consumer,
                                !.current = FALSE, !.done = @ \union {r}]
      <3>1. Acknowledge(a, r) = b
        BY <2>4 DEF Acknowledge
      <3>2. b \in Associations
        BY <1>0, <2>2 DEF Associations
      <3>3. b.current = FALSE /\ b.digest = a.digest /\ b.at = consumer
        BY DEF Associations
      <3> HIDE DEF b
      <3>4. QED BY <1>3, <2>1, <2>4, <3>1, <3>2, <3>3
    <2>5. QED BY <2>3, <2>4
  <1>4. QED BY <1>1, <1>2, <1>3 DEF Questions

LEMMA ApplyKeeps == ASSUME ContractsIInv, ApplyRequest PROVE ContractsIInv'
  <1> DEFINE a == caller.base
             r == caller.request
             q == asked[r]
  <1> USE DEF ContractsIInv
  <1>0. document' = document /\ check' = check /\ dispatched' = dispatched
        /\ producer' = producer /\ consumer' = consumer /\ asked' = asked
    BY DEF ApplyRequest
  <1>1. /\ a \in Associations /\ r \in Requests /\ a = document
        /\ q \in Questions /\ q # NotAsked
    BY DEF ApplyRequest, ContractTypes, ContractCallers, NoCaller, Applying
  <1>2. CASE r \notin a.done /\ Admitted(a, q) /\ Target(a, q, r) # a
    <2> DEFINE b == Target(a, q, r)
    <2>1. /\ contractJournal' = [state |-> "prepared", base |-> a, target |-> b]
          /\ caller' = [step |-> "write", request |-> r]
          /\ agreed' = agreed \union IF q.kind = "acknowledge" THEN Received(a) ELSE {}
      BY <1>2 DEF ApplyRequest
    <2>2. /\ b \in Associations
          /\ b.current /\ b.acknowledged = b.digest
               => q.kind = "acknowledge" /\ [text |-> b.digest, at |-> b.at] \in Received(a)
      BY <1>1, <1>2, TargetReceipted
    <2> HIDE DEF b
    <2>3. contractJournal' \in Journals /\ caller' \in ContractCallers
      BY <1>1, <2>1, <2>2 DEF Journals, ContractCallers
    <2>4. ContractTypes'
      BY <1>0, <2>3 DEF ContractTypes
    <2>5. Applying'
      BY <1>0, <1>1, <2>1 DEF Applying
    <2>6. KeptReceipts'
      BY <1>0, <2>1, <2>2 DEF KeptReceipts, Receipted, Receipt
    <2>7. ContractsHold'
      BY <1>0, <1>1, <2>1 DEF ContractsHold, DispatchedAgrees, ContractRecoverable
    <2>8. QED BY <2>4, <2>5, <2>6, <2>7
  <1>3. CASE ~(r \notin a.done /\ Admitted(a, q) /\ Target(a, q, r) # a)
    <2>1. contractJournal' = contractJournal /\ caller' = NoCaller /\ agreed' = agreed
      BY <1>3 DEF ApplyRequest
    <2>2. ContractTypes'
      BY <1>0, <2>1 DEF ContractTypes, ContractCallers
    <2>3. Applying'
      BY <2>1 DEF Applying, NoCaller
    <2>4. QED BY <1>0, <2>1, <2>2, <2>3
              DEF KeptReceipts, Receipted, Receipt, ContractsHold, DispatchedAgrees,
                  ContractRecoverable
  <1>4. QED BY <1>2, <1>3

\* The document takes the journalled target, then the journal is committed; or the caller dies.
LEMMA WriteKeeps == ASSUME ContractsIInv, WriteDocument \/ CommitJournal \/ CrashCaller PROVE ContractsIInv'
  <1> USE DEF ContractsIInv
  <1>0. check' = check /\ dispatched' = dispatched /\ agreed' = agreed
        /\ producer' = producer /\ consumer' = consumer /\ asked' = asked
    BY DEF WriteDocument, CommitJournal, CrashCaller
  <1>1. CASE WriteDocument
    <2>1. contractJournal.state = "prepared" /\ contractJournal.target \in Associations
      BY <1>1 DEF WriteDocument, Applying, ContractTypes, Journals
    <2>2. caller \in [step : {"recover", "write", "commit"}, request : Requests]
      BY <1>1 DEF WriteDocument, ContractTypes, ContractCallers, NoCaller
    <2>3. caller' \in ContractCallers /\ caller'.step = "commit" /\ caller'.request = caller.request
      BY <1>1, <2>2 DEF WriteDocument, ContractCallers
    <2>4. document' = contractJournal.target /\ contractJournal' = contractJournal
      BY <1>1 DEF WriteDocument
    <2>5. ContractTypes'
      BY <1>0, <2>1, <2>3, <2>4 DEF ContractTypes
    <2>6. Applying'
      BY <1>0, <1>1, <2>1, <2>3, <2>4 DEF Applying, WriteDocument, NoCaller
    <2>7. QED BY <1>0, <2>1, <2>4, <2>5, <2>6
              DEF KeptReceipts, Receipted, Receipt, ContractsHold, DispatchedAgrees,
                  ContractRecoverable
  <1>2. CASE CommitJournal
    <2>1. contractJournal \in [state : {"prepared", "committed"}, base : Associations,
                                target : Associations]
      BY <1>2 DEF CommitJournal, Applying, ContractTypes, Journals
    <2>2. contractJournal' \in Journals /\ contractJournal'.state = "committed"
      BY <1>2, <2>1 DEF CommitJournal, Journals
    <2>3. document' = document /\ caller' = NoCaller
      BY <1>2 DEF CommitJournal
    <2>4. ContractTypes'
      BY <1>0, <2>2, <2>3 DEF ContractTypes, ContractCallers
    <2>5. Applying'
      BY <2>3 DEF Applying, NoCaller
    <2>6. QED BY <1>0, <2>2, <2>3, <2>4, <2>5
              DEF KeptReceipts, Receipted, Receipt, ContractsHold, DispatchedAgrees,
                  ContractRecoverable
  <1>3. CASE CrashCaller
    <2>1. document' = document /\ caller' = NoCaller /\ contractJournal' = contractJournal
      BY <1>3 DEF CrashCaller
    <2>2. ContractTypes'
      BY <1>0, <2>1 DEF ContractTypes, ContractCallers
    <2>3. Applying'
      BY <2>1 DEF Applying, NoCaller
    <2>4. QED BY <1>0, <2>1, <2>2, <2>3
              DEF KeptReceipts, Receipted, Receipt, ContractsHold, DispatchedAgrees,
                  ContractRecoverable
  <1>4. QED BY <1>1, <1>2, <1>3

\* A check reads without the lock, and a launch rests on what it read.
LEMMA CheckKeeps == ASSUME ContractsIInv, ReadTasks \/ ReadAssociation \/ Dispatch PROVE ContractsIInv'
  <1> USE DEF ContractsIInv
  <1>0. /\ document' = document /\ contractJournal' = contractJournal /\ agreed' = agreed
        /\ producer' = producer /\ consumer' = consumer /\ asked' = asked /\ caller' = caller
    BY DEF ReadTasks, ReadAssociation, Dispatch
  <1>1. Applying' /\ ContractRecoverable'
    BY <1>0 DEF Applying, ContractsHold, ContractRecoverable
  <1>2. /\ check' \in ContractChecks
        /\ check' # NoCheck => Receipted(check'.seen)
    <2>1. CASE ReadTasks
      <3>1. check.step # "none" => check.seen \in Associations /\ Receipted(check.seen)
        BY DEF ContractTypes, ContractChecks, NoCheck, KeptReceipts
      <3>2. producer.text \in ContractDigests /\ consumer \in Nat
        BY DEF ContractTypes, ContractDigests
      <3>3. QED BY <2>1, <3>1, <3>2, NoAssociationType DEF ReadTasks, ContractChecks
    <2>2. CASE ReadAssociation
      <3>1. check.step # "none" => check.text \in ContractDigests /\ check.at \in Nat
        BY DEF ContractTypes, ContractChecks, NoCheck
      <3>2. Unwritten \in ContractDigests
        BY DEF ContractDigests
      <3>3. document \in Associations /\ Receipted(document)
        BY DEF ContractTypes, KeptReceipts
      <3>4. QED BY <2>2, <3>1, <3>2, <3>3 DEF ReadAssociation, ContractChecks
    <2>3. CASE Dispatch
      BY <2>3 DEF Dispatch, ContractChecks
    <2>4. QED BY <2>1, <2>2, <2>3
  <1>3. ContractTypes'
    BY <1>0, <1>2 DEF ContractTypes
  <1>4. KeptReceipts'
    BY <1>0, <1>2 DEF KeptReceipts, Receipted, Receipt
  <1>5. DispatchedAgrees'
    <2>1. CASE Dispatch
      <3>1. check # NoCheck
        BY <2>1 DEF Dispatch, NoCheck
      <3>2. Fresh(check.seen, check.text, check.at)
              => [text |-> check.text, at |-> check.at] \in agreed
        BY <3>1 DEF Fresh, KeptReceipts, Receipted, Receipt
      <3>3. QED BY <1>0, <2>1, <3>2 DEF Dispatch, ContractsHold, DispatchedAgrees
    <2>2. CASE ~Dispatch
      BY <1>0, <2>2 DEF ReadTasks, ReadAssociation, ContractsHold, DispatchedAgrees
    <2>3. QED BY <2>1, <2>2
  <1>6. QED BY <1>1, <1>3, <1>4, <1>5 DEF ContractsHold

LEMMA ContractsStep == ContractsIInv /\ [ContractsNext]_contractVars => ContractsIInv'
  <1> SUFFICES ASSUME ContractsIInv, [ContractsNext]_contractVars PROVE ContractsIInv'
    OBVIOUS
  <1>1. CASE TaskMoves \/ \E r \in Requests : Send(r)
    BY <1>1, OutsideKeeps
  <1>2. CASE RecoverContracts
    BY <1>2, RecoverKeeps
  <1>3. CASE ApplyRequest
    BY <1>3, ApplyKeeps
  <1>4. CASE WriteDocument \/ CommitJournal \/ CrashCaller
    BY <1>4, WriteKeeps
  <1>5. CASE ReadTasks \/ ReadAssociation \/ Dispatch
    BY <1>5, CheckKeeps
  <1>6. CASE UNCHANGED contractVars
    BY <1>6 DEF contractVars, ContractsIInv, ContractTypes, Applying, KeptReceipts, Receipted,
                Receipt,
                ContractsHold, DispatchedAgrees, ContractRecoverable
  <1>7. QED BY <1>1, <1>2, <1>3, <1>4, <1>5, <1>6 DEF ContractsNext

\* For any number of requests, contents, moves and crashes: nobody is launched for a consumer but
\* on a content that it had received as accepted at that revision, and whoever comes after a crash
\* finds a document that the journal describes (acknowledgeContractReceipt, contractFreshness,
\* recover).
THEOREM ContractsAlwaysHold == ContractsSpec => []ContractsHold
  <1>1. ContractsIInv => ContractsHold
    BY DEF ContractsIInv
  <1>2. QED BY <1>1, ContractsInitial, ContractsStep, PTL DEF ContractsSpec

LEMMA ContractTypesKept == ContractsIInv => ContractsTypeOK
  BY DEF ContractsIInv, ContractTypes, Associations, ContractDigests, Journals, ContractsTypeOK

HIDE ContractsAssumption

-----------------------------------------------------------------------------
DecisionTypes == decision \in DecisionRecords \union {NoDecision}
DecisionCallTypes ==
  /\ DOMAIN call = Askers
  /\ \A c \in Askers : call[c] # NoDecision => call[c].request \in DecisionRequests

\* Every request that was answered is on the ledger of the record, under an ID of its own.
Ledger ==
  IF Exists THEN accepted \subseteq decision.events /\ \A e, f \in decision.events : e.id = f.id => e = f
  ELSE accepted = {}

\* A revision names what it shows: an approval under way that expects the revision on record was
\* prepared by somebody who had read what the record holds.
RevisionsName ==
  \A c \in Askers :
    call[c] # NoDecision /\ call[c].request.op = "approve" =>
      /\ Exists /\ call[c].request.expected <= decision.revision
      /\ call[c].request.expected = decision.revision
           => call[c].view = [digest |-> decision.digest, text |-> decision.text]

DecisionsIInv == DecisionTypes /\ DecisionCallTypes /\ Ledger /\ RevisionsName /\ ApprovedAsSeen

-----------------------------------------------------------------------------
USE DecisionsAssumption

\* What a request makes of the record: it is on the ledger, and a record that changes has the
\* next revision; only an approval, of what is on record, makes it approved.
DecidedWell(q, r) ==
  /\ r \in DecisionRecords
  /\ r.events = (IF Exists THEN decision.events ELSE {}) \union {q}
  /\ q.op = "approve" => Exists /\ CurrentRevision(q)
  /\ ~Exists => r.revision = 1
  /\ Exists =>
       \/ r.revision = decision.revision + 1
       \/ /\ r.revision = decision.revision /\ r.digest = decision.digest /\ r.text = decision.text
  /\ r.status = "approved" =>
       /\ Exists /\ r.digest = decision.digest /\ r.text = decision.text
       /\ q.op = "approve" \/ decision.status = "approved"

LEMMA Seen ==
  ASSUME DecisionTypes, NEW q \in DecisionRequests, Exists, q.op = "approve" => CurrentRevision(q),
         q.op = "approve" \/ decision.status = "approved"
  PROVE  DecidedWell(q, SeenEvent(q))
  <1>1. decision \in DecisionRecords
    BY DEF DecisionTypes, Exists
  <1>2. SeenEvent(q) = [decision EXCEPT !.events = decision.events \union {q}]
    BY DEF SeenEvent
  <1>3. QED BY <1>1, <1>2 DEF DecisionRecords, DecidedWell

LEMMA ChangedRecord ==
  ASSUME DecisionTypes, NEW q \in DecisionRequests, Exists
  PROVE  /\ decision \in DecisionRecords /\ Changed(q) \in DecisionRecords
         /\ Changed(q).events = decision.events \union {q}
         /\ Changed(q).revision = decision.revision + 1
         /\ Changed(q).status = decision.status /\ Changed(q).digest = decision.digest
         /\ Changed(q).text = decision.text
  <1>1. decision \in DecisionRecords
    BY DEF DecisionTypes, Exists
  <1>2. decision.revision + 1 \in Nat /\ decision.events \union {q} \in SUBSET DecisionRequests
    BY <1>1 DEF DecisionRecords
  <1>3. Changed(q) = [decision EXCEPT !.events = decision.events \union {q},
                                      !.revision = decision.revision + 1]
    BY DEF Changed
  <1>4. PICK n \in Nat, ledgered \in SUBSET DecisionRequests :
          /\ n = decision.revision + 1 /\ ledgered = decision.events \union {q}
          /\ Changed(q) = [decision EXCEPT !.events = ledgered, !.revision = n]
    BY <1>2, <1>3
  <1>5. QED BY <1>1, <1>4 DEF DecisionRecords

\* The parts of a request.
LEMMA RequestFields ==
  ASSUME NEW q \in DecisionRequests
  PROVE  q.digest \in Digests /\ q.text \in Statements \union {Unused}
  BY DEF DecisionRequests

LEMMA PresentedWell ==
  ASSUME DecisionTypes, NEW q \in DecisionRequests, q.op = "present"
  PROVE  DecidedWell(q, Presented(q))
  <1>1. CASE ~Exists
    <2>1. FirstPresented(q) \in DecisionRecords
      BY DEF FirstPresented, DecisionRecords, DecisionRequests
    <2>2. Presented(q) = FirstPresented(q) /\ FirstPresented(q).events = {q}
          /\ FirstPresented(q).status = "pending" /\ FirstPresented(q).revision = 1
      BY <1>1 DEF Presented, FirstPresented
    <2>3. QED BY <1>1, <2>1, <2>2 DEF DecidedWell
  <1>2. CASE Exists /\ decision.digest # q.digest
    <2> DEFINE r == [Changed(q) EXCEPT !.status = "pending", !.digest = q.digest, !.text = q.text,
                                       !.approval = NoDecision, !.started = FALSE]
    <2>1. Presented(q) = r
      BY <1>2 DEF Presented
    <2>2. r \in DecisionRecords /\ r.events = Changed(q).events /\ r.revision = Changed(q).revision
          /\ r.status = "pending"
      <3>1. PICK changed \in DecisionRecords, digest \in Digests, text \in Statements \union {Unused} :
              /\ changed = Changed(q)
              /\ r = [changed EXCEPT !.status = "pending", !.digest = digest, !.text = text,
                                     !.approval = NoDecision, !.started = FALSE]
        BY <1>2, ChangedRecord, RequestFields
      <3>2. QED BY <3>1 DEF DecisionRecords
    <2> HIDE DEF r
    <2>3. QED BY <1>2, <2>1, <2>2, ChangedRecord DEF DecidedWell
  <1>3. CASE Exists /\ decision.digest = q.digest
             /\ (decision.status = "approved" \/ decision.text = q.text)
    <2>1. Presented(q) = SeenEvent(q)
      BY <1>3 DEF Presented
    <2>2. decision \in DecisionRecords
      BY <1>3 DEF DecisionTypes, Exists
    <2>3. SeenEvent(q) = [decision EXCEPT !.events = decision.events \union {q}]
      BY DEF SeenEvent
    <2>4. QED BY <1>3, <2>1, <2>2, <2>3 DEF DecidedWell, DecisionRecords
  <1>4. CASE Exists /\ decision.digest = q.digest
             /\ ~(decision.status = "approved" \/ decision.text = q.text)
    <2> DEFINE r == [Changed(q) EXCEPT !.text = q.text]
    <2>1. Presented(q) = r
      BY <1>4 DEF Presented
    <2>2. r \in DecisionRecords /\ r.events = Changed(q).events /\ r.revision = Changed(q).revision
          /\ r.status = decision.status
      BY <1>4, ChangedRecord DEF DecisionRecords, DecisionRequests
    <2> HIDE DEF r
    <2>3. QED BY <1>4, <2>1, <2>2, ChangedRecord DEF DecidedWell
  <1>5. QED BY <1>1, <1>2, <1>3, <1>4

LEMMA DecidedIsWell ==
  ASSUME DecisionTypes, NEW q \in DecisionRequests, Permitted(q), ValidDecision(Decided(q))
  PROVE  DecidedWell(q, Decided(q))
  <1>1. CASE q.op = "present"
    BY <1>1, PresentedWell DEF Decided
  <1>2. CASE q.op = "approve"
    <2>1. Exists /\ CurrentRevision(q) /\ Decided(q) = Approved(q)
      BY <1>2 DEF Permitted, Approvable, Decided
    <2>2. CASE decision.approval = q.text
      <3>1. Decided(q) = SeenEvent(q)
        BY <2>1, <2>2 DEF Approved
      <3>2. QED BY <1>2, <2>1, <3>1, Seen
    <2>3. CASE decision.approval # q.text
      <3> DEFINE r == [Changed(q) EXCEPT !.status = "approved", !.approval = q.text, !.started = FALSE]
      <3>1. Decided(q) = r
        BY <2>1, <2>3 DEF Approved
      <3>2. r \in DecisionRecords /\ r.events = Changed(q).events /\ r.revision = Changed(q).revision
            /\ r.digest = decision.digest /\ r.text = decision.text
        <4>1. /\ Changed(q) \in DecisionRecords /\ Changed(q).digest = decision.digest
              /\ Changed(q).text = decision.text
          BY <2>1, ChangedRecord
        <4>2. r \in DecisionRecords
          BY <4>1 DEF DecisionRecords, DecisionRequests, Unused
        <4>3. QED BY <4>1, <4>2 DEF DecisionRecords
      <3> HIDE DEF r
      <3>3. QED BY <1>2, <2>1, <3>1, <3>2, ChangedRecord DEF DecidedWell
    <2>4. QED BY <2>2, <2>3
  <1>3. CASE q.op = "notes"
    <2> DEFINE r == [Changed(q) EXCEPT
                       !.status = IF kind = "spec" THEN "pending" ELSE "changes-requested",
                       !.approval = NoDecision, !.digest = q.digest, !.started = FALSE]
    <2>1. Exists /\ Decided(q) = r
      BY <1>3 DEF Permitted, Notable, Decided, Noted
    <2>2. r \in DecisionRecords /\ r.events = Changed(q).events /\ r.revision = Changed(q).revision
          /\ r.status # "approved"
      <3>1. PICK changed \in DecisionRecords, status \in {"pending", "changes-requested"},
                 digest \in Digests :
              /\ changed = Changed(q)
              /\ r = [changed EXCEPT !.status = status, !.approval = NoDecision, !.digest = digest,
                                     !.started = FALSE]
        BY <2>1, ChangedRecord, RequestFields
      <3>2. QED BY <3>1 DEF DecisionRecords
    <2> HIDE DEF r
    <2>3. QED BY <1>3, <2>1, <2>2, ChangedRecord DEF DecidedWell
  <1>4. CASE q.op = "defer"
    <2>1. Exists /\ Decided(q) = Changed(q)
      BY <1>4 DEF Permitted, Deferrable, Decided
    <2>2. QED BY <1>4, <2>1, ChangedRecord DEF DecidedWell
  <1>5. CASE q.op = "build"
    <2>1. Exists /\ decision.status = "approved" /\ Decided(q) = Started(q)
      BY <1>5 DEF Permitted, Startable, Decided
    <2>2. CASE decision.started
      BY <1>5, <2>1, <2>2, Seen DEF Started
    <2>3. CASE ~decision.started
      <3> DEFINE r == [Changed(q) EXCEPT !.started = TRUE]
      <3>1. Decided(q) = r
        BY <2>1, <2>3 DEF Started
      <3>2. r \in DecisionRecords /\ r.events = Changed(q).events /\ r.revision = Changed(q).revision
            /\ r.digest = decision.digest /\ r.text = decision.text
        BY <2>1, ChangedRecord DEF DecisionRecords
      <3> HIDE DEF r
      <3>3. QED BY <1>5, <2>1, <3>1, <3>2, ChangedRecord DEF DecidedWell
    <2>4. QED BY <2>2, <2>3
  <1>6. QED BY <1>1, <1>2, <1>3, <1>4, <1>5 DEF Permitted

LEMMA PrepareKeeps ==
  ASSUME DecisionsIInv, NEW c \in Askers, Prepare(c)
  PROVE  DecisionsIInv'
  <1>1. PICK op \in Offered(c), id \in 1..MaxCalls, digest \in Digests,
             text \in Statements \union {Unused} :
          /\ op \notin {"present", "notes"} => Exists /\ digest = decision.digest
          /\ call' = [call EXCEPT ![c] =
               [request |-> [op |-> op, id |-> id, digest |-> digest, text |-> text,
                             expected |-> IF Exists /\ op # "present" THEN decision.revision ELSE 1],
                view |-> IF Exists THEN [digest |-> decision.digest, text |-> decision.text]
                         ELSE NoDecision]]
    BY DEF Prepare
  <1> DEFINE q == [op |-> op, id |-> id, digest |-> digest, text |-> text,
                   expected |-> IF Exists /\ op # "present" THEN decision.revision ELSE 1]
             view == IF Exists THEN [digest |-> decision.digest, text |-> decision.text] ELSE NoDecision
  <1>2. UNCHANGED <<decision, accepted, approvedView>>
    BY DEF Prepare
  <1>3. (Exists => decision.revision \in Nat) /\ DOMAIN call = Askers
    BY DEF DecisionsIInv, DecisionTypes, DecisionCallTypes, DecisionRecords, Exists
  <1>4. op \in {"present", "build", "approve", "notes", "defer"}
    BY DEF Offered
  <1>5. q \in DecisionRequests
    BY <1>3, <1>4 DEF DecisionRequests
  <1>6. /\ DOMAIN call' = Askers
        /\ \A d \in Askers : call'[d] = IF d = c THEN [request |-> q, view |-> view] ELSE call[d]
    BY <1>1, <1>3
  <1>7. DecisionCallTypes'
    BY <1>5, <1>6 DEF DecisionsIInv, DecisionCallTypes
  <1>8. op = "approve" => Exists /\ q.expected = decision.revision
                          /\ view = [digest |-> decision.digest, text |-> decision.text]
    BY <1>1
  <1>9. q.op = op
    OBVIOUS
  <1> HIDE DEF q, view
  <1>10. RevisionsName'
    <2>1. ASSUME NEW d \in Askers, call'[d] # NoDecision, call'[d].request.op = "approve"
          PROVE  /\ Exists /\ call'[d].request.expected <= decision.revision
                 /\ call'[d].request.expected = decision.revision
                      => call'[d].view = [digest |-> decision.digest, text |-> decision.text]
      <3>1. CASE d = c
        BY <1>3, <1>6, <1>8, <1>9, <2>1, <3>1
      <3>2. CASE d # c
        BY <1>6, <2>1, <3>2 DEF DecisionsIInv, RevisionsName
      <3>3. QED BY <3>1, <3>2
    <2>2. QED BY <1>2, <2>1 DEF RevisionsName, Exists
  <1>11. DecisionTypes' /\ Ledger' /\ ApprovedAsSeen'
    BY <1>2 DEF DecisionsIInv, DecisionTypes, Ledger, ApprovedAsSeen, Exists
  <1>12. QED BY <1>7, <1>10, <1>11 DEF DecisionsIInv

LEMMA DeliverKeeps ==
  ASSUME DecisionsIInv, NEW c \in Askers, Deliver(c)
  PROVE  DecisionsIInv'
  <1>0. DecisionTypes /\ DecisionCallTypes /\ Ledger /\ RevisionsName /\ ApprovedAsSeen
    BY DEF DecisionsIInv
  <1>1. PICK q \in DecisionRequests :
          /\ call[c] # NoDecision /\ q = call[c].request /\ ~Conflicts(q)
          /\ HasEvent(q) \/ (Permitted(q) /\ ValidDecision(Decided(q)))
          /\ decision' = IF HasEvent(q) THEN decision ELSE Decided(q)
          /\ accepted' = accepted \union {q}
          /\ approvedView' = IF q.op = "approve" /\ ~HasEvent(q) THEN call[c].view ELSE approvedView
          /\ call' = call
    BY <1>0 DEF Deliver, DecisionCallTypes
  <1>2. DecisionCallTypes'
    BY <1>0, <1>1 DEF DecisionCallTypes
  <1>3. CASE HasEvent(q)
    <2>1. decision' = decision /\ approvedView' = approvedView /\ Exists /\ q \in decision.events
      BY <1>1, <1>3 DEF HasEvent
    <2>2. QED
      BY <1>0, <1>1, <1>2, <2>1
      DEF DecisionsIInv, DecisionTypes, Ledger, RevisionsName, ApprovedAsSeen, Exists
  <1>4. CASE ~HasEvent(q)
    <2>1. decision' = Decided(q) /\ DecidedWell(q, Decided(q)) /\ ValidDecision(Decided(q))
      BY <1>0, <1>1, <1>4, DecidedIsWell
    <2>2. decision' \in DecisionRecords /\ decision' # NoDecision
      BY <2>1 DEF DecidedWell
    <2>3. DecisionTypes' /\ Exists'
      BY <2>2 DEF DecisionTypes, Exists
    <2>4. Ledger'
      BY <1>0, <1>1, <2>1, <2>3 DEF Ledger, DecidedWell, ValidDecision
    <2>5. Exists => decision.revision \in Nat
      BY <1>0 DEF DecisionTypes, DecisionRecords, Exists
    <2>6. \A d \in Askers : call[d] # NoDecision => call[d].request.expected \in Nat
      BY <1>0 DEF DecisionCallTypes, DecisionRequests
    <2>7. RevisionsName'
      <3>1. Exists => decision'.revision \in {decision.revision, decision.revision + 1}
                      /\ (decision'.revision = decision.revision =>
                            decision'.digest = decision.digest /\ decision'.text = decision.text)
        BY <2>1, <2>5 DEF DecidedWell
      <3>2. QED BY <1>0, <1>1, <2>3, <2>5, <2>6, <3>1 DEF RevisionsName
    <2>8. ApprovedAsSeen'
      <3>1. SUFFICES ASSUME decision'.status = "approved"
                     PROVE  approvedView' = [digest |-> decision'.digest, text |-> decision'.text]
        BY DEF ApprovedAsSeen
      <3>2. Exists /\ decision'.digest = decision.digest /\ decision'.text = decision.text
            /\ (q.op = "approve" \/ decision.status = "approved")
        BY <2>1, <3>1 DEF DecidedWell
      <3>3. CASE q.op = "approve"
        <4>1. q.expected = decision.revision
          BY <2>1, <3>3 DEF DecidedWell, CurrentRevision
        <4>2. QED BY <1>0, <1>1, <1>4, <3>2, <3>3, <4>1 DEF RevisionsName
      <3>4. CASE q.op # "approve"
        BY <1>0, <1>1, <3>2, <3>4 DEF ApprovedAsSeen
      <3>5. QED BY <3>3, <3>4
    <2>9. QED BY <1>2, <2>3, <2>4, <2>7, <2>8 DEF DecisionsIInv
  <1>5. QED BY <1>3, <1>4

LEMMA GiveUpKeeps ==
  ASSUME DecisionsIInv, NEW c \in Askers, GiveUp(c)
  PROVE  DecisionsIInv'
  <1>1. /\ DOMAIN call' = DOMAIN call
        /\ \A d \in DOMAIN call : call'[d] = IF d = c THEN NoDecision ELSE call[d]
        /\ UNCHANGED <<decision, accepted, approvedView>>
    BY DEF GiveUp
  <1>2. QED
    BY <1>1 DEF DecisionsIInv, DecisionTypes, DecisionCallTypes, Ledger, RevisionsName,
                ApprovedAsSeen,
       Exists

LEMMA DecisionsInitial == DecisionsInit => DecisionsIInv
  BY DEF DecisionsInit, DecisionsIInv, DecisionTypes, DecisionCallTypes, Ledger, RevisionsName,
     ApprovedAsSeen, Exists

LEMMA DecisionsStep == DecisionsIInv /\ [DecisionsNext]_decisionVars => DecisionsIInv'
  <1> SUFFICES ASSUME DecisionsIInv, [DecisionsNext]_decisionVars PROVE DecisionsIInv'
    OBVIOUS
  <1>1. CASE UNCHANGED decisionVars
    BY <1>1 DEF decisionVars, DecisionsIInv, DecisionTypes, DecisionCallTypes, Ledger,
                RevisionsName,
       ApprovedAsSeen, Exists
  <1>2. CASE DecisionsNext
    BY <1>2, PrepareKeeps, DeliverKeeps, GiveUpKeeps DEF DecisionsNext
  <1>3. QED BY <1>1, <1>2

\* The inductive invariant, for any requests, retries and mistaken identifiers (spec-decision-
\* service.ts, result-decision-service.ts).
THEOREM DecisionsInvariant == DecisionsSpec => []DecisionsIInv
  BY DecisionsInitial, DecisionsStep, PTL DEF DecisionsSpec

\* However calls are repeated, delayed and mixed up: what is approved is what the approver was
\* shown, and a mutation ID is answered for one request only (upsertSpecDecision,
\* upsertResultDecision).
THEOREM DecisionsStandAlways == DecisionsSpec => []DecisionsStand
  <1>1. DecisionsIInv => DecisionsStand
    BY DEF DecisionsIInv, DecisionsStand, Ledger, OneRequestPerId
  <1>2. QED BY <1>1, DecisionsInvariant, PTL

\* What is on record is valid, and has not more revisions than requests on its ledger, each of
\* which used up a mutation ID.
DecisionCounts ==
  /\ issued \in 0..MaxCalls
  /\ \A c \in Askers : call[c] # NoDecision => call[c].request.id \in 1..issued
  /\ Exists =>
       /\ ValidDecision(decision) /\ IsFiniteSet(decision.events)
       /\ \A e \in decision.events : e.id \in 1..issued
       /\ decision.revision \in 1..Cardinality(decision.events)

LEMMA PrepareCounts ==
  ASSUME DecisionsIInv, DecisionCounts, NEW c \in Askers, Prepare(c)
  PROVE  DecisionCounts'
  <1>1. PICK id, sought, view :
          /\ id \in 1..MaxCalls /\ id <= issued + 1 /\ issued' = (IF id > issued THEN id ELSE issued)
          /\ sought.id = id /\ call' = [call EXCEPT ![c] = [request |-> sought, view |-> view]]
    <2>1. PICK op \in Offered(c), id \in 1..MaxCalls, digest \in Digests,
               text \in Statements \union {Unused} :
            /\ id <= issued + 1 /\ issued' = (IF id > issued THEN id ELSE issued)
            /\ call' = [call EXCEPT ![c] =
                 [request |-> [op |-> op, id |-> id, digest |-> digest, text |-> text,
                               expected |-> IF Exists /\ op # "present" THEN decision.revision ELSE 1],
                  view |-> IF Exists THEN [digest |-> decision.digest, text |-> decision.text]
                           ELSE NoDecision]]
      BY DEF Prepare
    <2> DEFINE sought == [op |-> op, id |-> id, digest |-> digest, text |-> text,
                         expected |-> IF Exists /\ op # "present" THEN decision.revision ELSE 1]
               view  == IF Exists THEN [digest |-> decision.digest, text |-> decision.text]
                        ELSE NoDecision
    <2>2. sought.id = id /\ call' = [call EXCEPT ![c] = [request |-> sought, view |-> view]]
      BY <2>1
    <2> HIDE DEF sought, view
    <2>3. QED BY <2>1, <2>2
  <1>2. UNCHANGED <<kind, decision>> /\ DOMAIN call = Askers
    BY DEF Prepare, DecisionsIInv, DecisionCallTypes
  <1>3. /\ issued' \in 0..MaxCalls /\ issued <= issued' /\ issued \in Nat /\ id \in 1..issued'
    BY <1>1 DEF DecisionCounts
  <1>4. \A d \in Askers : call'[d] # NoDecision => call'[d].request.id \in 1..issued'
    <2>1. \A d \in Askers :
            call'[d] = IF d = c THEN [request |-> sought, view |-> view] ELSE call[d]
      BY <1>1, <1>2
    <2>2. \A d \in Askers : d # c /\ call[d] # NoDecision => call[d].request.id \in 1..issued'
      BY <1>3 DEF DecisionCounts
    <2>3. QED BY <1>1, <1>3, <2>1, <2>2
  <1>5. Exists => \A e \in decision.events : e.id \in 1..issued'
    BY <1>3 DEF DecisionCounts
  <1>6. Exists' <=> Exists
    BY <1>2 DEF Exists
  <1>7. Exists => ValidDecision(decision)'
    BY <1>2 DEF DecisionCounts, ValidDecision, Statuses
  <1>8. QED BY <1>2, <1>3, <1>4, <1>5, <1>6, <1>7 DEF DecisionCounts

LEMMA DeliverCounts ==
  ASSUME DecisionsIInv, DecisionCounts, NEW c \in Askers, Deliver(c)
  PROVE  DecisionCounts'
  <1>0. DecisionTypes /\ DecisionCallTypes
    BY DEF DecisionsIInv
  <1>1. PICK q \in DecisionRequests :
          /\ call[c] # NoDecision /\ q = call[c].request
          /\ HasEvent(q) \/ (Permitted(q) /\ ValidDecision(Decided(q)))
          /\ decision' = IF HasEvent(q) THEN decision ELSE Decided(q)
          /\ UNCHANGED <<kind, call, issued>>
    BY <1>0 DEF Deliver, DecisionCallTypes
  <1>2. CASE HasEvent(q)
    BY <1>1, <1>2 DEF DecisionCounts, Exists, ValidDecision, Statuses
  <1>3. CASE ~HasEvent(q)
    <2> DEFINE before == IF Exists THEN decision.events ELSE {}
    <2>1. decision' = Decided(q) /\ DecidedWell(q, Decided(q)) /\ ValidDecision(Decided(q))
      BY <1>0, <1>1, <1>3, DecidedIsWell
    <2>2. decision'.events = before \union {q} /\ q \notin before
      BY <1>3, <2>1 DEF DecidedWell, HasEvent
    <2>3. IsFiniteSet(before) /\ Cardinality(before) \in Nat
      BY FS_EmptySet, FS_CardinalityType DEF DecisionCounts
    <2>4. /\ IsFiniteSet(before \union {q})
          /\ Cardinality(before \union {q}) = Cardinality(before) + 1
      <3> HIDE DEF before
      <3>1. QED BY <2>2, <2>3, FS_AddElement
    <2>5. \/ ~Exists /\ decision'.revision = 1
          \/ Exists /\ decision'.revision \in {decision.revision, decision.revision + 1}
                    /\ decision.revision \in 1..Cardinality(before)
      BY <2>1 DEF DecidedWell, DecisionCounts
    <2>6. decision'.revision \in 1..(Cardinality(before) + 1)
      <3> HIDE DEF before
      <3>1. QED BY <2>3, <2>5
    <2>7. \A e \in before \union {q} : e.id \in 1..issued
      BY <1>1 DEF DecisionCounts
    <2>8. ValidDecision(decision)'
      BY <1>1, <2>1 DEF ValidDecision, Statuses
    <2> HIDE DEF before
    <2>9. QED BY <1>1, <2>2, <2>4, <2>6, <2>7, <2>8 DEF DecisionCounts
  <1>4. QED BY <1>2, <1>3

LEMMA GiveUpCounts ==
  ASSUME DecisionsIInv, DecisionCounts, NEW c \in Askers, GiveUp(c)
  PROVE  DecisionCounts'
  <1>1. /\ UNCHANGED <<kind, decision, issued>>
        /\ \A d \in Askers : call'[d] = IF d = c THEN NoDecision ELSE call[d]
    BY DEF GiveUp, DecisionsIInv, DecisionCallTypes
  <1>2. QED BY <1>1 DEF DecisionCounts, Exists, ValidDecision, Statuses

\* The invariant and what is counted.
DecisionsKeep == DecisionsIInv /\ DecisionCounts

LEMMA DecisionsKeepInitial == DecisionsInit => DecisionsKeep
  BY DecisionsInitial DEF DecisionsInit, DecisionsKeep, DecisionCounts, Exists

LEMMA DecisionsKeepStep == DecisionsKeep /\ [DecisionsNext]_decisionVars => DecisionsKeep'
  <1>1. DecisionsKeep /\ UNCHANGED decisionVars => DecisionCounts'
    BY DEF DecisionsKeep, decisionVars, DecisionCounts, Exists, ValidDecision, Statuses
  <1>2. DecisionsKeep /\ DecisionsNext => DecisionCounts'
    BY PrepareCounts, DeliverCounts, GiveUpCounts DEF DecisionsNext, DecisionsKeep
  <1>3. QED BY <1>1, <1>2, DecisionsStep DEF DecisionsKeep

LEMMA DecisionTypesKept == DecisionsKeep => DecisionsTypeOK
  <1> SUFFICES ASSUME DecisionsKeep PROVE DecisionsTypeOK
    OBVIOUS
  <1>1. ASSUME Exists PROVE decision.revision \in 1..MaxCalls
    <2> DEFINE ledgered == decision.events
               idOf == [e \in ledgered |-> e.id]
    <2>1. /\ ValidDecision(decision) /\ issued \in 0..MaxCalls
          /\ \A e \in ledgered : e.id \in 1..issued
          /\ decision.revision \in 1..Cardinality(ledgered)
      BY <1>1 DEF DecisionsKeep, DecisionCounts
    <2>2. idOf \in Injection(ledgered, 1..issued)
      BY <2>1 DEF Injection, IsInjective, ValidDecision
    <2>3. IsFiniteSet(1..issued) /\ Cardinality(1..issued) = issued
      BY <2>1, FS_Interval
    <2>4. IsFiniteSet(ledgered) /\ Cardinality(ledgered) <= issued
      <3> HIDE DEF ledgered, idOf
      <3>1. QED BY <2>2, <2>3, FS_Injection
    <2>5. Cardinality(ledgered) \in Nat
      BY <2>4, FS_CardinalityType
    <2>6. QED BY <2>1, <2>4, <2>5
  <1>2. QED BY <1>1 DEF DecisionsKeep, DecisionCounts, DecisionsTypeOK

HIDE DecisionsAssumption

-----------------------------------------------------------------------------
ImportRecords == [entry : Entries, digest : Contents, superseded : BOOLEAN]
Registrations == [entry : Entries, digest : Contents, record : Nat,
                  status : {"registered", "detached"}]
Registerings == [step : {"create", "record", "associate", "revise", "rebind"}, entry : Entries,
                 digest : Contents, record : Nat]

ImportTypes ==
  /\ artifact \in [Entries -> Contents \union {Absent}]
  /\ previewed \in [Entries -> Contents \union {Absent}]
  /\ tasks \in 0..MaxTasks /\ events \in 0..MaxEvents
  /\ imports \in Seq(ImportRecords)
  /\ associations \in Seq(Registrations)
  /\ registering \in {NotRegistering} \union Registerings

\* At most one record of an entry stands, and at most one association.
OneLive ==
  \A i, j \in DOMAIN imports :
    imports[i].entry = imports[j].entry /\ i # j => imports[i].superseded \/ imports[j].superseded
OneRegistered ==
  \A a, b \in DOMAIN associations :
    associations[a].entry = associations[b].entry
      /\ associations[a].status = "registered" /\ associations[b].status = "registered" => a = b

\* A record belongs to the entry that it is named for.
RecordOf(r, e) == r \in DOMAIN imports /\ imports[r].entry = e
AssociatedIsRecorded ==
  \A a \in DOMAIN associations : RecordOf(associations[a].record, associations[a].entry)

\* What the registration in progress may rely on, since it has the project to itself: a new
\* entry has no record that stands and no association, whatever a person does meanwhile.
RegisteringKnows ==
  /\ registering.step \in {"create", "record"} =>
       \A i \in DOMAIN imports :
         imports[i].entry = registering.entry => imports[i].superseded
  /\ registering.step \in {"create", "record", "associate"} =>
       \A a \in DOMAIN associations :
         associations[a].entry = registering.entry => associations[a].status # "registered"
  /\ registering.step \in {"associate", "revise", "rebind"} =>
       RecordOf(registering.record, registering.entry)

SpecImportsIInv ==
  ImportTypes /\ OneLive /\ OneRegistered /\ AssociatedIsRecorded /\ RegisteringKnows

-----------------------------------------------------------------------------
USE SpecImportsAssumption

\* What is appended comes last, and the rest stays.
LEMMA Appended ==
  ASSUME NEW S, NEW s \in Seq(S), NEW x \in S
  PROVE  /\ Append(s, x) \in Seq(S)
         /\ Len(s) \in Nat /\ DOMAIN s = 1..Len(s)
         /\ DOMAIN Append(s, x) = 1..(Len(s) + 1)
         /\ \A i \in 1..Len(s) : Append(s, x)[i] = s[i]
         /\ Append(s, x)[Len(s) + 1] = x
  OBVIOUS

\* What is replaced is in its place, and the rest stays.
LEMMA Replaced ==
  ASSUME NEW S, NEW s \in Seq(S), NEW i \in DOMAIN s, NEW x \in S
  PROVE  /\ [s EXCEPT ![i] = x] \in Seq(S)
         /\ Len([s EXCEPT ![i] = x]) = Len(s)
         /\ DOMAIN [s EXCEPT ![i] = x] = DOMAIN s
         /\ [s EXCEPT ![i] = x][i] = x
         /\ \A j \in DOMAIN s : j # i => [s EXCEPT ![i] = x][j] = s[j]
  OBVIOUS

\* The invariant holds before the first registration.
LEMMA SpecImportsInitial == SpecImportsInit => SpecImportsIInv
  <1> SUFFICES ASSUME SpecImportsInit PROVE SpecImportsIInv
    OBVIOUS
  <1> USE DEF SpecImportsInit
  <1>1. artifact \in [Entries -> Contents \union {Absent}]
        /\ previewed \in [Entries -> Contents \union {Absent}]
    OBVIOUS
  <1>2. imports = <<>> /\ associations = <<>> /\ registering = NotRegistering
    OBVIOUS
  <1>3. imports \in Seq(ImportRecords) /\ associations \in Seq(Registrations)
    BY <1>2
  <1>4. ImportTypes
    BY <1>1, <1>3 DEF ImportTypes
  <1>5. DOMAIN imports = {} /\ DOMAIN associations = {}
    BY <1>2
  <1>6. OneLive /\ OneRegistered /\ AssociatedIsRecorded
    BY <1>5 DEF OneLive, OneRegistered, AssociatedIsRecorded
  <1>7. RegisteringKnows
    BY DEF RegisteringKnows, NotRegistering
  <1>8. QED BY <1>4, <1>6, <1>7 DEF SpecImportsIInv

\* A step that leaves both stores as they are keeps what is said of them.
LEMMA StoresAreKept ==
  ASSUME SpecImportsIInv, UNCHANGED <<imports, associations>>
  PROVE  OneLive' /\ OneRegistered' /\ AssociatedIsRecorded'
  BY DEF SpecImportsIInv, OneLive, OneRegistered, AssociatedIsRecorded, RecordOf

\* A registration that ends.
LEMMA EndsKeep ==
  ASSUME SpecImportsIInv, registering' = NotRegistering,
         UNCHANGED <<artifact, previewed, tasks, imports, associations>>, events' \in 0..MaxEvents
  PROVE  SpecImportsIInv'
  <1>1. ImportTypes' /\ RegisteringKnows'
    BY DEF SpecImportsIInv, ImportTypes, RegisteringKnows, NotRegistering
  <1>2. QED BY <1>1, StoresAreKept DEF SpecImportsIInv

\* What does not concern the stores and the registration.
LEMMA AsideKeeps ==
  ASSUME SpecImportsIInv, UNCHANGED <<tasks, imports, associations, registering>>,
         artifact' \in [Entries -> Contents \union {Absent}],
         previewed' \in [Entries -> Contents \union {Absent}], events' \in 0..MaxEvents
  PROVE  SpecImportsIInv'
  <1>1. ImportTypes' /\ RegisteringKnows'
    BY DEF SpecImportsIInv, ImportTypes, RegisteringKnows, RecordOf
  <1>2. QED BY <1>1, StoresAreKept DEF SpecImportsIInv

LEMMA RegisterSpecImportKeeps ==
  ASSUME SpecImportsIInv, NEW e \in Entries, RegisterSpecImport(e)
  PROVE  SpecImportsIInv'
  <1> USE DEF SpecImportsIInv
  <1>0. PICK digest \in Contents : digest = artifact[e]
    BY DEF ImportTypes, RegisterSpecImport
  <1>1. CASE \E a \in Registered(e) :
               registering' = [step |-> "revise", entry |-> e, digest |-> digest,
                               record |-> associations[a].record]
    <2>1. PICK a \in DOMAIN associations :
            /\ associations[a].entry = e
            /\ registering' = [step |-> "revise", entry |-> e, digest |-> digest,
                               record |-> associations[a].record]
      BY <1>1 DEF Registered
    <2>a. associations[a] \in Registrations
      BY DEF ImportTypes
    <2>2. PICK r \in Nat : r = associations[a].record
      BY <2>a DEF Registrations
    <2>3. registering' \in Registerings
      BY <2>1, <2>2 DEF Registerings
    <2>4. RecordOf(r, e)
      BY <2>1, <2>2 DEF AssociatedIsRecorded
    <2>5. RegisteringKnows'
      BY <2>1, <2>2, <2>4 DEF RegisteringKnows, RecordOf, RegisterSpecImport
    <2>6. ImportTypes'
      BY <2>3 DEF ImportTypes, RegisterSpecImport
    <2>7. QED BY <2>5, <2>6, StoresAreKept DEF RegisterSpecImport
  <1>2. CASE /\ Registered(e) = {}
             /\ registering' =
                  IF LiveImports(e) = {}
                  THEN [step |-> "create", entry |-> e, digest |-> digest, record |-> 0]
                  ELSE [step |-> "associate", entry |-> e, digest |-> digest,
                        record |-> CHOOSE i \in LiveImports(e) :
                                     \A j \in LiveImports(e) : i <= j]
    <2>1. \A a \in DOMAIN associations :
            associations[a].entry = e => associations[a].status # "registered"
      BY <1>2 DEF Registered
    <2>2. CASE LiveImports(e) = {}
      <3>1. registering' = [step |-> "create", entry |-> e, digest |-> digest, record |-> 0]
        BY <1>2, <2>2
      <3>2. \A i \in DOMAIN imports : imports[i].entry = e => imports[i].superseded
        BY <2>2 DEF LiveImports
      <3>3. ImportTypes'
        BY <3>1 DEF ImportTypes, Registerings, RegisterSpecImport
      <3>4. RegisteringKnows'
        BY <2>1, <3>1, <3>2 DEF RegisteringKnows, RegisterSpecImport
      <3>5. QED BY <3>3, <3>4, StoresAreKept DEF RegisterSpecImport
    <2>3. CASE LiveImports(e) # {}
      <3>1. PICK i \in LiveImports(e) : TRUE
        BY <2>3
      <3>2. \A j \in LiveImports(e) : j = i
        BY DEF LiveImports, OneLive
      <3>3. i \in Nat /\ RecordOf(i, e)
        BY DEF LiveImports, RecordOf, ImportTypes
      <3>a. LiveImports(e) = {i}
        BY <3>2
      <3>4. LiveImports(e) = {i} /\ i <= i
        BY <3>a, <3>3
      <3>5. (CHOOSE k \in LiveImports(e) : \A j \in LiveImports(e) : k <= j) = i
        BY <3>4
      <3>6. registering' = [step |-> "associate", entry |-> e, digest |-> digest, record |-> i]
        BY <1>2, <2>3, <3>5
      <3>7. ImportTypes'
        BY <3>3, <3>6 DEF ImportTypes, Registerings, RegisterSpecImport
      <3>8. RegisteringKnows'
        BY <2>1, <3>3, <3>6 DEF RegisteringKnows, RecordOf, RegisterSpecImport
      <3>9. QED BY <3>7, <3>8, StoresAreKept DEF RegisterSpecImport
    <2>4. QED BY <2>2, <2>3
  <1>3. QED BY <1>0, <1>1, <1>2 DEF RegisterSpecImport

LEMMA CreateImportTaskKeeps ==
  ASSUME SpecImportsIInv, CreateImportTask
  PROVE  SpecImportsIInv'
  <1> USE DEF SpecImportsIInv, CreateImportTask
  <1>1. PICK g \in Registerings : g = registering
    BY DEF ImportTypes, NotRegistering
  <1>2. registering' \in Registerings /\ registering'.step = "record"
        /\ registering'.entry = g.entry
    BY <1>1 DEF Registerings
  <1>3. ImportTypes'
    BY <1>2 DEF ImportTypes
  <1>4. RegisteringKnows'
    BY <1>1, <1>2 DEF RegisteringKnows
  <1>5. QED BY <1>3, <1>4, StoresAreKept

LEMMA RecordImportKeeps ==
  ASSUME SpecImportsIInv, RecordImport
  PROVE  SpecImportsIInv'
  <1> USE DEF SpecImportsIInv, RecordImport
  <1>1. PICK g \in Registerings : g = registering
    BY DEF ImportTypes, NotRegistering
  <1>2. PICK x \in ImportRecords :
          x = [entry |-> g.entry, digest |-> g.digest, superseded |-> FALSE]
    BY DEF ImportRecords, Registerings
  <1>3. imports' = Append(imports, x) /\ imports \in Seq(ImportRecords)
    BY <1>1, <1>2 DEF ImportTypes
  <1>4. PICK n \in Nat : n = Len(imports)
    BY DEF ImportTypes
  <1>5. /\ imports' \in Seq(ImportRecords) /\ DOMAIN imports = 1..n
        /\ DOMAIN imports' = 1..(n + 1) /\ imports'[n + 1] = x
        /\ \A i \in 1..n : imports'[i] = imports[i]
    BY <1>3, <1>4, Appended
  <1>a. PICK m \in Nat : m = n + 1
    OBVIOUS
  <1>b. registering' = [g EXCEPT !.step = "associate", !.record = m]
    BY <1>1, <1>4, <1>a
  <1>6. /\ registering' \in Registerings /\ registering'.step = "associate"
        /\ registering'.entry = g.entry /\ registering'.record = n + 1
    BY <1>a, <1>b DEF Registerings
  <1>7. ImportTypes'
    BY <1>5, <1>6 DEF ImportTypes
  <1>8. \A i \in 1..n : imports[i].entry = x.entry => imports[i].superseded
    BY <1>1, <1>2, <1>5 DEF RegisteringKnows
  <1>9. OneLive'
    BY <1>5, <1>8 DEF OneLive
  <1>10. \A r, e : RecordOf(r, e) => RecordOf(r, e)'
    BY <1>5 DEF RecordOf
  <1>11. OneRegistered' /\ AssociatedIsRecorded'
    BY <1>10 DEF OneRegistered, AssociatedIsRecorded
  <1>12. RecordOf(n + 1, g.entry)'
    BY <1>2, <1>5 DEF RecordOf
  <1>13. RegisteringKnows'
    BY <1>1, <1>6, <1>12 DEF RegisteringKnows, RecordOf
  <1>14. QED BY <1>7, <1>9, <1>11, <1>13

LEMMA SupersedeImportKeeps ==
  ASSUME SpecImportsIInv, SupersedeImport
  PROVE  SpecImportsIInv'
  <1> USE DEF SpecImportsIInv, SupersedeImport
  <1>1. PICK g \in Registerings : g = registering
    BY DEF ImportTypes, NotRegistering
  <1>2. PICK x \in ImportRecords :
          x = [entry |-> g.entry, digest |-> g.digest, superseded |-> FALSE]
    BY DEF ImportRecords, Registerings
  <1>3. PICK n \in Nat : n = Len(imports) /\ DOMAIN imports = 1..n
    BY DEF ImportTypes
  <1>4. RecordOf(g.record, g.entry) /\ g.record \in 1..n
    BY <1>1, <1>3 DEF RegisteringKnows, RecordOf
  <1>a. PICK z \in ImportRecords : z = imports[g.record]
    BY <1>3, <1>4 DEF ImportTypes
  <1>5. PICK y \in ImportRecords : y = [z EXCEPT !.superseded = TRUE]
    BY DEF ImportRecords
  <1>6. y.superseded /\ y.entry = g.entry
    BY <1>4, <1>5, <1>a DEF ImportRecords, RecordOf
  <1>b. imports \in Seq(ImportRecords)
    BY DEF ImportTypes
  <1>e. g.record \in DOMAIN imports
    BY <1>3, <1>4
  <1>f. /\ [imports EXCEPT ![g.record] = y] \in Seq(ImportRecords)
        /\ Len([imports EXCEPT ![g.record] = y]) = Len(imports)
    BY ONLY <1>b, <1>e, Replaced
  <1>7. PICK s \in Seq(ImportRecords) : s = [imports EXCEPT ![g.record] = y] /\ Len(s) = n
    BY <1>3, <1>f
  <1>8. imports' = Append(s, x)
    BY <1>1, <1>2, <1>5, <1>7, <1>a
  <1>9. /\ imports' \in Seq(ImportRecords) /\ DOMAIN imports' = 1..(n + 1)
        /\ imports'[n + 1] = x /\ \A i \in 1..n : imports'[i] = s[i]
    <2>1. DOMAIN s = 1..n
      BY <1>7
    <2>2. QED BY ONLY <1>7, <1>8, <2>1, Appended
  <1>10. /\ imports'[g.record] = y
         /\ \A i \in 1..n : i # g.record => imports'[i] = imports[i]
    BY <1>3, <1>4, <1>7, <1>9 DEF ImportTypes
  <1>c. PICK m \in Nat : m = n + 1
    OBVIOUS
  <1>d. registering' = [g EXCEPT !.step = "rebind", !.record = m]
    BY <1>1, <1>3, <1>c
  <1>11. /\ registering' \in Registerings /\ registering'.step = "rebind"
         /\ registering'.entry = g.entry /\ registering'.record = n + 1
    BY <1>c, <1>d DEF Registerings
  <1>12. ImportTypes'
    BY <1>9, <1>11 DEF ImportTypes
  <1>13. \A i \in 1..n : imports'[i].entry = imports[i].entry
    BY <1>4, <1>6, <1>10 DEF RecordOf
  <1>14. \A i \in 1..n : imports[i].superseded => imports'[i].superseded
    BY <1>6, <1>10
  <1>15. ~imports[g.record].superseded /\ imports[g.record].entry = g.entry
    BY <1>1, <1>4 DEF RecordOf
  <1>16. \A i \in 1..n : imports[i].entry = g.entry /\ i # g.record => imports[i].superseded
    BY <1>3, <1>4, <1>15 DEF OneLive
  <1>17. \A i \in 1..n : imports'[i].entry = g.entry => imports'[i].superseded
    BY <1>6, <1>10, <1>13, <1>14, <1>16
  <1>18. OneLive'
    BY <1>2, <1>3, <1>9, <1>13, <1>14, <1>17 DEF OneLive
  <1>19. \A r, e : RecordOf(r, e) => RecordOf(r, e)'
    BY <1>3, <1>9, <1>13 DEF RecordOf
  <1>20. OneRegistered' /\ AssociatedIsRecorded'
    BY <1>19 DEF OneRegistered, AssociatedIsRecorded
  <1>21. RecordOf(n + 1, g.entry)'
    BY <1>2, <1>9 DEF RecordOf
  <1>22. RegisteringKnows'
    BY <1>11, <1>21 DEF RegisteringKnows, RecordOf
  <1>23. QED BY <1>12, <1>18, <1>20, <1>22

LEMMA AssociateKeeps ==
  ASSUME SpecImportsIInv, Associate
  PROVE  SpecImportsIInv'
  <1> USE DEF SpecImportsIInv, Associate
  <1>1. PICK g \in Registerings : g = registering
    BY DEF ImportTypes, NotRegistering
  <1>2. PICK x \in Registrations :
          x = [entry |-> g.entry, digest |-> g.digest, record |-> g.record,
               status |-> "registered"]
    BY DEF Registrations, Registerings
  <1>3. PICK n \in Nat : n = Len(associations)
    BY DEF ImportTypes
  <1>4. /\ associations' \in Seq(Registrations) /\ DOMAIN associations = 1..n
        /\ DOMAIN associations' = 1..(n + 1) /\ associations'[n + 1] = x
        /\ \A a \in 1..n : associations'[a] = associations[a]
    BY <1>1, <1>2, <1>3, Appended DEF ImportTypes
  <1>5. ImportTypes' /\ RegisteringKnows'
    BY <1>4 DEF ImportTypes, RegisteringKnows, NotRegistering
  <1>6. OneLive'
    BY DEF OneLive
  <1>7. OneRegistered'
    BY <1>1, <1>2, <1>4 DEF OneRegistered, RegisteringKnows
  <1>8. RecordOf(x.record, x.entry)
    BY <1>1, <1>2 DEF RegisteringKnows
  <1>9. AssociatedIsRecorded'
    BY <1>4, <1>8 DEF AssociatedIsRecorded, RecordOf
  <1>10. QED BY <1>5, <1>6, <1>7, <1>9

LEMMA RebindKeeps ==
  ASSUME SpecImportsIInv, Rebind
  PROVE  SpecImportsIInv'
  <1> USE DEF SpecImportsIInv, Rebind
  <1>1. PICK g \in Registerings : g = registering
    BY DEF ImportTypes, NotRegistering
  <1>2. PICK a \in DOMAIN associations :
          /\ associations[a].entry = g.entry /\ associations[a].status = "registered"
          /\ associations' = [associations EXCEPT
                                ![a] = [@ EXCEPT !.digest = g.digest, !.record = g.record]]
    BY <1>1 DEF Registered
  <1>3. PICK x \in Registrations : x = associations[a]
    BY DEF ImportTypes
  <1>4. PICK y \in Registrations : y = [x EXCEPT !.digest = g.digest, !.record = g.record]
    BY DEF Registrations, Registerings
  <1>5. y.entry = g.entry /\ y.status = "registered" /\ y.record = g.record
    BY <1>2, <1>3, <1>4 DEF Registrations
  <1>6. /\ associations' \in Seq(Registrations) /\ DOMAIN associations' = DOMAIN associations
        /\ associations'[a] = y
        /\ \A b \in DOMAIN associations : b # a => associations'[b] = associations[b]
    <2>1. associations' = [associations EXCEPT ![a] = y] /\ associations \in Seq(Registrations)
      BY <1>2, <1>3, <1>4 DEF ImportTypes
    <2>2. QED BY <2>1, Replaced
  <1>7. ImportTypes' /\ RegisteringKnows'
    BY <1>6 DEF ImportTypes, RegisteringKnows, NotRegistering
  <1>8. OneLive'
    BY DEF OneLive
  <1>9. OneRegistered'
    BY <1>2, <1>5, <1>6 DEF OneRegistered
  <1>10. RecordOf(y.record, y.entry)
    BY <1>1, <1>5 DEF RegisteringKnows
  <1>11. AssociatedIsRecorded'
    BY <1>6, <1>10 DEF AssociatedIsRecorded, RecordOf
  <1>12. QED BY <1>7, <1>8, <1>9, <1>11

LEMMA DetachSpecImportKeeps ==
  ASSUME SpecImportsIInv, NEW a \in DOMAIN associations, DetachSpecImport(a)
  PROVE  SpecImportsIInv'
  <1> USE DEF SpecImportsIInv, DetachSpecImport
  <1>1. PICK x \in Registrations : x = associations[a]
    BY DEF ImportTypes
  <1>2. PICK y \in Registrations : y = [x EXCEPT !.status = "detached"]
    BY DEF Registrations
  <1>3. y.entry = x.entry /\ y.status = "detached" /\ y.record = x.record
    BY <1>2 DEF Registrations
  <1>4. /\ associations' \in Seq(Registrations) /\ DOMAIN associations' = DOMAIN associations
        /\ associations'[a] = y
        /\ \A b \in DOMAIN associations : b # a => associations'[b] = associations[b]
    BY <1>1, <1>2 DEF ImportTypes
  <1>5. ImportTypes' /\ RegisteringKnows'
    BY <1>4 DEF ImportTypes, RegisteringKnows
  <1>6. OneLive'
    BY DEF OneLive
  <1>7. OneRegistered'
    BY <1>3, <1>4 DEF OneRegistered
  <1>8. AssociatedIsRecorded'
    BY <1>1, <1>3, <1>4 DEF AssociatedIsRecorded, RecordOf
  <1>9. QED BY <1>5, <1>6, <1>7, <1>8

LEMMA SupersedeByPersonKeeps ==
  ASSUME SpecImportsIInv, NEW i \in DOMAIN imports, SupersedeByPerson(i)
  PROVE  SpecImportsIInv'
  <1> USE DEF SpecImportsIInv, SupersedeByPerson, Event
  <1>1. PICK x \in ImportRecords : x = imports[i]
    BY DEF ImportTypes
  <1>2. PICK y \in ImportRecords : y = [x EXCEPT !.superseded = TRUE]
    BY DEF ImportRecords
  <1>3. y.entry = x.entry /\ y.superseded
    BY <1>2 DEF ImportRecords
  <1>4. /\ imports' \in Seq(ImportRecords) /\ DOMAIN imports' = DOMAIN imports
        /\ imports'[i] = y
        /\ \A j \in DOMAIN imports : j # i => imports'[j] = imports[j]
    BY <1>1, <1>2 DEF ImportTypes
  <1>5. ImportTypes'
    BY <1>4 DEF ImportTypes
  <1>6. \A j \in DOMAIN imports : /\ imports'[j].entry = imports[j].entry
                                  /\ imports[j].superseded => imports'[j].superseded
    BY <1>1, <1>3, <1>4
  <1>7. OneLive'
    BY <1>4, <1>6 DEF OneLive
  <1>8. OneRegistered'
    BY DEF OneRegistered
  <1>9. \A r, e : RecordOf(r, e) => RecordOf(r, e)'
    BY <1>4, <1>6 DEF RecordOf
  <1>10. AssociatedIsRecorded'
    BY <1>9 DEF AssociatedIsRecorded
  <1>11. RegisteringKnows'
    BY <1>4, <1>6 DEF RegisteringKnows, RecordOf
  <1>12. QED BY <1>5, <1>7, <1>8, <1>10, <1>11

LEMMA SpecImportsStepKeeps ==
  SpecImportsIInv /\ [SpecImportsNext]_specImportVars => SpecImportsIInv'
  <1> SUFFICES ASSUME SpecImportsIInv, [SpecImportsNext]_specImportVars
               PROVE  SpecImportsIInv'
    OBVIOUS
  <1>0. ImportTypes
    BY DEF SpecImportsIInv
  <1>1. CASE UNCHANGED specImportVars
    BY <1>0, <1>1, AsideKeeps DEF specImportVars, ImportTypes
  <1>2. CASE PreviewSpecImport
    BY <1>0, <1>2, AsideKeeps DEF PreviewSpecImport, ImportTypes
  <1>3. CASE RefusedByTask \/ RefusedByStore
    BY <1>0, <1>3, EndsKeep DEF RefusedByTask, RefusedByStore, ImportTypes
  <1>4. CASE StopRegistration
    BY <1>0, <1>4, EndsKeep DEF StopRegistration, Event, ImportTypes
  <1>5. ASSUME NEW e \in Entries, NEW c \in Contents \union {Absent}, EditArtifact(e, c)
        PROVE  SpecImportsIInv'
    BY <1>0, <1>5, AsideKeeps DEF EditArtifact, Event, ImportTypes
  <1>6. QED
    BY <1>1, <1>2, <1>3, <1>4, <1>5, RegisterSpecImportKeeps, CreateImportTaskKeeps,
       RecordImportKeeps, SupersedeImportKeeps, AssociateKeeps, RebindKeeps,
       DetachSpecImportKeeps, SupersedeByPersonKeeps DEF SpecImportsNext

\* The inductive invariant, for any entries, contents, kills and repeated registrations (spec-
\* imports/service.ts).
THEOREM SpecImportsInvariant == SpecImportsSpec => []SpecImportsIInv
  BY SpecImportsInitial, SpecImportsStepKeeps, PTL DEF SpecImportsSpec

\* The types of the two stores.
LEMMA SpecImportsTypesKept == SpecImportsIInv => SpecImportsTypeOK
  <1> SUFFICES ASSUME SpecImportsIInv PROVE SpecImportsTypeOK
    OBVIOUS
  <1> USE DEF SpecImportsIInv, ImportTypes
  <1>1. \A i \in DOMAIN imports : imports[i] \in ImportRecords
    OBVIOUS
  <1>2. \A a \in DOMAIN associations :
          associations[a] \in Registrations /\ associations[a].record \in DOMAIN imports
    BY DEF AssociatedIsRecorded, RecordOf
  <1>3. \A a \in DOMAIN associations :
          associations[a] \in [entry : Entries, digest : Contents,
                               record : DOMAIN imports, status : {"registered", "detached"}]
    BY <1>2 DEF Registrations
  <1>4. QED BY <1>1, <1>3 DEF SpecImportsTypeOK, ImportRecords

\* The invariant says that the association of an entry is unique; as a number, at most one.
LEMMA OneImportKept == SpecImportsIInv => OneImportPerEntry
  <1> SUFFICES ASSUME SpecImportsIInv PROVE OneImportPerEntry
    OBVIOUS
  <1> USE DEF SpecImportsIInv
  <1>1. ASSUME NEW e \in Entries PROVE Cardinality(Registered(e)) <= 1
    <2>1. CASE Registered(e) = {}
      BY <2>1, FS_EmptySet
    <2>2. CASE Registered(e) # {}
      <3>1. PICK a : a \in Registered(e)
        BY <2>2
      <3>a. \A b \in Registered(e) : b = a
        BY <3>1 DEF Registered, OneRegistered
      <3>2. Registered(e) = {a}
        BY <3>a, <3>1
      <3>3. Cardinality({a}) = 1
        BY FS_Singleton
      <3>4. QED BY <3>2, <3>3
    <2>3. QED BY <2>1, <2>2
  <1>2. QED BY <1>1 DEF OneImportPerEntry, OneLive, AssociatedIsRecorded, RecordOf

HIDE SpecImportsAssumption

-----------------------------------------------------------------------------
FoundStatuses == {"complete", "partial", "ambiguous", "malformed", "unsupported-version",
                  "inaccessible"}
FoundEntries == [status : FoundStatuses, read : 0..MaxFilesPerEntry]
FileKinds == {"core", "supporting"}
Budgets == [files : 0..MaxTotalFiles, bytes : 0..MaxTotalBytes]
OpenEntries == [state : {"reading", "deltas"}, named : BOOLEAN, core : {1, 3},
                queue : Seq(FileKinds), read : 0..MaxFilesPerEntry, present : Nat,
                mismatch : BOOLEAN]

\* No entry reads more files than it may: while it is read, and as it is found.
DiscoveryTypes ==
  /\ adapter \in Adapters /\ candidates \in 0..MaxEntries
  /\ budget \in Budgets
  /\ entry \in {NoEntry} \union OpenEntries
  /\ found \in Seq(FoundEntries)
  /\ truncated \in BOOLEAN /\ skipped \in BOOLEAN

DiscoveryIInv == DiscoveryTypes /\ (skipped => truncated)

-----------------------------------------------------------------------------
USE SpecDiscoveryAssumption

\* The invariant holds before the first entry.
LEMMA DiscoveryInitial == DiscoveryInit => DiscoveryIInv
  <1> SUFFICES ASSUME DiscoveryInit PROVE DiscoveryIInv
    OBVIOUS
  <1>1. candidates \in 0..MaxEntries /\ truncated \in BOOLEAN /\ skipped = FALSE
    BY DEF DiscoveryInit
  <1>2. budget \in Budgets
    BY DEF DiscoveryInit, Budgets
  <1>3. found \in Seq(FoundEntries)
    BY DEF DiscoveryInit
  <1>4. adapter \in Adapters /\ entry = NoEntry
    BY DEF DiscoveryInit
  <1>5. QED BY <1>1, <1>2, <1>3, <1>4 DEF DiscoveryIInv, DiscoveryTypes

\* A file that fits is paid for.
LEMMA SpendKeeps ==
  ASSUME DiscoveryIInv, NEW size \in Sizes, ~Limited(size), Spend(size)
  PROVE  budget' \in Budgets
  <1>1. budget.files \in 1..MaxTotalFiles /\ budget.bytes \in 0..MaxTotalBytes
        /\ size \in Nat /\ size <= budget.bytes
    BY DEF DiscoveryIInv, DiscoveryTypes, Budgets, Limited
  <1>2. PICK f \in 0..MaxTotalFiles, b \in 0..MaxTotalBytes :
          f = budget.files - 1 /\ b = budget.bytes - size
    BY <1>1
  <1>3. budget' = [files |-> f, bytes |-> b]
    BY <1>2 DEF Spend
  <1>4. QED BY <1>3 DEF Budgets

\* An entry that is read on.
LEMMA ReadingKeeps ==
  ASSUME DiscoveryIInv, entry' \in OpenEntries, budget' \in Budgets,
         UNCHANGED <<adapter, candidates, found, truncated, skipped>>
  PROVE  DiscoveryIInv'
  BY DEF DiscoveryIInv, DiscoveryTypes

LEMMA StartEntryKeeps ==
  ASSUME DiscoveryIInv, StartEntry
  PROVE  DiscoveryIInv'
  <1>1. PICK named \in BOOLEAN, core \in {1, 3} : entry' = NewEntry(named, core)
    BY DEF StartEntry, CoreCounts
  <1>2. [i \in 1..core |-> "core"] \in Seq(FileKinds)
    BY DEF FileKinds
  <1>3. entry' \in OpenEntries
    BY <1>1, <1>2 DEF NewEntry, OpenEntries
  <1>4. QED BY <1>3 DEF StartEntry, DiscoveryIInv, DiscoveryTypes

LEMMA FoundKeeps ==
  ASSUME DiscoveryIInv, NEW f \in FoundEntries, found' = Append(found, f),
         entry' = NoEntry, candidates' \in 0..MaxEntries,
         UNCHANGED <<adapter, budget, truncated, skipped>>
  PROVE  DiscoveryIInv'
  BY DEF DiscoveryIInv, DiscoveryTypes

LEMMA StatusesAreKnown ==
  ASSUME NEW e \in OpenEntries, NEW s \in EntryStatuses(e)
  PROVE  s \in FoundStatuses
  BY DEF OpenEntries, EntryStatuses, FoundStatuses

LEMMA FinishEntryKeeps ==
  ASSUME DiscoveryIInv, FinishEntry
  PROVE  DiscoveryIInv'
  <1>1. PICK e \in OpenEntries : e = entry
    BY DEF FinishEntry, DiscoveryIInv, DiscoveryTypes, NoEntry
  <1>2. PICK s \in EntryStatuses(e) : found' = Append(found, [status |-> s, read |-> e.read])
    BY <1>1 DEF FinishEntry
  <1>3. [status |-> s, read |-> e.read] \in FoundEntries
    BY <1>2, StatusesAreKnown DEF FoundEntries, OpenEntries
  <1>4. QED BY <1>2, <1>3, FoundKeeps DEF FinishEntry, DiscoveryIInv, DiscoveryTypes

LEMMA InaccessibleKeeps ==
  ASSUME DiscoveryIInv, Inaccessible
  PROVE  DiscoveryIInv'
  <1>1. [status |-> "inaccessible", read |-> 0] \in FoundEntries
    BY DEF FoundEntries, FoundStatuses
  <1>2. entry = NoEntry /\ candidates' \in 0..MaxEntries
    BY DEF Inaccessible, DiscoveryIInv, DiscoveryTypes, OpenEntries
  <1>3. QED BY <1>1, <1>2, FoundKeeps DEF Inaccessible

LEMMA StopAtBudgetKeeps == DiscoveryIInv /\ StopAtBudget => DiscoveryIInv'
  BY DEF StopAtBudget, DiscoveryIInv, DiscoveryTypes

\* What takes a file off the queue, with the entry's other fields.
LEMMA DequeueKeeps ==
  ASSUME DiscoveryIInv, Pending
  PROVE  /\ entry \in OpenEntries /\ Rest \in Seq(FileKinds)
         /\ [entry EXCEPT !.queue = Rest] \in OpenEntries
         /\ [entry EXCEPT !.queue = <<>>] \in OpenEntries
  <1>1. PICK e \in OpenEntries : e = entry
    BY DEF Pending, DiscoveryIInv, DiscoveryTypes, NoEntry
  <1>2. e.queue \in Seq(FileKinds) /\ e.queue # <<>>
    BY <1>1 DEF Pending, OpenEntries
  <1>3. PICK q \in Seq(FileKinds) : q = Rest
    BY <1>1, <1>2, HeadTailProperties DEF Rest
  <1>a. PICK none \in Seq(FileKinds) : none = <<>>
    BY EmptySeq
  <1>b. [e EXCEPT !.queue = q] \in OpenEntries /\ [e EXCEPT !.queue = none] \in OpenEntries
    BY DEF OpenEntries
  <1>4. [e EXCEPT !.queue = q] \in OpenEntries /\ [e EXCEPT !.queue = <<>>] \in OpenEntries
    BY <1>a, <1>b
  <1>5. QED BY <1>1, <1>3, <1>4

LEMMA ReadCoreFileKeeps ==
  ASSUME DiscoveryIInv, NEW size \in Sizes, ReadCoreFile(size)
  PROVE  DiscoveryIInv'
  <1>1. PICK e \in OpenEntries : e = entry
    BY DequeueKeeps DEF ReadCoreFile
  <1>2. PICK rest \in Seq(FileKinds) : rest = Rest
    BY DequeueKeeps DEF ReadCoreFile
  <1>3. PICK mismatch \in BOOLEAN, links \in {<<>>, <<"supporting">>} :
          entry' = [entry EXCEPT !.queue = WithLinks(Rest, links), !.read = @ + 1,
                                 !.present = @ + 1, !.mismatch = @ \/ mismatch]
    BY DEF ReadCoreFile
  <1>4. links \in Seq(FileKinds)
    <2>1. "supporting" \in FileKinds
      BY DEF FileKinds
    <2>2. <<>> \in Seq(FileKinds) /\ <<"supporting">> \in Seq(FileKinds)
      BY <2>1
    <2>3. QED BY <2>2
  <1>5. PICK q \in Seq(FileKinds) : q = WithLinks(rest, links)
    BY <1>4, ConcatProperties DEF WithLinks
  <1>6. PICK r \in 0..MaxFilesPerEntry, n \in Nat : r = e.read + 1 /\ n = e.present + 1
    BY <1>1 DEF ReadCoreFile, AtEntryLimit, OpenEntries
  <1>7. PICK m \in BOOLEAN : m = (e.mismatch \/ mismatch)
    OBVIOUS
  <1>8. entry' = [e EXCEPT !.queue = q, !.read = r, !.present = n, !.mismatch = m]
    BY <1>1, <1>2, <1>3, <1>5, <1>6, <1>7
  <1>9. entry' \in OpenEntries
    BY <1>8 DEF OpenEntries
  <1>10. QED BY <1>9, SpendKeeps, ReadingKeeps DEF ReadCoreFile

LEMMA ReadSupportingKeeps ==
  ASSUME DiscoveryIInv, NEW size \in Sizes, ReadSupporting(size)
  PROVE  DiscoveryIInv'
  <1>1. PICK e \in OpenEntries : e = entry
    BY DequeueKeeps DEF ReadSupporting
  <1>2. PICK rest \in Seq(FileKinds) : rest = Rest
    BY DequeueKeeps DEF ReadSupporting
  <1>3. PICK r \in 0..MaxFilesPerEntry : r = e.read + 1
    BY <1>1 DEF ReadSupporting, AtEntryLimit, OpenEntries
  <1>4. entry' = [e EXCEPT !.queue = rest, !.read = r]
    BY <1>1, <1>2, <1>3 DEF ReadSupporting
  <1>5. entry' \in OpenEntries
    BY <1>4 DEF OpenEntries
  <1>6. QED BY <1>5, SpendKeeps, ReadingKeeps DEF ReadSupporting

LEMMA ReadDeltaKeeps ==
  ASSUME DiscoveryIInv, NEW size \in Sizes, ReadDelta(size)
  PROVE  DiscoveryIInv'
  <1>1. PICK e \in OpenEntries : e = entry
    BY DEF ReadDelta, DiscoveryIInv, DiscoveryTypes, NoEntry
  <1>2. CASE Limited(size)
    <2>1. entry' \in OpenEntries
      BY <1>1, <1>2 DEF ReadDelta, OpenEntries
    <2>2. QED BY <1>2, <2>1 DEF ReadDelta, DiscoveryIInv, DiscoveryTypes
  <1>3. CASE ~Limited(size)
    <2>1. PICK r \in 0..MaxFilesPerEntry : r = e.read + 1
      BY <1>1 DEF ReadDelta, AtEntryLimit, OpenEntries
    <2>2. entry' = [e EXCEPT !.read = r]
      BY <1>1, <1>3, <2>1 DEF ReadDelta
    <2>3. entry' \in OpenEntries
      BY <2>2 DEF OpenEntries
    <2>4. QED BY <1>3, <2>3, SpendKeeps, ReadingKeeps DEF ReadDelta
  <1>4. QED BY <1>2, <1>3

LEMMA QuietDiscoveryKeeps ==
  ASSUME DiscoveryIInv, StopAtEntryLimit \/ PassOver \/ FindDeltas
  PROVE  DiscoveryIInv'
  <1>1. CASE StopAtEntryLimit
    BY <1>1, DequeueKeeps, ReadingKeeps DEF StopAtEntryLimit, DiscoveryIInv, DiscoveryTypes
  <1>2. CASE PassOver
    BY <1>2, DequeueKeeps, ReadingKeeps DEF PassOver, DiscoveryIInv, DiscoveryTypes
  <1>3. CASE FindDeltas
    <2>1. PICK e \in OpenEntries : e = entry
      BY <1>3 DEF FindDeltas, DiscoveryIInv, DiscoveryTypes, NoEntry
    <2>2. entry' \in OpenEntries
      BY <1>3, <2>1 DEF FindDeltas, OpenEntries
    <2>3. QED BY <1>3, <2>2, ReadingKeeps DEF FindDeltas, DiscoveryIInv, DiscoveryTypes
  <1>4. QED BY <1>1, <1>2, <1>3

LEMMA LeaveUnreadKeeps ==
  ASSUME DiscoveryIInv, NEW size \in Sizes, LeaveUnread(size)
  PROVE  DiscoveryIInv'
  BY DequeueKeeps DEF LeaveUnread, DiscoveryIInv, DiscoveryTypes

LEMMA DiscoveryStepKeeps == DiscoveryIInv /\ [DiscoveryNext]_discoveryVars => DiscoveryIInv'
  <1>1. DiscoveryIInv /\ UNCHANGED discoveryVars => DiscoveryIInv'
    BY DEF discoveryVars, DiscoveryIInv, DiscoveryTypes
  <1>2. QED
    BY <1>1, StartEntryKeeps, StopAtBudgetKeeps, InaccessibleKeeps, QuietDiscoveryKeeps,
       LeaveUnreadKeeps, ReadCoreFileKeeps, ReadSupportingKeeps, ReadDeltaKeeps,
       FinishEntryKeeps DEF DiscoveryNext

\* The inductive invariant, for any sizes of files and any limits (spec-imports/discovery.ts).
THEOREM DiscoveryInvariant == DiscoverySpec => []DiscoveryIInv
  BY DiscoveryInitial, DiscoveryStepKeeps, PTL DEF DiscoverySpec

\* The types of a discovery, and its bounds.
LEMMA DiscoveryTypesKept == DiscoveryIInv => DiscoveryTypeOK /\ DiscoveryBounded
  <1> SUFFICES ASSUME DiscoveryIInv PROVE DiscoveryTypeOK /\ DiscoveryBounded
    OBVIOUS
  <1>1. \A i \in DOMAIN found : found[i] \in FoundEntries
    BY DEF DiscoveryIInv, DiscoveryTypes
  <1>2. \A i \in DOMAIN found :
          found[i].status \in FoundStatuses /\ found[i].read <= MaxFilesPerEntry
    BY <1>1 DEF FoundEntries
  <1>3. budget.files >= 0 /\ budget.bytes >= 0
    BY DEF DiscoveryIInv, DiscoveryTypes, Budgets
  <1>4. QED BY <1>2, <1>3 DEF DiscoveryIInv, DiscoveryTypes, DiscoveryTypeOK, DiscoveryBounded,
                              Budgets, FoundStatuses

HIDE SpecDiscoveryAssumption

-----------------------------------------------------------------------------
Annotations == [status : {NoComment, "open", "stale", "resolved"}, revision : 0..MaxEdits,
                resolved : 0..MaxEdits]
AnnotationRequests ==
  [at : {"list", "create", "resolve", "reopen"}, comment : Comments, current : 1..MaxEdits,
   expected : 0..MaxWrites, shown : 1..MaxEdits]

AnnotationTypes ==
  /\ head \in 1..MaxEdits /\ version \in 0..MaxWrites
  /\ store \in [Comments -> Annotations]
  /\ screen \in [Reviewers -> [worktree : 1..MaxEdits, version : 0..MaxWrites]]
  /\ request \in [Reviewers -> {NoRequest} \union AnnotationRequests]

\* A comment is resolved on the revision it is on, and nobody was shown what is not written yet.
ResolvedWhereItIs == \A c \in Comments : store[c].resolved \in {0, store[c].revision}
ShownWasWritten == \A r \in Reviewers : screen[r].version <= version

AnnotationsIInv == AnnotationTypes /\ ResolvedWhereItIs /\ ShownWasWritten

-----------------------------------------------------------------------------
USE AnnotationsAssumption

\* The invariant holds before the first comment.
LEMMA AnnotationsInitial == AnnotationsInit => AnnotationsIInv
  BY DEF AnnotationsInit, AnnotationsIInv, AnnotationTypes, ResolvedWhereItIs, ShownWasWritten,
         Annotations, Unseen

\* What a call writes is a comment, and the next revision of the store.
LEMMA AnnotateKeeps ==
  ASSUME AnnotationsIInv, NEW r \in Reviewers, NEW c \in Comments, NEW a \in Annotations,
         a.resolved \in {0, a.revision}, version < MaxWrites, Write(r, c, a)
  PROVE  AnnotationsIInv'
  <1> USE DEF AnnotationsIInv, AnnotationTypes, Write, Done
  <1>1. AnnotationTypes'
    OBVIOUS
  <1>2. ResolvedWhereItIs'
    BY DEF ResolvedWhereItIs
  <1>3. ShownWasWritten'
    BY DEF ShownWasWritten
  <1>4. QED BY <1>1, <1>2, <1>3

\* A call that is refused, or whose work is done, leaves the comments as they are.
LEMMA QuietAnnotationKeeps ==
  ASSUME AnnotationsIInv, NEW r \in Reviewers,
         Done(r), UNCHANGED <<head, store, version, screen, writers>>
  PROVE  AnnotationsIInv'
  BY DEF AnnotationsIInv, AnnotationTypes, Done, ResolvedWhereItIs, ShownWasWritten

LEMMA ListKeeps ==
  ASSUME AnnotationsIInv, NEW r \in Reviewers, List(r)
  PROVE  AnnotationsIInv'
  <1> USE DEF AnnotationsIInv, AnnotationTypes, List, Done
  <1>0. request[r] \in AnnotationRequests
    BY DEF NoRequest, AnnotationRequests
  <1>1. version' \in {version, version + 1}
    OBVIOUS
  <1>2. \A c \in Comments : store'[c] = store[c] \/ store'[c] = [store[c] EXCEPT !.status = "stale"]
    OBVIOUS
  <1>3. store' \in [Comments -> Annotations]
    BY <1>2 DEF Annotations
  <1>4. screen' \in [Reviewers -> [worktree : 1..MaxEdits, version : 0..MaxWrites]]
    BY <1>0, <1>1 DEF AnnotationRequests
  <1>5. AnnotationTypes'
    BY <1>1, <1>3, <1>4
  <1>6. ResolvedWhereItIs'
    BY <1>2 DEF ResolvedWhereItIs, Annotations
  <1>7. ShownWasWritten'
    BY <1>1 DEF ShownWasWritten
  <1>8. QED BY <1>5, <1>6, <1>7

LEMMA CreateAnnotationKeeps ==
  ASSUME AnnotationsIInv, NEW r \in Reviewers, CreateAnnotation(r)
  PROVE  AnnotationsIInv'
  <1>0. request[r] \in AnnotationRequests
    BY DEF AnnotationsIInv, AnnotationTypes, CreateAnnotation, NoRequest, AnnotationRequests
  <1>1. CASE UNCHANGED <<head, store, version, screen, writers>> /\ Done(r)
    BY <1>1, QuietAnnotationKeeps
  <1>2. CASE Write(r, request[r].comment,
                   [status |-> "open", revision |-> request[r].current, resolved |-> 0])
             /\ version < MaxWrites
    BY <1>0, <1>2, AnnotateKeeps DEF Annotations, AnnotationRequests
  <1>3. QED BY <1>1, <1>2 DEF CreateAnnotation, Refused

LEMMA ResolveKeeps ==
  ASSUME AnnotationsIInv, NEW r \in Reviewers, Resolve(r)
  PROVE  AnnotationsIInv'
  <1>0. request[r] \in AnnotationRequests
    BY DEF AnnotationsIInv, AnnotationTypes, Resolve, NoRequest, AnnotationRequests
  <1>1. CASE UNCHANGED <<head, store, version, screen, writers>> /\ Done(r)
    BY <1>1, QuietAnnotationKeeps
  <1>2. CASE ~(UNCHANGED <<head, store, version, screen, writers>> /\ Done(r))
    <2> PICK c \in Comments : c = request[r].comment
      BY <1>0 DEF AnnotationRequests
    <2>1. Write(r, c, [store[c] EXCEPT !.status = "resolved", !.resolved = request[r].current])
          /\ version < MaxWrites /\ store[c].revision = request[r].current
      BY <1>2 DEF Resolve, Refused
    <2>2. [store[c] EXCEPT !.status = "resolved", !.resolved = request[r].current] \in Annotations
      <3>1. PICK a \in Annotations : a = store[c]
        BY DEF AnnotationsIInv, AnnotationTypes
      <3>2. PICK n \in 0..MaxEdits : n = request[r].current
        BY <1>0 DEF AnnotationRequests
      <3>3. [a EXCEPT !.status = "resolved", !.resolved = n] \in Annotations
        BY DEF Annotations
      <3>4. QED BY <3>1, <3>2, <3>3
    <2>3. QED BY <1>0, <2>1, <2>2, AnnotateKeeps DEF AnnotationsIInv, AnnotationTypes, Annotations
  <1>3. QED BY <1>1, <1>2

LEMMA ReopenKeeps ==
  ASSUME AnnotationsIInv, NEW r \in Reviewers, Reopen(r)
  PROVE  AnnotationsIInv'
  <1>0. request[r] \in AnnotationRequests
    BY DEF AnnotationsIInv, AnnotationTypes, Reopen, NoRequest, AnnotationRequests
  <1>1. CASE UNCHANGED <<head, store, version, screen, writers>> /\ Done(r)
    BY <1>1, QuietAnnotationKeeps
  <1>2. CASE Write(r, request[r].comment,
                   [status |-> "open", revision |-> request[r].current, resolved |-> 0])
             /\ version < MaxWrites
    BY <1>0, <1>2, AnnotateKeeps DEF Annotations, AnnotationRequests
  <1>3. QED BY <1>1, <1>2 DEF Reopen, Refused

LEMMA AskKeeps ==
  ASSUME AnnotationsIInv, NEW r \in Reviewers,
         NEW k \in {"list", "create", "resolve", "reopen"}, NEW c \in Comments, Ask(r, k, c)
  PROVE  AnnotationsIInv'
  BY DEF AnnotationsIInv, AnnotationTypes, AnnotationRequests, Ask, ResolvedWhereItIs,
         ShownWasWritten

LEMMA EditWorktreeKeeps == AnnotationsIInv /\ EditWorktree => AnnotationsIInv'
  BY DEF AnnotationsIInv, AnnotationTypes, EditWorktree, ResolvedWhereItIs, ShownWasWritten

LEMMA AnnotationsStepKeeps ==
  AnnotationsIInv /\ [AnnotationsNext]_annotationVars => AnnotationsIInv'
  <1> SUFFICES ASSUME AnnotationsIInv, [AnnotationsNext]_annotationVars
               PROVE  AnnotationsIInv'
    OBVIOUS
  <1>1. CASE UNCHANGED annotationVars
    BY <1>1 DEF annotationVars, AnnotationsIInv, AnnotationTypes, ResolvedWhereItIs,
                ShownWasWritten
  <1>2. CASE AnnotationsNext
    BY <1>2, EditWorktreeKeeps, AskKeeps, ListKeeps, CreateAnnotationKeeps, ResolveKeeps,
       ReopenKeeps DEF AnnotationsNext
  <1>3. QED BY <1>1, <1>2

\* The inductive invariant, for any reviewers, comments and edits (diff-annotations).
THEOREM AnnotationsInvariant == AnnotationsSpec => []AnnotationsIInv
  BY AnnotationsInitial, AnnotationsStepKeeps, PTL DEF AnnotationsSpec

\* The types of the comments.
LEMMA AnnotationTypesKept == AnnotationsIInv => AnnotationsTypeOK
  BY DEF AnnotationsIInv, AnnotationTypes, Annotations, ResolvedWhereItIs, ShownWasWritten,
         AnnotationsTypeOK

\* What a step that writes has written, and by whom.
LEMMA WritersSaw ==
  ASSUME AnnotationsIInv, [AnnotationsNext]_annotationVars, version' # version
  PROVE  /\ writers'.kind # "list" => writers'.seen = version
         /\ \A c \in Comments :
              store[c].status = "resolved" /\ store'[c] # store[c] => writers'.kind # "list"
  <1>1. PICK r \in Reviewers : List(r) \/ CreateAnnotation(r) \/ Resolve(r) \/ Reopen(r)
    BY DEF AnnotationsNext, annotationVars, EditWorktree, Ask
  <1>2. CASE List(r)
    <2>1. writers' = [seen |-> version, kind |-> "list"]
      BY <1>2 DEF List
    <2>2. \A c \in Comments : store[c].status = "resolved" => store'[c] = store[c]
      BY <1>2 DEF List, Stale, AnnotationsIInv, AnnotationTypes
    <2>3. QED BY <2>1, <2>2
  <1>3. CASE CreateAnnotation(r) \/ Resolve(r) \/ Reopen(r)
    <2>1. request[r].at # "list"
      BY <1>3 DEF CreateAnnotation, Resolve, Reopen
    <2>2. SeenLatest(r) /\ writers' = [seen |-> request[r].expected, kind |-> request[r].at]
      BY <1>3 DEF CreateAnnotation, Resolve, Reopen, Write, Refused
    <2>3. QED BY <2>1, <2>2 DEF SeenLatest
  <1>4. QED BY <1>1, <1>2, <1>3

\* Whoever asks, in whatever order: nobody creates, resolves or reopens a comment over a change
\* he has not been shown, and a listing leaves resolved comments alone (createDiffAnnotation,
\* updateDiffAnnotation, markStale).
THEOREM NoBlindReviewAlways == AnnotationsSpec => NoBlindReview
  <1>1. AnnotationsIInv /\ [AnnotationsNext]_annotationVars =>
          [version' # version
             => /\ writers'.kind # "list" => writers'.seen = version
                /\ \A c \in Comments :
                     store[c].status = "resolved" /\ store'[c] # store[c]
                       => writers'.kind # "list"]_annotationVars
    BY WritersSaw
  <1>2. QED BY <1>1, AnnotationsInvariant, PTL DEF AnnotationsSpec, NoBlindReview

HIDE AnnotationsAssumption

-----------------------------------------------------------------------------
RecordStores == [RecordIds -> TaskRecord \union {NoRecord}]
RecordTypes ==
  /\ records \in RecordStores
  /\ criterion \in BOOLEAN /\ effect \in BOOLEAN /\ memoryMoved \in BOOLEAN
  /\ passed \in {"none", "before", "now"}
  /\ file \in Files /\ revisions \in [{"task", "workflow", "tree"} -> Nat]

\* IDs are given in order, and none is given up.
InOrder(rs) == \E n \in 0..MaxRecords : KnownRecords(rs) = 1..n

\* What an operation writes, before the store validates it.
Drafts == [RecordIds -> RecordsOf(Nat) \union {NoRecord}]
PatchReports == [records : Drafts, criterion : BOOLEAN, reached : SUBSET (RecordIds \union {0}),
                 survives : BOOLEAN]
PatchOutcomes ==
  [by : {"preview", "apply"}, at : {"links", "tree"}, patch : Patches, report : PatchReports,
   unread : SUBSET RecordIds, doubtful : SUBSET RecordIds, task : Nat, workflow : Nat, tree : Nat,
   edited : BOOLEAN, memory : BOOLEAN]
PatchDigests == [task : Nat, workflow : Nat, tree : Nat, file : Files \union {NoRecord}]
PatchPreviews ==
  [patch : Patches, report : PatchReports, doubtful : SUBSET RecordIds, edited : BOOLEAN,
   memory : BOOLEAN, digest : PatchDigests]
ComputedTypes ==
  outcome \in {NoRecord} \union PatchOutcomes /\ preview \in {NoRecord} \union PatchPreviews

\* What a patch does with the task as it is, were the digest of the file f; and that it names a
\* record that there is.
PatchedWith(p, f) == IF p.record = NoOp THEN records ELSE OpApplied(records, p.record, f)
ReportWith(p, f) ==
  [records |-> PatchedWith(p, f), criterion |-> PatchedCriterion(p),
   reached |-> Reach(PatchedWith(p, f), NamedBy(p)),
   survives |-> approval = Adopted(PatchedWith(p, f)) /\ p.criteria = "kept"]
Aims(p) ==
  p.record # NoOp =>
    /\ p.record.id \in KnownRecords(records)
    /\ p.record.op = "supersede" => NextId(records) \in RecordIds

\* Until the task or its workflow moves, a computation has the report of a digest that the file
\* had: the one it read last, if nobody edited it meanwhile.
NotMoved(o) == o.task = revisions.task /\ o.workflow = revisions.workflow
ReportIsOf(report, p, unedited, f) ==
  Aims(p) /\ \E g \in Files : report = ReportWith(p, g) /\ (unedited => g = f)
AllLinks == Files \union {TheMemory}
\* The links it has read, and what it doubts of them.
DoubtsAre(o, unread, f) ==
  /\ o.doubtful \subseteq Links(o.report, AllLinks) \ unread
  /\ ~o.edited => \A i \in Links(o.report, Files) \ unread :
                     i \in o.doubtful <=> o.report.records[i].link # f
  /\ o.memory => memoryMoved
  /\ o.memory = memoryMoved => \A i \in Links(o.report, {TheMemory}) \ unread :
                                 i \in o.doubtful <=> memoryMoved

OutcomeInv ==
  outcome # NoRecord =>
    /\ outcome.task <= revisions.task /\ outcome.workflow <= revisions.workflow
    /\ NotMoved(outcome) => ReportIsOf(outcome.report, outcome.patch, ~outcome.edited, file)
    /\ outcome.unread \subseteq Links(outcome.report, AllLinks)
    /\ outcome.at = "tree" => outcome.unread = {}
    /\ DoubtsAre(outcome, outcome.unread, file)

PreviewInv ==
  preview # NoRecord =>
    /\ preview.digest.task <= revisions.task /\ preview.digest.workflow <= revisions.workflow
    /\ preview.digest.file = NoRecord <=> Links(preview.report, Files) = {}
    /\ NotMoved(preview.digest) =>
         ReportIsOf(preview.report, preview.patch,
                    ~preview.edited /\ preview.digest.file # NoRecord, preview.digest.file)
    /\ DoubtsAre(preview, {}, preview.digest.file)

\* What is written in place of the records: typed, in order and authorized.
Adopts(r) == r.status = Authoritative[r.kind]
WritesSoundly(rs) ==
  /\ KnownRecords(rs) \in {KnownRecords(records), KnownRecords(records) \union {NextId(records)}}
  /\ \A i \in KnownRecords(records) : (Adopts(records[i]) <=> Adopts(rs[i])) \/ rs[i].authorized

\* An application holds the lock, from the task and the workflow that it read on.
ApplicationInv ==
  /\ outcome # NoRecord /\ outcome.by = "preview" => preview = NoRecord
  /\ outcome # NoRecord /\ outcome.by = "apply" =>
       /\ preview # NoRecord /\ outcome.patch = preview.patch
       /\ preview.memory => outcome.memory
       /\ NotMoved(outcome) /\ WritesSoundly(outcome.report.records)

RecordsIInv ==
  /\ RecordTypes /\ InOrder(records) /\ ComputedTypes
  /\ OutcomeInv /\ PreviewInv /\ ApplicationInv

-----------------------------------------------------------------------------
USE RecordsAssumption

LEMMA KindStatuses ==
  \A k \in RecordKinds :
    /\ InitialStatus[k] \in StatusesOf(k) /\ "superseded" \in StatusesOf(k)
    /\ Authoritative[k] # "superseded"
  <1> SUFFICES ASSUME NEW k \in RecordKinds
               PROVE  /\ InitialStatus[k] \in StatusesOf(k) /\ "superseded" \in StatusesOf(k)
                      /\ Authoritative[k] # "superseded"
    OBVIOUS
  <1> DEFINE t == RecordTransitions[k]
  <1>0. k \in {"decision", "assumption", "observation", "question"}
    BY DEF RecordTransitions
  <1>1. InitialStatus[k] \in DOMAIN t /\ "superseded" \in t[InitialStatus[k]]
    BY <1>0 DEF RecordTransitions, InitialStatus
  <1>2. StatusesOf(k) = DOMAIN t \union UNION {t[from] : from \in DOMAIN t}
    BY DEF StatusesOf
  <1>3. InitialStatus[k] \in StatusesOf(k) /\ "superseded" \in StatusesOf(k)
    <2> HIDE DEF t
    <2>1. QED BY <1>1, <1>2
  <1>4. Authoritative[k] # "superseded"
    BY <1>0 DEF Authoritative
  <1>5. QED BY <1>3, <1>4

LEMMA NextIdIsNew ==
  ASSUME NEW rs \in RecordStores, InOrder(rs)
  PROVE  /\ NextId(rs) \in Nat \ {0} /\ NextId(rs) \notin KnownRecords(rs)
         /\ KnownRecords(rs) = 1..(NextId(rs) - 1)
  <1>1. PICK n \in 0..MaxRecords : KnownRecords(rs) = 1..n
    BY DEF InOrder
  <1>2. n \in Nat
    BY <1>1
  <1>3. Cardinality(1..n) = n
    BY <1>2, FS_Interval
  <1>4. NextId(rs) = n + 1
    BY <1>1, <1>3 DEF NextId
  <1>5. QED BY <1>1, <1>2, <1>4

LEMMA NewRecordTyped ==
  ASSUME NEW k \in RecordKinds, NEW l \in LinkTargets, NEW old \in RecordIds \union {0}
  PROVE  NewRecord(k, l, old) \in TaskRecord
  <1>1. InitialStatus[k] \in UNION {StatusesOf(j) : j \in RecordKinds}
    BY KindStatuses
  <1>2. 1 \in 1..MaxHistory
    OBVIOUS
  <1>3. QED BY <1>1, <1>2 DEF NewRecord, TaskRecord, RecordsOf

StatusNames == UNION {StatusesOf(k) : k \in RecordKinds}

LEMMA RecordFields ==
  ASSUME NEW r \in TaskRecord
  PROVE  /\ r \in RecordsOf(Nat) /\ r # NoRecord
         /\ r.revision \in 1..MaxHistory /\ r.revision + 1 \in Nat
  BY DEF TaskRecord, RecordsOf

LEMMA LinkedTyped ==
  ASSUME NEW l \in AskedTargets, NEW f \in Files
  PROVE  Linked(l, f) \in LinkTargets
  BY DEF AskedTargets, LinkTargets, Linked

LEMMA StoresAreDrafts == RecordStores \subseteq Drafts
  BY RecordFields DEF RecordStores, Drafts

LEMMA CreateDrafts ==
  ASSUME NEW rs \in RecordStores, NEW o \in RecordOps, NEW f \in Files, InOrder(rs),
         o.op = "create", CreateAllowed(rs, o)
  PROVE  /\ WithRecord(rs, o, f) \in Drafts
         /\ KnownRecords(WithRecord(rs, o, f)) = KnownRecords(rs) \union {o.id}
         /\ \A i \in KnownRecords(rs) : WithRecord(rs, o, f)[i] = rs[i]
  <1>1. o.id \in RecordIds /\ o.kind \in RecordKinds /\ o.link \in AskedTargets /\ o.id = NextId(rs)
    BY DEF RecordOps, CreateAllowed
  <1>2. NewRecord(o.kind, Linked(o.link, f), 0) \in RecordsOf(Nat) \ {NoRecord}
    BY <1>1, LinkedTyped, NewRecordTyped, RecordFields
  <1>3. rs \in Drafts /\ o.id \notin KnownRecords(rs)
    BY <1>1, StoresAreDrafts, NextIdIsNew
  <1>4. WithRecord(rs, o, f) = [rs EXCEPT ![o.id] = NewRecord(o.kind, Linked(o.link, f), 0)]
    BY DEF WithRecord
  <1>5. QED BY ONLY <1>1, <1>2, <1>3, <1>4 DEF Drafts, KnownRecords

LEMMA ReviseDrafts ==
  ASSUME NEW rs \in RecordStores, NEW o \in RecordOps, NEW f \in Files,
         o.op = "revise", ReviseAllowed(rs, o)
  PROVE  /\ WithRevision(rs, o, f) \in Drafts
         /\ KnownRecords(WithRevision(rs, o, f)) = KnownRecords(rs)
         /\ \A i \in KnownRecords(rs) :
              /\ WithRevision(rs, o, f)[i].kind = rs[i].kind
              /\ WithRevision(rs, o, f)[i].status = rs[i].status
  <1>1. /\ o.id \in KnownRecords(rs) /\ o.id \in RecordIds
        /\ Linked(o.link, f) \in LinkTargets
    BY LinkedTyped DEF RecordOps, ReviseAllowed
  <1>2. rs \in Drafts /\ rs[o.id] \in TaskRecord
    BY <1>1, StoresAreDrafts DEF RecordStores, KnownRecords
  <1> DEFINE now == [rs[o.id] EXCEPT !.link = Linked(o.link, f),
                                     !.revision = rs[o.id].revision + 1, !.authorized = FALSE]
  <1>3. now \in RecordsOf(Nat) /\ now.kind = rs[o.id].kind /\ now.status = rs[o.id].status
    BY <1>1, <1>2, RecordFields DEF RecordsOf
  <1>4. WithRevision(rs, o, f) = [rs EXCEPT ![o.id] = now]
    BY <1>2 DEF WithRevision
  <1>5. now # NoRecord
    BY <1>3
  <1> HIDE DEF now
  <1>6. QED BY ONLY <1>1, <1>2, <1>3, <1>4, <1>5 DEF Drafts, KnownRecords

LEMMA TransitionDrafts ==
  ASSUME NEW rs \in RecordStores, NEW o \in RecordOps,
         o.op = "transition", TransitionAllowed(rs, o)
  PROVE  /\ WithStatus(rs, o) \in Drafts
         /\ KnownRecords(WithStatus(rs, o)) = KnownRecords(rs)
         /\ o.id \in KnownRecords(rs)
         /\ \A i \in KnownRecords(rs) : WithStatus(rs, o)[i].kind = rs[i].kind
         /\ \A i \in KnownRecords(rs) \ {o.id} : WithStatus(rs, o)[i] = rs[i]
         /\ WithStatus(rs, o)[o.id].status = o.to
         /\ WithStatus(rs, o)[o.id].authorized = o.authority
  <1>1. o.id \in KnownRecords(rs) /\ o.to \in StatusNames /\ o.id \in RecordIds /\ o.authority \in BOOLEAN
    BY DEF RecordOps, TransitionAllowed, StatusNames
  <1>2. rs \in Drafts /\ rs[o.id] \in TaskRecord
    BY <1>1, StoresAreDrafts DEF RecordStores, KnownRecords
  <1> DEFINE now == [rs[o.id] EXCEPT !.status = o.to, !.revision = rs[o.id].revision + 1,
                                     !.authorized = o.authority]
  <1>3. /\ now \in RecordsOf(Nat) /\ now.kind = rs[o.id].kind
        /\ now.status = o.to /\ now.authorized = o.authority
    BY <1>1, <1>2, RecordFields DEF RecordsOf, StatusNames
  <1>4. WithStatus(rs, o) = [rs EXCEPT ![o.id] = now]
    BY <1>2 DEF WithStatus
  <1>5. now # NoRecord
    BY <1>3
  <1> HIDE DEF now
  <1>6. QED BY ONLY <1>1, <1>2, <1>3, <1>4, <1>5 DEF Drafts, KnownRecords

LEMMA SupersedeDrafts ==
  ASSUME NEW rs \in RecordStores, NEW o \in RecordOps, NEW f \in Files, InOrder(rs),
         o.op = "supersede", SupersedeAllowed(rs, o)
  PROVE  /\ WithSuccessor(rs, o, f) \in Drafts
         /\ KnownRecords(WithSuccessor(rs, o, f)) = KnownRecords(rs) \union {NextId(rs)}
         /\ o.id \in KnownRecords(rs) /\ NextId(rs) \notin KnownRecords(rs) /\ NextId(rs) \in RecordIds
         /\ \A i \in KnownRecords(rs) : WithSuccessor(rs, o, f)[i].kind = rs[i].kind
         /\ \A i \in KnownRecords(rs) \ {o.id} : WithSuccessor(rs, o, f)[i] = rs[i]
         /\ WithSuccessor(rs, o, f)[o.id].status = "superseded"
         /\ WithSuccessor(rs, o, f)[o.id].authorized = RequiresAuthority(rs[o.id], "superseded")
  <1> DEFINE next == NextId(rs)
             now  == SupersededBy(rs[o.id], next)
             new  == NewRecord(rs[o.id].kind, Linked(o.link, f), o.id)
  <1>1. /\ o.id \in KnownRecords(rs) /\ o.id \in RecordIds /\ next \in RecordIds
        /\ Linked(o.link, f) \in LinkTargets
    BY LinkedTyped DEF RecordOps, SupersedeAllowed, AskedTargets
  <1>2. rs \in Drafts /\ rs[o.id] \in TaskRecord
    BY <1>1, StoresAreDrafts DEF RecordStores, KnownRecords
  <1>3. rs[o.id].kind \in RecordKinds /\ "superseded" \in StatusNames
    BY <1>2, KindStatuses DEF TaskRecord, RecordsOf, StatusNames
  <1>4. RequiresAuthority(rs[o.id], "superseded") \in BOOLEAN
    BY DEF RequiresAuthority
  <1>5. /\ now \in RecordsOf(Nat) /\ now.kind = rs[o.id].kind
        /\ now.status = "superseded" /\ now.authorized = RequiresAuthority(rs[o.id], "superseded")
    BY <1>1, <1>2, <1>3, <1>4, RecordFields DEF RecordsOf, StatusNames, SupersededBy
  <1>6. new \in RecordsOf(Nat) /\ new # NoRecord
    BY <1>1, <1>3, NewRecordTyped, RecordFields
  <1>7. WithSuccessor(rs, o, f) = [rs EXCEPT ![o.id] = now, ![next] = new]
    BY DEF WithSuccessor
  <1>8. now # NoRecord /\ next \notin KnownRecords(rs)
    BY <1>5, NextIdIsNew
  <1> HIDE DEF now, new, next
  <1>9. /\ WithSuccessor(rs, o, f) \in Drafts
        /\ KnownRecords(WithSuccessor(rs, o, f)) = KnownRecords(rs) \union {next}
        /\ \A i \in KnownRecords(rs) : WithSuccessor(rs, o, f)[i].kind = rs[i].kind
        /\ \A i \in KnownRecords(rs) \ {o.id} : WithSuccessor(rs, o, f)[i] = rs[i]
        /\ WithSuccessor(rs, o, f)[o.id] = now
    BY ONLY <1>1, <1>2, <1>5, <1>6, <1>7, <1>8 DEF Drafts, KnownRecords
  <1>10. QED BY <1>1, <1>5, <1>8, <1>9 DEF next

-----------------------------------------------------------------------------
LEMMA OpApplies ==
  ASSUME NEW rs \in RecordStores, InOrder(rs), NEW o \in RecordOps, NEW f \in Files, OpAllowed(rs, o)
  PROVE  /\ OpApplied(rs, o, f) \in Drafts
         /\ KnownRecords(OpApplied(rs, o, f)) \in {KnownRecords(rs), KnownRecords(rs) \union {NextId(rs)}}
         /\ \A i \in KnownRecords(rs) :
              (Adopts(rs[i]) <=> Adopts(OpApplied(rs, o, f)[i])) \/ OpApplied(rs, o, f)[i].authorized
  <1>1. CASE o.op = "create" /\ CreateAllowed(rs, o)
    <2>1. OpApplied(rs, o, f) = WithRecord(rs, o, f) /\ o.id = NextId(rs)
      BY <1>1 DEF OpApplied, CreateAllowed
    <2>2. QED BY <1>1, <2>1, CreateDrafts DEF Adopts
  <1>2. CASE o.op = "revise" /\ ReviseAllowed(rs, o)
    <2>1. OpApplied(rs, o, f) = WithRevision(rs, o, f)
      BY <1>2 DEF OpApplied
    <2>2. QED BY <1>2, <2>1, ReviseDrafts DEF Adopts
  <1>3. CASE o.op = "transition" /\ TransitionAllowed(rs, o)
    <2>1. OpApplied(rs, o, f) = WithStatus(rs, o)
      BY <1>3 DEF OpApplied
    <2>2. RequiresAuthority(rs[o.id], o.to) = o.authority
      BY <1>3 DEF TransitionAllowed
    <2>3. (Adopts(rs[o.id]) <=> Adopts(WithStatus(rs, o)[o.id])) \/ WithStatus(rs, o)[o.id].authorized
      BY <1>3, <2>2, TransitionDrafts DEF Adopts, RequiresAuthority
    <2>4. QED BY <1>3, <2>1, <2>3, TransitionDrafts DEF Adopts
  <1>4. CASE o.op = "supersede" /\ SupersedeAllowed(rs, o)
    <2>1. OpApplied(rs, o, f) = WithSuccessor(rs, o, f)
      BY <1>4 DEF OpApplied
    <2>2. rs[o.id].kind \in RecordKinds /\ o.id \in KnownRecords(rs)
      BY <1>4, SupersedeDrafts, RecordFields DEF RecordStores, KnownRecords, RecordsOf
    <2>3. (Adopts(rs[o.id]) <=> Adopts(WithSuccessor(rs, o, f)[o.id])) \/ WithSuccessor(rs, o, f)[o.id].authorized
      <3> DEFINE old == WithSuccessor(rs, o, f)[o.id]
      <3>1. /\ old.kind = rs[o.id].kind /\ old.status = "superseded"
            /\ old.authorized = RequiresAuthority(rs[o.id], "superseded")
        BY <1>4, <2>2, SupersedeDrafts
      <3> HIDE DEF old
      <3>2. ~Adopts(old)
        BY <2>2, <3>1, KindStatuses DEF Adopts
      <3>3. Adopts(rs[o.id]) => RequiresAuthority(rs[o.id], "superseded")
        BY DEF Adopts, RequiresAuthority
      <3>4. QED BY <3>1, <3>2, <3>3 DEF old
    <2>4. QED BY <1>4, <2>1, <2>3, SupersedeDrafts DEF Adopts
  <1>5. QED BY <1>1, <1>2, <1>3, <1>4 DEF OpAllowed

\* Drafts that pass validation are records of the store.
LEMMA ValidDraftsAreStored ==
  ASSUME NEW rs \in Drafts, \A i \in KnownRecords(rs) : ValidHistory(rs[i])
  PROVE  rs \in RecordStores
  BY DEF Drafts, RecordStores, KnownRecords, ValidHistory, TaskRecord, RecordsOf

LEMMA OpKeeps ==
  ASSUME NEW rs \in RecordStores, InOrder(rs), NEW o \in RecordOps, NEW f \in Files, OpAllowed(rs, o),
         \A i \in KnownRecords(OpApplied(rs, o, f)) : ValidHistory(OpApplied(rs, o, f)[i])
  PROVE  OpApplied(rs, o, f) \in RecordStores /\ InOrder(OpApplied(rs, o, f))
  <1> DEFINE now == OpApplied(rs, o, f)
  <1>1. /\ now \in Drafts
        /\ KnownRecords(now) \in {KnownRecords(rs), KnownRecords(rs) \union {NextId(rs)}}
    BY OpApplies
  <1>2. now \in RecordStores
    BY <1>1, ValidDraftsAreStored
  <1>3. KnownRecords(rs) = 1..(NextId(rs) - 1) /\ NextId(rs) \in Nat \ {0}
    BY NextIdIsNew
  <1>4. CASE KnownRecords(now) = KnownRecords(rs)
    BY <1>2, <1>4 DEF InOrder
  <1>5. CASE KnownRecords(now) = KnownRecords(rs) \union {NextId(rs)}
    <2>1. NextId(rs) \in RecordIds
      BY <1>2, <1>5 DEF KnownRecords, RecordStores
    <2>2. KnownRecords(now) = 1..NextId(rs) /\ NextId(rs) \in 0..MaxRecords
      BY <1>3, <1>5, <2>1 DEF RecordIds
    <2>3. QED BY <1>2, <2>2 DEF InOrder
  <1>6. QED BY <1>1, <1>4, <1>5

-----------------------------------------------------------------------------
LEMMA RecordsInitial == RecordsInit => RecordsIInv
  <1> SUFFICES ASSUME RecordsInit PROVE RecordsIInv
    OBVIOUS
  <1>0. PICK k \in RecordKinds, l \in {0, TheCriterion, TheMemory} \union Files :
          records = [i \in RecordIds |-> IF i = 1 THEN NewRecord(k, l, 0) ELSE NoRecord]
    BY DEF RecordsInit
  <1>1. NewRecord(k, l, 0) \in TaskRecord
    BY NewRecordTyped DEF LinkTargets
  <1>2. RecordTypes
    <2>1. revisions \in [{"task", "workflow", "tree"} -> Nat]
      BY DEF RecordsInit
    <2>2. records \in RecordStores
      BY <1>0, <1>1 DEF RecordStores
    <2>3. QED BY <2>1, <2>2 DEF RecordsInit, RecordTypes
  <1>3. KnownRecords(records) = {i \in RecordIds : i = 1}
    BY <1>0, <1>1, RecordFields DEF KnownRecords
  <1>4. InOrder(records)
    <2>1. CASE MaxRecords = 0
      BY <1>3, <2>1 DEF InOrder, RecordIds
    <2>2. CASE MaxRecords # 0
      BY <1>3, <2>2 DEF InOrder, RecordIds
    <2>3. QED BY <2>1, <2>2
  <1>5. ComputedTypes /\ OutcomeInv /\ PreviewInv /\ ApplicationInv
    BY DEF RecordsInit, ComputedTypes, OutcomeInv, PreviewInv, ApplicationInv
  <1>6. QED BY <1>2, <1>4, <1>5 DEF RecordsIInv

-----------------------------------------------------------------------------
\* What a patch would do, whatever the digest of the file.
LEMMA PatchDrafts ==
  ASSUME RecordTypes, InOrder(records), NEW p \in Patches, Patchable(p), NEW f \in Files
  PROVE  PatchedWith(p, f) \in Drafts /\ WritesSoundly(PatchedWith(p, f)) /\ Aims(p)
  <1>0. records \in RecordStores
    BY DEF RecordTypes
  <1>1. CASE p.record = NoOp
    BY <1>0, <1>1, StoresAreDrafts DEF PatchedWith, WritesSoundly, Aims
  <1>2. CASE p.record # NoOp
    <2>1. p.record \in RecordOps /\ p.record.op # "create" /\ OpAllowed(records, p.record)
      BY <1>2 DEF Patches, Patchable
    <2>2. PatchedWith(p, f) = OpApplied(records, p.record, f)
      BY <1>2 DEF PatchedWith
    <2>3. Aims(p)
      BY <2>1 DEF OpAllowed, Aims, ReviseAllowed, TransitionAllowed, SupersedeAllowed
    <2>4. QED BY <1>0, <2>1, <2>2, <2>3, OpApplies DEF WritesSoundly
  <1>3. QED BY <1>1, <1>2

\* Records that differ in the digest of a link at most.
AlikeButFiles(as, bs) ==
  \A i \in RecordIds :
    \/ as[i] = bs[i]
    \/ /\ as[i] \in RecordsOf(Nat) /\ bs[i] \in RecordsOf(Nat)
       /\ as[i].link \in Files /\ bs[i].link \in Files
       /\ [as[i] EXCEPT !.link = 0] = [bs[i] EXCEPT !.link = 0]

LEMMA LinkedAlike ==
  ASSUME NEW k \in RecordKinds, NEW l \in AskedTargets, NEW old \in RecordIds \union {0},
         NEW f \in Files, NEW g \in Files
  PROVE  \/ l # TheFile /\ NewRecord(k, Linked(l, f), old) = NewRecord(k, Linked(l, g), old)
         \/ /\ NewRecord(k, Linked(l, f), old) \in RecordsOf(Nat)
            /\ NewRecord(k, Linked(l, f), old).link \in Files
            /\ NewRecord(k, Linked(l, g), old).link \in Files
            /\ NewRecord(k, Linked(l, g), old) \in RecordsOf(Nat)
            /\ [NewRecord(k, Linked(l, f), old) EXCEPT !.link = 0]
                 = [NewRecord(k, Linked(l, g), old) EXCEPT !.link = 0]
  <1>1. CASE l # TheFile
    BY <1>1 DEF Linked
  <1>2. CASE l = TheFile
    <2>1. Linked(l, f) = f /\ Linked(l, g) = g
      BY <1>2 DEF Linked
    <2>2. NewRecord(k, f, old) \in RecordsOf(Nat) /\ NewRecord(k, g, old) \in RecordsOf(Nat)
      BY NewRecordTyped, RecordFields DEF LinkTargets
    <2>3. [NewRecord(k, f, old) EXCEPT !.link = 0] = [NewRecord(k, g, old) EXCEPT !.link = 0]
      <3> DEFINE a == NewRecord(k, f, old)
                 b == NewRecord(k, g, old)
      <3>1. /\ a.kind = b.kind /\ a.status = b.status /\ a.revision = b.revision
            /\ a.supersedes = b.supersedes /\ a.supersededBy = b.supersededBy
            /\ a.authorized = b.authorized
        BY DEF NewRecord
      <3> HIDE DEF a, b
      <3>2. QED BY <2>2, <3>1 DEF a, b, RecordsOf
    <2>4. NewRecord(k, f, old).link = f /\ NewRecord(k, g, old).link = g
      BY DEF NewRecord
    <2>5. QED BY <2>1, <2>2, <2>3, <2>4
  <1>3. QED BY <1>1, <1>2

\* The digest of the file makes no other difference than in a link of what the patch names.
LEMMA PatchesAlike ==
  ASSUME RecordTypes, InOrder(records), NEW p \in Patches, Aims(p), NEW f \in Files, NEW g \in Files
  PROVE  /\ AlikeButFiles(PatchedWith(p, f), PatchedWith(p, g))
         /\ \/ PatchedWith(p, f) = PatchedWith(p, g)
            \/ \E i \in NamedBy(p) \intersect RecordIds :
                 /\ PatchedWith(p, f)[i] \in RecordsOf(Nat)
                 /\ PatchedWith(p, f)[i].link \in Files
  <1> DEFINE o == p.record
  <1>0. records \in RecordStores /\ records \in Drafts
    BY StoresAreDrafts DEF RecordTypes
  <1>1. CASE o = NoOp
    BY <1>1 DEF PatchedWith, AlikeButFiles
  <1>2. CASE o # NoOp
    <2>1. /\ o \in RecordOps /\ o.op \in {"revise", "transition", "supersede"}
          /\ o.id \in RecordIds /\ o.id \in KnownRecords(records) /\ o.id \in NamedBy(p)
      BY <1>2 DEF Patches, RecordOps, Aims, NamedBy
    <2>2. /\ PatchedWith(p, f) = OpApplied(records, o, f)
          /\ PatchedWith(p, g) = OpApplied(records, o, g)
      BY <1>2 DEF PatchedWith
    <2>3. records[o.id] \in TaskRecord /\ records[o.id] \in RecordsOf(Nat)
      BY <1>0, <2>1, RecordFields DEF RecordStores, KnownRecords
    <2>4. CASE o.op = "transition"
      BY <2>2, <2>4 DEF OpApplied, AlikeButFiles
    <2>5. CASE o.op = "revise"
      <3> DEFINE now(d) == [records[o.id] EXCEPT !.link = Linked(o.link, d),
                                                !.revision = records[o.id].revision + 1,
                                                !.authorized = FALSE]
      <3>1. \A d : OpApplied(records, o, d) = [records EXCEPT ![o.id] = now(d)]
        BY <1>0, <2>1, <2>5 DEF OpApplied, WithRevision, Drafts
      <3>2. CASE Linked(o.link, f) = Linked(o.link, g)
        BY <2>2, <3>1, <3>2 DEF AlikeButFiles
      <3>3. CASE o.link = TheFile
        <4>1. Linked(o.link, f) = f /\ Linked(o.link, g) = g
          BY <3>3 DEF Linked
        <4>2. \A d \in Files : d \in LinkTargets
          BY DEF LinkTargets
        <4>3. /\ now(f) \in RecordsOf(Nat) /\ now(g) \in RecordsOf(Nat)
              /\ now(f).link = f /\ now(g).link = g
              /\ [now(f) EXCEPT !.link = 0] = [now(g) EXCEPT !.link = 0]
          BY <2>3, <4>1, <4>2, RecordFields DEF RecordsOf
        <4> HIDE DEF now
        <4>4. AlikeButFiles([records EXCEPT ![o.id] = now(f)], [records EXCEPT ![o.id] = now(g)])
          BY <1>0, <2>1, <4>3 DEF AlikeButFiles, Drafts
        <4>5. /\ [records EXCEPT ![o.id] = now(f)][o.id] = now(f)
          BY <1>0, <2>1 DEF Drafts
        <4>6. /\ PatchedWith(p, f) = [records EXCEPT ![o.id] = now(f)]
              /\ PatchedWith(p, g) = [records EXCEPT ![o.id] = now(g)]
          BY <2>2, <3>1
        <4>7. /\ PatchedWith(p, f)[o.id] \in RecordsOf(Nat)
              /\ PatchedWith(p, f)[o.id].link \in Files
          BY <4>3, <4>5, <4>6
        <4>8. QED BY <2>1, <4>4, <4>6, <4>7
      <3>4. QED BY <3>2, <3>3 DEF Linked
    <2>6. CASE o.op = "supersede"
      <3> DEFINE next == NextId(records)
                 old == SupersededBy(records[o.id], next)
                 new(d) == NewRecord(records[o.id].kind, Linked(o.link, d), o.id)
      <3>1. \A d : OpApplied(records, o, d)
                     = [records EXCEPT ![o.id] = old, ![next] = new(d)]
        BY <1>0, <2>1, <2>6 DEF OpApplied, WithSuccessor, Drafts
      <3>2. next \in RecordIds /\ next \in NamedBy(p)
        BY <1>2, <2>6 DEF Aims, NamedBy
      <3>3. o.link \in AskedTargets /\ records[o.id].kind \in RecordKinds
        BY <2>1, <2>3, <2>6 DEF RecordOps, AskedTargets, RecordsOf
      <3>4. \/ new(f) = new(g)
            \/ /\ new(f) \in RecordsOf(Nat) /\ new(f).link \in Files
               /\ new(g) \in RecordsOf(Nat) /\ new(g).link \in Files
               /\ [new(f) EXCEPT !.link = 0] = [new(g) EXCEPT !.link = 0]
        BY <2>1, <3>3, LinkedAlike
      <3> HIDE DEF next, old, new
      <3>5. /\ [records EXCEPT ![o.id] = old, ![next] = new(f)][next] = new(f)
            /\ AlikeButFiles([records EXCEPT ![o.id] = old, ![next] = new(f)],
                             [records EXCEPT ![o.id] = old, ![next] = new(g)])
        BY <1>0, <2>1, <3>2, <3>4 DEF AlikeButFiles, Drafts
      <3>6. QED BY <2>2, <3>1, <3>2, <3>4, <3>5
    <2>7. QED BY <2>1, <2>4, <2>5, <2>6
  <1>3. QED BY <1>1, <1>2

LEMMA AlikeFields ==
  ASSUME NEW a \in RecordsOf(Nat), NEW b \in RecordsOf(Nat), a.link \in Files, b.link \in Files,
         [a EXCEPT !.link = 0] = [b EXCEPT !.link = 0]
  PROVE  /\ a.kind = b.kind /\ a.status = b.status /\ a.supersedes = b.supersedes
         /\ a.supersededBy = b.supersededBy /\ a # NoRecord /\ b # NoRecord
         /\ DeclaredLinks(a) = DeclaredLinks(b)
  <1>1. /\ a.kind = b.kind /\ a.status = b.status /\ a.supersedes = b.supersedes
        /\ a.supersededBy = b.supersededBy
    BY DEF RecordsOf
  <1>2. a.link \notin RecordIds /\ b.link \notin RecordIds
    OBVIOUS
  <1>3. QED BY <1>1, <1>2 DEF DeclaredLinks, DependsOn

\* The records that are there, what they adopt, and how they are linked.
LEMMA AlikeRecords ==
  ASSUME NEW as \in Drafts, NEW bs \in Drafts, AlikeButFiles(as, bs)
  PROVE  /\ KnownRecords(as) = KnownRecords(bs) /\ SnapshotOf(as) = SnapshotOf(bs)
         /\ Adopted(as) = Adopted(bs)
         /\ \A i \in RecordIds : /\ DeclaredLinks(as[i]) = DeclaredLinks(bs[i])
                                 /\ as[i].link \in Files <=> bs[i].link \in Files
                                 /\ as[i].link = TheCriterion <=> bs[i].link = TheCriterion
                                 /\ as[i].link = TheMemory <=> bs[i].link = TheMemory
  <1>1. \A i \in RecordIds :
          \/ as[i] = bs[i]
          \/ /\ as[i] # NoRecord /\ bs[i] # NoRecord
             /\ as[i].kind = bs[i].kind /\ as[i].status = bs[i].status
             /\ DeclaredLinks(as[i]) = DeclaredLinks(bs[i])
             /\ as[i].link \in Files /\ bs[i].link \in Files
             /\ [as[i] EXCEPT !.link = 0] = [bs[i] EXCEPT !.link = 0]
    BY AlikeFields DEF AlikeButFiles
  <1>2. DOMAIN as = RecordIds /\ DOMAIN bs = RecordIds
    BY DEF Drafts
  <1>3. KnownRecords(as) = KnownRecords(bs)
    BY <1>1, <1>2 DEF KnownRecords
  <1>4. SnapshotOf(as) = SnapshotOf(bs)
    BY <1>1 DEF SnapshotOf
  <1>5. Adopted(as) = Adopted(bs)
    BY <1>1, <1>2, <1>3 DEF Adopted, KnownRecords
  <1>6. TheCriterion \notin Files /\ TheMemory \notin Files
    OBVIOUS
  <1>7. QED BY <1>1, <1>3, <1>4, <1>5, <1>6

LEMMA AlikeReach ==
  ASSUME NEW as \in Drafts, NEW bs \in Drafts, AlikeButFiles(as, bs), NEW S
  PROVE  Reach(as, S) = Reach(bs, S)
  <1> DEFINE nodes == KnownRecords(as) \union {0}
  <1>1. nodes = KnownRecords(bs) \union {0} /\ KnownRecords(as) \subseteq RecordIds
    BY AlikeRecords DEF KnownRecords, Drafts
  <1>2. \A i, j \in nodes : i # j => (LinkedNodes(as, i, j) <=> LinkedNodes(bs, i, j))
    <2>1. \A i \in nodes : i # 0 => i \in RecordIds
      BY <1>1
    <2>2. \A i \in RecordIds : /\ DeclaredLinks(as[i]) = DeclaredLinks(bs[i])
                               /\ as[i].link = TheCriterion <=> bs[i].link = TheCriterion
      BY AlikeRecords
    <2>3. QED BY <2>1, <2>2 DEF LinkedNodes, RelatedRecords
  <1> DEFINE ClosedIn(rs, T) == \A i \in T, j \in nodes \ T : ~LinkedNodes(rs, i, j)
             ReachIn(rs) == {n \in nodes : \A T \in SUBSET nodes : S \subseteq T /\ ClosedIn(rs, T) => n \in T}
  <1>3. \A T \in SUBSET nodes : ClosedIn(as, T) <=> ClosedIn(bs, T)
    BY <1>2
  <1>4. Reach(as, S) = ReachIn(as)
    BY DEF Reach
  <1>5. Reach(bs, S) = ReachIn(bs)
    BY <1>1 DEF Reach
  <1> HIDE DEF ClosedIn, nodes
  <1>6. QED BY <1>3, <1>4, <1>5

\* What is named and known is reached.
LEMMA NamedIsReached ==
  ASSUME NEW rs, NEW S, NEW i \in S, i \in KnownRecords(rs) \union {0}
  PROVE  i \in Reach(rs, S)
  BY DEF Reach

-----------------------------------------------------------------------------
\* Two reports of a patch, for one task and workflow.
LEMMA ReportsAgree ==
  ASSUME RecordTypes, InOrder(records), NEW p \in Patches, Aims(p), NEW f \in Files, NEW g \in Files,
         PatchedWith(p, f) \in Drafts, PatchedWith(p, g) \in Drafts
  PROVE  /\ SnapshotOf(PatchedWith(p, f)) = SnapshotOf(PatchedWith(p, g))
         /\ ReportWith(p, f).reached = ReportWith(p, g).reached
         /\ ReportWith(p, f).survives = ReportWith(p, g).survives
         /\ Links(ReportWith(p, f), Files) = Links(ReportWith(p, g), Files)
         /\ Links(ReportWith(p, f), {TheMemory}) = Links(ReportWith(p, g), {TheMemory})
         /\ Links(ReportWith(p, f), Files) = {} => PatchedWith(p, f) = PatchedWith(p, g)
  <1> DEFINE as == PatchedWith(p, f)
             bs == PatchedWith(p, g)
             S == NamedBy(p)
  <1>1. AlikeButFiles(as, bs)
    BY PatchesAlike
  <1>2. /\ KnownRecords(as) = KnownRecords(bs) /\ SnapshotOf(as) = SnapshotOf(bs)
        /\ Adopted(as) = Adopted(bs) /\ Reach(as, S) = Reach(bs, S)
        /\ KnownRecords(as) \subseteq RecordIds
    BY <1>1, AlikeRecords, AlikeReach DEF KnownRecords, Drafts
  <1>3. /\ ReportWith(p, f).reached = Reach(as, S) /\ ReportWith(p, g).reached = Reach(bs, S)
        /\ ReportWith(p, f).records = as /\ ReportWith(p, g).records = bs
        /\ ReportWith(p, f).survives = ReportWith(p, g).survives
    BY <1>2 DEF ReportWith
  <1>4. \A i \in Reach(as, S) \ {0} : i \in RecordIds
    BY <1>2 DEF Reach
  <1>5. /\ Links(ReportWith(p, f), Files) = Links(ReportWith(p, g), Files)
        /\ Links(ReportWith(p, f), {TheMemory}) = Links(ReportWith(p, g), {TheMemory})
    BY <1>1, <1>2, <1>3, <1>4, AlikeRecords DEF Links
  <1>6. ASSUME as # bs PROVE Links(ReportWith(p, f), Files) # {}
    <2>1. PICK i \in S \intersect RecordIds : as[i] \in RecordsOf(Nat) /\ as[i].link \in Files
      BY <1>6, PatchesAlike
    <2>2. i \in KnownRecords(as) /\ i # 0
      BY <2>1 DEF KnownRecords, Drafts, RecordIds
    <2>3. i \in Reach(as, S)
      BY <2>1, <2>2, NamedIsReached
    <2>4. QED BY <1>3, <2>1, <2>2, <2>3 DEF Links
  <1>7. QED BY <1>2, <1>3, <1>5, <1>6

\* The report of a task that did not move is the same report.
LEMMA ReportStays ==
  ASSUME NEW report, NEW p, NEW u \in BOOLEAN, NEW f, ReportIsOf(report, p, u, f),
         UNCHANGED <<records, criterion, approval>>
  PROVE  ReportIsOf(report, p, u, f)'
  <1>1. Aims(p)'
    BY DEF ReportIsOf, Aims
  <1>2. \A g : ReportWith(p, g)' = ReportWith(p, g)
    BY DEF ReportWith, PatchedWith, PatchedCriterion, OpApplied, NamedBy
  <1>3. QED BY <1>1, <1>2 DEF ReportIsOf

\* The revisions tell whether the task or its workflow moved.
Tracked ==
  /\ revisions' \in [{"task", "workflow", "tree"} -> Nat]
  /\ \/ revisions'.task = revisions.task /\ UNCHANGED <<records, criterion>>
     \/ revisions'.task = revisions.task + 1
  /\ \/ revisions'.workflow = revisions.workflow /\ UNCHANGED approval
     \/ revisions'.workflow = revisions.workflow + 1

LEMMA PreviewStays ==
  ASSUME RecordsIInv, Tracked, UNCHANGED preview, memoryMoved' \in BOOLEAN, memoryMoved => memoryMoved'
  PROVE  PreviewInv'
  <1> SUFFICES ASSUME preview # NoRecord PROVE PreviewInv'
    BY DEF PreviewInv
  <1> DEFINE d == preview.digest
             u == ~preview.edited /\ d.file # NoRecord
  <1>1. /\ preview \in PatchPreviews /\ d.task \in Nat /\ d.workflow \in Nat
        /\ revisions.task \in Nat /\ revisions.workflow \in Nat
        /\ d.task <= revisions.task /\ d.workflow <= revisions.workflow
        /\ preview.memory \in BOOLEAN
    BY DEF RecordsIInv, RecordTypes, ComputedTypes, PreviewInv, PatchPreviews, PatchDigests
  <1>2. d.task <= revisions'.task /\ d.workflow <= revisions'.workflow
    BY <1>1 DEF Tracked
  <1>3. ASSUME NotMoved(d)' PROVE ReportIsOf(preview.report, preview.patch, u, d.file)'
    <2>1. d.task = revisions'.task /\ d.workflow = revisions'.workflow
      BY <1>3 DEF NotMoved
    <2>2. UNCHANGED <<records, criterion, approval>> /\ NotMoved(d)
      BY <1>1, <2>1 DEF Tracked, NotMoved
    <2>3. ReportIsOf(preview.report, preview.patch, u, d.file)
      BY <2>2 DEF RecordsIInv, PreviewInv
    <2>4. PICK w \in BOOLEAN : w = u
      OBVIOUS
    <2>4a. PICK report, p, f : report = preview.report /\ p = preview.patch /\ f = d.file
      OBVIOUS
    <2>5. ReportIsOf(report, p, w, f)'
      BY <2>2, <2>3, <2>4, <2>4a, ReportStays
    <2>6. /\ preview'.report = report /\ preview'.patch = p /\ u = w
          /\ UNCHANGED preview
      BY <2>4, <2>4a
    <2>7. QED BY <2>4, <2>4a, <2>5, <2>6
  <1>4. DoubtsAre(preview, {}, d.file)'
    BY <1>1 DEF RecordsIInv, PreviewInv, DoubtsAre, Links, RecordTypes
  <1>5. d.file = NoRecord <=> Links(preview.report, Files) = {}
    BY DEF RecordsIInv, PreviewInv
  <1>6. QED BY <1>2, <1>3, <1>4, <1>5 DEF PreviewInv, Links

LEMMA OutcomeStays ==
  ASSUME RecordsIInv, Tracked, UNCHANGED <<outcome, file>>, memoryMoved' \in BOOLEAN,
         memoryMoved => memoryMoved'
  PROVE  OutcomeInv'
  <1> SUFFICES ASSUME outcome # NoRecord PROVE OutcomeInv'
    BY DEF OutcomeInv
  <1>1. /\ outcome \in PatchOutcomes /\ outcome.task \in Nat /\ outcome.workflow \in Nat
        /\ revisions.task \in Nat /\ revisions.workflow \in Nat
        /\ outcome.task <= revisions.task /\ outcome.workflow <= revisions.workflow
        /\ outcome.memory \in BOOLEAN
    BY DEF RecordsIInv, RecordTypes, ComputedTypes, OutcomeInv, PatchOutcomes
  <1>2. outcome.task <= revisions'.task /\ outcome.workflow <= revisions'.workflow
    BY <1>1 DEF Tracked
  <1>3. ASSUME NotMoved(outcome)'
        PROVE  ReportIsOf(outcome.report, outcome.patch, ~outcome.edited, file)'
    <2>1. outcome.task = revisions'.task /\ outcome.workflow = revisions'.workflow
      BY <1>3 DEF NotMoved
    <2>2. UNCHANGED <<records, criterion, approval>> /\ NotMoved(outcome)
      BY <1>1, <2>1 DEF Tracked, NotMoved
    <2>3. ReportIsOf(outcome.report, outcome.patch, ~outcome.edited, file)
      BY <2>2 DEF RecordsIInv, OutcomeInv
    <2>4. PICK w \in BOOLEAN : w = ~outcome.edited
      OBVIOUS
    <2>4a. PICK report, p, f : report = outcome.report /\ p = outcome.patch /\ f = file
      OBVIOUS
    <2>5. ReportIsOf(report, p, w, f)'
      BY <2>2, <2>3, <2>4, <2>4a, ReportStays
    <2>6. /\ outcome'.report = report /\ outcome'.patch = p /\ ~outcome.edited = w
          /\ UNCHANGED outcome
      BY <2>4, <2>4a
    <2>7. QED BY <2>4, <2>4a, <2>5, <2>6
  <1>4. DoubtsAre(outcome, outcome.unread, file)'
    BY <1>1 DEF RecordsIInv, OutcomeInv, DoubtsAre, Links, RecordTypes
  <1>5. QED BY <1>2, <1>3, <1>4 DEF RecordsIInv, OutcomeInv, Links

\* Under the lock the task, its workflow and the preview stay.
LEMMA ApplicationStays ==
  ASSUME RecordsIInv, UNCHANGED <<outcome, preview>>,
         Unlocked \/ /\ UNCHANGED <<records>>
                     /\ revisions'.task = revisions.task /\ revisions'.workflow = revisions.workflow
  PROVE  ApplicationInv'
  BY DEF RecordsIInv, ApplicationInv, Unlocked, NotMoved, WritesSoundly, Adopts, KnownRecords, NextId,
         ComputedTypes, PatchOutcomes

LEMMA ChangesTracked ==
  ASSUME RecordTypes, NEW what \in {"task", "workflow", "tree"}, RecordChange(what),
         what = "task" \/ UNCHANGED <<records, criterion>>, what = "workflow" \/ UNCHANGED approval
  PROVE  /\ Tracked
         /\ \/ Unlocked
            \/ what = "tree" /\ revisions'.task = revisions.task /\ revisions'.workflow = revisions.workflow
  BY DEF RecordChange, RecordTypes, Tracked

-----------------------------------------------------------------------------
LEMMA CommitRecordsKeeps ==
  ASSUME RecordsIInv, NEW o \in RecordOps, OpAllowed(records, o),
         CommitRecords(OpApplied(records, o, file))
  PROVE  RecordsIInv'
  <1>1. /\ ValidRecords(OpApplied(records, o, file), criterion)
        /\ records' = OpApplied(records, o, file) /\ RecordChange("task")
        /\ UNCHANGED <<criterion, passed, file, memoryMoved, approval, effect, outcome, preview>>
    BY DEF CommitRecords
  <1>2. \A i \in KnownRecords(OpApplied(records, o, file)) :
          ValidHistory(OpApplied(records, o, file)[i])
    BY <1>1 DEF ValidRecords
  <1>3. file \in Files /\ records' \in RecordStores /\ InOrder(records')
    BY <1>1, <1>2, OpKeeps DEF RecordsIInv, RecordTypes
  <1>4. Tracked /\ Unlocked
    BY <1>1, ChangesTracked DEF RecordsIInv
  <1>5. RecordTypes'
    BY <1>1, <1>3, <1>4 DEF RecordsIInv, RecordTypes, Tracked
  <1>6. PreviewInv' /\ OutcomeInv' /\ ApplicationInv'
    BY <1>1, <1>4, <1>5, PreviewStays, OutcomeStays, ApplicationStays DEF RecordTypes
  <1>7. ComputedTypes'
    BY <1>1 DEF RecordsIInv, ComputedTypes
  <1>8. QED BY <1>3, <1>5, <1>6, <1>7 DEF RecordsIInv, InOrder

\* What is computed first: the report of the task and of the file as they are.
LEMMA OutcomeBegins ==
  ASSUME RecordsIInv, NEW p \in Patches, Patchable(p), NEW who \in {"preview", "apply"},
         outcome' = Outcome(who, p), OutcomeStep
  PROVE  /\ outcome' \in PatchOutcomes /\ OutcomeInv' /\ WritesSoundly(outcome'.report.records)
         /\ NotMoved(outcome') /\ outcome'.by = who /\ outcome'.patch = p
         /\ outcome'.memory = memoryMoved
  <1> DEFINE report == ImpactReport(p)
  <1>0. /\ RecordTypes /\ InOrder(records) /\ file \in Files /\ revisions.task \in Nat
        /\ revisions.workflow \in Nat /\ memoryMoved \in BOOLEAN /\ criterion \in BOOLEAN
        /\ UNCHANGED <<records, criterion, passed, file, memoryMoved, approval, effect, revisions>>
    BY DEF RecordsIInv, RecordTypes, OutcomeStep
  <1>1. report = ReportWith(p, file)
    BY DEF ImpactReport, ReportWith, PatchedRecords, PatchedWith
  <1>2. PatchedWith(p, file) \in Drafts /\ WritesSoundly(PatchedWith(p, file)) /\ Aims(p)
    BY <1>0, PatchDrafts
  <1>3. /\ report.records = PatchedWith(p, file)
        /\ report.reached = Reach(PatchedWith(p, file), NamedBy(p))
    BY <1>1 DEF ReportWith
  <1>4. report \in PatchReports
    <2>1. Reach(PatchedWith(p, file), NamedBy(p)) \in SUBSET (RecordIds \union {0})
      BY <1>2 DEF Reach, KnownRecords, Drafts
    <2>2. PatchedCriterion(p) \in BOOLEAN
      BY <1>0 DEF PatchedCriterion
    <2>3. (approval = Adopted(PatchedWith(p, file)) /\ p.criteria = "kept") \in BOOLEAN
      OBVIOUS
    <2>4. QED BY <1>1, <1>2, <2>1, <2>2, <2>3 DEF ReportWith, PatchReports
  <1> DEFINE unread == Links(report, AllLinks)
  <1>5. unread \in SUBSET RecordIds
    BY <1>4 DEF Links, PatchReports
  <1>6. ReportIsOf(report, p, TRUE, file)
    BY <1>0, <1>1, <1>2 DEF ReportIsOf
  <1>7. PICK shown, f : shown = report /\ f = file
    OBVIOUS
  <1>7A. ReportIsOf(shown, p, TRUE, f)'
    BY <1>0, <1>6, <1>7, ReportStays
  <1> HIDE DEF report
  <1>8. outcome' = [by |-> who, at |-> "links", patch |-> p, report |-> report, unread |-> unread,
                    doubtful |-> {}, task |-> revisions.task, workflow |-> revisions.workflow,
                    tree |-> 0, edited |-> FALSE, memory |-> memoryMoved]
    BY DEF Outcome, report, AllLinks
  <1> HIDE DEF unread
  <1>9. outcome' \in PatchOutcomes
    BY <1>0, <1>4, <1>5, <1>8 DEF PatchOutcomes
  <1>10. /\ outcome'.task = revisions.task /\ outcome'.workflow = revisions.workflow
         /\ outcome'.report = report /\ outcome'.unread = unread /\ outcome'.doubtful = {}
         /\ outcome'.edited = FALSE /\ outcome'.memory = memoryMoved /\ outcome'.at = "links"
         /\ outcome'.by = who /\ outcome'.patch = p
    BY <1>8
  <1>11. ReportIsOf(outcome.report, outcome.patch, ~outcome.edited, file)'
    BY <1>0, <1>7, <1>7A, <1>10 DEF ReportIsOf
  <1>12. /\ outcome'.doubtful \subseteq Links(outcome'.report, AllLinks) \ outcome'.unread
         /\ outcome'.unread = Links(outcome'.report, AllLinks)
         /\ \A targets : Links(outcome'.report, targets) = Links(report, targets)
    BY <1>10 DEF unread
  <1>13. DoubtsAre(outcome, outcome.unread, file)'
    <2>1. /\ Links(outcome'.report, Files) \ outcome'.unread = {}
          /\ Links(outcome'.report, {TheMemory}) \ outcome'.unread = {}
      BY <1>12 DEF Links, AllLinks
    <2>2. QED BY <1>0, <1>10, <1>12, <2>1 DEF DoubtsAre
  <1>14. OutcomeInv'
    BY <1>0, <1>10, <1>11, <1>12, <1>13 DEF OutcomeInv
  <1>15. QED BY <1>2, <1>3, <1>9, <1>10, <1>14 DEF NotMoved, report

\* A step that computes leaves all that is stored.
LEMMA ComputingKeeps ==
  ASSUME RecordsIInv, OutcomeStep, ComputedTypes', OutcomeInv', PreviewInv', ApplicationInv'
  PROVE  RecordsIInv'
  BY DEF RecordsIInv, OutcomeStep, RecordTypes, InOrder, RecordStores, KnownRecords

LEMMA StepTracked ==
  ASSUME RecordsIInv, OutcomeStep
  PROVE  Tracked /\ memoryMoved' \in BOOLEAN /\ memoryMoved = memoryMoved'
  BY DEF RecordsIInv, RecordTypes, OutcomeStep, Tracked

LEMMA BeginsKeep ==
  ASSUME RecordsIInv, BeginReconciliation \/ \E p \in Patches : BeginPreview(p)
  PROVE  RecordsIInv'
  <1>1. CASE BeginReconciliation
    <2>1. /\ preview \in PatchPreviews /\ preview.patch \in Patches /\ UNCHANGED preview
          /\ Patchable(preview.patch) /\ outcome' = Outcome("apply", preview.patch) /\ OutcomeStep
      BY <1>1 DEF BeginReconciliation, RecordsIInv, ComputedTypes, PatchPreviews
    <2>2. /\ outcome' \in PatchOutcomes /\ OutcomeInv' /\ WritesSoundly(outcome'.report.records)
          /\ NotMoved(outcome') /\ outcome'.patch = preview.patch /\ outcome'.memory = memoryMoved
          /\ outcome'.by = "apply"
      BY <2>1, OutcomeBegins
    <2>3. PreviewInv' /\ ComputedTypes'
      BY <2>1, <2>2, StepTracked, PreviewStays DEF RecordsIInv, ComputedTypes
    <2>4. preview.memory => memoryMoved
      BY <1>1 DEF BeginReconciliation, RecordsIInv, PreviewInv, DoubtsAre
    <2>5. ApplicationInv'
      BY <1>1, <2>1, <2>2, <2>4
      DEF ApplicationInv, BeginReconciliation, OutcomeStep, NotMoved, WritesSoundly, Adopts,
          KnownRecords, NextId
    <2>6. QED BY <2>1, <2>2, <2>3, <2>5, ComputingKeeps
  <1>2. ASSUME NEW p \in Patches, BeginPreview(p) PROVE RecordsIInv'
    <2>1. /\ preview = NoRecord /\ UNCHANGED preview /\ Patchable(p)
          /\ outcome' = Outcome("preview", p) /\ OutcomeStep
      BY <1>2 DEF BeginPreview
    <2>2. outcome' \in PatchOutcomes /\ OutcomeInv' /\ outcome'.by = "preview"
      BY <2>1, OutcomeBegins
    <2>3. PreviewInv' /\ ComputedTypes' /\ ApplicationInv'
      BY <2>1, <2>2 DEF PreviewInv, RecordsIInv, ComputedTypes, ApplicationInv
    <2>4. QED BY <2>1, <2>2, <2>3, ComputingKeeps
  <1>3. QED BY <1>1, <1>2


LEMMA ReadLinkKeeps ==
  ASSUME RecordsIInv, NEW i \in RecordIds, ReadLinkStatus(i)
  PROVE  RecordsIInv'
  <1> DEFINE report == outcome.report
             link == report.records[i].link
             read == outcome.unread \ {i}
             doubts == IF Doubtful(link) THEN outcome.doubtful \union {i} ELSE outcome.doubtful
  <1>0. /\ outcome \in PatchOutcomes /\ outcome # NoRecord /\ OutcomeStep /\ UNCHANGED preview
        /\ i \in outcome.unread /\ file' = file /\ memoryMoved' = memoryMoved
        /\ memoryMoved \in BOOLEAN /\ file \in Files
        /\ UNCHANGED <<records, criterion, approval, revisions>>
    BY DEF ReadLinkStatus, RecordsIInv, RecordTypes, ComputedTypes, OutcomeStep
  <1>1. outcome' = [outcome EXCEPT !.unread = read, !.doubtful = doubts]
    BY <1>0 DEF ReadLinkStatus, PatchOutcomes
  <1>2. read \in SUBSET RecordIds /\ doubts \in SUBSET RecordIds
    BY <1>0 DEF PatchOutcomes
  <1>3. /\ outcome.unread \subseteq Links(report, AllLinks)
        /\ i \in Links(report, AllLinks) /\ DoubtsAre(outcome, outcome.unread, file)
        /\ NotMoved(outcome) => ReportIsOf(outcome.report, outcome.patch, ~outcome.edited, file)
        /\ outcome.task <= revisions.task /\ outcome.workflow <= revisions.workflow
        /\ outcome.at = "tree" => outcome.unread = {}
    BY <1>0 DEF RecordsIInv, OutcomeInv
  <1>4. i \in Links(report, Files) => (Doubtful(link) <=> link # file)
    BY <1>0 DEF Links, Doubtful
  <1>5. i \in Links(report, {TheMemory}) => (Doubtful(link) <=> memoryMoved)
    BY <1>0 DEF Links, Doubtful
  <1> HIDE DEF read, doubts
  <1>6. /\ outcome' \in PatchOutcomes /\ outcome'.report = report /\ outcome'.unread = read
        /\ outcome'.doubtful = doubts /\ outcome'.by = outcome.by /\ outcome'.at = outcome.at
        /\ outcome'.patch = outcome.patch /\ outcome'.task = outcome.task
        /\ outcome'.workflow = outcome.workflow /\ outcome'.edited = outcome.edited
        /\ outcome'.memory = outcome.memory
    BY <1>0, <1>1, <1>2 DEF PatchOutcomes
  <1>7. DoubtsAre(outcome, outcome.unread, file)'
    <2>1. doubts \subseteq Links(report, AllLinks) \ read
      BY <1>3 DEF DoubtsAre, doubts, read
    <2>2. \A j : /\ j \notin outcome.unread => (j \notin read /\ (j \in doubts <=> j \in outcome.doubtful))
                 /\ j \notin read => j = i \/ j \notin outcome.unread
      BY <1>0 DEF doubts, read
    <2>3. i \in doubts <=> Doubtful(link)
      BY <1>0, <1>3 DEF doubts, DoubtsAre
    <2>4. ASSUME ~outcome.edited, NEW j \in Links(report, Files) \ read
          PROVE  j \in doubts <=> report.records[j].link # file
      BY <1>3, <1>4, <2>2, <2>3, <2>4 DEF DoubtsAre
    <2>5. ASSUME outcome.memory = memoryMoved, NEW j \in Links(report, {TheMemory}) \ read
          PROVE  j \in doubts <=> memoryMoved
      BY <1>3, <1>5, <2>2, <2>3, <2>5 DEF DoubtsAre
    <2>6. \A targets : Links(report', targets) = Links(report, targets)
      BY <1>6 DEF Links
    <2>7. outcome.memory => memoryMoved
      BY <1>3 DEF DoubtsAre
    <2>8. QED BY <1>0, <1>6, <2>1, <2>4, <2>5, <2>6, <2>7 DEF DoubtsAre, Links
  <1>8. NotMoved(outcome)' => ReportIsOf(outcome.report, outcome.patch, ~outcome.edited, file)'
    <2>1. PICK w \in BOOLEAN : w = ~outcome.edited
      OBVIOUS
    <2>2. PICK was, p, f : was = report /\ p = outcome.patch /\ f = file
      OBVIOUS
    <2>3. ReportIsOf(was, p, w, f) => ReportIsOf(was, p, w, f)'
      BY <1>0, ReportStays
    <2>4. /\ outcome'.report = was /\ outcome'.patch = p /\ outcome'.edited = outcome.edited
          /\ file' = f
      BY <1>0, <1>6, <2>2
    <2>5. NotMoved(outcome)' => ReportIsOf(was, p, w, f)
      BY <1>0, <1>3, <1>6, <2>1, <2>2 DEF NotMoved
    <2>6. QED BY <2>1, <2>3, <2>4, <2>5
  <1>9. OutcomeInv'
    <2>1. outcome'.unread \subseteq Links(outcome'.report, AllLinks)
      BY <1>3, <1>6 DEF read
    <2>2. outcome'.at = "tree" => outcome'.unread = {}
      BY <1>3, <1>6 DEF read
    <2>3. QED BY <1>0, <1>3, <1>6, <1>7, <1>8, <2>1, <2>2 DEF OutcomeInv
  <1>10. ApplicationInv'
    BY <1>0, <1>6 DEF RecordsIInv, ApplicationInv, NotMoved, WritesSoundly, Adopts, KnownRecords, NextId
  <1>11. PreviewInv' /\ ComputedTypes'
    BY <1>0, <1>6, StepTracked, PreviewStays DEF RecordsIInv, ComputedTypes
  <1>12. QED BY <1>0, <1>9, <1>10, <1>11, ComputingKeeps

LEMMA CaptureTreeKeeps == RecordsIInv /\ CaptureTree => RecordsIInv'
  <1> SUFFICES ASSUME RecordsIInv, CaptureTree PROVE RecordsIInv'
    OBVIOUS
  <1>0. /\ outcome \in PatchOutcomes /\ outcome # NoRecord /\ OutcomeStep /\ UNCHANGED preview
        /\ outcome.unread = {} /\ file' = file /\ memoryMoved' = memoryMoved
        /\ outcome' = [outcome EXCEPT !.at = "tree", !.tree = revisions.tree]
        /\ revisions.tree \in Nat /\ UNCHANGED <<records, criterion, approval, revisions>>
    BY DEF CaptureTree, RecordsIInv, RecordTypes, ComputedTypes, OutcomeStep
  <1>1. /\ outcome' \in PatchOutcomes /\ outcome'.report = outcome.report
        /\ outcome'.unread = {} /\ outcome'.doubtful = outcome.doubtful
        /\ outcome'.by = outcome.by /\ outcome'.patch = outcome.patch
        /\ outcome'.task = outcome.task /\ outcome'.workflow = outcome.workflow
        /\ outcome'.edited = outcome.edited /\ outcome'.memory = outcome.memory
    BY <1>0 DEF PatchOutcomes
  <1>2. /\ DoubtsAre(outcome, outcome.unread, file)
        /\ NotMoved(outcome) => ReportIsOf(outcome.report, outcome.patch, ~outcome.edited, file)
        /\ outcome.task <= revisions.task /\ outcome.workflow <= revisions.workflow
    BY <1>0 DEF RecordsIInv, OutcomeInv
  <1>3. NotMoved(outcome)' => ReportIsOf(outcome.report, outcome.patch, ~outcome.edited, file)'
    <2>1. PICK w \in BOOLEAN : w = ~outcome.edited
      OBVIOUS
    <2>2. PICK report, p, f : report = outcome.report /\ p = outcome.patch /\ f = file
      OBVIOUS
    <2>3. ReportIsOf(report, p, w, f) => ReportIsOf(report, p, w, f)'
      BY <1>0, ReportStays
    <2>4. /\ outcome'.report = report /\ outcome'.patch = p /\ outcome'.edited = outcome.edited
          /\ file' = f
      BY <1>0, <1>1, <2>2
    <2>5. NotMoved(outcome)' => ReportIsOf(report, p, w, f)
      BY <1>0, <1>1, <1>2, <2>1, <2>2 DEF NotMoved
    <2>6. QED BY <2>1, <2>3, <2>4, <2>5
  <1>4. OutcomeInv'
    BY <1>0, <1>1, <1>2, <1>3 DEF OutcomeInv, DoubtsAre, Links
  <1>5. ApplicationInv'
    BY <1>0, <1>1 DEF RecordsIInv, ApplicationInv, NotMoved, WritesSoundly, Adopts, KnownRecords, NextId
  <1>6. PreviewInv' /\ ComputedTypes'
    BY <1>0, <1>1, StepTracked, PreviewStays DEF RecordsIInv, ComputedTypes
  <1>7. QED BY <1>0, <1>4, <1>5, <1>6, ComputingKeeps

\* What is shown is what was computed, with the file that it was computed of if that is in the
\* digest.
LEMMA ShowPreviewKeeps == RecordsIInv /\ ShowPreview => RecordsIInv'
  <1> SUFFICES ASSUME RecordsIInv, ShowPreview PROVE RecordsIInv'
    OBVIOUS
  <1> DEFINE d == DigestOf(outcome)
  <1>0. /\ outcome \in PatchOutcomes /\ outcome # NoRecord /\ OutcomeStep /\ outcome' = NoRecord
        /\ outcome.at = "tree" /\ file' = file /\ memoryMoved' = memoryMoved /\ file \in Files
        /\ UNCHANGED <<records, criterion, approval, revisions>>
        /\ preview' = [patch |-> outcome.patch, report |-> outcome.report,
                       doubtful |-> outcome.doubtful, edited |-> outcome.edited,
                       memory |-> outcome.memory, digest |-> d]
    BY DEF ShowPreview, RecordsIInv, RecordTypes, ComputedTypes, OutcomeStep
  <1>1. /\ d \in PatchDigests /\ d.task = outcome.task /\ d.workflow = outcome.workflow
        /\ d.file = NoRecord <=> Links(outcome.report, Files) = {}
        /\ d.file # NoRecord => d.file = file
    BY <1>0 DEF DigestOf, PatchDigests, PatchOutcomes
  <1> HIDE DEF d
  <1>2. /\ preview' \in PatchPreviews /\ preview'.patch = outcome.patch
        /\ preview'.report = outcome.report /\ preview'.doubtful = outcome.doubtful
        /\ preview'.edited = outcome.edited /\ preview'.memory = outcome.memory
        /\ preview'.digest = d
    BY <1>0, <1>1 DEF PatchOutcomes, PatchPreviews
  <1>3. /\ DoubtsAre(outcome, {}, file)
        /\ NotMoved(outcome) => ReportIsOf(outcome.report, outcome.patch, ~outcome.edited, file)
        /\ outcome.task <= revisions.task /\ outcome.workflow <= revisions.workflow
    BY <1>0 DEF RecordsIInv, OutcomeInv
  <1>4. NotMoved(preview.digest)' =>
          ReportIsOf(preview.report, preview.patch,
                     ~preview.edited /\ preview.digest.file # NoRecord, preview.digest.file)'
    <2>1. PICK w \in BOOLEAN : w = (~outcome.edited /\ d.file # NoRecord)
      OBVIOUS
    <2>2. PICK report, p, f : report = outcome.report /\ p = outcome.patch /\ f = d.file
      OBVIOUS
    <2>3. ReportIsOf(report, p, w, f) => ReportIsOf(report, p, w, f)'
      BY <1>0, ReportStays
    <2>4. preview'.report = report /\ preview'.patch = p /\ preview'.digest.file = f
      BY <1>2, <2>2
    <2>5. w = (~preview'.edited /\ preview'.digest.file # NoRecord)
      BY <1>2, <2>1
    <2>6. NotMoved(preview.digest)' => ReportIsOf(report, p, w, f)
      BY <1>0, <1>1, <1>2, <1>3, <2>1, <2>2 DEF NotMoved, ReportIsOf
    <2>7. QED BY <2>3, <2>4, <2>5, <2>6
  <1>5. DoubtsAre(preview, {}, preview.digest.file)'
    <2>1. /\ outcome.doubtful \subseteq Links(outcome.report, AllLinks)
          /\ ~outcome.edited => \A i \in Links(outcome.report, Files) :
                                  i \in outcome.doubtful <=> outcome.report.records[i].link # d.file
      BY <1>1, <1>3 DEF DoubtsAre
    <2>2. \A targets : Links(preview'.report, targets) = Links(outcome.report, targets)
      BY <1>2 DEF Links
    <2>3. QED BY <1>0, <1>2, <1>3, <2>1, <2>2 DEF DoubtsAre, Links
  <1>6. PreviewInv'
    <2>1. Links(preview'.report, Files) = Links(outcome.report, Files)
      BY <1>2 DEF Links
    <2>2. QED BY <1>0, <1>1, <1>2, <1>3, <1>4, <1>5, <2>1 DEF PreviewInv, Links
  <1>7. OutcomeInv' /\ ApplicationInv' /\ ComputedTypes'
    BY <1>0, <1>2 DEF OutcomeInv, ApplicationInv, ComputedTypes
  <1>8. QED BY <1>0, <1>6, <1>7, ComputingKeeps

LEMMA GivingUpKeeps == RecordsIInv /\ GiveUpOutcome => RecordsIInv'
  <1> SUFFICES ASSUME RecordsIInv, GiveUpOutcome PROVE RecordsIInv'
    OBVIOUS
  <1>1. outcome' = NoRecord /\ OutcomeStep /\ UNCHANGED preview
    BY DEF GiveUpOutcome
  <1>2. OutcomeInv' /\ ApplicationInv' /\ ComputedTypes'
    BY <1>1 DEF OutcomeInv, ApplicationInv, ComputedTypes, RecordsIInv
  <1>3. PreviewInv'
    BY <1>1, StepTracked, PreviewStays
  <1>4. QED BY <1>1, <1>2, <1>3, ComputingKeeps

LEMMA ApplyPreviewKeeps == RecordsIInv /\ ApplyPreview => RecordsIInv'
  <1> SUFFICES ASSUME RecordsIInv, ApplyPreview PROVE RecordsIInv'
    OBVIOUS
  <1> DEFINE rs == outcome.report.records
  <1>1. /\ outcome \in PatchOutcomes /\ WritesSoundly(rs) /\ records' = rs
        /\ criterion' = outcome.report.criterion /\ outcome' = NoRecord /\ preview' = NoRecord
        /\ revisions' = [revisions EXCEPT !.task = @ + 1]
        /\ UNCHANGED <<passed, file, memoryMoved, approval, effect>>
        /\ ValidRecords(rs, outcome.report.criterion)
    BY DEF ApplyPreview, RecordsIInv, ComputedTypes, ApplicationInv
  <1>2. rs \in Drafts /\ outcome.report.criterion \in BOOLEAN
    BY <1>1 DEF PatchOutcomes, PatchReports
  <1>3. \A i \in KnownRecords(rs) : ValidHistory(rs[i])
    BY <1>1 DEF ValidRecords
  <1>4. rs \in RecordStores
    BY <1>2, <1>3, ValidDraftsAreStored
  <1>5. InOrder(rs)
    <2>1. /\ KnownRecords(records) = 1..(NextId(records) - 1) /\ NextId(records) \in Nat \ {0}
          /\ KnownRecords(rs) \subseteq RecordIds
      BY <1>2, NextIdIsNew DEF RecordsIInv, RecordTypes, Drafts, KnownRecords
    <2>2. CASE KnownRecords(rs) = KnownRecords(records)
      BY <2>2 DEF RecordsIInv, InOrder
    <2>3. CASE KnownRecords(rs) = KnownRecords(records) \union {NextId(records)}
      <3>1. KnownRecords(rs) = 1..NextId(records)
        BY <2>1, <2>3
      <3>2. NextId(records) \in 0..MaxRecords
        BY <2>1, <2>3 DEF RecordIds
      <3>3. QED BY <3>1, <3>2 DEF InOrder
    <2>4. QED BY <1>1, <2>2, <2>3 DEF WritesSoundly
  <1>6. RecordTypes'
    BY <1>1, <1>2, <1>4 DEF RecordsIInv, RecordTypes
  <1>7. InOrder(records)'
    BY <1>1, <1>5 DEF InOrder
  <1>8. ComputedTypes' /\ OutcomeInv' /\ PreviewInv' /\ ApplicationInv'
    BY <1>1 DEF ComputedTypes, OutcomeInv, PreviewInv, ApplicationInv
  <1>9. QED BY <1>6, <1>7, <1>8 DEF RecordsIInv

\* An edit of the file leaves what is stored and marks what is being computed.
LEMMA EditKeeps ==
  ASSUME RecordsIInv, file' \in Files, RecordsCounted,
         outcome' = IF outcome = NoRecord THEN NoRecord ELSE [outcome EXCEPT !.edited = TRUE],
         UNCHANGED <<records, criterion, passed, memoryMoved, approval, effect, revisions, preview>>
  PROVE  RecordsIInv'
  <1>1. RecordTypes' /\ InOrder(records)' /\ memoryMoved \in BOOLEAN /\ Tracked
    BY DEF RecordsIInv, RecordTypes, InOrder, Tracked
  <1>2. PreviewInv'
    BY <1>1, PreviewStays
  <1>3. CASE outcome = NoRecord
    BY <1>1, <1>2, <1>3 DEF RecordsIInv, ComputedTypes, OutcomeInv, ApplicationInv
  <1>4. CASE outcome # NoRecord
    <2>1. /\ outcome \in PatchOutcomes
          /\ outcome' = [outcome EXCEPT !.edited = TRUE]
      BY <1>4 DEF RecordsIInv, ComputedTypes
    <2>2. /\ outcome' \in PatchOutcomes /\ outcome'.report = outcome.report
          /\ outcome'.unread = outcome.unread /\ outcome'.doubtful = outcome.doubtful
          /\ outcome'.by = outcome.by /\ outcome'.at = outcome.at /\ outcome'.patch = outcome.patch
          /\ outcome'.task = outcome.task /\ outcome'.workflow = outcome.workflow
          /\ outcome'.edited = TRUE /\ outcome'.memory = outcome.memory
      BY <2>1 DEF PatchOutcomes
    <2>3. /\ DoubtsAre(outcome, outcome.unread, file)
          /\ NotMoved(outcome) => ReportIsOf(outcome.report, outcome.patch, ~outcome.edited, file)
          /\ outcome.unread \subseteq Links(outcome.report, AllLinks)
          /\ outcome.at = "tree" => outcome.unread = {}
          /\ outcome.task <= revisions.task /\ outcome.workflow <= revisions.workflow
      BY <1>4 DEF RecordsIInv, OutcomeInv
    <2>4. NotMoved(outcome)' => ReportIsOf(outcome.report, outcome.patch, ~outcome.edited, file)'
      <3>1. PICK report, p, f : report = outcome.report /\ p = outcome.patch /\ f = file'
        OBVIOUS
      <3>2. ReportIsOf(report, p, FALSE, f) => ReportIsOf(report, p, FALSE, f)'
        BY ReportStays
      <3>3. NotMoved(outcome)' => ReportIsOf(report, p, FALSE, f)
        BY <2>2, <2>3, <3>1 DEF NotMoved, ReportIsOf
      <3>4. outcome'.report = report /\ outcome'.patch = p /\ (~outcome'.edited) = FALSE /\ file' = f
        BY <2>2, <3>1
      <3>5. QED BY <3>2, <3>3, <3>4
    <2>5. OutcomeInv'
      BY <1>1, <2>2, <2>3, <2>4 DEF OutcomeInv, DoubtsAre, Links
    <2>6. ApplicationInv'
      BY <2>2 DEF RecordsIInv, ApplicationInv, NotMoved, WritesSoundly, Adopts, KnownRecords, NextId
    <2>7. ComputedTypes'
      BY <2>2 DEF RecordsIInv, ComputedTypes
    <2>8. QED BY <1>1, <1>2, <2>5, <2>6, <2>7 DEF RecordsIInv
  <1>5. QED BY <1>3, <1>4

\* What happens outside moves a revision, or the memory with the lock free.
LEMMA OutsideRecordsKeep ==
  ASSUME RecordsIInv,
         RecordPassed \/ EditSource \/ MoveMemory \/ ApproveWorkflow \/ WorkflowActs
  PROVE  RecordsIInv'
  <1>1. CASE MoveMemory
    <2>1. /\ UNCHANGED <<records, criterion, passed, file, approval, effect, revisions, outcome,
                         preview>>
          /\ memoryMoved' = TRUE /\ Unlocked
      BY <1>1 DEF MoveMemory
    <2>2. Tracked /\ RecordTypes' /\ InOrder(records)' /\ ComputedTypes'
      BY <2>1 DEF RecordsIInv, RecordTypes, InOrder, ComputedTypes, Tracked
    <2>3. QED BY <2>1, <2>2, PreviewStays, OutcomeStays, ApplicationStays DEF RecordsIInv
  <1>2. ASSUME NEW what \in {"task", "workflow", "tree"}, RecordChange(what),
               UNCHANGED <<records, criterion, file, memoryMoved, outcome, preview>>,
               what = "workflow" \/ UNCHANGED approval,
               effect' \in BOOLEAN, passed' \in {"none", "before", "now"}
        PROVE  RecordsIInv'
    <2>1. /\ Tracked
          /\ \/ Unlocked
             \/ revisions'.task = revisions.task /\ revisions'.workflow = revisions.workflow
      BY <1>2, ChangesTracked DEF RecordsIInv
    <2>2. RecordTypes' /\ InOrder(records)' /\ ComputedTypes'
      BY <1>2, <2>1 DEF RecordsIInv, RecordTypes, InOrder, ComputedTypes, Tracked
    <2>3. ApplicationInv'
      BY <1>2, <2>1, ApplicationStays
    <2>4. PreviewInv' /\ OutcomeInv'
      BY <1>2, <2>1, PreviewStays, OutcomeStays DEF RecordsIInv, RecordTypes
    <2>5. QED BY <2>2, <2>3, <2>4 DEF RecordsIInv
  <1>3. effect \in BOOLEAN /\ passed \in {"none", "before", "now"}
    BY DEF RecordsIInv, RecordTypes
  <1>4. CASE RecordPassed
    BY <1>2, <1>3, <1>4 DEF RecordPassed
  <1>5. CASE EditSource
    <2>1. CASE /\ file' \in Files \ {file} /\ RecordsCounted
               /\ outcome' = IF outcome = NoRecord THEN NoRecord ELSE [outcome EXCEPT !.edited = TRUE]
               /\ UNCHANGED <<passed, revisions>>
      BY <1>5, <2>1, EditKeeps DEF EditSource
    <2>2. CASE passed' = "before" /\ RecordChange("tree") /\ UNCHANGED <<file, outcome>>
      BY <1>2, <1>3, <1>5, <2>2 DEF EditSource
    <2>3. QED BY <1>5, <2>1, <2>2 DEF EditSource
  <1>6. CASE ApproveWorkflow
    BY <1>2, <1>3, <1>6 DEF ApproveWorkflow
  <1>7. CASE WorkflowActs
    BY <1>2, <1>3, <1>7 DEF WorkflowActs
  <1>8. QED BY <1>1, <1>4, <1>5, <1>6, <1>7

LEMMA RecordsStutter == RecordsIInv /\ UNCHANGED recordVars => RecordsIInv'
  <1> SUFFICES ASSUME RecordsIInv, UNCHANGED recordVars PROVE RecordsIInv'
    OBVIOUS
  <1>1. UNCHANGED <<records, criterion, passed, file, memoryMoved, approval, effect, revisions,
                    outcome, preview>>
    BY DEF recordVars
  <1>2. Tracked /\ RecordTypes' /\ InOrder(records)' /\ ComputedTypes'
    BY <1>1 DEF RecordsIInv, RecordTypes, InOrder, ComputedTypes, Tracked
  <1>3. QED BY <1>1, <1>2, PreviewStays, OutcomeStays, ApplicationStays DEF RecordsIInv, RecordTypes

LEMMA RecordsStepKeeps == RecordsIInv /\ [RecordsNext]_recordVars => RecordsIInv'
  <1> SUFFICES ASSUME RecordsIInv, RecordsNext PROVE RecordsIInv'
    BY RecordsStutter
  <1>1. ASSUME NEW o \in RecordOps,
               RecordTaskRecord(o) \/ ReviseTaskRecord(o) \/ TransitionTaskRecord(o)
        PROVE  RecordsIInv'
    BY <1>1, CommitRecordsKeeps DEF RecordTaskRecord, ReviseTaskRecord, TransitionTaskRecord
  <1>2. CASE BeginReconciliation \/ \E p \in Patches : BeginPreview(p)
    BY <1>2, BeginsKeep
  <1>3. CASE \E i \in RecordIds : ReadLinkStatus(i)
    BY <1>3, ReadLinkKeeps
  <1>4. CASE CaptureTree
    BY <1>4, CaptureTreeKeeps
  <1>5. CASE ShowPreview
    BY <1>5, ShowPreviewKeeps
  <1>6. CASE GiveUpOutcome
    BY <1>6, GivingUpKeeps
  <1>7. CASE ApplyPreview
    BY <1>7, ApplyPreviewKeeps
  <1>8. CASE RecordPassed \/ EditSource \/ MoveMemory \/ ApproveWorkflow \/ WorkflowActs
    BY <1>8, OutsideRecordsKeep
  <1>9. QED BY <1>1, <1>2, <1>3, <1>4, <1>5, <1>6, <1>7, <1>8, Zenon DEF RecordsNext

\* The inductive invariant, for any kinds, files and numbers of records (task-state/records.ts,
\* reconcile.ts): what a computation holds is of the task, the workflow and the file it read, for
\* as long as those stay, and an application has the patch, the task and the workflow of its
\* preview.
THEOREM RecordsInvariant == RecordsSpec => []RecordsIInv
  BY RecordsInitial, RecordsStepKeeps, PTL DEF RecordsSpec

LEMMA RecordTypesKept == RecordsIInv => RecordsTypeOK
  BY DEF RecordsIInv, RecordTypes, RecordStores, RecordsTypeOK

-----------------------------------------------------------------------------
LEMMA StepsAuthorize ==
  ASSUME RecordsIInv, RecordsNext
  PROVE  \A i \in KnownRecords(records) :
           (Adopts(records[i]) <=> Adopts(records'[i])) \/ records'[i].authorized
  <1>1. records \in RecordStores /\ InOrder(records) /\ file \in Files
    BY DEF RecordsIInv, RecordTypes
  <1>2. ASSUME NEW o \in RecordOps,
               RecordTaskRecord(o) \/ ReviseTaskRecord(o) \/ TransitionTaskRecord(o)
        PROVE  \A i \in KnownRecords(records) :
                 (Adopts(records[i]) <=> Adopts(records'[i])) \/ records'[i].authorized
    <2>1. OpAllowed(records, o) /\ records' = OpApplied(records, o, file)
      BY <1>2 DEF RecordTaskRecord, ReviseTaskRecord, TransitionTaskRecord, CommitRecords
    <2>2. QED BY <1>1, <2>1, OpApplies
  <1>3. CASE ApplyPreview
    BY <1>3 DEF RecordsIInv, ApplicationInv, ApplyPreview, WritesSoundly
  <1>4. CASE UNCHANGED records
    BY <1>4 DEF Adopts
  <1>5. QED BY <1>2, <1>3, <1>4
            DEF RecordsNext, BeginPreview, BeginReconciliation, ReadLinkStatus, CaptureTree, ShowPreview,
                GiveUpOutcome, OutcomeStep, RecordPassed, EditSource, MoveMemory, ApproveWorkflow,
                WorkflowActs

\* Who applies a patch and who previewed it computed it with two digests of the file, which differ
\* in the links to it at most; and not at all if it is in the digest and nobody edited it.
LEMMA AppliesWhatWasShown ==
  ASSUME RecordsIInv, ApplyPreview, NEW shown, shown = preview.report,
         NEW doubts, doubts = {i \in shown.reached : (i \in preview.doubtful) # (i \in outcome.doubtful)}
  PROVE  /\ SnapshotOf(records') = SnapshotOf(shown.records) /\ criterion' = shown.criterion
         /\ shown.reached = Reach(records', NamedBy(preview.patch))
         /\ shown.survives = (approval = Adopted(records') /\ preview.patch.criteria = "kept")
         /\ ~preview.edited /\ ~outcome.edited =>
              records' = shown.records /\ doubts \subseteq Links(shown, {TheMemory})
         /\ preview.memory = memoryMoved => doubts \subseteq Links(shown, Files)
  <1> DEFINE p == preview.patch
             d == preview.digest
             mine == outcome.report
  <1>0. /\ RecordTypes /\ InOrder(records) /\ outcome \in PatchOutcomes /\ preview \in PatchPreviews
        /\ p \in Patches /\ outcome.patch = p /\ NotMoved(outcome) /\ outcome.unread = {}
        /\ records' = mine.records /\ criterion' = mine.criterion /\ d = DigestOf(outcome)
        /\ preview.memory => outcome.memory
    BY DEF ApplyPreview, DigestMatches, RecordsIInv, ComputedTypes, PatchOutcomes, PatchPreviews,
           ApplicationInv, OutcomeInv
  <1>1. /\ NotMoved(d)
        /\ d.file = NoRecord <=> Links(mine, Files) = {}
        /\ d.file # NoRecord => d.file = file
        /\ file # NoRecord
    BY <1>0 DEF DigestOf, NotMoved, RecordTypes
  <1>2. /\ ReportIsOf(mine, p, ~outcome.edited, file)
        /\ ReportIsOf(shown, p, ~preview.edited /\ d.file # NoRecord, d.file)
        /\ DoubtsAre(outcome, {}, file) /\ DoubtsAre(preview, {}, d.file)
    BY <1>0, <1>1 DEF RecordsIInv, OutcomeInv, PreviewInv, ApplyPreview, ApplicationInv
  <1>3. PICK f \in Files : mine = ReportWith(p, f) /\ (~outcome.edited => f = file)
    BY <1>2 DEF ReportIsOf
  <1>4. PICK g \in Files :
          shown = ReportWith(p, g) /\ (~preview.edited /\ d.file # NoRecord => g = d.file)
    BY <1>2 DEF ReportIsOf
  <1>5. /\ Aims(p) /\ mine \in PatchReports /\ shown \in PatchReports
    BY <1>0, <1>2 DEF ReportIsOf, PatchOutcomes, PatchPreviews
  <1>6. /\ mine.records = PatchedWith(p, f) /\ shown.records = PatchedWith(p, g)
        /\ mine.criterion = shown.criterion
        /\ mine.reached = Reach(PatchedWith(p, f), NamedBy(p))
        /\ mine.survives = (approval = Adopted(PatchedWith(p, f)) /\ p.criteria = "kept")
    BY <1>3, <1>4 DEF ReportWith
  <1>7. PatchedWith(p, f) \in Drafts /\ PatchedWith(p, g) \in Drafts
    BY <1>5, <1>6 DEF PatchReports
  <1>8. /\ SnapshotOf(mine.records) = SnapshotOf(shown.records) /\ mine.reached = shown.reached
        /\ mine.survives = shown.survives /\ Links(mine, Files) = Links(shown, Files)
        /\ Links(mine, {TheMemory}) = Links(shown, {TheMemory})
        /\ Links(mine, Files) = {} => mine.records = shown.records
    <2>1. /\ SnapshotOf(PatchedWith(p, f)) = SnapshotOf(PatchedWith(p, g))
          /\ ReportWith(p, f).reached = ReportWith(p, g).reached
          /\ ReportWith(p, f).survives = ReportWith(p, g).survives
          /\ Links(ReportWith(p, f), Files) = Links(ReportWith(p, g), Files)
          /\ Links(ReportWith(p, f), {TheMemory}) = Links(ReportWith(p, g), {TheMemory})
          /\ Links(ReportWith(p, f), Files) = {} => PatchedWith(p, f) = PatchedWith(p, g)
      BY <1>0, <1>5, <1>7, ReportsAgree
    <2>2. QED BY <1>3, <1>4, <1>6, <2>1
  <1>9. \A i \in doubts : i \in Links(mine, Files) \/ i \in Links(mine, {TheMemory})
    <2>1. /\ outcome.doubtful \subseteq Links(mine, AllLinks)
          /\ preview.doubtful \subseteq Links(shown, AllLinks)
      BY <1>2 DEF DoubtsAre
    <2>2. \A r : Links(r, AllLinks) = Links(r, Files) \union Links(r, {TheMemory})
      BY DEF Links, AllLinks
    <2>3. QED BY <1>8, <2>1, <2>2
  <1>10. ASSUME ~preview.edited, ~outcome.edited
         PROVE  records' = shown.records /\ doubts \subseteq Links(shown, {TheMemory})
    <2>1. CASE Links(mine, Files) = {}
      BY <1>0, <1>8, <1>9, <2>1
    <2>2. CASE Links(mine, Files) # {}
      <3>1. f = file /\ g = file /\ d.file = file
        BY <1>1, <1>3, <1>4, <1>10, <2>2
      <3>2. mine = shown
        BY <1>3, <1>4, <3>1
      <3>3. \A i \in Links(mine, Files) : i \in outcome.doubtful <=> i \in preview.doubtful
        BY <1>2, <1>10, <3>1, <3>2 DEF DoubtsAre
      <3>4. \A i \in doubts : i \in Links(mine, {TheMemory})
        BY <1>9, <3>3
      <3>5. QED BY <1>0, <1>8, <3>2, <3>4
    <2>3. QED BY <2>1, <2>2
  <1>11. ASSUME preview.memory = memoryMoved PROVE doubts \subseteq Links(shown, Files)
    <2>1. outcome.memory = memoryMoved
      BY <1>0, <1>2, <1>11 DEF DoubtsAre, PatchOutcomes, RecordTypes
    <2>2. \A i \in Links(mine, {TheMemory}) : i \in outcome.doubtful <=> memoryMoved
      BY <1>2, <2>1 DEF DoubtsAre
    <2>3. \A i \in Links(shown, {TheMemory}) : i \in preview.doubtful <=> memoryMoved
      BY <1>2, <1>11 DEF DoubtsAre
    <2>4. QED BY <1>8, <1>9, <2>2, <2>3
  <1>12. QED BY <1>0, <1>6, <1>8, <1>10, <1>11

\* However patches, computations, edits, memories and approvals are interleaved: intent is adopted
\* or given up only with an authorization, and a patch does just what its preview showed, but for
\* the links to a file that was edited under a computation and the doubts about a memory that
\* moved, which no digest binds (applyTaskReconciliation, validateTaskRecords).
THEOREM RecordsAsReviewedAlways == RecordsSpec => RecordsAsReviewed
  <1>1. RecordsIInv /\ [RecordsNext]_recordVars =>
          [\A i \in KnownRecords(records) :
             LET was == records[i].status = Authoritative[records[i].kind]
                 is  == records'[i].status = Authoritative[records'[i].kind]
             IN  was # is => records'[i].authorized]_recordVars
    BY StepsAuthorize DEF Adopts
  <1>2. RecordsIInv /\ [RecordsNext]_recordVars =>
          [preview # NoRecord /\ preview' = NoRecord =>
             LET shown == preview.report
                 doubts == {i \in shown.reached : (i \in preview.doubtful) # (i \in outcome.doubtful)}
             IN  /\ SnapshotOf(records') = SnapshotOf(shown.records) /\ criterion' = shown.criterion
                 /\ shown.reached = Reach(records', NamedBy(preview.patch))
                 /\ shown.survives = (approval = Adopted(records') /\ preview.patch.criteria = "kept")
                 /\ ~preview.edited /\ ~outcome.edited =>
                      records' = shown.records /\ doubts \subseteq Links(shown, {TheMemory})
                 /\ preview.memory = memoryMoved => doubts \subseteq Links(shown, Files)]_recordVars
    <2> SUFFICES ASSUME RecordsIInv, RecordsNext, preview # NoRecord, preview' = NoRecord
                 PROVE
             LET shown == preview.report
                 doubts == {i \in shown.reached : (i \in preview.doubtful) # (i \in outcome.doubtful)}
             IN  /\ SnapshotOf(records') = SnapshotOf(shown.records) /\ criterion' = shown.criterion
                 /\ shown.reached = Reach(records', NamedBy(preview.patch))
                 /\ shown.survives = (approval = Adopted(records') /\ preview.patch.criteria = "kept")
                 /\ ~preview.edited /\ ~outcome.edited =>
                      records' = shown.records /\ doubts \subseteq Links(shown, {TheMemory})
                 /\ preview.memory = memoryMoved => doubts \subseteq Links(shown, Files)
      BY DEF recordVars
    <2>0. ~ShowPreview
      BY DEF ShowPreview, RecordsIInv, ApplicationInv
    <2>1. ApplyPreview
      BY <2>0 DEF RecordsNext, RecordTaskRecord, ReviseTaskRecord, TransitionTaskRecord, CommitRecords,
             BeginPreview, BeginReconciliation, ReadLinkStatus, CaptureTree, GiveUpOutcome,
             RecordPassed, EditSource, MoveMemory, ApproveWorkflow, WorkflowActs
    <2>2. QED BY <2>1, AppliesWhatWasShown
  <1>3. QED BY <1>1, <1>2, RecordsInvariant, PTL
            DEF RecordsSpec, RecordsAsReviewed, IntentIsAuthorized, AppliedAsReviewed

HIDE RecordsAssumption

-----------------------------------------------------------------------------
UsageKeys == [invocation : Invocations, version : {1, Unknown}, measured : BOOLEAN]
UsageRecords == [key : UsageKeys, observed : Nat, occurred : Nat]
Observations ==
  {NotObserved} \union [at : {"invoking"}, version : {1, Unknown}]
  \union [at : {"reported", "parsed", "recorded"}, observed : Nat, occurred : Nat, key : UsageKeys]

UsageTypes ==
  /\ ledger \subseteq UsageRecords /\ IsFiniteSet(ledger)
  /\ observing \in BOOLEAN /\ time \in 0..MaxTime /\ settings \in 0..MaxSettings
  /\ observation \in [Invocations -> Observations]

\* A key has one record.
OneOfAKey(kept) == \A r, s \in kept : r.key = s.key => r = s

\* Nothing is recorded, or waits to be, that has not happened yet.
Happened(r) == r.occurred <= r.observed /\ r.observed <= time
AllHappened ==
  /\ \A r \in ledger : Happened(r)
  /\ \A i \in Invocations :
       observation[i].at \in {"reported", "parsed", "recorded"} => Happened(observation[i])

UsageIInv ==
  /\ UsageTypes /\ OneOfAKey(ledger) /\ Cardinality(ledger) <= MaxUsage
  /\ AllHappened

-----------------------------------------------------------------------------
USE UsageAssumption

LEMMA UsageInitial == UsageInit => UsageIInv
  <1> SUFFICES ASSUME UsageInit PROVE UsageIInv
    OBVIOUS
  <1>1. IsFiniteSet({}) /\ Cardinality({}) = 0
    BY FS_EmptySet
  <1>2. observation \in [Invocations -> Observations]
    BY DEF UsageInit, Observations
  <1>3. UsageTypes
    BY <1>1, <1>2 DEF UsageInit, UsageTypes
  <1>4. AllHappened
    BY DEF UsageInit, AllHappened, NotObserved
  <1>5. QED BY <1>1, <1>3, <1>4 DEF UsageInit, UsageIInv, OneOfAKey

\* Whatever forgets records and lets no time pass keeps the ledger as it should be.
LEMMA FewerRecords ==
  ASSUME UsageIInv, NEW kept, kept \subseteq ledger
  PROVE  /\ kept \subseteq UsageRecords /\ IsFiniteSet(kept) /\ OneOfAKey(kept)
         /\ Cardinality(kept) <= MaxUsage /\ \A r \in kept : Happened(r)
  <1>1. IsFiniteSet(kept) /\ Cardinality(kept) <= Cardinality(ledger)
    BY FS_Subset DEF UsageIInv, UsageTypes
  <1>2. Cardinality(kept) \in Nat /\ Cardinality(ledger) \in Nat
    BY <1>1, FS_CardinalityType DEF UsageIInv, UsageTypes
  <1>3. QED BY <1>1, <1>2 DEF UsageIInv, UsageTypes, OneOfAKey, AllHappened

LEMMA ForgetsKeeps ==
  ASSUME UsageIInv, ConfigureUsage \/ DeleteUsage \/ EnforceRetention
  PROVE  UsageIInv'
  <1>1. ledger' \subseteq ledger /\ UNCHANGED <<observation, time>>
    BY DEF ConfigureUsage, DeleteUsage, EnforceRetention, Kept
  <1>2. observing' \in BOOLEAN /\ settings' \in 0..MaxSettings
    BY DEF UsageIInv, UsageTypes, ConfigureUsage, DeleteUsage, EnforceRetention
  <1>3. /\ ledger' \subseteq UsageRecords /\ IsFiniteSet(ledger') /\ OneOfAKey(ledger')
        /\ Cardinality(ledger') <= MaxUsage /\ \A r \in ledger' : Happened(r)
    BY <1>1, FewerRecords
  <1>4. UsageTypes' /\ AllHappened'
    BY <1>1, <1>2, <1>3 DEF UsageIInv, UsageTypes, AllHappened, Happened
  <1>5. QED BY <1>3, <1>4 DEF UsageIInv, OneOfAKey

Late == {"reported", "parsed", "recorded"}

\* An invocation is seen further on, and what it reports has happened by then.
LEMMA SeenKeeps ==
  ASSUME UsageIInv, NEW i \in Invocations, NEW sight \in Observations,
         sight.at \in Late => sight.occurred <= sight.observed /\ sight.observed <= time',
         observation' = [observation EXCEPT ![i] = sight],
         UNCHANGED <<ledger, observing, settings>>, time' \in time..MaxTime
  PROVE  UsageIInv'
  <1>1. UsageTypes'
    BY DEF UsageIInv, UsageTypes
  <1>2. \A r \in ledger : r.occurred \in Nat /\ r.observed \in Nat
    BY DEF UsageIInv, UsageTypes, UsageRecords
  <1>3. \A j \in Invocations :
          observation[j].at \in Late => observation[j].occurred \in Nat /\ observation[j].observed \in Nat
    BY DEF UsageIInv, UsageTypes, Observations, NotObserved, Late
  <1>4. time \in Nat /\ time' \in Nat /\ time <= time'
    BY DEF UsageIInv, UsageTypes
  <1>5. (\A r \in ledger : Happened(r))'
    BY <1>2, <1>4 DEF UsageIInv, AllHappened, Happened
  <1>6. ASSUME NEW j \in Invocations, observation'[j].at \in Late PROVE Happened(observation[j])'
    BY <1>3, <1>4, <1>6 DEF UsageIInv, UsageTypes, AllHappened, Happened, Late
  <1>7. AllHappened'
    BY <1>5, <1>6 DEF AllHappened, Late
  <1>8. QED BY <1>1, <1>7 DEF UsageIInv, OneOfAKey

LEMMA LateFields ==
  ASSUME UsageIInv, NEW i \in Invocations, observation[i].at \in Late
  PROVE  /\ observation[i] \in [at : Late, observed : Nat, occurred : Nat, key : UsageKeys]
         /\ observation[i].occurred <= observation[i].observed /\ observation[i].observed <= time
         /\ time \in 0..MaxTime
  BY DEF UsageIInv, UsageTypes, Observations, NotObserved, Late, AllHappened, Happened

LEMMA BeginObservationKeeps ==
  ASSUME UsageIInv, NEW i \in Invocations, BeginObservation(i)
  PROVE  UsageIInv'
  <1>1. PICK measuring \in {1, Unknown} :
          observation' = [observation EXCEPT ![i] = [at |-> "invoking", version |-> measuring]]
    BY DEF BeginObservation
  <1>2. [at |-> "invoking", version |-> measuring] \in Observations
    BY DEF Observations
  <1>3. UNCHANGED <<ledger, observing, time, settings>> /\ time' \in time..MaxTime
    BY DEF BeginObservation, UsageIInv, UsageTypes
  <1>4. QED BY <1>1, <1>2, <1>3, SeenKeeps DEF Late

LEMMA EndObservationKeeps ==
  ASSUME UsageIInv, NEW i \in Invocations,
         CancelProbe(i) \/ ForgetInvocation(i) \/ (Receive(i) /\ ~observing)
  PROVE  UsageIInv'
  <1>1. /\ observation' = [observation EXCEPT ![i] = NotObserved]
        /\ UNCHANGED <<ledger, observing, time, settings>> /\ time' \in time..MaxTime
    BY DEF CancelProbe, ForgetInvocation, Receive, UsageIInv, UsageTypes
  <1>2. NotObserved \in Observations /\ NotObserved.at \notin Late
    BY DEF Observations, NotObserved, Late
  <1>3. QED BY <1>1, <1>2, SeenKeeps

LEMMA ReceiveKeeps ==
  ASSUME UsageIInv, NEW i \in Invocations, Receive(i)
  PROVE  UsageIInv'
  <1> DEFINE sight == [observation[i] EXCEPT !.at = "parsed"]
  <1>1. CASE observing
    <2>1. observation[i].at \in Late
      BY DEF Receive, Late
    <2>2. /\ observation' = [observation EXCEPT ![i] = sight]
          /\ UNCHANGED <<ledger, observing, time, settings>> /\ time' \in time..MaxTime
      BY <1>1 DEF Receive, UsageIInv, UsageTypes
    <2>3. /\ sight \in Observations
          /\ sight.occurred = observation[i].occurred /\ sight.observed = observation[i].observed
      BY <2>1, LateFields DEF Observations, Late
    <2> HIDE DEF sight
    <2>4. QED BY <2>1, <2>2, <2>3, SeenKeeps, LateFields
  <1>2. QED BY <1>1, EndObservationKeeps

LEMMA InferKeeps ==
  ASSUME UsageIInv, NEW i \in Invocations, Infer(i)
  PROVE  UsageIInv'
  <1>1. PICK reported \in BOOLEAN :
          observation' = [observation EXCEPT ![i] =
            [at |-> "reported", observed |-> time + 1, occurred |-> time + 1,
             key |-> KeyOf(i, observation[i].version, reported /\ observation[i].version # Unknown)]]
    BY DEF Infer
  <1>2. observation[i].version \in {1, Unknown}
    BY DEF Infer, UsageIInv, UsageTypes, Observations, NotObserved
  <1>3. (reported /\ observation[i].version # Unknown) \in BOOLEAN
    OBVIOUS
  <1> DEFINE key == KeyOf(i, observation[i].version, reported /\ observation[i].version # Unknown)
             sight == [at |-> "reported", observed |-> time + 1, occurred |-> time + 1, key |-> key]
  <1>4. key \in UsageKeys
    BY <1>2, <1>3 DEF KeyOf, UsageKeys
  <1>5. /\ time + 1 \in Nat /\ time' = time + 1 /\ time' \in time..MaxTime
        /\ UNCHANGED <<ledger, observing, settings>>
    BY DEF Infer, UsageIInv, UsageTypes
  <1> HIDE DEF key
  <1>6. sight \in Observations /\ sight.occurred = time + 1 /\ sight.observed = time + 1
    BY <1>4, <1>5 DEF Observations
  <1>7. observation' = [observation EXCEPT ![i] = sight]
    BY <1>1 DEF key
  <1> HIDE DEF sight
  <1>8. sight.occurred <= sight.observed /\ sight.observed <= time'
    BY <1>5, <1>6
  <1>9. QED BY <1>5, <1>6, <1>7, <1>8, SeenKeeps

LEMMA ReportedAgainKeeps ==
  ASSUME UsageIInv, NEW i \in Invocations, observation[i].at \in Late, NEW observed \in Nat,
         observation' = [observation EXCEPT ![i] =
                           [observation[i] EXCEPT !.at = "reported", !.observed = observed]],
         observation[i].occurred <= observed, observed <= time',
         UNCHANGED <<ledger, observing, settings>>, time' \in time..MaxTime
  PROVE  UsageIInv'
  <1> DEFINE sight == [observation[i] EXCEPT !.at = "reported", !.observed = observed]
  <1>1. sight \in Observations /\ sight.occurred = observation[i].occurred /\ sight.observed = observed
    BY LateFields DEF Observations, Late
  <1>2. observation' = [observation EXCEPT ![i] = sight]
    OBVIOUS
  <1> HIDE DEF sight
  <1>3. QED BY <1>1, <1>2, SeenKeeps

LEMMA ObserveAgainKeeps ==
  ASSUME UsageIInv, NEW i \in Invocations, ObserveAgain(i)
  PROVE  UsageIInv'
  <1>1. observation[i].at \in Late
    BY DEF ObserveAgain, Late
  <1>2. /\ time + 1 \in Nat /\ time' = time + 1 /\ time' \in time..MaxTime
        /\ observation[i].occurred <= time + 1 /\ time + 1 <= time'
    BY <1>1, LateFields DEF ObserveAgain, Late
  <1>3. UNCHANGED <<ledger, observing, settings>>
    BY DEF ObserveAgain
  <1>4. observation' = [observation EXCEPT ![i] =
                          [observation[i] EXCEPT !.at = "reported", !.observed = time + 1]]
    BY DEF ObserveAgain
  <1>5. QED BY <1>1, <1>2, <1>3, <1>4, ReportedAgainKeeps

LEMMA RedeliverKeeps ==
  ASSUME UsageIInv, NEW i \in Invocations, Redeliver(i)
  PROVE  UsageIInv'
  <1>1. observation[i].at \in Late
    BY DEF Redeliver, Late
  <1>2. PICK observed \in observation[i].occurred..observation[i].observed :
          observation' = [observation EXCEPT ![i] =
                            [observation[i] EXCEPT !.at = "reported", !.observed = observed]]
    BY DEF Redeliver
  <1>3. UNCHANGED <<ledger, observing, time, settings>>
    BY DEF Redeliver
  <1>4. /\ observed \in Nat /\ observation[i].occurred <= observed /\ observed <= time'
        /\ time' \in time..MaxTime
    BY <1>1, <1>2, <1>3, LateFields
  <1>5. QED BY <1>1, <1>2, <1>3, <1>4, ReportedAgainKeeps

-----------------------------------------------------------------------------
\* Bounded drops one record of the oldest, so that the ledger fits again.
LEMMA BoundedFits ==
  ASSUME NEW kept, kept \subseteq UsageRecords, IsFiniteSet(kept),
         Cardinality(kept) <= MaxUsage + 1
  PROVE  /\ Bounded(kept) \subseteq kept /\ IsFiniteSet(Bounded(kept))
         /\ Cardinality(Bounded(kept)) <= MaxUsage
  <1>0. Cardinality(kept) \in Nat
    BY FS_CardinalityType
  <1>1. CASE Cardinality(kept) <= MaxUsage
    BY <1>1 DEF Bounded
  <1>2. CASE ~(Cardinality(kept) <= MaxUsage)
    <2> DEFINE oldest == CHOOSE r \in kept : \A s \in kept : r.occurred <= s.occurred
               times == {n \in Nat : \E r \in kept : n = r.occurred}
    <2>1. Bounded(kept) = kept \ {oldest}
      BY <1>2 DEF Bounded
    <2>2. \A r \in kept : r.occurred \in Nat
      BY DEF UsageRecords
    <2>3. kept # {}
      BY <1>2, FS_EmptySet
    <2>4. times \subseteq Nat /\ times # {}
      BY <2>2, <2>3
    <2>5. \E n \in times : \A m \in times : n <= m
      <3> HIDE DEF times
      <3>1. QED BY <2>4, LeastNatural
    <2>6. \E r \in kept : \A s \in kept : r.occurred <= s.occurred
      BY <2>2, <2>5
    <2>7. oldest \in kept
      BY <2>6
    <2> HIDE DEF oldest
    <2>8. IsFiniteSet(kept \ {oldest}) /\ Cardinality(kept \ {oldest}) = Cardinality(kept) - 1
      BY <2>7, FS_RemoveElement
    <2>9. QED BY <1>0, <2>1, <2>8
  <1>3. QED BY <1>1, <1>2

LEMMA StoreKeeps ==
  ASSUME UsageIInv, NEW i \in Invocations, Store(i)
  PROVE  UsageIInv'
  <1> DEFINE kept == Kept(ledger)
             candidate == Candidate(i)
             merged == Merged(kept, candidate)
             sight == [observation[i] EXCEPT !.at = "recorded"]
  <1>1. observation[i].at \in Late
    BY DEF Store, Late
  <1>2. candidate \in UsageRecords /\ Happened(candidate)
    BY <1>1, LateFields DEF Candidate, UsageRecords, Happened
  <1>3. /\ kept \subseteq UsageRecords /\ IsFiniteSet(kept) /\ OneOfAKey(kept)
        /\ Cardinality(kept) <= MaxUsage /\ \A r \in kept : Happened(r)
    BY FewerRecords DEF Kept
  <1>4. /\ merged \subseteq UsageRecords /\ IsFiniteSet(merged) /\ OneOfAKey(merged)
        /\ Cardinality(merged) <= MaxUsage + 1 /\ \A r \in merged : Happened(r)
    <2> DEFINE others == kept \ {r \in kept : r.key = candidate.key}
    <2>1. merged = kept \/ merged = others \union {candidate}
      BY DEF Merged
    <2>2. Cardinality(kept) \in Nat
      BY <1>3, FS_CardinalityType
    <2>3. IsFiniteSet(others) /\ Cardinality(others) <= Cardinality(kept)
      BY <1>3, FS_Subset
    <2>4. Cardinality(others) \in Nat
      BY <2>3, FS_CardinalityType
    <2> HIDE DEF others, kept, candidate, merged
    <2>5. /\ IsFiniteSet(others \union {candidate})
          /\ Cardinality(others \union {candidate}) <= Cardinality(others) + 1
      BY <2>3, <2>4, FS_AddElement
    <2>6. /\ others \union {candidate} \subseteq UsageRecords
          /\ OneOfAKey(others \union {candidate})
          /\ \A r \in others \union {candidate} : Happened(r)
      BY <1>2, <1>3 DEF others, OneOfAKey
    <2>7. Cardinality(others \union {candidate}) \in Nat
      BY <2>5, FS_CardinalityType
    <2>8. QED BY <1>3, <2>1, <2>2, <2>3, <2>4, <2>5, <2>6, <2>7
  <1>5. /\ Bounded(merged) \subseteq merged /\ IsFiniteSet(Bounded(merged))
        /\ Cardinality(Bounded(merged)) <= MaxUsage
    BY <1>4, BoundedFits
  <1>6. /\ ledger' \in {Bounded(merged), ledger} /\ UNCHANGED <<observing, time, settings>>
        /\ observation' = [observation EXCEPT ![i] = sight]
    BY DEF Store
  <1>7. /\ ledger' \subseteq UsageRecords /\ IsFiniteSet(ledger') /\ OneOfAKey(ledger')
        /\ Cardinality(ledger') <= MaxUsage /\ \A r \in ledger' : Happened(r)
    <2> HIDE DEF merged
    <2>1. QED BY <1>4, <1>5, <1>6 DEF UsageIInv, UsageTypes, AllHappened, OneOfAKey
  <1>8. sight \in Observations /\ sight.occurred = observation[i].occurred
        /\ sight.observed = observation[i].observed
    BY <1>1, LateFields DEF Observations, Late
  <1> HIDE DEF sight
  <1>9. UsageTypes'
    BY <1>6, <1>7, <1>8 DEF UsageIInv, UsageTypes
  <1>10. AllHappened'
    BY <1>1, <1>6, <1>7, <1>8, LateFields DEF UsageIInv, UsageTypes, AllHappened, Happened, Late
  <1>11. QED BY <1>7, <1>9, <1>10 DEF UsageIInv, OneOfAKey

LEMMA UsageStepKeeps == UsageIInv /\ [UsageNext]_usageVars => UsageIInv'
  <1> SUFFICES ASSUME UsageIInv, [UsageNext]_usageVars PROVE UsageIInv'
    OBVIOUS
  <1>1. CASE UNCHANGED usageVars
    BY <1>1 DEF usageVars, UsageIInv, UsageTypes, OneOfAKey, AllHappened, Happened
  <1>2. CASE UsageNext
    BY <1>2, BeginObservationKeeps, EndObservationKeeps, ReceiveKeeps, InferKeeps,
       ObserveAgainKeeps,
       RedeliverKeeps, StoreKeeps, ForgetsKeeps DEF UsageNext
  <1>3. QED BY <1>1, <1>2

\* The inductive invariant, for any number of invocations, records and observations (src/usage).
THEOREM UsageInvariant == UsageSpec => []UsageIInv
  BY UsageInitial, UsageStepKeeps, PTL DEF UsageSpec

LEMMA UsageTypesKept == UsageIInv => UsageTypeOK
  BY DEF UsageIInv, UsageTypes, AllHappened, Happened, UsageTypeOK

LEMMA ShownOnce == UsageIInv => ShownCounts <= Cardinality({r.key : r \in ledger})
  <1> SUFFICES ASSUME UsageIInv PROVE ShownCounts <= Cardinality({r.key : r \in ledger})
    OBVIOUS
  <1> DEFINE keys == {r.key : r \in ledger}
             keyOf == [r \in ledger |-> r.key]
             shown == {r \in Kept(ledger) : r.key.measured}
  <1>1. keyOf \in Surjection(ledger, keys)
    BY DEF Surjection
  <1>2. keyOf \in Injection(ledger, keys)
    BY DEF Injection, IsInjective, UsageIInv, OneOfAKey
  <1>3. IsFiniteSet(ledger)
    BY DEF UsageIInv, UsageTypes
  <1>4. shown \subseteq ledger
    BY DEF Kept
  <1>5. Cardinality(shown) <= Cardinality(ledger)
    <2> HIDE DEF shown
    <2>1. QED BY <1>3, <1>4, FS_Subset
  <1>6. Cardinality(keys) = Cardinality(ledger)
    <2> HIDE DEF keys, keyOf
    <2>1. QED BY <1>1, <1>2, <1>3, FS_Surjection
  <1>7. QED BY <1>5, <1>6 DEF ShownCounts

LEMMA StoreCorrects ==
  ASSUME UsageIInv, NEW i \in Invocations, Store(i)
  PROVE  /\ \A r \in Kept(ledger), s \in ledger' : r.key = s.key => s.observed >= r.observed
         /\ ~observing => ledger' \subseteq ledger
  <1>1. CASE ~observing
    <2>1. ledger' = ledger
      BY <1>1 DEF Store, StillOn
    <2>2. QED BY <2>1 DEF UsageIInv, UsageTypes, UsageRecords, OneOfAKey, Kept
  <1>2. CASE observing
    <2> DEFINE merged == Merged(Kept(ledger), Candidate(i))
    <2>1. ledger' \subseteq merged
      BY <1>2 DEF Store, StillOn, Bounded
    <2>2. \A r \in Kept(ledger), s \in merged : r.key = s.key => r = s \/ s.observed >= r.observed
      BY DEF Merged, NotOlder, UsageIInv, OneOfAKey, Kept
    <2>3. \A r \in Kept(ledger) : r.observed \in Nat
      BY DEF Kept, UsageIInv, UsageTypes, UsageRecords
    <2>4. QED BY <1>2, <2>1, <2>2, <2>3
  <1>3. QED BY <1>1, <1>2

\* However observations are delivered late, twice and out of order, and whenever usage is turned
\* off: a key has one record and is counted once, no newer observation gives way to an older one,
\* and nothing is recorded while usage is off (recordProviderUsage).
THEOREM ReplaysOnlyCorrectAlways == UsageSpec => ReplaysOnlyCorrect
  <1>1. UsageIInv /\ UsageIInv' /\ [UsageNext]_usageVars =>
          [/\ \A r, s \in ledger' : r.key = s.key => r = s
           /\ ShownCounts <= Cardinality({r.key : r \in ledger})
           /\ \A r \in Kept(ledger), s \in ledger' : r.key = s.key => s.observed >= r.observed
           /\ ~observing => ledger' \subseteq ledger]_usageVars
    <2> SUFFICES ASSUME UsageIInv, UsageIInv', UsageNext
                 PROVE  /\ \A r, s \in ledger' : r.key = s.key => r = s
                        /\ \A r \in Kept(ledger), s \in ledger' :
                             r.key = s.key => s.observed >= r.observed
                        /\ ~observing => ledger' \subseteq ledger
      BY ShownOnce
    <2>1. \A r, s \in ledger' : r.key = s.key => r = s
      BY DEF UsageIInv, OneOfAKey
    <2>2. CASE \E i \in Invocations : Store(i)
      BY <2>1, <2>2, StoreCorrects
    <2>3. CASE ledger' \subseteq ledger
      BY <2>1, <2>3 DEF UsageIInv, UsageTypes, UsageRecords, OneOfAKey, Kept
    <2>4. QED BY <2>2, <2>3
              DEF UsageNext, BeginObservation, CancelProbe, Infer, ObserveAgain, Redeliver,
                  Receive,
                  ForgetInvocation, ConfigureUsage, DeleteUsage, EnforceRetention, Kept
  <1>2. QED BY <1>1, UsageInvariant, PTL DEF UsageSpec, ReplaysOnlyCorrect

HIDE UsageAssumption

-----------------------------------------------------------------------------
\* What each component keeps, whichever of them moves.
StoresKeep ==
  /\ IInv /\ RecordsIInv /\ DecisionsKeep /\ ContractsIInv /\ SpecImportsIInv /\ DiscoveryIInv
  /\ AnnotationsIInv /\ UsageIInv /\ BriefsIInv /\ ComparisonsIInv /\ MemoryIInv
  /\ ChecksIInv

LEMMA StoresInitial == MCInit => StoresKeep
  BY InitIInv, RecordsInitial, DecisionsKeepInitial, ContractsInitial, SpecImportsInitial,
     DiscoveryInitial, AnnotationsInitial, UsageInitial, BriefsInitial, ComparisonsInitial,
     MemoryInitial, ChecksInitial
  DEF MCInit, StoresKeep

\* A step of all together is a step of each component, or leaves it as it is.
LEMMA EachSteps ==
  ASSUME [MCNext]_allVars
  PROVE  /\ [Next]_vars /\ [RecordsNext]_recordVars /\ [DecisionsNext]_decisionVars
         /\ [ContractsNext]_contractVars /\ [SpecImportsNext]_specImportVars
         /\ [DiscoveryNext]_discoveryVars /\ [AnnotationsNext]_annotationVars
         /\ [UsageNext]_usageVars /\ [BriefsNext]_briefVars
         /\ [ComparisonsNext]_comparisonVars /\ [MemoryNext]_memoryVars
         /\ [ChecksNext]_checkVars
  <1>1. [Next]_vars
    BY DEF MCNext, OthersStay, allVars
  <1>2. [RecordsNext]_recordVars
    BY DEF MCNext, OthersStay, allVars
  <1>3. [DecisionsNext]_decisionVars
    BY DEF MCNext, OthersStay, allVars
  <1>4. [ContractsNext]_contractVars
    BY DEF MCNext, OthersStay, allVars
  <1>5. [SpecImportsNext]_specImportVars
    BY DEF MCNext, OthersStay, allVars
  <1>6. [DiscoveryNext]_discoveryVars
    BY DEF MCNext, OthersStay, allVars
  <1>7. [AnnotationsNext]_annotationVars
    BY DEF MCNext, OthersStay, allVars
  <1>8. [UsageNext]_usageVars
    BY DEF MCNext, OthersStay, allVars
  <1>9. [BriefsNext]_briefVars
    BY DEF MCNext, OthersStay, allVars
  <1>10. [ComparisonsNext]_comparisonVars
    BY DEF MCNext, OthersStay, allVars
  <1>11. [MemoryNext]_memoryVars
    BY DEF MCNext, OthersStay, allVars
  <1>12. [ChecksNext]_checkVars
    BY DEF MCNext, OthersStay, allVars
  <1>13. QED BY <1>1, <1>2, <1>3, <1>4, <1>5, <1>6, <1>7, <1>8, <1>9, <1>10, <1>11, <1>12

LEMMA StoresStep == StoresKeep /\ [MCNext]_allVars => StoresKeep'
  BY EachSteps, NextIInv, RecordsStepKeeps, DecisionsKeepStep, ContractsStep,
     SpecImportsStepKeeps, DiscoveryStepKeeps, AnnotationsStepKeeps, UsageStepKeeps,
     BriefsStepKeeps, ComparisonsStepKeeps, MemoryStepKeeps, ChecksStepKeeps
  DEF StoresKeep

\* The types of all that is written about a task, whichever store moves and for any values of
\* their constants.
THEOREM TaskTypesHold == MCSpec => []TypesOK
  <1>1. StoresKeep => TypesOK
    BY RecordTypesKept, DecisionTypesKept, ContractTypesKept, SpecImportsTypesKept,
       DiscoveryTypesKept, AnnotationTypesKept, UsageTypesKept, BriefTypesKept,
       ComparisonTypesKept, MemoryTypesKept, CheckTypesKept
    DEF StoresKeep, IInv, TypesOK
  <1>2. QED BY <1>1, StoresInitial, StoresStep, PTL DEF MCSpec

\* However large the files and however often a registration is interrupted and repeated:
\* discovery stays within its limits and says when it left something out, and an entry has at
\* most one live imported record (discoverSpecs, registerSpecImport).
THEOREM ImportsHoldAlways == MCSpec => []ImportsHold
  <1>1. StoresKeep => ImportsHold
    BY DiscoveryTypesKept, OneImportKept DEF StoresKeep, ImportsHold
  <1>2. QED BY <1>1, StoresInitial, StoresStep, PTL DEF MCSpec

\* All together behave, for each component, as it does alone.
LEMMA EachBehaves ==
  MCSpec => /\ RecordsSpec /\ AnnotationsSpec /\ BriefsSpec /\ ComparisonsSpec /\ MemorySpec
            /\ ChecksSpec
  <1>1. MCInit => /\ RecordsInit /\ AnnotationsInit /\ BriefsInit /\ ComparisonsInit /\ MemoryInit
                  /\ ChecksInit
    BY DEF MCInit
  <1>2. [MCNext]_allVars => [RecordsNext]_recordVars
    BY EachSteps
  <1>3. [MCNext]_allVars => [AnnotationsNext]_annotationVars
    BY EachSteps
  <1>4. [MCNext]_allVars => [BriefsNext]_briefVars
    BY EachSteps
  <1>5. [MCNext]_allVars => [ComparisonsNext]_comparisonVars
    BY EachSteps
  <1>6. [MCNext]_allVars => [MemoryNext]_memoryVars
    BY EachSteps
  <1>7. [MCNext]_allVars => [ChecksNext]_checkVars
    BY EachSteps
  <1>8. QED
    BY <1>1, <1>2, <1>3, <1>4, <1>5, <1>6, <1>7, PTL
    DEF MCSpec, RecordsSpec, AnnotationsSpec, BriefsSpec, ComparisonsSpec, MemorySpec, ChecksSpec

\* Whatever moves while a report, a comment or a memory is on a screen: what is applied is the
\* report that was reviewed, what is resolved is the revision that was shown, what is replaced is
\* the memory that was seen, and a dispatch tells what none before it told (applyReconciliation,
\* resolveDiffAnnotation, updateProjectMemory, journalWorkflowAction).
THEOREM ChangedAsReadAlways == MCSpec => ChangedAsRead
  BY EachBehaves, RecordsAsReviewedAlways, NoBlindReviewAlways, MemoryAlwaysHolds,
     BriefsAlwaysHold, PTL
  DEF BriefsHold, ChangedAsRead

\* However the task moves between the reads of its documents, and whenever a dispatch is retried:
\* a brief leaves out no change since the last one and blames no edit without cause, and a
\* comparison reports a change just where there was one since its baseline, unless the clock
\* stood; and the result of a check says how it ended (assembleContextBrief,
\* inspectDecisionComparison, executeOne).
THEOREM ReadersToldTrueAlways == MCSpec => []ReadersToldTrue
  BY EachBehaves, BriefsAlwaysHold, ComparisonsAlwaysHold, ChecksAlwaysHold, PTL
  DEF BriefsHold, ReadersToldTrue

=============================================================================
