------------------------------ MODULE TaskState ------------------------------
(***************************************************************************)
(* The life of one task: src/src/task-state/service.ts over the store of   *)
(* task-state/store.ts and contracts.ts, and the checks that produce its   *)
(* evidence (src/src/acceptance/service.ts, quality-gates/service.ts).     *)
(*                                                                         *)
(* Sessions, command lines and the scheduler send mutations.  Each carries *)
(* the task revision its sender read and a mutation ID.  The store runs    *)
(* them one at a time under the task-state lock, refuses a stale one, and  *)
(* answers a repetition of a committed one without running it again.       *)
(* Meanwhile the processes behind runs die, and people edit the source.    *)
(*                                                                         *)
(* A call in flight is a slot.  The revision it carries is abstracted to   *)
(* whether it is still the task's: a slot is fresh while nothing was       *)
(* committed since its sender read the task.  What a fresh call asks for   *)
(* was formed from the present task, so it is chosen when it commits; only *)
(* the result of a check is older, and is kept with the slot.  Criteria    *)
(* are the required ones; checkpoints, modes and records only advance the  *)
(* task's revision.                                                        *)
(***************************************************************************)
EXTENDS Naturals, Sequences

CONSTANTS
  Criteria,     \* stable criterion IDs
  Texts,        \* what a criterion can say
  Checks,       \* check IDs of an enhanced workflow
  Sources,      \* snapshots of the working tree
  Runs,         \* run IDs, each used once
  Callers,      \* calls in flight of sessions, command lines and the server
  Verifiers,    \* checks in flight, each ending in a call of recordEvidence
  Engines,      \* what runs checks: "acceptance" verifier, quality "gate"
  Goals,        \* sets of criteria that somebody may ask for
  None,
  MaxEvidence,  \* bound: evidence entries
  MaxRevisions  \* bound: revisions of a criterion and of the enhanced workflow

Slots     == Callers \union Verifiers
Revisions == 1..MaxRevisions
Shape     == [text : Texts, approval : BOOLEAN]
Criterion == [revision : Revisions, text : Texts, approval : BOOLEAN]
Mapping   == [Checks -> Criteria \union {None}]
Enhanced  == [revision : Revisions, of : Mapping, defined : SUBSET Checks]
Kinds     == {"check"} \union Checks
States    == {"planned", "running", "awaiting-decision", "blocked",
              "cancelled", "completed", "verified"}
RunStates == {"unused", "running", "interrupted", "cancelled", "completed"}

\* A check in execution: for whom, since which source, and what came out of it.
Test == [by : Engines, criterion : Criteria, kind : Kinds, source : Sources,
         verdict : {"passed", "failed", None}]

\* An entry of task.evidence.  "enrolled" is the workflow revision that a result of
\* the verifier names; "text", what the criterion said, is history.
Evidence == [criterion : Criteria, revision : Revisions, kind : Kinds \union {"approval"},
             verdict : {"passed", "failed"}, source : Sources,
             enrolled : {0} \union Revisions, text : Texts]

ASSUME TaskStateAssumption ==
  /\ Goals \subseteq [Criteria -> Shape \union {None}]
  /\ None \notin Criteria \union Runs \union Goals \union Shape \union Criterion \union Enhanced \union Test
  /\ Engines \subseteq {"acceptance", "gate"}
  /\ Callers \intersect Verifiers = {}
  /\ None \notin {"passed", "failed"}
  /\ {"check", "approval"} \intersect Checks = {}
  /\ {MaxEvidence, MaxRevisions} \subseteq Nat \ {0}

VARIABLES
  state,        \* task.state
  authorized,   \* authorization was given, or is not required
  owner,        \* task.owner.runId
  run,          \* run[r].state
  criteria,     \* task.criteria
  enhanced,     \* task.enhancedWorkflow; "defined" are the checks with a definition
  evidence,     \* task.evidence, oldest first
  live,         \* the probe finds the process of the owner's run alive
  source,       \* the working tree
  testing,      \* testing[v]: the check that is executed for verifier v
  sent,         \* slots that hold a call
  fresh,        \* slots whose revision is the task's
  applied,      \* slots whose mutation ID is among task.events
  refused       \* slots whose last answer was TASK_REVISION_CONFLICT

vars   == <<state, authorized, owner, run, criteria, enhanced, evidence,
            live, source, testing, sent, fresh, applied, refused>>
intent == <<authorized, criteria, enhanced>>
calls  == <<sent, fresh, applied, refused>>
world  == <<source, testing>>

\* (The variant lets a verified task be changed.)
OnlyCancelled == {"cancelled"}

Terminal == {"cancelled", "verified"}
Present  == {c \in Criteria : criteria[c] # None}

\* createTask, with a first set of criteria and with or without authorization.
Init ==
  /\ authorized \in BOOLEAN
  /\ state = IF authorized THEN "planned" ELSE "awaiting-decision"
  /\ owner = None
  /\ run = [r \in Runs |-> "unused"]
  /\ \E goal \in Goals :
       criteria = [c \in Criteria |->
                    IF goal[c] = None THEN None
                    ELSE [revision |-> 1, text |-> goal[c].text, approval |-> goal[c].approval]]
  /\ enhanced = None
  /\ evidence = <<>>
  /\ live = FALSE
  /\ source \in Sources
  /\ testing = [s \in Verifiers |-> None]
  /\ sent = {}
  /\ fresh = {}
  /\ applied = {}
  /\ refused = {}

-----------------------------------------------------------------------------
(* Calls: mutate, findPriorMutation, assertExpected *)

\* Somebody reads the task and prepares a mutation with a new mutation ID.
Read(s) ==
  /\ s \notin sent
  /\ sent' = sent \union {s}
  /\ fresh' = fresh \union {s}
  /\ UNCHANGED <<state, intent, owner, run, evidence, live, world, applied, refused>>

\* (A variant: the revision is compared before the mutation ID is looked up.)
ComparesRevisionFirst(s) ==
  /\ s \in sent \ (fresh \union refused)
  /\ refused' = refused \union {s}
  /\ UNCHANGED <<state, intent, owner, run, evidence, live, world, sent, fresh, applied>>

\* The store finds another revision than the one the call carries.
Refuse(s) ==
  /\ s \in sent \ (fresh \union applied \union refused)
  /\ refused' = refused \union {s}
  /\ UNCHANGED <<state, intent, owner, run, evidence, live, world, sent, fresh, applied>>

\* The call is over: answered, lost, or its sender is gone.
Forget(s) ==
  /\ s \in sent
  /\ sent' = sent \ {s}
  /\ fresh' = fresh \ {s}
  /\ applied' = applied \ {s}
  /\ refused' = refused \ {s}
  /\ testing' = [v \in Verifiers |-> IF v = s THEN None ELSE testing[v]]
  /\ UNCHANGED <<state, intent, owner, run, evidence, live, source>>

\* The store takes a call that carries the task's revision.
Expected(s) == s \in fresh

\* writeTaskState and commitEvent: nobody else's revision is the task's now.
Commit(s) ==
  /\ fresh' = {}
  /\ applied' = applied \union {s}
  /\ UNCHANGED <<world, sent, refused>>

-----------------------------------------------------------------------------
(* Ownership *)

\* (A variant: the owner's run goes on.)
RunGoesOn(how) == run

\* How leaving the running state treats the owner's run.
Released(how) ==
  IF owner # None /\ run[owner] = "running" THEN [run EXCEPT ![owner] = how] ELSE run

\* authorizeTask
Authorize(s) ==
  /\ Expected(s)
  /\ state \notin Terminal
  /\ authorized' = TRUE
  /\ state' = IF state = "awaiting-decision" THEN "planned" ELSE state
  /\ Commit(s)
  /\ UNCHANGED <<owner, run, criteria, enhanced, evidence, live>>

\* resumeTask.  A process on another host cannot be probed and counts as dead.
Resume(s, r, probed) ==
  /\ Expected(s)
  /\ state \notin Terminal
  /\ authorized
  /\ owner # None => ~live
  /\ run[r] = "unused"
  /\ run' = [Released("interrupted") EXCEPT ![r] = "running"]
  /\ state' = "running"
  /\ owner' = r
  /\ live' = probed
  /\ Commit(s)
  /\ UNCHANGED <<intent, evidence>>

\* pauseTask
Pause(s, to) ==
  /\ Expected(s)
  /\ state \notin Terminal
  /\ run' = Released("interrupted")
  /\ owner' = None
  /\ live' = FALSE
  /\ state' = to
  /\ Commit(s)
  /\ UNCHANGED <<intent, evidence>>

\* cancelTask
Cancel(s) ==
  /\ Expected(s)
  /\ state \notin Terminal
  /\ run' = Released("cancelled")
  /\ owner' = None
  /\ live' = FALSE
  /\ state' = "cancelled"
  /\ Commit(s)
  /\ UNCHANGED <<intent, evidence>>

\* activeRun
Active(r) == r # None /\ owner = r /\ run[r] = "running"

\* checkpointTask, setVerificationMode: the revision moves, nothing else does here.
Annotate(s) ==
  /\ Expected(s)
  /\ state \notin Terminal
  /\ Commit(s)
  /\ UNCHANGED <<state, intent, owner, run, evidence, live>>

\* completeTask
Complete(s, r) ==
  /\ Expected(s)
  /\ Active(r)
  /\ run' = [run EXCEPT ![r] = "completed"]
  /\ owner' = None
  /\ live' = FALSE
  /\ state' = "completed"
  /\ Commit(s)
  /\ UNCHANGED <<intent, evidence>>

-----------------------------------------------------------------------------
(* Criteria and enhanced workflows *)

\* (A variant: a revision is counted from what was there before.)
StartsAtZero(goal) ==
  [c \in Criteria |->
     IF goal[c] = None THEN None
     ELSE [text |-> goal[c].text, approval |-> goal[c].approval,
           revision |-> IF criteria[c] = None THEN 0 ELSE criteria[c].revision + 1]]

\* reconcileCriteria
Reconciled(goal) ==
  [c \in Criteria |->
     CASE goal[c] = None -> None
       [] goal[c] # None /\ criteria[c] = None ->
            [revision |-> 1, text |-> goal[c].text, approval |-> goal[c].approval]
       [] goal[c] # None /\ criteria[c] # None ->
            [text |-> goal[c].text, approval |-> goal[c].approval,
             revision |-> IF <<criteria[c].text, criteria[c].approval>>
                               = <<goal[c].text, goal[c].approval>>
                          THEN criteria[c].revision
                          ELSE criteria[c].revision + 1]]

\* Every required criterion is mapped, and every mapped one exists: demanded by
\* registerEnhancedWorkflow, and by validateEnhancedWorkflow of every write.
Covers(of, kept) ==
  /\ {of[k] : k \in Checks} \ {None} \subseteq kept
  /\ kept \subseteq {of[k] : k \in Checks}

\* (A variant: evidence may outlive its criterion.)
EvidenceOutlives(kept) == TRUE

\* validateTask refuses to write evidence of a criterion that is gone.
EvidenceKept(kept) == \A i \in DOMAIN evidence : evidence[i].criterion \in kept

Reopened == IF state = "completed" THEN "planned" ELSE state

\* New criteria, if any are asked for; the bound on revisions is the model's.
Intends(goal) ==
  LET kept == {c \in Criteria : goal[c] # None} IN
  \/ goal = None /\ UNCHANGED criteria
  \/ /\ goal # None
     /\ EvidenceKept(kept)
     /\ \A c \in kept : Reconciled(goal)[c].revision <= MaxRevisions
     /\ criteria' = Reconciled(goal)

\* reviseCriteria
Revise(s, goal) ==
  /\ Expected(s)
  /\ state \notin Terminal
  /\ Intends(goal)
  /\ enhanced # None => Covers(enhanced.of, Present')
  /\ state' = Reopened
  /\ Commit(s)
  /\ UNCHANGED <<authorized, owner, run, enhanced, evidence, live>>

\* registerEnhancedWorkflow; a check is enrolled with or without what it executes.
Register(s, goal, of, defined) ==
  /\ Expected(s)
  /\ state \notin Terminal
  /\ Intends(goal)
  /\ Present' # {}
  /\ Covers(of, Present')
  /\ enhanced # None => enhanced.revision < MaxRevisions
  /\ defined \subseteq {k \in Checks : of[k] # None}
  /\ enhanced' = [revision |-> IF enhanced = None THEN 1 ELSE enhanced.revision + 1,
                  of |-> of, defined |-> defined]
  /\ state' = Reopened
  /\ Commit(s)
  /\ UNCHANGED <<authorized, owner, run, evidence, live>>

-----------------------------------------------------------------------------
(* Checks and their evidence *)

\* A check starts for verifier v, which has just read the task and its source.
Starts(v, by, c, kind) ==
  /\ by \in Engines
  /\ v \notin sent
  /\ state = "running"
  /\ c \in Present
  /\ testing' = [testing EXCEPT ![v] = [by |-> by, criterion |-> c, kind |-> kind,
                                       source |-> source, verdict |-> None]]
  /\ sent' = sent \union {v}
  /\ fresh' = fresh \union {v}
  /\ UNCHANGED <<state, intent, owner, run, evidence, live, source, applied, refused>>

\* The acceptance verifier runs an ordinary check, or an enrolled one as registered.
\* No declaration of its document has the digest of a check enrolled without a
\* definition, and one such check turns the whole document away.
LaunchCheck(v, c, kind) ==
  /\ enhanced # None => {k \in Checks : enhanced.of[k] # None} \subseteq enhanced.defined
  /\ kind \in Checks => enhanced # None /\ enhanced.of[kind] = c
  /\ Starts(v, "acceptance", c, kind)

\* executeQualityGates runs a declared command.
LaunchGate(v, c) == Starts(v, "gate", c, "check")

\* executeOne looks at the source again when the check has ended, and turns a pass
\* into a failure when it moved.
EndCheck(v, verdict) ==
  /\ testing[v] # None
  /\ testing[v].by = "acceptance"
  /\ testing[v].verdict = None
  /\ testing' = [testing EXCEPT ![v].verdict =
                   IF testing[v].source = source THEN verdict ELSE "failed"]
  /\ UNCHANGED <<state, intent, owner, run, evidence, live, source, calls>>

\* A quality gate takes the result as it is.
EndGate(v, verdict) ==
  /\ testing[v] # None
  /\ testing[v].by = "gate"
  /\ testing[v].verdict = None
  /\ testing' = [testing EXCEPT ![v].verdict = verdict]
  /\ UNCHANGED <<state, intent, owner, run, evidence, live, source, calls>>

\* recordEvidence accepts this kind for the criterion.
Acceptable(c, kind) ==
  /\ criteria[c].approval => kind = "approval"
  /\ kind \in Checks => enhanced # None /\ enhanced.of[kind] # None

AppendEvidence(entry) ==
  /\ Len(evidence) < MaxEvidence
  /\ evidence' = Append(evidence, entry)

\* recordEvidence, called with the result of a check
Record(s) ==
  LET t == testing[s] IN
  /\ s \in fresh
  /\ t # None
  /\ t.verdict # None
  /\ Active(owner)
  /\ t.criterion \in Present
  /\ Acceptable(t.criterion, t.kind)
  /\ AppendEvidence(
       [criterion |-> t.criterion, revision |-> criteria[t.criterion].revision,
        kind |-> t.kind, verdict |-> t.verdict, source |-> source,
        enrolled |-> IF t.kind \in Checks THEN enhanced.revision ELSE 0,
        text |-> criteria[t.criterion].text])
  /\ Commit(s)
  /\ UNCHANGED <<state, intent, owner, run, live>>

\* recordEvidence, called with a result that no verifier of the application produced;
\* it names no workflow revision.
RecordReported(s, c, kind, verdict) ==
  /\ Expected(s)
  /\ Active(owner)
  /\ c \in Present
  /\ Acceptable(c, kind)
  /\ AppendEvidence(
       [criterion |-> c, revision |-> criteria[c].revision, kind |-> kind,
        verdict |-> verdict, source |-> source, enrolled |-> 0, text |-> criteria[c].text])
  /\ Commit(s)
  /\ UNCHANGED <<state, intent, owner, run, live>>

\* recordEvidence, called with the approval of a person
Approve(s, c) ==
  /\ Expected(s)
  /\ Active(owner)
  /\ c \in Present
  /\ AppendEvidence(
       [criterion |-> c, revision |-> criteria[c].revision, kind |-> "approval",
        verdict |-> "passed", source |-> source, enrolled |-> 0, text |-> criteria[c].text])
  /\ authorized' = TRUE
  /\ Commit(s)
  /\ UNCHANGED <<state, owner, run, criteria, enhanced, live>>

\* findLast: the last of some indices, if there are any
Newest(I) == {i \in I : \A j \in I : j <= i}

\* Evidence for a criterion as it reads now, of the source as it is now
Current(c) ==
  {i \in DOMAIN evidence : /\ evidence[i].criterion = c
                           /\ evidence[i].revision = criteria[c].revision
                           /\ evidence[i].source = source}

\* verificationFailures is empty
Verifiable ==
  /\ \A c \in Present : \E i \in Newest(Current(c)) :
       /\ evidence[i].verdict = "passed"
       /\ criteria[c].approval => evidence[i].kind = "approval"
  /\ enhanced # None =>
       /\ Present # {}
       /\ Present \subseteq {enhanced.of[k] : k \in Checks}
       /\ \A k \in Checks : enhanced.of[k] \in Present =>
            \E i \in Newest({j \in Current(enhanced.of[k]) : evidence[j].kind = k}) :
              /\ evidence[i].verdict = "passed"
              /\ k \in enhanced.defined => evidence[i].enrolled = enhanced.revision

\* verifyTask
Verify(s) ==
  /\ Expected(s)
  /\ state = "completed"
  /\ Verifiable
  /\ state' = "verified"
  /\ Commit(s)
  /\ UNCHANGED <<intent, owner, run, evidence, live>>

-----------------------------------------------------------------------------
(* Surroundings *)

\* The process behind the owner's run dies.  Nothing probes those of ended runs.
Die ==
  /\ live
  /\ live' = FALSE
  /\ UNCHANGED <<state, intent, owner, run, evidence, world, calls>>

\* Somebody edits the working tree.
Edit(to) ==
  /\ to # source
  /\ source' = to
  /\ UNCHANGED <<state, intent, owner, run, evidence, live, testing, calls>>

Next ==
  \/ \E s \in Slots : Refuse(s) \/ Forget(s)
  \/ \E s \in Callers :
       \/ Read(s) \/ Authorize(s) \/ Cancel(s) \/ Annotate(s) \/ Verify(s)
       \/ \E r \in Runs, probed \in BOOLEAN : Resume(s, r, probed)
       \/ \E to \in {"awaiting-decision", "blocked"} : Pause(s, to)
       \/ \E r \in Runs : Complete(s, r)
       \/ \E goal \in Goals : Revise(s, goal)
       \/ \E goal \in Goals \union {None}, of \in Mapping,
            defined \in SUBSET Checks : Register(s, goal, of, defined)
       \/ \E c \in Criteria : Approve(s, c)
       \/ \E c \in Criteria, kind \in Kinds, verdict \in {"passed", "failed"} :
            RecordReported(s, c, kind, verdict)
  \/ \E v \in Verifiers :
       \/ Record(v)
       \/ \E c \in Criteria, kind \in Kinds : LaunchCheck(v, c, kind)
       \/ \E c \in Criteria : LaunchGate(v, c)
       \/ \E verdict \in {"passed", "failed"} : EndCheck(v, verdict) \/ EndGate(v, verdict)
  \/ Die
  \/ \E to \in Sources : Edit(to)

Spec == Init /\ [][Next]_vars

-----------------------------------------------------------------------------
(* Properties *)

\* The variables have the shapes of contracts.ts, and calls of unknown slots
\* are neither applied nor refused.
TypeOK ==
  /\ state \in States
  /\ authorized \in BOOLEAN
  /\ owner \in Runs \union {None}
  /\ run \in [Runs -> RunStates]
  /\ criteria \in [Criteria -> Criterion \union {None}]
  /\ enhanced \in Enhanced \union {None}
  /\ evidence \in Seq(Evidence)
  /\ Len(evidence) <= MaxEvidence
  /\ live \in BOOLEAN
  /\ source \in Sources
  /\ testing \in [Verifiers -> Test \union {None}]
  /\ sent \subseteq Slots
  /\ fresh \subseteq sent
  /\ applied \subseteq sent
  /\ refused \subseteq sent

\* The operations keep the running state, the owner and the one active run in
\* agreement, so the check validateTask makes of it at every write (contracts.ts)
\* never turns a mutation away.
OwnershipAgrees ==
  /\ (state = "running") <=> (owner # None)
  /\ {r \in Runs : run[r] = "running"} = {owner} \ {None}

\* Evidence that counts for the present revision of a criterion was produced when
\* the criterion said what it says now, even after criteria were removed, added
\* again under their old ID and revised.
EvidenceOfText ==
  \A i \in DOMAIN evidence :
    LET e == evidence[i]  c == criteria[e.criterion] IN
    /\ e.criterion \in Present
    /\ e.revision <= c.revision
    /\ e.revision = c.revision => e.text = c.text

\* Entry i is about criterion c as it reads now, and about source src.
Counts(i, c, src) ==
  /\ evidence[i].criterion = c
  /\ evidence[i].revision = criteria[c].revision
  /\ evidence[i].text = criteria[c].text
  /\ evidence[i].source = src

\* A verified task stays what it was verified as: of one source, the last result for
\* every criterion as it reads is a pass, and an approval where one is required, and
\* so is the last result of every check of the enhanced workflow: of the check as it
\* is enrolled, where it was enrolled with a definition.  One without a definition may
\* stand on a result from an earlier enrolment, of the same text and source.
VerifiedStands ==
  state = "verified" =>
    \E src \in Sources :
      /\ \A c \in Present : \E i \in DOMAIN evidence :
           /\ Counts(i, c, src)
           /\ evidence[i].verdict = "passed"
           /\ criteria[c].approval => evidence[i].kind = "approval"
           /\ \A j \in DOMAIN evidence : j > i => ~Counts(j, c, src)
      /\ enhanced # None => \A k \in Checks : enhanced.of[k] # None =>
           \E i \in DOMAIN evidence :
             /\ Counts(i, enhanced.of[k], src)
             /\ <<evidence[i].kind, evidence[i].verdict>> = <<k, "passed">>
             /\ k \in enhanced.defined => evidence[i].enrolled = enhanced.revision
             /\ \A j \in DOMAIN evidence :
                  j > i /\ evidence[j].kind = k => ~Counts(j, enhanced.of[k], src)

\* A call that is answered with a revision conflict was not carried out, and a
\* repetition of one that was carried out is not answered with a conflict.
ConflictMeansUnapplied == refused \intersect applied = {}

\* acceptance/service.ts: "reject a pass when the source moves before evidence is
\* committed".
RecordedAsTested ==
  [][\A v \in Verifiers :
       LET t == testing[v]  e == evidence'[Len(evidence')] IN
       v \in applied' \ applied /\ t.by = "acceptance" /\ e.verdict = "passed"
         => e.source = t.source]_vars
==============================================================================
