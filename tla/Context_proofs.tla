---------------------------- MODULE Context_proofs ----------------------------
(***************************************************************************)
(* What readers are told of a task, the checks behind its evidence, and    *)
(* the memory of its project: one section per component, with its          *)
(* inductive invariant, the lemmas that its actions keep it, and what      *)
(* follows from it.                                                        *)
(*                                                                         *)
(* Briefs, for any drivers, deaths, reconciliations and edits: between a   *)
(* point that somebody holds (a binding, or the task as it was read) and   *)
(* the task as it is nothing differs that no edit and no reconciliation    *)
(* explains (Explains), a task that was read is a part of the present one  *)
(* (IsPast), and whoever read the workflow at its revision knows its last  *)
(* binding (FlowWas).                                                      *)
(*                                                                         *)
(* Comparisons, for any clock readings: events and the revisions of the    *)
(* record between them are in the order of their readings (Chronicle), and *)
(* a review parts the revisions it saw from those that began later         *)
(* (Observes, Parts).                                                      *)
(*                                                                         *)
(* Memory, for any projects, exports and imports: ids are drawn once, and  *)
(* a memory that was read is there, as it was or at a later revision       *)
(* (SeenIsThere).                                                          *)
(*                                                                         *)
(* Checks: what cut a check short is known by its reason, and until a      *)
(* fixture has answered nothing did (ChecksIInv).                          *)
(***************************************************************************)
EXTENDS ContextBriefs, DecisionComparisons, ProjectMemory, AcceptanceChecks, FiniteSetTheorems,
        SequenceTheorems, WellFoundedInduction, TLAPS
-----------------------------------------------------------------------------
USE BriefsAssumption

\* Between point b and task k nothing differs that neither an edit nor a reconciliation explains.
Explains(b, k) ==
  /\ b.revision <= k.revision
  /\ (\A e \in edits : e \notin (b.revision + 1)..k.revision) /\ Since(k, b) = {} =>
       b.criteria = k.criteria /\ b.adopted = k.adopted

\* Task k is work as it was at its revision.
IsPast(k) ==
  /\ Explains(k, work)
  /\ k.revision = work.revision => k = work
  /\ k.reconciled = {r \in work.reconciled : r.revision <= k.revision}

\* The workflow at revision n, whose last binding was b, has not moved or has a later revision.
FlowWas(n, b) == n <= flow.revision /\ (n = flow.revision => b = flow.last)

\* The reconciliations of work between a binding and revision n.
Between(b, n) == {r \in work.reconciled : r.revision > b.revision /\ r.revision <= n}

DriverKnows(x) ==
  /\ x.at \in {"read", "inspected"} => FlowWas(x.flow.revision, x.flow.last)
  /\ x.at = "read" /\ x.flow.last # NoBrief => Explains(x.flow.last, work)
  /\ x.at = "inspected" =>
       IsPast(x.work) /\ x.work.revision >= 1
       /\ (x.flow.last # NoBrief => Explains(x.flow.last, x.work))
  /\ x.at = "assembled" =>
       /\ FlowWas(x.revision, x.since)
       /\ Explains(x.binding, work) /\ x.binding.revision >= 1
       /\ x.since # NoBrief => x.since.revision <= x.binding.revision
       /\ x.change.reconciliations.kept \union x.change.reconciliations.omitted =
            IF x.since = NoBrief THEN {} ELSE Between(x.since, x.binding.revision)
       /\ x.change.outside => \E e \in edits : e \in (x.since.revision + 1)..x.binding.revision
       /\ \A w \in x.change.completed :
            \/ work.evidence[w][x.binding.tree] = [of |-> work.criteria[w], passes |-> TRUE]
            \/ x.binding.revision < work.revision

BriefsIInv ==
  /\ BriefsTypeOK
  /\ work.revision >= 1 /\ \A r \in work.reconciled : r.revision <= work.revision
  /\ flow.last # NoBrief => Explains(flow.last, work)
  /\ first = 0 <=> flow.last = NoBrief
  /\ \A r \in told : flow.last # NoBrief /\ r.revision <= flow.last.revision
  /\ NothingUntold
  /\ \A d \in Drivers : DriverKnows(driver[d])

LEMMA BriefsInitial == BriefsInit => BriefsIInv
  <1> SUFFICES ASSUME BriefsInit PROVE BriefsIInv
    OBVIOUS
  <1>1. work \in Tasks /\ work.revision = 1 /\ work.reconciled = {}
    BY DEF BriefsInit, Tasks, NoEvidence, Reconciliations
  <1>2. flow \in Flows /\ flow.last = NoBrief
    BY DEF BriefsInit, Flows
  <1>3. driver \in [Drivers -> DriverStates] /\ \A d \in Drivers : driver[d].at = "idle"
    BY DEF BriefsInit, Asleep, DriverStates
  <1>4. BriefsTypeOK
    BY <1>1, <1>2, <1>3 DEF BriefsInit, BriefsTypeOK
  <1>5. \A d \in Drivers : DriverKnows(driver[d])
    BY <1>3 DEF DriverKnows
  <1>6. QED BY <1>1, <1>2, <1>4, <1>5 DEF BriefsInit, BriefsIInv, NothingUntold

\* What a driver holds at its stages.
LEMMA DriverFields ==
  ASSUME NEW x \in DriverStates
  PROVE  /\ x.at \in {"read", "inspected"} => x.flow \in Flows
         /\ x.at = "inspected" => x.work \in Tasks
         /\ x.at = "assembled" => /\ x.revision \in Nat /\ x.since \in Bindings \union {NoBrief}
                                  /\ x.binding \in Bindings /\ x.change \in Changes
  BY DEF DriverStates

LEMMA TypeFacts ==
  ASSUME BriefsTypeOK
  PROVE  /\ work \in Tasks /\ work.revision \in Nat /\ work.reconciled \subseteq Reconciliations
         /\ \A r \in Reconciliations : r.revision \in Nat
         /\ \A k \in Tasks : k.revision \in Nat /\ k.reconciled \subseteq Reconciliations
         /\ \A b \in Bindings : b.revision \in Nat /\ b # NoBrief
         /\ flow.revision \in Nat /\ flow.last \in Bindings \union {NoBrief}
         /\ edits \subseteq Nat /\ first \in Nat
  BY DEF BriefsTypeOK, Tasks, Bindings, Flows, Reconciliations

\* The task goes on by a revision: what changed is an edit, a reconciliation, or evidence.
WorkGoesOn(k) ==
  /\ work' = k /\ k \in Tasks /\ k.revision = work.revision + 1
  /\ work.reconciled \subseteq k.reconciled
  /\ \A r \in k.reconciled \ work.reconciled : r.revision = k.revision
  /\ edits \subseteq edits' /\ edits' \subseteq Nat
  /\ \A e \in edits' \ edits : e = k.revision
  /\ \/ k.criteria = work.criteria /\ k.adopted = work.adopted
     \/ k.revision \in edits'
     \/ \E r \in k.reconciled : r.revision = k.revision
  /\ flow' \in Flows /\ flow.revision <= flow'.revision /\ flow'.last = flow.last
  /\ UNCHANGED <<driver, told, first>>

\* A point that explained the task explains it as it goes on, and a fixed task still.
LEMMA ExplainsStays ==
  ASSUME BriefsIInv, NEW k, WorkGoesOn(k), NEW b, b.revision \in Nat
  PROVE  /\ Explains(b, work) => Explains(b, work)'
         /\ \A old \in Tasks : old.revision <= work.revision /\ Explains(b, old) => Explains(b, old)'
  <1>0. /\ work.revision \in Nat /\ k.revision = work.revision + 1 /\ work' = k
        /\ \A r \in k.reconciled : r.revision \in Nat
    BY TypeFacts DEF BriefsIInv, WorkGoesOn
  <1>1. ASSUME Explains(b, work) PROVE Explains(b, work)'
    <2>1. b.revision <= work.revision /\ b.revision <= k.revision /\ k.revision \in (b.revision + 1)..k.revision
      BY <1>0, <1>1 DEF Explains
    <2> SUFFICES ASSUME \A e \in edits' : e \notin (b.revision + 1)..k.revision, Since(k, b) = {}
                 PROVE  b.criteria = k.criteria /\ b.adopted = k.adopted
      BY <1>0, <2>1 DEF Explains, Since
    <2>2. k.revision \notin edits'
      BY <2>1
    <2>3. \A r \in k.reconciled : r.revision # k.revision
      BY <1>0, <2>1 DEF Since
    <2>4. k.criteria = work.criteria /\ k.adopted = work.adopted
      BY <2>2, <2>3 DEF WorkGoesOn
    <2>5. Since(work, b) = {}
      BY DEF Since, WorkGoesOn
    <2>6. \A e \in edits : e \notin (b.revision + 1)..work.revision
      <3> TAKE e \in edits
      <3>1. e \in edits' /\ e \in Nat
        BY TypeFacts DEF WorkGoesOn, BriefsIInv
      <3>2. e \notin (b.revision + 1)..k.revision
        BY <3>1
      <3>3. QED BY <1>0, <3>1, <3>2
    <2>7. QED BY <1>1, <2>4, <2>5, <2>6 DEF Explains
  <1>2. ASSUME NEW old \in Tasks, old.revision <= work.revision, Explains(b, old)
        PROVE  Explains(b, old)'
    <2>1. old.revision \in Nat
      BY TypeFacts DEF BriefsIInv
    <2> SUFFICES ASSUME \A e \in edits' : e \notin (b.revision + 1)..old.revision, Since(old, b) = {}
                 PROVE  b.criteria = old.criteria /\ b.adopted = old.adopted
      BY <1>2 DEF Explains, Since
    <2>2. \A e \in edits : e \notin (b.revision + 1)..old.revision
      BY DEF WorkGoesOn
    <2>3. QED BY <1>2, <2>2 DEF Explains
  <1>3. QED BY <1>1, <1>2

\* So a snapshot of the task stays one.
LEMMA PastStays ==
  ASSUME BriefsIInv, NEW k, WorkGoesOn(k), NEW old \in Tasks, IsPast(old)
  PROVE  IsPast(old)'
  <1>0. /\ work.revision \in Nat /\ k.revision = work.revision + 1 /\ work' = k
        /\ old.revision \in Nat /\ old.revision <= work.revision
        /\ \A r \in k.reconciled : r.revision \in Nat
    BY TypeFacts DEF BriefsIInv, WorkGoesOn, IsPast, Explains
  <1>1. Explains(old, work)'
    BY <1>0, ExplainsStays DEF IsPast
  <1>2. old.revision # k.revision
    BY <1>0
  <1>3. old.reconciled = {r \in k.reconciled : r.revision <= old.revision}
    <2>1. \A r \in k.reconciled : r.revision <= old.revision => r \in work.reconciled
      BY <1>0 DEF WorkGoesOn
    <2>2. QED BY <2>1 DEF IsPast, WorkGoesOn
  <1>4. QED BY <1>0, <1>1, <1>2, <1>3 DEF IsPast

LEMMA DriverStillKnows ==
  ASSUME BriefsIInv, NEW k, WorkGoesOn(k), NEW x \in DriverStates, DriverKnows(x)
  PROVE  DriverKnows(x)'
  <1>0. /\ work.revision \in Nat /\ k.revision = work.revision + 1 /\ work' = k
        /\ \A r \in k.reconciled : r.revision \in Nat
        /\ flow.revision \in Nat /\ flow'.revision \in Nat
        /\ flow.revision <= flow'.revision /\ flow'.last = flow.last
    BY TypeFacts DEF BriefsIInv, WorkGoesOn, Flows
  <1>1. ASSUME NEW n \in Nat, NEW b, FlowWas(n, b) PROVE FlowWas(n, b)'
    BY <1>0, <1>1 DEF FlowWas
  <1>2. CASE x.at = "read"
    <2>1. x.flow \in Flows /\ x.flow.revision \in Nat
      BY <1>2, DriverFields DEF Flows
    <2>2. FlowWas(x.flow.revision, x.flow.last)'
      BY <1>1, <1>2, <2>1 DEF DriverKnows
    <2>3. x.flow.last # NoBrief => x.flow.last.revision \in Nat
      BY <2>1 DEF Flows, Bindings
    <2>4. x.flow.last # NoBrief => Explains(x.flow.last, work)'
      BY <1>2, <2>3, ExplainsStays DEF DriverKnows
    <2>5. QED BY <1>2, <2>2, <2>4 DEF DriverKnows
  <1>3. CASE x.at = "inspected"
    <2>1. x.flow \in Flows /\ x.flow.revision \in Nat /\ x.work \in Tasks
      BY <1>3, DriverFields DEF Flows
    <2>2. FlowWas(x.flow.revision, x.flow.last)'
      BY <1>1, <1>3, <2>1 DEF DriverKnows
    <2>3. x.flow.last # NoBrief => x.flow.last.revision \in Nat
      BY <2>1 DEF Flows, Bindings
    <2>4. IsPast(x.work)'
      BY <1>3, <2>1, PastStays DEF DriverKnows
    <2>5. x.flow.last # NoBrief => Explains(x.flow.last, x.work)'
      BY <1>3, <2>1, <2>3, ExplainsStays DEF DriverKnows, IsPast, Explains
    <2>6. QED BY <1>3, <2>2, <2>4, <2>5 DEF DriverKnows
  <1>4. CASE x.at = "assembled"
    <2>1. /\ x.revision \in Nat /\ x.since \in Bindings \union {NoBrief} /\ x.binding \in Bindings
          /\ x.binding.revision \in Nat /\ (x.since # NoBrief => x.since.revision \in Nat)
      BY <1>4, DriverFields DEF Bindings
    <2>2. FlowWas(x.revision, x.since)'
      BY <1>1, <1>4, <2>1 DEF DriverKnows
    <2>3. Explains(x.binding, work)' /\ x.binding.revision <= work.revision
      BY <1>4, <2>1, ExplainsStays DEF DriverKnows, Explains
    <2>4. x.since # NoBrief =>
            Between(x.since, x.binding.revision)' = Between(x.since, x.binding.revision)
      <3> SUFFICES ASSUME x.since # NoBrief
                   PROVE  Between(x.since, x.binding.revision)' = Between(x.since, x.binding.revision)
        OBVIOUS
      <3>1. \A r \in k.reconciled : r.revision <= x.binding.revision => r \in work.reconciled
        BY <1>0, <2>1, <2>3 DEF WorkGoesOn
      <3>2. work.reconciled \subseteq k.reconciled
        BY DEF WorkGoesOn
      <3>3. QED BY <1>0, <3>1, <3>2 DEF Between
    <2>5. x.binding.revision < work'.revision
      BY <1>0, <2>1, <2>3
    <2>6. x.change.outside => \E e \in edits' : e \in (x.since.revision + 1)..x.binding.revision
      BY <1>4 DEF DriverKnows, WorkGoesOn
    <2>7. QED BY <1>4, <2>2, <2>3, <2>4, <2>5, <2>6 DEF DriverKnows
  <1>5. QED BY <1>2, <1>3, <1>4 DEF DriverKnows

LEMMA WorkKeeps ==
  ASSUME BriefsIInv, NEW k, WorkGoesOn(k), UNCHANGED tree
  PROVE  BriefsIInv'
  <1>0. /\ work.revision \in Nat /\ k.revision = work.revision + 1 /\ work' = k
        /\ work.reconciled \subseteq k.reconciled
        /\ \A r \in k.reconciled : r.revision \in Nat
        /\ flow'.last = flow.last /\ flow.last \in Bindings \union {NoBrief}
        /\ (flow.last # NoBrief => flow.last.revision \in Nat)
    BY TypeFacts DEF BriefsIInv, WorkGoesOn
  <1>1. BriefsTypeOK'
    BY <1>0 DEF BriefsIInv, BriefsTypeOK, WorkGoesOn
  <1>2. work'.revision >= 1 /\ \A r \in work'.reconciled : r.revision <= work'.revision
    BY <1>0 DEF BriefsIInv, WorkGoesOn
  <1>3. flow'.last # NoBrief => Explains(flow.last, work)'
    BY <1>0, ExplainsStays DEF BriefsIInv
  <1>4. \A r \in told' : flow'.last # NoBrief /\ r.revision <= flow'.last.revision
    BY <1>0 DEF BriefsIInv, WorkGoesOn
  <1>5. NothingUntold'
    <2> SUFFICES ASSUME flow.last # NoBrief, NEW r \in k.reconciled,
                        r.revision \in (first + 1)..flow.last.revision
                 PROVE  r \in told
      BY <1>0 DEF NothingUntold, WorkGoesOn
    <2>1. flow.last.revision <= work.revision
      BY DEF BriefsIInv, Explains
    <2>2. r \in work.reconciled
      BY <1>0, <2>1 DEF WorkGoesOn
    <2>3. QED BY <2>2 DEF BriefsIInv, NothingUntold
  <1>6. \A d \in Drivers : DriverKnows(driver[d])'
    BY DriverStillKnows DEF BriefsIInv, BriefsTypeOK, WorkGoesOn
  <1>7. first' = 0 <=> flow'.last = NoBrief
    BY <1>0 DEF BriefsIInv, WorkGoesOn
  <1>8. QED BY <1>0, <1>1, <1>2, <1>3, <1>4, <1>5, <1>6, <1>7 DEF BriefsIInv, WorkGoesOn

\* What is read of the task and the workflow is kept while only the workflow goes on.
LEMMA QuietKnows ==
  ASSUME BriefsIInv, UNCHANGED <<work, edits>>, flow' \in Flows,
         flow.revision <= flow'.revision, flow'.last = flow.last, NEW x \in DriverStates, DriverKnows(x)
  PROVE  DriverKnows(x)'
  <1>0. flow.revision \in Nat /\ flow'.revision \in Nat
    BY TypeFacts DEF BriefsIInv, Flows
  <1>1. ASSUME NEW n \in Nat, NEW b, FlowWas(n, b) PROVE FlowWas(n, b)'
    BY <1>0, <1>1 DEF FlowWas
  <1>2. \A b, k : Explains(b, k) => Explains(b, k)'
    BY DEF Explains, Since
  <1>3. \A k : IsPast(k) => IsPast(k)'
    BY <1>2 DEF IsPast
  <1>4. x.at \in {"read", "inspected"} => x.flow.revision \in Nat
    BY DriverFields DEF Flows
  <1>5. x.at = "assembled" => x.revision \in Nat
    BY DriverFields
  <1>6. x.at \in {"read", "inspected"} => FlowWas(x.flow.revision, x.flow.last)'
    BY <1>1, <1>4 DEF DriverKnows
  <1>7. x.at = "assembled" => FlowWas(x.revision, x.since)'
    BY <1>1, <1>5 DEF DriverKnows
  <1>8. QED
    BY <1>2, <1>3, <1>6, <1>7 DEF DriverKnows, Between

LEMMA QuietKeeps ==
  ASSUME BriefsIInv, UNCHANGED <<work, edits, told, first>>, tree' \in Trees, flow' \in Flows,
         flow.revision <= flow'.revision, flow'.last = flow.last,
         \/ UNCHANGED driver
         \/ \E d \in Drivers, x \in DriverStates : DriverGoes(d, x) /\ DriverKnows(x)'
  PROVE  BriefsIInv'
  <1>1. driver' \in [Drivers -> DriverStates]
    BY DEF BriefsIInv, BriefsTypeOK, DriverGoes
  <1>2. BriefsTypeOK'
    BY <1>1 DEF BriefsIInv, BriefsTypeOK
  <1>3. \A x \in DriverStates : DriverKnows(x) => DriverKnows(x)'
    BY QuietKnows
  <1>4. ASSUME NEW d \in Drivers PROVE DriverKnows(driver[d])'
    <2>1. driver[d] \in DriverStates /\ DriverKnows(driver[d])
      BY DEF BriefsIInv, BriefsTypeOK
    <2>2. PICK old \in DriverStates : old = driver[d]
      BY <2>1
    <2>3. DriverKnows(old)'
      BY <1>3, <2>1, <2>2
    <2>4. PICK new : new = driver'[d]
      OBVIOUS
    <2>5. new = old \/ DriverKnows(new)'
      BY <2>2, <2>4 DEF DriverGoes, BriefsIInv, BriefsTypeOK
    <2>6. DriverKnows(new)'
      BY <2>3, <2>5
    <2>7. QED BY <2>4, <2>6 DEF DriverKnows
  <1>5. NothingUntold'
    BY DEF BriefsIInv, NothingUntold
  <1>6. flow'.last # NoBrief => Explains(flow.last, work)'
    BY DEF BriefsIInv, Explains, Since
  <1>7. QED BY <1>2, <1>4, <1>5, <1>6 DEF BriefsIInv

LEMMA AsleepKnows == Asleep \in DriverStates /\ DriverKnows(Asleep)'
  BY DEF Asleep, DriverStates, DriverKnows

LEMMA ReadWorkflowKeeps ==
  ASSUME BriefsIInv, NEW d \in Drivers, ReadWorkflow(d) PROVE BriefsIInv'
  <1>1. PICK x : x = [at |-> "read", flow |-> flow]
    OBVIOUS
  <1>2. /\ DriverGoes(d, x) /\ UNCHANGED <<work, tree, flow, edits, told, first>>
        /\ flow \in Flows /\ flow.revision \in Nat /\ tree \in Trees
    BY <1>1, TypeFacts DEF ReadWorkflow, BriefsIInv, BriefsTypeOK
  <1>3. x \in DriverStates
    BY <1>1, <1>2 DEF DriverStates
  <1>4. x.at = "read" /\ x.flow = flow
    BY <1>1
  <1>5. DriverKnows(x)'
    BY <1>2, <1>4 DEF DriverKnows, FlowWas, BriefsIInv, Explains, Since
  <1>6. QED BY <1>2, <1>3, <1>5, QuietKeeps

LEMMA WorkIsPast == BriefsIInv => IsPast(work)
  <1> SUFFICES ASSUME BriefsIInv PROVE IsPast(work)
    OBVIOUS
  <1>1. work.revision \in Nat /\ work.reconciled = {r \in work.reconciled : r.revision <= work.revision}
    BY TypeFacts DEF BriefsIInv
  <1>2. QED BY <1>1 DEF IsPast, Explains

LEMMA InspectWorkKeeps ==
  ASSUME BriefsIInv, NEW d \in Drivers, InspectWork(d) PROVE BriefsIInv'
  <1>1. PICK x : x = [at |-> "inspected", flow |-> driver[d].flow, work |-> work]
    OBVIOUS
  <1>2. /\ DriverGoes(d, x) /\ UNCHANGED <<work, tree, flow, edits, told, first>>
        /\ flow \in Flows /\ flow.revision \in Nat /\ tree \in Trees /\ driver[d].at = "read"
        /\ driver[d] \in DriverStates /\ DriverKnows(driver[d]) /\ work \in Tasks
    BY <1>1, TypeFacts DEF InspectWork, BriefsIInv, BriefsTypeOK
  <1>3. driver[d].flow \in Flows
    BY <1>2, DriverFields
  <1>4. x \in DriverStates
    BY <1>1, <1>2, <1>3 DEF DriverStates
  <1>5. x.at = "inspected" /\ x.flow = driver[d].flow /\ x.work = work
    BY <1>1
  <1>6. IsPast(x.work)'
    BY <1>2, <1>5, WorkIsPast DEF IsPast, Explains, Since
  <1>7. /\ FlowWas(x.flow.revision, x.flow.last)'
        /\ x.flow.last # NoBrief => Explains(x.flow.last, x.work)'
        /\ x.work.revision >= 1
    BY <1>2, <1>5 DEF DriverKnows, FlowWas, Explains, Since, BriefsIInv
  <1>8. DriverKnows(x)'
    BY <1>5, <1>6, <1>7 DEF DriverKnows
  <1>9. QED BY <1>2, <1>4, <1>8, QuietKeeps

\* What a brief says of a task that was read, since a binding that was read before.
LEMMA ChangeIsTyped ==
  ASSUME NEW k \in Tasks, NEW b, NEW t \in Trees, NEW kept \in SUBSET Listed(k, b)
  PROVE  LET c == Change(k, b, t, kept)
         IN  /\ c \in Changes
             /\ c.reconciliations.kept \union c.reconciliations.omitted = Listed(k, b)
             /\ c.outside => b # NoBrief /\ UnreconciledChange(k, b)
             /\ \A w \in c.completed : w \in Work /\ Passing(k, w, t)
  <1>1. CASE b = NoBrief
    BY <1>1 DEF Change, NoChangeKnown, Fitted, Listed, Changes
  <1>2. CASE b # NoBrief
    <2>1. Since(k, b) \subseteq Reconciliations /\ Listed(k, b) = Since(k, b)
      BY <1>2 DEF Since, Tasks, Listed
    <2>2. Attention(k, b) \subseteq Work
      BY <2>1 DEF Attention, Reconciliations
    <2>3. CompletedWork(k, b, t) \subseteq Work /\ \A w \in CompletedWork(k, b, t) : Passing(k, w, t)
      BY DEF CompletedWork
    <2>4. UnreconciledChange(k, b) \in BOOLEAN
      BY DEF UnreconciledChange
    <2>5. PICK c : c = Change(k, b, t, kept)
      OBVIOUS
    <2>6. c = [available |-> TRUE,
               reconciliations |-> [kept |-> kept, omitted |-> Since(k, b) \ kept],
               outside |-> UnreconciledChange(k, b),
               attention |-> Attention(k, b), completed |-> CompletedWork(k, b, t)]
      BY <1>2, <2>5 DEF Change, ChangeSince, Fitted
    <2>7. c \in Changes
      BY <2>1, <2>2, <2>3, <2>4, <2>6 DEF Changes
    <2>8. c.reconciliations.kept \union c.reconciliations.omitted = Since(k, b)
      BY <2>1, <2>6
    <2>9. (c.outside => UnreconciledChange(k, b)) /\ c.completed = CompletedWork(k, b, t)
      BY <2>6
    <2>10. QED BY <1>2, <2>1, <2>3, <2>5, <2>7, <2>8, <2>9
  <1>3. QED BY <1>1, <1>2

LEMMA AssembleKeeps ==
  ASSUME BriefsIInv, NEW d \in Drivers, Assemble(d) PROVE BriefsIInv'
  <1>1. /\ UNCHANGED <<work, tree, flow, edits, told, first>> /\ driver[d].at = "inspected"
        /\ flow \in Flows /\ flow.revision \in Nat /\ tree \in Trees
        /\ driver[d] \in DriverStates /\ DriverKnows(driver[d])
        /\ work \in Tasks /\ work.revision \in Nat
    BY TypeFacts DEF Assemble, BriefsIInv, BriefsTypeOK
  <1>2. CASE DriverGoes(d, Asleep)
    BY <1>1, <1>2, AsleepKnows, QuietKeeps
  <1> DEFINE k == driver[d].work
             n == driver[d].flow.revision
             b == driver[d].flow.last
  <1>3. ASSUME NEW kept \in SUBSET Listed(k, b),
               DriverGoes(d, [at |-> "assembled", revision |-> n, since |-> b,
                              binding |-> Binding(k, n, tree), change |-> Change(k, b, tree, kept)])
        PROVE  BriefsIInv'
    <2>1. /\ k \in Tasks /\ n \in Nat /\ b \in Bindings \union {NoBrief} /\ k.revision \in Nat
          /\ (b # NoBrief => b.revision \in Nat)
      BY <1>1, DriverFields DEF Flows, Tasks, Bindings
    <2>2. /\ IsPast(k) /\ k.revision >= 1 /\ FlowWas(n, b) /\ (b # NoBrief => Explains(b, k))
      BY <1>1 DEF DriverKnows
    <2> HIDE DEF k, n, b
    <2>3. PICK c : c = Change(k, b, tree, kept)
      OBVIOUS
    <2>4. /\ c \in Changes
          /\ c.reconciliations.kept \union c.reconciliations.omitted = Listed(k, b)
          /\ c.outside => b # NoBrief /\ UnreconciledChange(k, b)
          /\ \A w \in c.completed : w \in Work /\ Passing(k, w, tree)
      BY <1>1, <1>3, <2>1, <2>3, ChangeIsTyped
    <2>5. PICK bound : bound = Binding(k, n, tree)
      OBVIOUS
    <2>6. /\ bound \in Bindings /\ bound.revision = k.revision /\ bound.criteria = k.criteria
          /\ bound.adopted = k.adopted /\ bound.tree = tree
      BY <1>1, <2>1, <2>5 DEF Binding, Bindings, Tasks
    <2>7. PICK x : x = [at |-> "assembled", revision |-> n, since |-> b, binding |-> bound, change |-> c]
      OBVIOUS
    <2>8. /\ x.at = "assembled" /\ x.revision = n /\ x.since = b /\ x.binding = bound /\ x.change = c
      BY <2>7
    <2>9. x \in DriverStates
      BY <2>1, <2>4, <2>6, <2>7 DEF DriverStates
    <2>10. Explains(bound, work)'
      BY <1>1, <2>2, <2>6 DEF IsPast, Explains, Since
    <2>11. b # NoBrief => b.revision <= k.revision
      BY <2>2 DEF Explains
    <2>12. Listed(k, b) = IF b = NoBrief THEN {} ELSE Between(b, k.revision)
      BY <2>2 DEF Listed, Since, Between, IsPast
    <2>13. c.outside => \E e \in edits : e \in (b.revision + 1)..k.revision
      BY <2>2, <2>4 DEF UnreconciledChange, Explains
    <2>14. ASSUME NEW w \in c.completed
           PROVE  \/ work.evidence[w][tree] = [of |-> work.criteria[w], passes |-> TRUE]
                  \/ k.revision < work.revision
      <3>1. k.revision <= work.revision
        BY <2>2 DEF IsPast, Explains
      <3>2. CASE k.revision = work.revision
        <4>1. w \in Work /\ Passing(work, w, tree)
          BY <2>2, <2>4, <3>2 DEF IsPast
        <4>2. work.evidence[w][tree] \in [of : Nat, passes : BOOLEAN]
          BY <1>1, <4>1 DEF Tasks
        <4>3. QED BY <4>1, <4>2 DEF Passing
      <3>3. QED BY <1>1, <2>1, <3>1, <3>2
    <2>15. DriverKnows(x)'
      BY <1>1, <2>2, <2>4, <2>6, <2>8, <2>10, <2>11, <2>12, <2>13, <2>14
      DEF DriverKnows, FlowWas, Between
    <2>16. DriverGoes(d, x)
      BY <1>3, <2>3, <2>5, <2>7
    <2>17. QED BY <1>1, <2>9, <2>15, <2>16, QuietKeeps
  <1>4. QED BY <1>2, <1>3 DEF Assemble

LEMMA JournalKeeps ==
  ASSUME BriefsIInv, NEW d \in Drivers, Journal(d) PROVE BriefsIInv'
  <1> DEFINE x == driver[d]
             listed == x.change.reconciliations.kept \union x.change.reconciliations.omitted
  <1>1. /\ UNCHANGED <<work, tree, edits>> /\ x.at = "assembled" /\ x \in DriverStates /\ DriverKnows(x)
        /\ flow \in Flows /\ flow.revision \in Nat /\ tree \in Trees /\ work \in Tasks
        /\ driver \in [Drivers -> DriverStates]
    BY TypeFacts DEF Journal, BriefsIInv, BriefsTypeOK
  <1>2. CASE ~ActsOnRead(d)
    BY <1>1, <1>2, AsleepKnows, QuietKeeps DEF Journal
  <1>3. CASE ActsOnRead(d)
    <2>1. /\ flow' = [revision |-> flow.revision + 1, last |-> x.binding, acting |-> d]
          /\ DriverGoes(d, [at |-> "acting"])
          /\ told' = told \union x.change.reconciliations.kept \union x.change.reconciliations.omitted
          /\ first' = IF first = 0 THEN x.binding.revision ELSE first
      BY <1>3 DEF Journal
    <2>2. /\ x.binding \in Bindings /\ x.binding.revision \in Nat /\ x.binding # NoBrief
          /\ x.since \in Bindings \union {NoBrief} /\ (x.since # NoBrief => x.since.revision \in Nat)
      BY <1>1, DriverFields DEF Bindings
    <2>3. x.since = flow.last
      BY <1>1, <1>3 DEF ActsOnRead, DriverKnows, FlowWas
    <2>4. /\ flow' \in Flows /\ flow'.revision = flow.revision + 1 /\ flow'.last = x.binding
      BY <1>1, <2>1, <2>2 DEF Flows
    <2>5. /\ Explains(x.binding, work) /\ x.binding.revision >= 1
          /\ listed = IF x.since = NoBrief THEN {} ELSE Between(x.since, x.binding.revision)
          /\ (x.since # NoBrief => x.since.revision <= x.binding.revision)
      BY <1>1 DEF DriverKnows
    <2>6. told' = told \union listed /\ first \in Nat /\ told \subseteq work.reconciled
      BY <2>1, TypeFacts DEF BriefsIInv, BriefsTypeOK
    <2>7. \A r \in work.reconciled : r.revision \in Nat
      BY TypeFacts DEF BriefsIInv
    <2> HIDE DEF x, listed
    <2>8. told' \subseteq work.reconciled /\ first' \in Nat /\ first' # 0
      BY <2>1, <2>2, <2>5, <2>6 DEF Between
    <2>9. driver' \in [Drivers -> DriverStates]
      BY <1>1, <2>1 DEF DriverGoes, DriverStates
    <2>10. BriefsTypeOK'
      BY <1>1, <2>4, <2>8, <2>9 DEF BriefsIInv, BriefsTypeOK
    <2>11. \A r \in told' : r.revision <= x.binding.revision
      <3>1. \A r \in told : r.revision <= x.binding.revision
        BY <2>2, <2>3, <2>5, <2>6, <2>7 DEF BriefsIInv
      <3>2. QED BY <2>5, <2>6, <3>1 DEF Between
    <2>12. NothingUntold'
      <3> SUFFICES ASSUME NEW r \in work.reconciled, r.revision \in (first' + 1)..x.binding.revision
                   PROVE  r \in told'
        BY <1>1, <2>4 DEF NothingUntold
      <3>1. CASE first = 0
        BY <2>1, <2>2, <2>7, <3>1
      <3>2. CASE first # 0
        <4>1. first' = first /\ x.since # NoBrief
          BY <2>1, <2>3, <3>2 DEF BriefsIInv
        <4>2. CASE r.revision <= x.since.revision
          BY <2>2, <2>3, <2>6, <2>7, <4>1, <4>2 DEF BriefsIInv, NothingUntold
        <4>3. CASE r.revision > x.since.revision
          BY <2>5, <2>6, <4>1, <4>3 DEF Between
        <4>4. QED BY <2>2, <2>7, <4>1, <4>2, <4>3
      <3>3. QED BY <3>1, <3>2
    <2>13. ASSUME NEW e \in Drivers PROVE DriverKnows(driver[e])'
      <3>1. PICK new : new = driver'[e]
        OBVIOUS
      <3>2. CASE e = d
        <4>1. new.at = "acting"
          BY <1>1, <2>1, <3>1, <3>2 DEF DriverGoes
        <4>2. DriverKnows(new)'
          BY <4>1 DEF DriverKnows
        <4>3. QED BY <3>1, <4>2 DEF DriverKnows
      <3>3. CASE e # d
        <4>1. new = driver[e] /\ new \in DriverStates /\ DriverKnows(new)
          BY <1>1, <2>1, <3>1, <3>3 DEF DriverGoes, BriefsIInv
        <4>2. ASSUME NEW m \in Nat, NEW b, FlowWas(m, b) PROVE FlowWas(m, b)'
          BY <1>1, <2>4, <4>2 DEF FlowWas
        <4>3. \A b, k : Explains(b, k) => Explains(b, k)'
          BY <1>1 DEF Explains, Since
        <4>4. \A k : IsPast(k) => IsPast(k)'
          BY <1>1, <4>3 DEF IsPast
        <4>5. /\ new.at \in {"read", "inspected"} => new.flow.revision \in Nat
              /\ new.at = "assembled" => new.revision \in Nat
          BY <4>1, DriverFields DEF Flows
        <4>6. new.at \in {"read", "inspected"} => FlowWas(new.flow.revision, new.flow.last)'
          BY <4>1, <4>2, <4>5 DEF DriverKnows
        <4>7. new.at = "assembled" => FlowWas(new.revision, new.since)'
          BY <4>1, <4>2, <4>5 DEF DriverKnows
        <4>8. DriverKnows(new)'
          BY <1>1, <4>1, <4>3, <4>4, <4>6, <4>7 DEF DriverKnows, Between
        <4>9. QED BY <3>1, <4>8 DEF DriverKnows
      <3>4. QED BY <3>2, <3>3
    <2>14. PICK bound : bound = x.binding /\ flow'.last = bound /\ Explains(bound, work)'
      BY <1>1, <2>4, <2>5 DEF Explains, Since
    <2>15. flow'.last # NoBrief /\ (first' = 0 <=> flow'.last = NoBrief)
      BY <2>2, <2>4, <2>8
    <2>16. Explains(flow.last, work)'
      BY <2>14 DEF Explains, Since
    <2>17. work'.revision >= 1 /\ \A r \in work'.reconciled : r.revision <= work'.revision
      BY <1>1 DEF BriefsIInv
    <2>18. \A r \in told' : flow'.last # NoBrief /\ r.revision <= flow'.last.revision
      BY <2>4, <2>11, <2>15
    <2>19. QED
      BY <2>10, <2>12, <2>13, <2>15, <2>16, <2>17, <2>18 DEF BriefsIInv
  <1>4. QED BY <1>2, <1>3

LEMMA FlowGoesOn ==
  ASSUME flow \in Flows, NEW a \in Drivers \union {NoBrief, Gone},
         \/ flow' = [flow EXCEPT !.revision = @ + 1, !.acting = a]
         \/ flow' = [flow EXCEPT !.acting = a]
         \/ flow' = [flow EXCEPT !.revision = @ + 1]
         \/ flow' = [flow EXCEPT !.revision = @]
  PROVE  flow' \in Flows /\ flow.revision <= flow'.revision /\ flow'.last = flow.last
  <1>1. PICK n \in Nat : n = flow.revision + 1
    BY DEF Flows
  <1>2. \/ flow' = [flow EXCEPT !.revision = n, !.acting = a]
        \/ flow' = [flow EXCEPT !.acting = a]
        \/ flow' = [flow EXCEPT !.revision = n]
        \/ flow' = flow
    BY <1>1 DEF Flows
  <1>3. flow.revision \in Nat
    BY DEF Flows
  <1>4. n \in Nat /\ flow.revision <= n
    BY <1>1, <1>3
  <1>5. CASE flow' = [flow EXCEPT !.revision = n, !.acting = a]
    BY <1>4, <1>5 DEF Flows
  <1>6. CASE flow' = [flow EXCEPT !.acting = a]
    BY <1>3, <1>6 DEF Flows
  <1>7. CASE flow' = [flow EXCEPT !.revision = n]
    BY <1>4, <1>7 DEF Flows
  <1>8. CASE flow' = flow
    BY <1>3, <1>8
  <1>9. QED BY <1>2, <1>5, <1>6, <1>7, <1>8

LEMMA SettleKeeps ==
  ASSUME BriefsIInv, (\E d \in Drivers : EndAction(d) \/ DriverDies(d)) \/ SettleAction
  PROVE  BriefsIInv'
  <1>1. /\ flow \in Flows /\ tree \in Trees /\ tree' = tree /\ UNCHANGED <<work, edits, told, first>>
        /\ flow.acting \in Drivers \union {NoBrief, Gone}
    BY DEF BriefsIInv, BriefsTypeOK, EndAction, DriverDies, SettleAction, Flows
  <1>2. flow' \in Flows /\ flow.revision <= flow'.revision /\ flow'.last = flow.last
    <2>1. ASSUME NEW d \in Drivers, EndAction(d)
          PROVE  flow' \in Flows /\ flow.revision <= flow'.revision /\ flow'.last = flow.last
      BY <1>1, <2>1, FlowGoesOn DEF EndAction
    <2>2. ASSUME NEW d \in Drivers, DriverDies(d)
          PROVE  flow' \in Flows /\ flow.revision <= flow'.revision /\ flow'.last = flow.last
      <3>1. PICK a \in Drivers \union {NoBrief, Gone} : flow' = [flow EXCEPT !.acting = a]
        BY <1>1, <2>2 DEF DriverDies
      <3>2. QED BY <1>1, <3>1, FlowGoesOn
    <2>3. CASE SettleAction
      BY <1>1, <2>3, FlowGoesOn DEF SettleAction
    <2>4. QED BY <2>1, <2>2, <2>3
  <1>3. UNCHANGED driver \/ \E d \in Drivers : DriverGoes(d, Asleep)
    BY DEF EndAction, DriverDies, SettleAction
  <1>4. QED BY <1>1, <1>2, <1>3, AsleepKnows, QuietKeeps

LEMMA TreeKeeps == BriefsIInv /\ ChangeTree => BriefsIInv'
  <1> SUFFICES ASSUME BriefsIInv, ChangeTree PROVE BriefsIInv'
    OBVIOUS
  <1>1. /\ flow \in Flows /\ tree' \in Trees /\ UNCHANGED <<work, edits, told, first, flow, driver>>
        /\ flow.revision \in Nat
    BY TypeFacts DEF BriefsIInv, BriefsTypeOK, ChangeTree
  <1>2. QED BY <1>1, QuietKeeps

LEMMA RaisedType ==
  ASSUME NEW criteria \in [Work -> Nat], NEW S PROVE Raised(criteria, S) \in [Work -> Nat]
  BY DEF Raised

LEMMA ReconcileKeeps == BriefsIInv /\ Reconcile => BriefsIInv'
  <1> SUFFICES ASSUME BriefsIInv, Reconcile PROVE BriefsIInv'
    OBVIOUS
  <1>1. PICK changed \in SUBSET Work, flagged \in SUBSET Work, adopted \in BOOLEAN,
             acknowledged \in BOOLEAN :
          /\ work' = [work EXCEPT !.revision = @ + 1, !.criteria = Raised(@, changed),
                                  !.adopted = adopted,
                                  !.reconciled = @ \union {[revision |-> work.revision + 1,
                                                            flagged |-> flagged]}]
          /\ flow' = [flow EXCEPT !.revision = IF acknowledged THEN @ + 1 ELSE @]
    BY DEF Reconcile
  <1>2. /\ work \in Tasks /\ flow \in Flows /\ edits \subseteq Nat /\ work.revision \in Nat
        /\ UNCHANGED <<tree, driver, edits, told, first>>
    BY TypeFacts DEF BriefsIInv, BriefsTypeOK, Reconcile
  <1>3. PICK r : r = [revision |-> work.revision + 1, flagged |-> flagged]
    OBVIOUS
  <1>4. r \in Reconciliations /\ r.revision = work.revision + 1
    BY <1>2, <1>3 DEF Reconciliations
  <1>5. PICK criteria \in [Work -> Nat] : criteria = Raised(work.criteria, changed)
    BY <1>2, RaisedType DEF Tasks
  <1>6. PICK reconciled \in SUBSET Reconciliations : reconciled = work.reconciled \union {r}
    BY <1>2, <1>4 DEF Tasks
  <1>7. PICK n \in Nat : n = work.revision + 1
    BY <1>2
  <1>8. work' = [work EXCEPT !.revision = n, !.criteria = criteria, !.adopted = adopted,
                             !.reconciled = reconciled]
    BY <1>1, <1>3, <1>5, <1>6, <1>7
  <1>9. PICK k : k = work'
    OBVIOUS
  <1>10. k \in Tasks /\ k.revision = n /\ k.reconciled = reconciled
    BY <1>2, <1>8, <1>9 DEF Tasks
  <1>11. flow' \in Flows /\ flow.revision <= flow'.revision /\ flow'.last = flow.last
    <2>1. NoBrief \in Drivers \union {NoBrief, Gone}
      OBVIOUS
    <2>2. flow' = [flow EXCEPT !.revision = @ + 1] \/ flow' = [flow EXCEPT !.revision = @]
      BY <1>1
    <2>3. QED BY <1>2, <2>1, <2>2, FlowGoesOn
  <1>12. WorkGoesOn(k)
    BY <1>2, <1>4, <1>6, <1>7, <1>9, <1>10, <1>11 DEF WorkGoesOn
  <1>13. QED BY <1>2, <1>12, WorkKeeps

LEMMA EditDirectlyKeeps == BriefsIInv /\ EditDirectly => BriefsIInv'
  <1> SUFFICES ASSUME BriefsIInv, EditDirectly PROVE BriefsIInv'
    OBVIOUS
  <1>1. PICK changed \in SUBSET Work, adopted \in BOOLEAN :
          work' = [work EXCEPT !.revision = @ + 1, !.criteria = Raised(@, changed), !.adopted = adopted]
    BY DEF EditDirectly
  <1>2. /\ work \in Tasks /\ flow \in Flows /\ edits \subseteq Nat /\ work.revision \in Nat
        /\ UNCHANGED <<tree, flow, driver, told, first>> /\ edits' = edits \union {work.revision + 1}
        /\ flow.revision \in Nat
    BY TypeFacts DEF BriefsIInv, BriefsTypeOK, EditDirectly
  <1>3. PICK criteria \in [Work -> Nat] : criteria = Raised(work.criteria, changed)
    BY <1>2, RaisedType DEF Tasks
  <1>4. PICK n \in Nat : n = work.revision + 1
    BY <1>2
  <1>5. work' = [work EXCEPT !.revision = n, !.criteria = criteria, !.adopted = adopted]
    BY <1>1, <1>3, <1>4
  <1>6. PICK k : k = work'
    OBVIOUS
  <1>7. k \in Tasks /\ k.revision = n /\ k.reconciled = work.reconciled
    BY <1>2, <1>5, <1>6 DEF Tasks
  <1>8. /\ k.revision = work.revision + 1 /\ k.revision \in edits' /\ edits \subseteq edits'
        /\ edits' \subseteq Nat /\ \A e \in edits' \ edits : e = k.revision
    BY <1>2, <1>4, <1>7
  <1>9. flow' \in Flows /\ flow.revision <= flow'.revision /\ flow'.last = flow.last
    BY <1>2
  <1>10. WorkGoesOn(k)
    BY <1>2, <1>6, <1>7, <1>8, <1>9 DEF WorkGoesOn
  <1>11. QED BY <1>2, <1>10, WorkKeeps

LEMMA RecordCheckKeeps == BriefsIInv /\ RecordCheck => BriefsIInv'
  <1> SUFFICES ASSUME BriefsIInv, RecordCheck PROVE BriefsIInv'
    OBVIOUS
  <1>1. PICK w \in Work, passes \in BOOLEAN :
          work' = [work EXCEPT !.revision = @ + 1, !.evidence = Checked(w, passes)]
    BY DEF RecordCheck
  <1>2. /\ work \in Tasks /\ flow \in Flows /\ edits \subseteq Nat /\ work.revision \in Nat
        /\ UNCHANGED <<tree, flow, driver, edits, told, first>> /\ flow.revision \in Nat
        /\ tree \in Trees
    BY TypeFacts DEF BriefsIInv, BriefsTypeOK, RecordCheck
  <1>3. PICK entry \in [of : Nat, passes : BOOLEAN] :
          entry = [of |-> work.criteria[w], passes |-> passes]
    BY <1>2 DEF Tasks
  <1>4. PICK evidence \in [Work -> [Trees -> [of : Nat, passes : BOOLEAN]]] :
          evidence = [work.evidence EXCEPT ![w][tree] = entry]
    BY <1>2 DEF Tasks
  <1>5. evidence = Checked(w, passes)
    BY <1>3, <1>4 DEF Checked
  <1>6. PICK n \in Nat : n = work.revision + 1
    BY <1>2
  <1>7. work' = [work EXCEPT !.revision = n, !.evidence = evidence]
    BY <1>1, <1>5, <1>6
  <1>8. PICK k : k = work'
    OBVIOUS
  <1>9. k \in Tasks /\ k.revision = n /\ k.reconciled = work.reconciled /\ k.criteria = work.criteria
        /\ k.adopted = work.adopted
    BY <1>2, <1>7, <1>8 DEF Tasks
  <1>10. WorkGoesOn(k)
    BY <1>2, <1>6, <1>8, <1>9 DEF WorkGoesOn
  <1>11. QED BY <1>2, <1>10, WorkKeeps

LEMMA BriefsStepKeeps == BriefsIInv /\ [BriefsNext]_briefVars => BriefsIInv'
  <1> SUFFICES ASSUME BriefsIInv, [BriefsNext]_briefVars PROVE BriefsIInv'
    OBVIOUS
  <1>1. CASE UNCHANGED briefVars
    <2>1. flow' \in Flows /\ tree' \in Trees /\ flow.revision <= flow'.revision
      BY <1>1, TypeFacts DEF briefVars, BriefsIInv, BriefsTypeOK
    <2>2. QED BY <1>1, <2>1, QuietKeeps DEF briefVars
  <1>2. QED
    BY <1>1, ReadWorkflowKeeps, InspectWorkKeeps, AssembleKeeps, JournalKeeps, SettleKeeps,
       ReconcileKeeps, EditDirectlyKeeps, RecordCheckKeeps, TreeKeeps
    DEF BriefsNext

THEOREM BriefsInvariant == BriefsSpec => []BriefsIInv
  BY BriefsInitial, BriefsStepKeeps, PTL DEF BriefsSpec

LEMMA BriefTypesKept == BriefsIInv => BriefsTypeOK
  BY DEF BriefsIInv

\* What a binding tells of was not told before.
LEMMA TellsOnce ==
  ASSUME BriefsIInv, [BriefsNext]_briefVars, NEW d \in Drivers,
         driver[d].at = "assembled", driver'[d].at = "acting"
  PROVE  (driver[d].change.reconciliations.kept \union driver[d].change.reconciliations.omitted)
           \intersect told = {}
  <1>0. driver \in [Drivers -> DriverStates]
    BY DEF BriefsIInv, BriefsTypeOK
  <1>1. ASSUME NEW e \in Drivers, NEW x, DriverGoes(e, x), x.at # "acting" PROVE FALSE
    BY <1>0, <1>1 DEF DriverGoes
  <1>2. \A e \in Drivers : ~ReadWorkflow(e) /\ ~InspectWork(e) /\ ~Assemble(e)
    BY <1>1 DEF ReadWorkflow, InspectWork, Assemble, Asleep
  <1>3. \A e \in Drivers : ~EndAction(e) /\ ~DriverDies(e)
    BY <1>1 DEF EndAction, DriverDies, Asleep
  <1>4. \E e \in Drivers : Journal(e)
    BY <1>2, <1>3 DEF BriefsNext, briefVars, SettleAction, Reconcile, EditDirectly, RecordCheck, ChangeTree
  <1>5. Journal(d) /\ ActsOnRead(d)
    BY <1>0, <1>1, <1>4 DEF Journal, DriverGoes, Asleep
  <1>6. FlowWas(driver[d].revision, driver[d].since) /\ driver[d].revision = flow.revision
    BY <1>5 DEF BriefsIInv, DriverKnows, ActsOnRead
  <1>7. driver[d].since = flow.last
    BY <1>6 DEF FlowWas
  <1>8. driver[d].change.reconciliations.kept \union driver[d].change.reconciliations.omitted =
          IF driver[d].since = NoBrief THEN {} ELSE Between(driver[d].since, driver[d].binding.revision)
    BY DEF BriefsIInv, DriverKnows
  <1>9. \A r \in told : flow.last # NoBrief /\ ~(r.revision > flow.last.revision)
    <2> TAKE r \in told
    <2>1. flow.last # NoBrief /\ r.revision <= flow.last.revision /\ r \in work.reconciled
      BY DEF BriefsIInv, BriefsTypeOK
    <2>2. r.revision \in Nat /\ flow.last.revision \in Nat
      BY <2>1, TypeFacts DEF BriefsIInv
    <2>3. QED BY <2>1, <2>2
  <1>10. QED BY <1>7, <1>8, <1>9 DEF Between

\* Whoever drives, dies, reconciles and edits meanwhile: a bound brief tells of every
\* reconciliation since the first dispatch, and of each once, blames no edit that nobody made,
\* and calls only passing work completed (assembleContextBrief, journalWorkflowAction).
THEOREM BriefsAlwaysHold == BriefsSpec => BriefsHold
  <1>1. BriefsIInv => BriefsTrue
    BY DEF BriefsIInv, BriefsTrue, BlameIsTrue, CompletedPasses, DriverKnows
  <1>2. BriefsIInv /\ [BriefsNext]_briefVars =>
          \A d \in Drivers : driver[d].at = "assembled" /\ driver'[d].at = "acting" =>
            (driver[d].change.reconciliations.kept \union driver[d].change.reconciliations.omitted)
              \intersect told = {}
    BY TellsOnce
  <1>3. QED BY <1>1, <1>2, BriefsInvariant, PTL DEF BriefsSpec, BriefsHold, ToldOnce

HIDE BriefsAssumption

-----------------------------------------------------------------------------
LEMMA LeastNatural ==
  ASSUME NEW S, S \subseteq Nat, S # {}
  PROVE  \E x \in S : \A y \in S : x <= y
  <1> DEFINE Below == {pair \in Nat \X Nat : pair[1] < pair[2]}
  <1>1. IsWellFoundedOn(Below, Nat)
    BY NatLessThanWellFounded DEF OpToRel
  <1>2. \E x \in S : \A y \in S : <<y, x>> \notin Below
    <2> HIDE DEF Below
    <2>1. QED BY <1>1, WFMin
  <1>3. ASSUME NEW x \in Nat, NEW y \in Nat, <<y, x>> \notin Below PROVE x <= y
    BY <1>3
  <1>4. QED
    <2> HIDE DEF Below
    <2>1. QED BY <1>2, <1>3

\* LastOf is the greatest of some indices.
LEMMA LastIsLast ==
  ASSUME NEW n \in Nat, NEW S \in SUBSET (1..n), S # {}
  PROVE  LastOf(S) \in S /\ \A j \in S : j <= LastOf(S)
  <1> DEFINE R == {n - i : i \in S}
  <1>1. R \subseteq Nat /\ R # {}
    OBVIOUS
  <1>2. PICK r \in R : \A s \in R : r <= s
    <2> HIDE DEF R
    <2>1. QED BY <1>1, LeastNatural
  <1>3. PICK i \in S : r = n - i
    BY <1>2
  <1>4. \A j \in S : j <= i
    BY <1>2, <1>3
  <1>5. \E k \in S : \A j \in S : j <= k
    BY <1>4
  <1>6. QED BY <1>5 DEF LastOf

\* Events are committed at readings that do not go back, and a revision of the record is begun
\* after the event before its own and committed with its own.
Chronicle(es, h, now) ==
  /\ es \in Seq(Nat) /\ h \in Seq(HistoryEntries)
  /\ Len(es) >= 1 /\ es[1] = 0
  /\ \A i, j \in 1..Len(es) : i <= j => es[i] <= es[j]
  /\ \A i \in 1..Len(es) : es[i] <= now
  /\ \A i \in 1..Len(h) :
       h[i].event \in 2..Len(es) /\ es[h[i].event - 1] <= h[i].at /\ h[i].at <= es[h[i].event]
  /\ \A i, j \in 1..Len(h) : i < j => h[i].event < h[j].event

\* A review came after the events it saw and before the others began.
Observes(es, h, r) ==
  r # Missing =>
    \A i \in 1..Len(h) : IF i <= r.saw THEN es[h[i].event] <= r.at ELSE r.at <= h[i].at

ComparisonsIInv ==
  /\ ComparisonsTypeOK
  /\ Chronicle(taskEvents, history, clock) /\ Observes(taskEvents, history, review)
  /\ review # Missing => review.at <= clock /\ review.saw <= Len(history)
  /\ inspection.at = "read" =>
       /\ Chronicle(inspection.events, inspection.history, clock)
       /\ Observes(inspection.events, inspection.history, review)
       /\ Len(inspection.history) <= Len(history)
  /\ ComparisonsHold

LEMMA ComparisonsInitial == ComparisonsInit => ComparisonsIInv
  <1> SUFFICES ASSUME ComparisonsInit PROVE ComparisonsIInv
    OBVIOUS
  <1>1. <<>> \in Seq(HistoryEntries) /\ Len(<<>>) = 0
    BY EmptySeq
  <1>2. taskEvents = <<0>> /\ taskEvents \in Seq(Nat) /\ Len(taskEvents) = 1 /\ taskEvents[1] = 0
    BY DEF ComparisonsInit
  <1>3. history = <<>> /\ clock = 0 /\ review = Missing
    BY DEF ComparisonsInit
  <1>4. Chronicle(taskEvents, history, clock)
    BY <1>1, <1>2, <1>3 DEF Chronicle
  <1>5. ComparisonsTypeOK
    BY <1>1, <1>2, <1>3 DEF ComparisonsInit, ComparisonsTypeOK, CheckStates, Grants
  <1>6. QED
    BY <1>3, <1>4, <1>5 DEF ComparisonsInit, ComparisonsIInv, Observes, ComparisonsHold

\* The types of what a chronicle holds, and that its indices are some.
LEMMA ChronicleTypes ==
  ASSUME NEW es, NEW h, NEW now, Chronicle(es, h, now)
  PROVE  /\ es \in Seq(Nat) /\ h \in Seq(HistoryEntries)
         /\ Len(es) \in Nat /\ Len(es) >= 1 /\ Len(h) \in Nat
         /\ \A i \in 1..Len(es) : es[i] \in Nat
         /\ \A i \in 1..Len(h) :
              /\ h[i].at \in Nat /\ h[i].event \in Nat /\ h[i].event \in 2..Len(es)
              /\ h[i].event \in 1..Len(es) /\ h[i].event - 1 \in 1..Len(es)
              /\ es[h[i].event - 1] <= h[i].at /\ h[i].at <= es[h[i].event]
  <1>1. es \in Seq(Nat) /\ h \in Seq(HistoryEntries) /\ Len(es) >= 1
    BY DEF Chronicle
  <1>2. Len(es) \in Nat /\ Len(h) \in Nat /\ \A i \in 1..Len(es) : es[i] \in Nat
    BY <1>1, LenProperties, ElementOfSeq
  <1>3. \A i \in 1..Len(h) : h[i] \in HistoryEntries
    BY <1>1, ElementOfSeq
  <1>4. ASSUME NEW i \in 1..Len(h)
        PROVE  /\ h[i].at \in Nat /\ h[i].event \in Nat /\ h[i].event \in 2..Len(es)
               /\ es[h[i].event - 1] <= h[i].at /\ h[i].at <= es[h[i].event]
    BY <1>3, <1>4 DEF Chronicle, HistoryEntries
  <1>5. ASSUME NEW m \in Nat, m \in 2..Len(es) PROVE m \in 1..Len(es) /\ m - 1 \in 1..Len(es)
    BY <1>2, <1>5
  <1>6. QED BY <1>1, <1>2, <1>4, <1>5

\* A later reading is still one, and an event committed at it goes on the chronicle, with or
\* without a revision of the record.
LEMMA ChronicleGoesOn ==
  ASSUME NEW es, NEW h, NEW now \in Nat, NEW later \in Nat, now <= later, Chronicle(es, h, now)
  PROVE  /\ Chronicle(es, h, later) /\ Chronicle(Append(es, later), h, later)
         /\ \A r : Observes(es, h, r) => Observes(Append(es, later), h, r)
  <1>1. es \in Seq(Nat) /\ h \in Seq(HistoryEntries) /\ Len(es) \in Nat /\ Len(h) \in Nat
    BY ChronicleTypes
  <1> DEFINE events == Append(es, later)
  <1>2. /\ events \in Seq(Nat) /\ Len(events) = Len(es) + 1
        /\ \A i \in 1..Len(es) : events[i] = es[i]
        /\ events[Len(es) + 1] = later
    BY <1>1, AppendProperties
  <1> HIDE DEF events
  <1>3. \A i \in 1..Len(es) : es[i] \in Nat /\ es[i] <= later
    BY <1>1, ElementOfSeq DEF Chronicle
  <1>4. \A i \in 1..Len(h) : /\ h[i].event \in 2..Len(es)
                             /\ events[h[i].event] = es[h[i].event]
                             /\ events[h[i].event - 1] = es[h[i].event - 1]
    BY <1>2, ChronicleTypes
  <1>10. PICK m \in Nat : m = Len(es)
    BY <1>1
  <1>11. m \in Nat /\ Len(es) = m /\ Len(events) = m + 1 /\ events[m + 1] = later
    BY <1>2, <1>10
  <1>5. Chronicle(es, h, later)
    BY <1>1, <1>3 DEF Chronicle
  <1>6. \A i, j \in 1..Len(events) : i <= j => events[i] <= events[j]
    <2> SUFFICES ASSUME NEW i \in 1..(m + 1), NEW j \in 1..(m + 1), i <= j
                 PROVE  events[i] <= events[j]
      BY <1>11
    <2>1. CASE j = m + 1
      <3>1. CASE i = m + 1
        BY <1>11, <2>1, <3>1
      <3>2. CASE i \in 1..m
        BY <1>2, <1>3, <1>11, <2>1, <3>2
      <3>3. QED BY <1>11, <3>1, <3>2
    <2>2. CASE j # m + 1
      <3>1. i \in 1..Len(es) /\ j \in 1..Len(es)
        BY <1>11, <2>2
      <3>2. QED BY <1>2, <3>1 DEF Chronicle
    <2>3. QED BY <1>11, <2>1, <2>2
  <1>7. \A i \in 1..Len(events) : events[i] <= later
    <2> SUFFICES ASSUME NEW i \in 1..(m + 1) PROVE events[i] <= later
      BY <1>11
    <2>1. CASE i = m + 1
      BY <1>11, <2>1
    <2>2. CASE i \in 1..m
      BY <1>2, <1>3, <1>11, <2>2
    <2>3. QED BY <1>11, <2>1, <2>2
  <1>8. Chronicle(events, h, later)
    <2>1. Len(events) >= 1 /\ events[1] = 0
      BY <1>10, <1>11, <1>2 DEF Chronicle
    <2>2. \A i \in 1..Len(h) :
            h[i].event \in 2..Len(events) /\ events[h[i].event - 1] <= h[i].at /\ h[i].at <= events[h[i].event]
      <3> TAKE i \in 1..Len(h)
      <3>1. /\ h[i].event \in Nat /\ h[i].event \in 2..Len(es)
            /\ es[h[i].event - 1] <= h[i].at /\ h[i].at <= es[h[i].event]
        BY ChronicleTypes
      <3>2. h[i].event \in 2..Len(events)
        BY <1>11, <3>1
      <3>3. QED BY <1>4, <3>1, <3>2
    <2>3. QED BY <1>1, <1>2, <1>6, <1>7, <2>1, <2>2 DEF Chronicle
  <1>9. \A r : Observes(es, h, r) => Observes(events, h, r)
    BY <1>4 DEF Observes
  <1>12. QED BY <1>5, <1>8, <1>9 DEF events

LEMMA RevisionGoesOn ==
  ASSUME NEW es, NEW h, NEW now \in Nat, NEW later \in Nat, NEW read \in Nat,
         now <= read, read <= later, Chronicle(es, h, now),
         NEW e \in HistoryEntries, e.at = read, e.event = Len(es) + 1
  PROVE  /\ Chronicle(Append(es, later), Append(h, e), later)
         /\ \A r : /\ Observes(es, h, r)
                   /\ r # Missing => r.at <= now /\ r.saw <= Len(h) /\ r.at \in Nat /\ r.saw \in Nat
                   => Observes(Append(es, later), Append(h, e), r)
  <1>1. es \in Seq(Nat) /\ h \in Seq(HistoryEntries) /\ Len(es) \in Nat /\ Len(h) \in Nat
    BY ChronicleTypes
  <1>2. Chronicle(Append(es, later), h, later)
        /\ \A r : Observes(es, h, r) => Observes(Append(es, later), h, r)
    BY ChronicleGoesOn
  <1> DEFINE events == Append(es, later)
             revisions == Append(h, e)
  <1>3. /\ Len(events) = Len(es) + 1 /\ events[Len(es) + 1] = later
        /\ events[Len(es)] = es[Len(es)] /\ es[Len(es)] <= now /\ es[Len(es)] \in Nat
    BY <1>1, AppendProperties, ElementOfSeq DEF Chronicle
  <1>4. /\ revisions \in Seq(HistoryEntries) /\ Len(revisions) = Len(h) + 1
        /\ \A i \in 1..Len(h) : revisions[i] = h[i]
        /\ revisions[Len(h) + 1] = e
    BY <1>1, AppendProperties
  <1> HIDE DEF events, revisions
  <1>5. Chronicle(events, h, later) /\ \A r : Observes(es, h, r) => Observes(events, h, r)
    BY <1>2 DEF events
  <1>6. \A i \in 1..Len(h) : h[i].event \in 2..Len(es)
    BY DEF Chronicle
  <1>0. /\ e.event - 1 = Len(es) /\ e.event \in 2..Len(events)
        /\ e.event = Len(es) + 1 /\ e.at = read
        /\ \A i \in 1..Len(revisions) : i \in 1..Len(h) \/ i = Len(h) + 1
    BY <1>1, <1>3, <1>4, ChronicleTypes
  <1>7. \A i \in 1..Len(revisions) :
          /\ revisions[i].event \in 2..Len(events)
          /\ events[revisions[i].event - 1] <= revisions[i].at /\ revisions[i].at <= events[revisions[i].event]
    <2> TAKE i \in 1..Len(revisions)
    <2>1. CASE i \in 1..Len(h)
      BY <1>4, <1>5, <2>1 DEF Chronicle
    <2>2. CASE i = Len(h) + 1
      <3>1. revisions[i] = e
        BY <1>4, <2>2
      <3>2. events[Len(es)] <= read /\ read <= events[Len(es) + 1]
        BY <1>3
      <3>3. QED BY <1>0, <3>1, <3>2
    <2>3. QED BY <1>0, <2>1, <2>2
  <1>8. \A i, j \in 1..Len(revisions) : i < j => revisions[i].event < revisions[j].event
    <2> TAKE i, j \in 1..Len(revisions)
    <2>1. CASE j \in 1..Len(h)
      <3>1. i < j => i \in 1..Len(h)
        BY <1>1, <1>0
      <3>2. QED BY <1>4, <2>1, <3>1 DEF Chronicle
    <2>2. CASE j = Len(h) + 1
      <3>1. i < j => i \in 1..Len(h)
        BY <1>1, <1>0, <2>2
      <3>2. \A m \in 2..Len(es) : m < Len(es) + 1
        BY <1>1
      <3>3. QED BY <1>0, <1>4, <1>6, <2>2, <3>1, <3>2
    <2>3. QED BY <1>0, <2>1, <2>2
  <1>9. Chronicle(events, revisions, later)
    BY <1>4, <1>5, <1>7, <1>8 DEF Chronicle
  <1>10. ASSUME NEW r, Observes(events, h, r),
                r # Missing => r.at <= now /\ r.saw <= Len(h) /\ r.at \in Nat /\ r.saw \in Nat
         PROVE  Observes(events, revisions, r)
    <2> SUFFICES ASSUME r # Missing, NEW i \in 1..Len(revisions)
                 PROVE  IF i <= r.saw THEN events[revisions[i].event] <= r.at ELSE r.at <= revisions[i].at
      BY DEF Observes
    <2>1. CASE i \in 1..Len(h)
      BY <1>4, <1>10, <2>1 DEF Observes
    <2>2. CASE i = Len(h) + 1
      <3>1. revisions[i] = e /\ r.at <= read
        BY <1>4, <1>10, <2>2
      <3>2. ~(i <= r.saw)
        BY <1>1, <1>10, <2>2
      <3>3. QED BY <1>0, <3>1, <3>2
    <2>3. QED BY <1>0, <2>1, <2>2
  <1>11. QED BY <1>5, <1>9, <1>10 DEF events, revisions

\* A baseline parts the revisions it saw from the later ones.
Parts(es, h, b) ==
  \E n \in 1..Len(es) :
    /\ b.cutoff = es[n]
    /\ \A i \in 1..Len(h) : IF i <= b.saw THEN h[i].event <= n ELSE es[n] <= h[i].at

LEMMA ReviewParts ==
  ASSUME NEW k, NEW now \in Nat, Chronicle(k.events, k.history, now),
         NEW r \in [at : Nat, saw : Nat], r # Missing, Observes(k.events, k.history, r)
  PROVE  LET b == ReviewBaseline(k, r)
         IN  b \in [cutoff : Nat, saw : Nat, initial : {FALSE}] /\ Parts(k.events, k.history, b)
  <1> DEFINE es == k.events
             h == k.history
             S == {i \in 1..Len(es) : es[i] <= r.at}
             n == LastOf(S)
  <1>1. es \in Seq(Nat) /\ Len(es) \in Nat /\ \A i \in 1..Len(es) : es[i] \in Nat
    BY LenProperties, ElementOfSeq DEF Chronicle
  <1>2. 1 \in S
    BY <1>1 DEF Chronicle
  <1> HIDE DEF es, h
  <1>3. n \in S /\ \A j \in S : j <= n
    BY <1>1, <1>2, LastIsLast
  <1>4. ReviewBaseline(k, r) = [cutoff |-> es[n], saw |-> r.saw, initial |-> FALSE]
    BY DEF ReviewBaseline, AtEvent, es
  <1> HIDE DEF n
  <1>5. n \in 1..Len(es) /\ es[n] \in Nat /\ es[n] <= r.at
    BY <1>1, <1>3
  <1>6. ASSUME NEW i \in 1..Len(h)
        PROVE  IF i <= r.saw THEN h[i].event <= n ELSE es[n] <= h[i].at
    <2>1. h[i].event \in 2..Len(es) /\ h[i].at \in Nat
      BY <1>6, ChronicleTypes DEF es, h
    <2>2. IF i <= r.saw THEN es[h[i].event] <= r.at ELSE r.at <= h[i].at
      BY <1>6 DEF Observes, es, h
    <2>3. CASE i <= r.saw
      <3>1. h[i].event \in S
        BY <1>1, <2>1, <2>2, <2>3
      <3>2. QED BY <1>3, <2>3, <3>1
    <2>4. QED BY <1>5, <2>1, <2>2, <2>3
  <1>7. QED BY <1>4, <1>5, <1>6 DEF Parts, es, h

LEMMA EventParts ==
  ASSUME NEW k, NEW now \in Nat, Chronicle(k.events, k.history, now),
         NEW n \in 1..Len(k.events), NEW saw \in 0..Len(k.history), SawBy(k, n) = 1..saw
  PROVE  LET b == [cutoff |-> k.events[n], saw |-> saw, initial |-> FALSE]
         IN  b \in [cutoff : Nat, saw : Nat, initial : {FALSE}] /\ Parts(k.events, k.history, b)
  <1> DEFINE es == k.events
             h == k.history
  <1>1. /\ Len(es) \in Nat /\ Len(h) \in Nat
        /\ \A i \in 1..Len(es) : es[i] \in Nat
        /\ \A i \in 1..Len(h) : h[i].at \in Nat /\ h[i].event \in Nat
    BY ChronicleTypes
  <1>2. ASSUME NEW i \in 1..Len(h)
        PROVE  IF i <= saw THEN h[i].event <= n ELSE es[n] <= h[i].at
    <2>1. i \in SawBy(k, n) <=> h[i].event <= n
      BY DEF SawBy
    <2>2. i <= saw <=> h[i].event <= n
      BY <1>1, <1>2, <2>1
    <2>3. CASE n < h[i].event
      <3>1. /\ n <= h[i].event - 1 /\ h[i].event - 1 \in 1..Len(es)
            /\ es[h[i].event - 1] <= h[i].at
        <4>1. h[i].event \in Nat /\ h[i].event - 1 \in 1..Len(es) /\ es[h[i].event - 1] <= h[i].at
          BY <1>2, ChronicleTypes
        <4>2. n \in Nat
          BY <1>1
        <4>3. QED BY <2>3, <4>1, <4>2
      <3>2. es[n] <= es[h[i].event - 1]
        BY <3>1 DEF Chronicle
      <3>3. es[n] \in Nat /\ es[h[i].event - 1] \in Nat /\ h[i].at \in Nat
        BY <1>1, <1>2, <3>1
      <3>4. es[n] <= h[i].at
        <4>1. PICK x \in Nat, y \in Nat, z \in Nat :
                x = es[n] /\ y = es[h[i].event - 1] /\ z = h[i].at
          BY <3>3
        <4> HIDE DEF es, h
        <4>2. x <= y /\ y <= z
          BY <3>1, <3>2, <4>1
        <4>3. QED BY <4>1, <4>2
      <3>5. ~(i <= saw)
        <4>1. h[i].event \in Nat /\ n \in Nat
          BY <1>1, <1>2
        <4>2. ~(h[i].event <= n)
          BY <2>3, <4>1
        <4>3. QED BY <2>2, <4>2
      <3>6. QED BY <3>4, <3>5
    <2>4. QED BY <1>1, <1>2, <2>2, <2>3
  <1> HIDE DEF es, h
  <1>3. PICK b : b = [cutoff |-> es[n], saw |-> saw, initial |-> FALSE]
    OBVIOUS
  <1>4. n \in 1..Len(es) /\ es[n] \in Nat /\ saw \in Nat
    <2>1. n \in 1..Len(es) /\ saw \in 0..Len(h)
      BY DEF es, h
    <2>2. QED BY <1>1, <2>1
  <1>5. /\ b \in [cutoff : Nat, saw : Nat, initial : {FALSE}]
        /\ b.cutoff = es[n] /\ b.saw = saw
    BY <1>3, <1>4
  <1>6. Parts(es, h, b)
    BY <1>2, <1>4, <1>5 DEF Parts
  <1>7. QED BY <1>3, <1>5, <1>6 DEF es, h

\* What is said of a record that has revisions, from such a baseline.
LEMMA ChangeIsTold ==
  ASSUME NEW k, NEW now \in Nat, Chronicle(k.events, k.history, now), k.history # <<>>,
         NEW b \in [cutoff : Nat, saw : Nat, initial : {FALSE}], Parts(k.events, k.history, b)
  PROVE  LET n == Len(k.history)
             e == k.history[n].event
         IN  /\ Classified(k, b) \in {"added", "removed", "changed", "unchanged"}
             /\ Classified(k, b) # "unchanged" => n > b.saw
             /\ Classified(k, b) = "unchanged" /\ n > b.saw =>
                  k.history[n].at = k.events[e - 1] \/ k.events[e] = b.cutoff
  <1> DEFINE es == k.events
             h == k.history
             n == Len(h)
             R == RevisionsBy(k, b)
             e == h[n].event
  <1>1. /\ Len(es) \in Nat /\ n \in Nat \ {0}
        /\ \A i \in 1..Len(es) : es[i] \in Nat
        /\ \A i \in 1..n : h[i].at \in Nat /\ h[i].event \in 2..Len(es)
    BY EmptySeq, ChronicleTypes
  <1>2. R = {i \in 1..n : h[i].at <= b.cutoff}
    BY DEF RevisionsBy
  <1>3. R # {} => LastOf(R) \in R /\ \A j \in R : j <= LastOf(R)
    BY <1>1, <1>2, LastIsLast
  <1>4. n \in R <=> R # {} /\ LastOf(R) = n
    <2>1. n \in 1..n /\ \A j \in R : j <= n /\ j \in Nat
      BY <1>1, <1>2
    <2> HIDE DEF R, n
    <2>2. QED BY <1>1, <1>3, <2>1
  <1>5. Classified(k, b) = IF R = {} THEN "added" ELSE ChangeFrom(k, LastOf(R))
    BY DEF Classified
  <1>6. /\ Classified(k, b) \in {"added", "removed", "changed", "unchanged"}
        /\ Classified(k, b) = "unchanged" <=> n \in R
    BY <1>4, <1>5 DEF ChangeFrom, StatusOf
  <1>7. PICK m \in 1..Len(es) :
          /\ b.cutoff = es[m]
          /\ \A i \in 1..n : IF i <= b.saw THEN h[i].event <= m ELSE es[m] <= h[i].at
    BY DEF Parts
  <1>8. n \in 1..n /\ e \in 2..Len(es) /\ e - 1 \in 1..Len(es) /\ es[e - 1] <= h[n].at /\ h[n].at <= es[e]
    <2>1. n \in 1..n
      BY <1>1
    <2>2. QED BY <2>1, ChronicleTypes
  <1>9. \A i, j \in 1..Len(es) : i <= j => es[i] <= es[j]
    BY DEF Chronicle
  <1> HIDE DEF es, h, n, R, e
  <1>10. n <= b.saw => n \in R
    <2> SUFFICES ASSUME n <= b.saw PROVE h[n].at <= b.cutoff
      BY <1>2, <1>8
    <2>1. e <= m
      BY <1>7, <1>8 DEF e
    <2>2. es[e] <= es[m]
      BY <1>8, <1>9, <2>1
    <2>3. QED BY <1>1, <1>7, <1>8, <2>2
  <1>11. n \in R /\ n > b.saw => h[n].at = es[e - 1] \/ es[e] = b.cutoff
    <2> SUFFICES ASSUME n \in R, n > b.saw PROVE h[n].at = es[e - 1] \/ es[e] = b.cutoff
      OBVIOUS
    <2>1. h[n].at = es[m]
      BY <1>1, <1>2, <1>7, <1>8
    <2>2. CASE e <= m
      <3>1. es[e] <= es[m]
        BY <1>8, <1>9, <2>2
      <3>2. QED BY <1>1, <1>7, <1>8, <2>1, <3>1
    <2>3. CASE m <= e - 1
      <3>1. es[m] <= es[e - 1]
        BY <1>8, <1>9, <2>3
      <3>2. QED BY <1>1, <1>8, <2>1, <3>1
    <2>4. QED BY <1>8, <2>2, <2>3
  <1>12. QED BY <1>1, <1>6, <1>10, <1>11 DEF es, h, n, e

USE ComparisonsAssumption

\* A mutation commits an event, and leaves what a comparison has read.
LEMMA CommitKeeps ==
  ASSUME ComparisonsIInv, NEW read \in clock..MaxClock, CommitsEvent(read),
         checked' \in CheckStates, UNCHANGED <<review, grant, inspection>>,
         \/ UNCHANGED history
         \/ \E e \in HistoryEntries : /\ e.at = read /\ e.event = Len(taskEvents) + 1
                                     /\ history' = Append(history, e)
  PROVE  ComparisonsIInv'
  <1>1. /\ clock \in Nat /\ read \in Nat /\ clock' \in Nat /\ clock <= read /\ read <= clock'
        /\ taskEvents \in Seq(Nat) /\ history \in Seq(HistoryEntries)
        /\ taskEvents' = Append(taskEvents, clock')
        /\ Chronicle(taskEvents, history, clock) /\ Observes(taskEvents, history, review)
        /\ review # Missing => /\ review.at \in Nat /\ review.saw \in Nat
                             /\ review.at <= clock /\ review.saw <= Len(history)
    BY DEF ComparisonsIInv, ComparisonsTypeOK, CommitsEvent
  <1>2. /\ Chronicle(taskEvents', history', clock') /\ Observes(taskEvents', history', review)
        /\ history' \in Seq(HistoryEntries) /\ Len(history) <= Len(history')
    <2>1. CASE UNCHANGED history
      <3>1. /\ Chronicle(Append(taskEvents, clock'), history, clock')
            /\ Observes(Append(taskEvents, clock'), history, review)
        BY <1>1, ChronicleGoesOn
      <3>2. Len(history) \in Nat
        BY <1>1, LenProperties
      <3>3. QED BY <1>1, <2>1, <3>1, <3>2
    <2>2. ASSUME NEW e \in HistoryEntries, e.at = read, e.event = Len(taskEvents) + 1,
                 history' = Append(history, e)
          PROVE  /\ Chronicle(taskEvents', history', clock') /\ Observes(taskEvents', history', review)
                 /\ history' \in Seq(HistoryEntries) /\ Len(history) <= Len(history')
      BY <1>1, <2>2, RevisionGoesOn, AppendProperties, LenProperties
    <2>3. QED BY <2>1, <2>2
  <1>3. taskEvents' \in Seq(Nat)
    BY <1>1, AppendProperties
  <1>4. ComparisonsTypeOK'
    BY <1>1, <1>2, <1>3 DEF ComparisonsIInv, ComparisonsTypeOK
  <1>5. review' # Missing => review'.at <= clock' /\ review'.saw <= Len(history')
    BY <1>1, <1>2, LenProperties
  <1>6. ASSUME inspection.at = "read"
        PROVE  /\ Chronicle(inspection.events, inspection.history, clock')
               /\ Observes(inspection.events, inspection.history, review)
               /\ Len(inspection.history) <= Len(history')
    <2>1. /\ Chronicle(inspection.events, inspection.history, clock)
          /\ Observes(inspection.events, inspection.history, review)
          /\ Len(inspection.history) <= Len(history)
      BY <1>6 DEF ComparisonsIInv
    <2>2. Chronicle(inspection.events, inspection.history, clock')
      BY <1>1, <2>1, ChronicleGoesOn
    <2>3. {Len(inspection.history), Len(history), Len(history')} \subseteq Nat
      BY <1>1, <1>2, <2>1, ChronicleTypes, LenProperties
    <2>4. QED BY <1>2, <2>1, <2>2, <2>3
  <1>7. ComparisonsHold'
    BY DEF ComparisonsIInv, ComparisonsHold
  <1>8. QED BY <1>2, <1>4, <1>5, <1>6, <1>7 DEF ComparisonsIInv

LEMMA ChangeRecordKeeps == ComparisonsIInv /\ ChangeRecord => ComparisonsIInv'
  <1> SUFFICES ASSUME ComparisonsIInv, ChangeRecord PROVE ComparisonsIInv'
    OBVIOUS
  <1>1. PICK read \in clock..MaxClock :
          /\ CommitsEvent(read)
          /\ \E s \in IF history = <<>> THEN {"proposed"} ELSE StatusesAfter[StatusOf(history)] :
               history' = Append(history, [status |-> s, at |-> read, event |-> Len(taskEvents) + 1])
    BY DEF ChangeRecord
  <1>2. PICK s \in IF history = <<>> THEN {"proposed"} ELSE StatusesAfter[StatusOf(history)] :
          history' = Append(history, [status |-> s, at |-> read, event |-> Len(taskEvents) + 1])
    BY <1>1
  <1>3. read \in Nat /\ Len(taskEvents) + 1 \in Nat
    BY LenProperties DEF ComparisonsIInv, ComparisonsTypeOK
  <1>4. s \in RecordStatuses
    <2>1. CASE history = <<>>
      BY <2>1 DEF RecordStatuses
    <2>2. CASE history # <<>>
      <3>1. Len(history) \in 1..Len(history)
        BY <2>2, EmptySeq DEF ComparisonsIInv, ComparisonsTypeOK
      <3>2. StatusOf(history) \in RecordStatuses
        <4>1. history[Len(history)] \in HistoryEntries
          BY <3>1, ElementOfSeq DEF ComparisonsIInv, ComparisonsTypeOK
        <4>2. QED BY <4>1 DEF HistoryEntries, StatusOf
      <3>3. \A t \in RecordStatuses : StatusesAfter[t] \subseteq RecordStatuses
        BY DEF StatusesAfter, RecordStatuses
      <3>4. QED BY <2>2, <3>2, <3>3
    <2>3. QED BY <2>1, <2>2
  <1>5. PICK e : e = [status |-> s, at |-> read, event |-> Len(taskEvents) + 1]
    OBVIOUS
  <1>6. e \in HistoryEntries /\ e.at = read /\ e.event = Len(taskEvents) + 1
    BY <1>3, <1>4, <1>5 DEF HistoryEntries
  <1>7. UNCHANGED <<checked, review, grant, inspection>> /\ checked' \in CheckStates
    BY DEF ChangeRecord, ComparisonsIInv, ComparisonsTypeOK
  <1>8. QED BY <1>1, <1>2, <1>5, <1>6, <1>7, CommitKeeps

LEMMA CheckedKeeps == ComparisonsIInv /\ (RecordOutcome \/ NewCriterion) => ComparisonsIInv'
  <1> SUFFICES ASSUME ComparisonsIInv, RecordOutcome \/ NewCriterion PROVE ComparisonsIInv'
    OBVIOUS
  <1>1. checked \in CheckStates /\ clock \in Nat
    BY DEF ComparisonsIInv, ComparisonsTypeOK
  <1>2. checked' \in CheckStates
    <2>1. ASSUME NEW present \in Snapshots, NEW passes \in BOOLEAN,
                 checked' = [checked EXCEPT !.of = [@ EXCEPT ![present] = checked.revision],
                                            !.passed = IF passes THEN @ \union {present} ELSE @ \ {present}]
          PROVE  checked' \in CheckStates
      <3>1. PICK of \in [Snapshots -> Nat] : of = [checked.of EXCEPT ![present] = checked.revision]
        BY <1>1 DEF CheckStates
      <3>2. PICK passed \in SUBSET Snapshots :
              passed = IF passes THEN checked.passed \union {present} ELSE checked.passed \ {present}
        BY <1>1 DEF CheckStates
      <3>3. checked' = [checked EXCEPT !.of = of, !.passed = passed]
        BY <2>1, <3>1, <3>2
      <3>4. QED BY <1>1, <3>3 DEF CheckStates
    <2>2. CASE NewCriterion
      <3>1. PICK n \in Nat : n = checked.revision + 1
        BY <1>1 DEF CheckStates
      <3>2. checked' = [checked EXCEPT !.revision = n]
        BY <2>2, <3>1 DEF NewCriterion
      <3>3. QED BY <1>1, <3>2 DEF CheckStates
    <2>3. QED BY <2>1, <2>2 DEF RecordOutcome
  <1>3. CommitsEvent(clock) /\ UNCHANGED <<history, review, grant, inspection>>
    BY DEF RecordOutcome, NewCriterion
  <1>4. clock \in clock..MaxClock
    BY <1>1, <1>3 DEF CommitsEvent
  <1>5. QED BY <1>2, <1>3, <1>4, CommitKeeps

LEMMA ReviewKeeps == ComparisonsIInv /\ Review => ComparisonsIInv'
  <1> SUFFICES ASSUME ComparisonsIInv, Review PROVE ComparisonsIInv'
    OBVIOUS
  <1>1. /\ clock \in Nat /\ clock' \in Nat /\ clock <= clock' /\ history \in Seq(HistoryEntries)
        /\ review' = [at |-> clock', saw |-> Len(history)] /\ Len(history) \in Nat
        /\ UNCHANGED <<taskEvents, history, checked, grant, inspection>>
    BY LenProperties DEF ComparisonsIInv, ComparisonsTypeOK, Review
  <1>2. ASSUME NEW es, NEW h, Chronicle(es, h, clock), Len(h) <= Len(history)
        PROVE  Chronicle(es, h, clock') /\ Observes(es, h, review')
    <2>1. Chronicle(es, h, clock') /\ Len(h) \in Nat
      BY <1>1, <1>2, ChronicleGoesOn, ChronicleTypes
    <2>2. ASSUME NEW i \in 1..Len(h) PROVE i <= review'.saw /\ es[h[i].event] <= review'.at
      <3>1. h[i].event \in 1..Len(es)
        BY <2>1, ChronicleTypes
      <3>2. es[h[i].event] <= clock'
        BY <2>1, <3>1 DEF Chronicle
      <3>3. i <= Len(history)
        BY <1>1, <1>2, <2>1
      <3>4. QED BY <1>1, <3>2, <3>3
    <2>3. QED BY <2>1, <2>2 DEF Observes
  <1>3. Chronicle(taskEvents, history, clock') /\ Observes(taskEvents, history, review')
    BY <1>1, <1>2 DEF ComparisonsIInv
  <1>4. inspection.at = "read" =>
          /\ Chronicle(inspection.events, inspection.history, clock')
          /\ Observes(inspection.events, inspection.history, review')
    BY <1>2 DEF ComparisonsIInv
  <1>5. ComparisonsTypeOK' /\ ComparisonsHold'
    BY <1>1 DEF ComparisonsIInv, ComparisonsTypeOK, ComparisonsHold
  <1>6. QED BY <1>1, <1>3, <1>4, <1>5 DEF ComparisonsIInv

LEMMA IntentIsBoolean == ASSUME NEW h PROVE IntentOf(h) \in BOOLEAN
  BY DEF IntentOf

LEMMA PlansKeep == ComparisonsIInv /\ (Replan \/ ApprovePlan) => ComparisonsIInv'
  <1> SUFFICES ASSUME ComparisonsIInv, Replan \/ ApprovePlan PROVE ComparisonsIInv'
    OBVIOUS
  <1>1. UNCHANGED <<clock, taskEvents, history, checked, review, inspection>>
    BY DEF Replan, ApprovePlan
  <1>2. grant \in Grants /\ checked.revision \in Nat
    BY DEF ComparisonsIInv, ComparisonsTypeOK, CheckStates
  <1>3. grant' \in Grants
    <2>1. CASE Replan
      BY <1>2, <2>1 DEF Replan, Grants
    <2>2. ASSUME NEW intent \in {IntentOf(history)} \union (IF history = <<>> THEN {Legacy} ELSE {}),
                 grant' = [grant EXCEPT !.approval = [plan |-> grant.plan, criterion |-> checked.revision,
                                                      intent |-> intent]]
          PROVE  grant' \in Grants
      <3>1. intent \in BOOLEAN \union {Legacy}
        BY <2>2, IntentIsBoolean
      <3>2. PICK a : a = [plan |-> grant.plan, criterion |-> checked.revision, intent |-> intent]
        OBVIOUS
      <3>3. a \in [plan : Nat, criterion : Nat, intent : BOOLEAN \union {Legacy}]
        BY <1>2, <3>1, <3>2 DEF Grants
      <3>4. grant' = [grant EXCEPT !.approval = a]
        BY <2>2, <3>2
      <3>5. QED BY <1>2, <3>3, <3>4 DEF Grants
    <2>3. QED BY <2>1, <2>2 DEF ApprovePlan
  <1>4. ComparisonsTypeOK'
    BY <1>1, <1>3 DEF ComparisonsIInv, ComparisonsTypeOK
  <1>5. QED BY <1>1, <1>4 DEF ComparisonsIInv, ComparisonsHold

\* Evidence and approvals are reported as the gates see them.
LEMMA GatesAgree ==
  ASSUME NEW k \in ComparedTasks, NEW g \in Grants
  PROVE  /\ EvidenceStatus(k) = "current-pass" <=>
              k.checked.of[k.tree] = k.checked.revision /\ k.tree \in k.checked.passed
         /\ Covered(k, g) <=>
              /\ g.approval # Missing
              /\ g.approval.plan = g.plan /\ g.approval.criterion = k.checked.revision
              /\ \/ g.approval.intent = IntentOf(k.history)
                 \/ g.approval.intent = Legacy /\ ~IntentOf(k.history)
  <1>1. k.tree \in Snapshots
    BY DEF ComparedTasks
  <1>2. EvidenceStatus(k) = "current-pass" <=>
          k.checked.of[k.tree] = k.checked.revision /\ k.tree \in k.checked.passed
    BY <1>1 DEF EvidenceStatus, EvidenceOf
  <1>3. IntentOf(k.history) \in BOOLEAN
    BY IntentIsBoolean
  <1> DEFINE bound == IF g.approval.intent = Legacy THEN FALSE ELSE g.approval.intent
  <1>4. g.approval # Missing => g.approval.intent \in BOOLEAN \union {Legacy}
    BY DEF Grants
  <1>5. ASSUME g.approval # Missing
        PROVE  bound = IntentOf(k.history) <=>
                 \/ g.approval.intent = IntentOf(k.history)
                 \/ g.approval.intent = Legacy /\ ~IntentOf(k.history)
    <2>1. CASE g.approval.intent = Legacy
      BY <1>3, <2>1
    <2>2. CASE g.approval.intent # Legacy
      BY <2>2
    <2>3. QED BY <2>1, <2>2
  <1>6. StaleReasons(k, g) = {} <=>
          /\ g.approval.plan = g.plan /\ g.approval.criterion = k.checked.revision
          /\ bound = IntentOf(k.history)
    BY DEF StaleReasons
  <1>7. QED BY <1>2, <1>5, <1>6 DEF Covered

\* A report from a baseline that parts the revisions of the record is true.
LEMMA ReportIsTrue ==
  ASSUME NEW k \in ComparedTasks, NEW now \in Nat, Chronicle(k.events, k.history, now),
         k.history # <<>>, grant \in Grants,
         NEW b \in [cutoff : Nat, saw : Nat, initial : BOOLEAN],
         b.initial \/ Parts(k.events, k.history, b)
  PROVE  LET r == Reported(k, b)
         IN  r \in Reports /\ ChangeIsReal(r) /\ NothingMissed(r) /\ AgreesWithGates(r)
  <1> DEFINE n == Len(k.history)
             e == k.history[n].event
  <1>1. /\ Classified(k, b) \in {"added", "removed", "changed", "unchanged"}
        /\ ~b.initial /\ Classified(k, b) # "unchanged" => n > b.saw
        /\ Classified(k, b) = "unchanged" /\ n > b.saw =>
             k.history[n].at = k.events[e - 1] \/ k.events[e] = b.cutoff
    <2>1. CASE b.initial
      BY <2>1 DEF Classified, RevisionsBy
    <2>2. CASE ~b.initial
      <3>1. b \in [cutoff : Nat, saw : Nat, initial : {FALSE}]
        BY <2>2
      <3>2. QED BY <2>2, <3>1, ChangeIsTold
    <2>3. QED BY <2>1, <2>2
  <1>2. EvidenceStatus(k) \in {"current-pass", "current-fail", "stale", "historical", "missing"}
    BY DEF EvidenceStatus
  <1>3. Covered(k, grant) \in BOOLEAN
    BY DEF Covered
  <1>4. PICK r : r = Reported(k, b)
    OBVIOUS
  <1>5. r = [at |-> "report", task |-> k, baseline |-> b, change |-> Classified(k, b),
             evidence |-> EvidenceStatus(k), grant |-> grant, covered |-> Covered(k, grant)]
    BY <1>4 DEF Reported
  <1>6. r \in Reports
    BY <1>1, <1>2, <1>3, <1>5 DEF Reports
  <1>7. /\ r.task = k /\ r.baseline = b /\ r.change = Classified(k, b)
        /\ r.evidence = EvidenceStatus(k) /\ r.grant = grant
        /\ r.covered = Covered(k, grant)
    BY <1>5
  <1>8. ChangeIsReal(r) /\ NothingMissed(r)
    BY <1>1, <1>7 DEF ChangeIsReal, NothingMissed
  <1>9. AgreesWithGates(r)
    BY <1>7, GatesAgree DEF AgreesWithGates
  <1>10. QED BY <1>4, <1>6, <1>8, <1>9

LEMMA StartComparisonKeeps == ComparisonsIInv /\ StartComparison => ComparisonsIInv'
  <1> SUFFICES ASSUME ComparisonsIInv, StartComparison PROVE ComparisonsIInv'
    OBVIOUS
  <1>1. PICK present \in Snapshots :
          inspection' = [at |-> "read", events |-> taskEvents, history |-> history,
                         checked |-> checked, tree |-> present]
    BY DEF StartComparison
  <1>2. UNCHANGED <<clock, taskEvents, history, checked, review, grant>>
    BY DEF StartComparison
  <1>3. /\ inspection' \in ComparedTasks /\ inspection'.at = "read"
        /\ inspection'.events = taskEvents /\ inspection'.history = history
    BY <1>1 DEF ComparisonsIInv, ComparisonsTypeOK, ComparedTasks
  <1>4. ComparisonsTypeOK'
    BY <1>2, <1>3 DEF ComparisonsIInv, ComparisonsTypeOK
  <1>5. Len(history) \in Nat
    BY LenProperties DEF ComparisonsIInv, ComparisonsTypeOK
  <1>6. QED BY <1>2, <1>3, <1>4, <1>5 DEF ComparisonsIInv, ComparisonsHold

LEMMA EndComparisonKeeps == ComparisonsIInv /\ EndComparison => ComparisonsIInv'
  <1> SUFFICES ASSUME ComparisonsIInv, EndComparison PROVE ComparisonsIInv'
    OBVIOUS
  <1>1. /\ UNCHANGED <<clock, taskEvents, history, checked, review, grant>>
        /\ inspection.at = "read" /\ inspection.history # <<>>
    BY DEF EndComparison
  <1>2. /\ inspection \in ComparedTasks /\ clock \in Nat /\ grant \in Grants
        /\ Chronicle(inspection.events, inspection.history, clock)
        /\ Observes(inspection.events, inspection.history, review)
    BY <1>1 DEF ComparisonsIInv, ComparisonsTypeOK, Reports
  <1>3. PICK b \in [cutoff : Nat, saw : Nat, initial : BOOLEAN] :
          /\ inspection' = Reported(inspection, b)
          /\ b.initial \/ Parts(inspection.events, inspection.history, b)
    <2>1. CASE inspection' = Reported(inspection, ReviewBaseline(inspection, review))
      <3>1. CASE review = Missing
        <4>1. PICK b : b = Initial
          OBVIOUS
        <4>2. b \in [cutoff : Nat, saw : Nat, initial : BOOLEAN] /\ b.initial
          BY <4>1 DEF Initial
        <4>3. QED BY <2>1, <3>1, <4>1, <4>2 DEF ReviewBaseline
      <3>2. CASE review # Missing
        <4>1. review \in [at : Nat, saw : Nat]
          BY <3>2 DEF ComparisonsIInv, ComparisonsTypeOK
        <4>2. PICK b : b = ReviewBaseline(inspection, review)
          OBVIOUS
        <4>3. b \in [cutoff : Nat, saw : Nat, initial : {FALSE}]
              /\ Parts(inspection.events, inspection.history, b)
          BY <1>2, <3>2, <4>1, <4>2, ReviewParts
        <4>4. b \in [cutoff : Nat, saw : Nat, initial : BOOLEAN]
          BY <4>3
        <4>5. QED BY <2>1, <4>2, <4>3, <4>4
      <3>3. QED BY <3>1, <3>2
    <2>2. ASSUME NEW n \in 1..Len(inspection.events), NEW saw \in 0..Len(inspection.history),
                 SawBy(inspection, n) = 1..saw,
                 inspection' = Reported(inspection, [cutoff |-> inspection.events[n], saw |-> saw,
                                                     initial |-> FALSE])
          PROVE  \E b \in [cutoff : Nat, saw : Nat, initial : BOOLEAN] :
                   /\ inspection' = Reported(inspection, b)
                   /\ b.initial \/ Parts(inspection.events, inspection.history, b)
      <3>1. PICK b : b = [cutoff |-> inspection.events[n], saw |-> saw, initial |-> FALSE]
        OBVIOUS
      <3>2. b \in [cutoff : Nat, saw : Nat, initial : {FALSE}]
            /\ Parts(inspection.events, inspection.history, b)
        BY <1>2, <2>2, <3>1, EventParts
      <3>3. b \in [cutoff : Nat, saw : Nat, initial : BOOLEAN]
        BY <3>2
      <3>4. QED BY <2>2, <3>1, <3>2, <3>3
    <2>3. QED BY <2>1, <2>2 DEF EndComparison
  <1>4. /\ inspection' \in Reports /\ ChangeIsReal(inspection') /\ NothingMissed(inspection')
        /\ AgreesWithGates(inspection')
    BY <1>1, <1>2, <1>3, ReportIsTrue
  <1>5. inspection'.at = "report"
    BY <1>4 DEF Reports
  <1>6. ComparisonsTypeOK' /\ ComparisonsHold'
    BY <1>1, <1>4 DEF ComparisonsIInv, ComparisonsTypeOK, ComparisonsHold, ChangeIsReal, NothingMissed,
                      AgreesWithGates
  <1>7. QED BY <1>1, <1>5, <1>6 DEF ComparisonsIInv

LEMMA ComparisonsStepKeeps == ComparisonsIInv /\ [ComparisonsNext]_comparisonVars => ComparisonsIInv'
  <1> SUFFICES ASSUME ComparisonsIInv, [ComparisonsNext]_comparisonVars PROVE ComparisonsIInv'
    OBVIOUS
  <1>1. CASE CloseComparison
    <2>1. inspection'.at = "idle" /\ inspection' \in [at : {"idle"}]
      BY <1>1 DEF CloseComparison
    <2>2. QED BY <1>1, <2>1 DEF CloseComparison, ComparisonsIInv, ComparisonsTypeOK, ComparisonsHold
  <1>2. CASE UNCHANGED comparisonVars
    BY <1>2 DEF comparisonVars, ComparisonsIInv, ComparisonsTypeOK, ComparisonsHold
  <1>3. QED
    BY <1>1, <1>2, ChangeRecordKeeps, CheckedKeeps, ReviewKeeps, PlansKeep, StartComparisonKeeps,
       EndComparisonKeeps
    DEF ComparisonsNext

LEMMA ComparisonTypesKept == ComparisonsIInv => ComparisonsTypeOK
  BY DEF ComparisonsIInv

\* Whatever the clock readings are, and whatever is committed and reviewed while a comparison
\* reads: a change it reports is one, it misses one only where readings coincide, and it agrees
\* with the gates (inspectDecisionComparison).
THEOREM ComparisonsAlwaysHold == ComparisonsSpec => []ComparisonsHold
  <1>1. ComparisonsIInv => ComparisonsHold
    BY DEF ComparisonsIInv
  <1>2. QED BY <1>1, ComparisonsInitial, ComparisonsStepKeeps, PTL DEF ComparisonsSpec

HIDE ComparisonsAssumption

-----------------------------------------------------------------------------
\* No store or export holds an id that was not drawn, and a deleted memory no text.
StoresAreSound ==
  \A p \in Projects :
    /\ IsFiniteSet(memories[p]) /\ ValidMemory(memories[p])
    /\ \A m \in memories[p] : m.id <= drawn /\ (m.deleted => m.text = Scrubbed)
ExportIsSound ==
  export # Nothing =>
    /\ IsFiniteSet(export) /\ ValidMemory(export)
    /\ \A m \in export : m.id <= drawn /\ ~m.deleted

\* A memory that was read is there, as it was or at a later revision.
SeenIsThere ==
  seen # Nothing =>
    \E m \in memories[seen.project] :
      /\ m.id = seen.memory.id /\ m.revision >= seen.memory.revision
      /\ m.revision = seen.memory.revision => m = seen.memory

MemoryIInv ==
  /\ MemoryTypeOK /\ StoresAreSound /\ ExportIsSound /\ SeenIsThere
  /\ unseen = {} /\ missed = {}

USE MemoryAssumption

LEMMA MemoryInitial == MemoryInit => MemoryIInv
  <1> SUFFICES ASSUME MemoryInit PROVE MemoryIInv
    OBVIOUS
  <1>1. \A p \in Projects : memories[p] = {}
    BY DEF MemoryInit
  <1>2. StoresAreSound
    BY <1>1, FS_EmptySet DEF StoresAreSound, ValidMemory
  <1>3. MemoryTypeOK
    BY DEF MemoryInit, MemoryTypeOK
  <1>4. QED
    BY <1>2, <1>3 DEF MemoryInit, MemoryIInv, ExportIsSound, SeenIsThere

\* A store that takes the place of another keeps the invariant.
LEMMA StoredKeeps ==
  ASSUME MemoryIInv, NEW p \in Projects, NEW S \in SUBSET Memories, IsFiniteSet(S), ValidMemory(S),
         memories' = [memories EXCEPT ![p] = S], drawn' \in Nat, drawn <= drawn',
         \A m \in S : m.id <= drawn' /\ (m.deleted => m.text = Scrubbed),
         \A m \in memories[p] : \E n \in S :
           n.id = m.id /\ (n = m \/ n.revision > m.revision),
         UNCHANGED <<seen, export>>, unseen' = {}, missed' = {}
  PROVE  MemoryIInv'
  <1>1. MemoryTypeOK'
    BY DEF MemoryIInv, MemoryTypeOK
  <1>2. StoresAreSound'
    <2> SUFFICES ASSUME NEW q \in Projects
                 PROVE  /\ IsFiniteSet(memories'[q]) /\ ValidMemory(memories'[q])
                        /\ \A m \in memories'[q] : m.id <= drawn' /\ (m.deleted => m.text = Scrubbed)
      BY DEF StoresAreSound, ValidMemory
    <2>1. CASE q = p
      BY <2>1 DEF MemoryIInv, MemoryTypeOK
    <2>2. CASE q # p
      BY <2>2 DEF MemoryIInv, MemoryTypeOK, StoresAreSound, Memories
    <2>3. QED BY <2>1, <2>2
  <1>3. ExportIsSound'
    BY DEF MemoryIInv, MemoryTypeOK, ExportIsSound, Memories, ValidMemory
  <1>4. SeenIsThere'
    <2> SUFFICES ASSUME seen # Nothing
                 PROVE  \E m \in memories'[seen.project] :
                          /\ m.id = seen.memory.id /\ m.revision >= seen.memory.revision
                          /\ m.revision = seen.memory.revision => m = seen.memory
      BY DEF SeenIsThere
    <2>1. PICK m \in memories[seen.project] :
            /\ m.id = seen.memory.id /\ m.revision >= seen.memory.revision
            /\ m.revision = seen.memory.revision => m = seen.memory
      BY DEF MemoryIInv, SeenIsThere
    <2>2. /\ seen.project \in Projects /\ seen.memory \in Memories
          /\ memories \in [Projects -> SUBSET Memories]
      BY DEF MemoryIInv, MemoryTypeOK
    <2>3. CASE seen.project # p
      BY <2>1, <2>2, <2>3
    <2>4. CASE seen.project = p
      <3>1. PICK n \in S : n.id = m.id /\ (n = m \/ n.revision > m.revision)
        BY <2>1, <2>4
      <3>2. n \in memories'[seen.project] /\ {m.revision, n.revision, seen.memory.revision} \subseteq Nat
        BY <2>1, <2>2, <2>4 DEF Memories
      <3>3. QED BY <2>1, <3>1, <3>2
    <2>5. QED BY <2>3, <2>4
  <1>5. QED BY <1>1, <1>2, <1>3, <1>4 DEF MemoryIInv

LEMMA AddMemoryKeeps ==
  ASSUME MemoryIInv, NEW p \in Projects, AddMemory(p) PROVE MemoryIInv'
  <1>1. PICK t \in Wordings :
          Stores(p, memories[p] \union
                   {[id |-> drawn + 1, revision |-> 1, text |-> t, deleted |-> FALSE, from |-> p]})
    BY DEF AddMemory
  <1> DEFINE added == [id |-> drawn + 1, revision |-> 1, text |-> t, deleted |-> FALSE, from |-> p]
             S == memories[p] \union {added}
  <1>2. added \in Memories /\ ~added.deleted /\ added.id = drawn + 1
    BY DEF MemoryIInv, MemoryTypeOK, Memories
  <1>3. IsFiniteSet(S)
    BY FS_AddElement DEF MemoryIInv, StoresAreSound
  <1>4. S \in SUBSET Memories /\ ValidMemory(S) /\ memories' = [memories EXCEPT ![p] = S]
    BY <1>1, <1>2 DEF MemoryIInv, MemoryTypeOK, Stores
  <1> HIDE DEF added
  <1>5. \A m \in S : m.id <= drawn' /\ (m.deleted => m.text = Scrubbed)
    BY <1>2 DEF AddMemory, MemoryIInv, MemoryTypeOK, StoresAreSound, Memories
  <1>6. /\ drawn' = drawn + 1 /\ drawn \in Nat /\ UNCHANGED <<seen, export>>
        /\ unseen' = {} /\ missed' = {} /\ drawn' \in Nat /\ drawn <= drawn'
    BY DEF AddMemory, MemoryIInv, MemoryTypeOK
  <1>7. \A m \in memories[p] : \E n \in S : n.id = m.id /\ (n = m \/ n.revision > m.revision)
    OBVIOUS
  <1> HIDE DEF S
  <1>8. QED BY <1>3, <1>4, <1>5, <1>6, <1>7, StoredKeeps

\* What an update or a deletion puts in the place of an active memory.
LEMMA ReplacesKeeps ==
  ASSUME MemoryIInv, NEW p \in Projects, NEW m \in ActiveMemories(p), NEW n \in Memories,
         n.id = m.id, n.revision = m.revision + 1, n.deleted => n.text = Scrubbed,
         Replaces(p, m, n)
  PROVE  MemoryIInv'
  <1> DEFINE S == (memories[p] \ {m}) \union {n}
  <1>1. m \in memories[p] /\ memories[p] \subseteq Memories /\ drawn \in Nat
    BY DEF ActiveMemories, MemoryIInv, MemoryTypeOK
  <1>2. unseen' = {}
    <2>1. CASE Expects(p, m) /\ unseen' = unseen \union ({m} \ {seen.memory})
      <3>1. PICK k \in memories[p] :
              /\ k.id = seen.memory.id /\ k.revision = seen.memory.revision => k = seen.memory
              /\ k.id = seen.memory.id
        BY <2>1 DEF MemoryIInv, SeenIsThere, Expects
      <3>2. k = m
        BY <1>1, <2>1, <3>1 DEF Expects, MemoryIInv, StoresAreSound, ValidMemory
      <3>3. QED BY <2>1, <3>1, <3>2 DEF Expects, MemoryIInv
    <2>2. CASE unseen' = unseen
      BY <2>2 DEF MemoryIInv
    <2>3. QED BY <2>1, <2>2 DEF Replaces
  <1>3. IsFiniteSet(S)
    BY FS_AddElement, FS_RemoveElement DEF MemoryIInv, StoresAreSound
  <1>4. S \in SUBSET Memories /\ ValidMemory(S) /\ memories' = [memories EXCEPT ![p] = S]
    BY <1>1 DEF Replaces, Stores
  <1>5. \A k \in S : k.id <= drawn /\ (k.deleted => k.text = Scrubbed)
    BY <1>1 DEF MemoryIInv, StoresAreSound
  <1>6. \A k \in memories[p] : \E j \in S : j.id = k.id /\ (j = k \/ j.revision > k.revision)
    <2> TAKE k \in memories[p]
    <2>1. n.revision > m.revision
      BY <1>1 DEF Memories
    <2>2. QED BY <2>1
  <1>7. drawn' = drawn /\ drawn <= drawn /\ UNCHANGED <<seen, export>> /\ missed' = {}
    BY <1>1 DEF Replaces, MemoryIInv
  <1> HIDE DEF S
  <1>8. QED BY <1>1, <1>2, <1>3, <1>4, <1>5, <1>6, <1>7, StoredKeeps

LEMMA UpdateMemoryKeeps ==
  ASSUME MemoryIInv, NEW p \in Projects, UpdateMemory(p) PROVE MemoryIInv'
  <1>1. PICK m \in ActiveMemories(p), t \in Wordings : Replaces(p, m, Revised(m, t))
    BY DEF UpdateMemory
  <1>2. m \in Memories /\ ~m.deleted
    BY DEF ActiveMemories, MemoryIInv, MemoryTypeOK
  <1>3. /\ Revised(m, t) \in Memories /\ Revised(m, t).id = m.id
        /\ Revised(m, t).revision = m.revision + 1 /\ ~Revised(m, t).deleted
    <2>1. PICK n \in Nat : n = m.revision + 1
      BY <1>2 DEF Memories
    <2>2. Revised(m, t) = [m EXCEPT !.text = t, !.revision = n]
      BY <2>1 DEF Revised
    <2>3. QED BY <1>2, <2>1, <2>2 DEF Memories
  <1>4. QED BY <1>1, <1>3, ReplacesKeeps

LEMMA DeleteMemoryKeeps ==
  ASSUME MemoryIInv, NEW p \in Projects, DeleteMemory(p) PROVE MemoryIInv'
  <1>1. PICK m \in ActiveMemories(p) : Replaces(p, m, Deleted(m))
    BY DEF DeleteMemory
  <1>2. m \in Memories
    BY DEF ActiveMemories, MemoryIInv, MemoryTypeOK
  <1>3. /\ Deleted(m) \in Memories /\ Deleted(m).id = m.id
        /\ Deleted(m).revision = m.revision + 1 /\ Deleted(m).text = Scrubbed
    <2>1. PICK n \in Nat : n = m.revision + 1
      BY <1>2 DEF Memories
    <2>2. Deleted(m) = [m EXCEPT !.text = Scrubbed, !.deleted = TRUE, !.revision = n]
      BY <2>1 DEF Deleted
    <2>3. QED BY <1>2, <2>1, <2>2 DEF Memories
  <1>4. QED BY <1>1, <1>3, ReplacesKeeps

LEMMA ReadMemoryKeeps ==
  ASSUME MemoryIInv, NEW p \in Projects, ReadMemory(p) \/ SearchMemory(p) PROVE MemoryIInv'
  <1>1. PICK m \in memories[p] : seen' = [project |-> p, memory |-> m]
    BY DEF ReadMemory, SearchMemory, ReadsOne, ActiveMemories
  <1>2. m \in Memories /\ m.revision >= m.revision
    BY DEF MemoryIInv, MemoryTypeOK, Memories
  <1>3. UNCHANGED <<memories, drawn, export, unseen, missed>>
    BY DEF ReadMemory, SearchMemory, ReadsOne
  <1>4. MemoryTypeOK' /\ SeenIsThere'
    BY <1>1, <1>2, <1>3 DEF MemoryIInv, MemoryTypeOK, SeenIsThere
  <1>5. QED BY <1>3, <1>4 DEF MemoryIInv, StoresAreSound, ExportIsSound, ValidMemory

LEMMA ExportMemoryKeeps ==
  ASSUME MemoryIInv, NEW p \in Projects, ExportMemory(p) PROVE MemoryIInv'
  <1>1. /\ UNCHANGED <<memories, drawn, seen, unseen, missed>>
        /\ export' = ActiveMemories(p) /\ ActiveMemories(p) \subseteq memories[p]
    BY DEF ExportMemory, ActiveMemories
  <1>2. IsFiniteSet(ActiveMemories(p))
    BY <1>1, FS_Subset DEF MemoryIInv, StoresAreSound
  <1>3. ExportIsSound'
    BY <1>1, <1>2 DEF ExportIsSound, MemoryIInv, StoresAreSound, ValidMemory, ActiveMemories
  <1>4. MemoryTypeOK'
    BY <1>1 DEF MemoryIInv, MemoryTypeOK
  <1>5. QED BY <1>1, <1>3, <1>4 DEF MemoryIInv, StoresAreSound, SeenIsThere, ValidMemory

\* An import does not clash: what keeps its id has one that the store does not know, and the
\* others get ids that nobody has.
LEMMA ImportMemoryKeeps ==
  ASSUME MemoryIInv, NEW p \in Projects, ImportMemory(p) PROVE MemoryIInv'
  <1> DEFINE count == Cardinality(Conflicting(p))
             news == (drawn + 1)..(drawn + count)
  <1>1. PICK fresh \in [Conflicting(p) -> news] :
          LET given(m) == IF m \in Conflicting(p) THEN fresh[m] ELSE m.id
              S == memories[p] \union {Imported(p, m, given(m)) : m \in Brought(p)}
          IN  /\ \A m, n \in Conflicting(p) : fresh[m] = fresh[n] => m = n
              /\ IF ValidMemory(S) THEN Stores(p, S) ELSE UNCHANGED memories
              /\ missed' = missed \union IF ValidMemory(S) THEN MissingFrom(S)
                                                         ELSE MissingFrom(memories[p])
    BY DEF ImportMemory
  <1> DEFINE given(m) == IF m \in Conflicting(p) THEN fresh[m] ELSE m.id
             put == [m \in Brought(p) |-> Imported(p, m, given(m))]
             S == memories[p] \union {Imported(p, m, given(m)) : m \in Brought(p)}
  <1>2. /\ \A m, n \in Conflicting(p) : fresh[m] = fresh[n] => m = n
        /\ IF ValidMemory(S) THEN Stores(p, S) ELSE UNCHANGED memories
        /\ missed' = missed \union IF ValidMemory(S) THEN MissingFrom(S) ELSE MissingFrom(memories[p])
    BY <1>1
  <1>3. /\ export # Nothing /\ export \subseteq Memories /\ IsFiniteSet(export)
        /\ memories[p] \subseteq Memories /\ IsFiniteSet(memories[p]) /\ drawn \in Nat
    BY DEF ImportMemory, MemoryIInv, MemoryTypeOK, StoresAreSound, ExportIsSound
  <1>4. Brought(p) \subseteq export /\ Conflicting(p) \subseteq Brought(p)
    BY DEF Brought, Conflicting
  <1>5. IsFiniteSet(Brought(p)) /\ IsFiniteSet(Conflicting(p))
    BY <1>3, <1>4, FS_Subset
  <1>6. count \in Nat
    BY <1>5, FS_CardinalityType
  <1> HIDE DEF count
  <1>7. /\ UNCHANGED <<seen, export>> /\ unseen' = {} /\ drawn' = drawn + count
        /\ drawn' \in Nat /\ drawn <= drawn'
    BY <1>3, <1>6 DEF ImportMemory, MemoryIInv, count
  \* What each of them becomes.
  <1>8. ASSUME NEW m \in Brought(p)
        PROVE  LET n == Imported(p, m, given(m))
               IN  /\ n \in Memories /\ n.id = given(m) /\ n.id <= drawn + count /\ ~n.deleted
                   /\ n.text = m.text /\ n.id \notin KnownIds(p)
                   /\ m \in Conflicting(p) => n.id > drawn
                   /\ m \notin Conflicting(p) => n.id <= drawn
    <2>1. m \in Memories /\ m \in export /\ m.id <= drawn
      BY <1>3, <1>4 DEF MemoryIInv, ExportIsSound
    <2>2. /\ given(m) \in Nat /\ given(m) <= drawn + count
          /\ m \in Conflicting(p) => given(m) > drawn
          /\ m \notin Conflicting(p) => given(m) = m.id /\ m.id \notin KnownIds(p)
      BY <1>3, <1>6, <2>1 DEF Memories, Conflicting
    <2>3. PICK i \in Nat : i = given(m)
      BY <2>2
    <2>4. PICK n : n = Imported(p, m, given(m))
      OBVIOUS
    <2>5. n = [m EXCEPT !.id = i, !.revision = 1, !.deleted = FALSE, !.from = p]
      BY <2>3, <2>4 DEF Imported
    <2>6. n \in Memories /\ n.id = i /\ ~n.deleted /\ n.text = m.text
      <3>1. m \in [id : Nat, revision : Nat, text : Wordings \union {Scrubbed},
                   deleted : BOOLEAN, from : Projects]
        BY <2>1 DEF Memories
      <3> HIDE DEF given
      <3>2. QED BY <2>3, <2>5, <3>1 DEF Memories
    <2>7. \A k \in KnownIds(p) : k <= drawn
      BY DEF KnownIds, IdsOf, MemoryIInv, StoresAreSound
    <2> HIDE DEF given
    <2>8. i \notin KnownIds(p)
      BY <1>3, <2>2, <2>3, <2>7
    <2>9. m \notin Conflicting(p) => i <= drawn
      BY <2>1, <2>2, <2>3
    <2>10. QED BY <2>2, <2>3, <2>4, <2>6, <2>8, <2>9
  <1>9. ValidMemory(S)
    <2>1. ASSUME NEW m \in Brought(p), NEW n \in Brought(p),
                 Imported(p, m, given(m)).id = Imported(p, n, given(n)).id
          PROVE  m = n
      <3>1. given(m) = given(n)
        BY <1>8, <2>1
      <3>2. CASE m \in Conflicting(p) /\ n \in Conflicting(p)
        BY <1>2, <3>1, <3>2
      <3>3. CASE m \notin Conflicting(p) /\ n \notin Conflicting(p)
        BY <1>3, <1>4, <3>1, <3>3 DEF MemoryIInv, ExportIsSound, ValidMemory
      <3>4. CASE (m \in Conflicting(p)) # (n \in Conflicting(p))
        BY <1>3, <1>6, <1>8, <2>1, <3>4 DEF Memories
      <3>5. QED BY <3>2, <3>3, <3>4
    <2> HIDE DEF given
    <2>2. \A m \in memories[p], n \in Brought(p) : m.id # Imported(p, n, given(n)).id
      BY <1>8 DEF KnownIds, IdsOf
    <2>3. ValidMemory(memories[p])
      BY DEF MemoryIInv, StoresAreSound
    <2>4. QED BY <2>1, <2>2, <2>3 DEF ValidMemory
  <1>10. memories' = [memories EXCEPT ![p] = S] /\ missed' = missed \union MissingFrom(S)
    BY <1>2, <1>9 DEF Stores
  <1>11. IsFiniteSet(S)
    <2>1. put \in Surjection(Brought(p), {Imported(p, m, given(m)) : m \in Brought(p)})
      BY DEF Surjection
    <2>2. IsFiniteSet({Imported(p, m, given(m)) : m \in Brought(p)})
      BY <1>5, <2>1, FS_Surjection
    <2>3. QED BY <1>3, <2>2, FS_Union
  <1>12. MissingFrom(S) = {}
    <2> SUFFICES ASSUME NEW m \in export PROVE \E n \in S : n.text = m.text /\ ~n.deleted
      BY DEF MissingFrom
    <2>1. CASE m \in Brought(p)
      BY <1>8, <2>1
    <2>2. CASE m \in memories[p]
      BY <1>3, <2>2 DEF MemoryIInv, ExportIsSound
    <2>3. QED BY <2>1, <2>2 DEF Brought
  <1> HIDE DEF given
  <1>13. S \in SUBSET Memories
    BY <1>3, <1>8
  <1>14. \A m \in S : m.id <= drawn' /\ (m.deleted => m.text = Scrubbed)
    <2>1. \A m \in memories[p] : m.id <= drawn' /\ (m.deleted => m.text = Scrubbed)
      BY <1>3, <1>7 DEF MemoryIInv, StoresAreSound, Memories
    <2>2. QED BY <1>7, <1>8, <2>1
  <1>15. \A m \in memories[p] : \E n \in S : n.id = m.id /\ (n = m \/ n.revision > m.revision)
    OBVIOUS
  <1>16. missed' = {}
    BY <1>10, <1>12 DEF MemoryIInv
  <1> HIDE DEF S
  <1>17. QED BY <1>7, <1>9, <1>10, <1>11, <1>13, <1>14, <1>15, <1>16, StoredKeeps

LEMMA MemoryStepKeeps == MemoryIInv /\ [MemoryNext]_memoryVars => MemoryIInv'
  <1> SUFFICES ASSUME MemoryIInv, [MemoryNext]_memoryVars PROVE MemoryIInv'
    OBVIOUS
  <1>1. CASE UNCHANGED memoryVars
    BY <1>1 DEF memoryVars, MemoryIInv, MemoryTypeOK, StoresAreSound, ExportIsSound, SeenIsThere,
                ValidMemory
  <1>2. QED
    BY <1>1, AddMemoryKeeps, UpdateMemoryKeeps, DeleteMemoryKeeps, ReadMemoryKeeps,
       ExportMemoryKeeps, ImportMemoryKeeps
    DEF MemoryNext

THEOREM MemoryInvariant == MemorySpec => []MemoryIInv
  BY MemoryInitial, MemoryStepKeeps, PTL DEF MemorySpec

LEMMA MemoryTypesKept == MemoryIInv => MemoryTypeOK
  BY DEF MemoryIInv

\* What stays of a memory in a step: its id, and, unless it was active and alone is replaced, itself.
LEMMA MemoriesStay ==
  ASSUME MemoryIInv, MemoryIInv', [MemoryNext]_memoryVars, NEW p \in Projects
  PROVE  /\ IdsOf(memories[p]) \subseteq IdsOf(memories'[p])
         /\ \A m \in memories[p] : m.deleted => m \in memories'[p]
         /\ \/ IdsOf(memories'[p]) = IdsOf(memories[p])
            \/ memories[p] \subseteq memories'[p]
  <1>0. memories \in [Projects -> SUBSET Memories] /\ memories' \in [Projects -> SUBSET Memories]
    BY DEF MemoryIInv, MemoryTypeOK
  <1>1. CASE memories[p] \subseteq memories'[p]
    BY <1>1 DEF IdsOf
  <1>2. ASSUME NEW q \in Projects, AddMemory(q) \/ ImportMemory(q)
        PROVE  memories[p] \subseteq memories'[p]
    BY <1>0, <1>2 DEF AddMemory, ImportMemory, Stores
  <1>3. ASSUME NEW q \in Projects, NEW m \in ActiveMemories(q), NEW n, n.id = m.id, Replaces(q, m, n)
        PROVE  /\ IdsOf(memories'[p]) = IdsOf(memories[p])
               /\ \A k \in memories[p] : k.deleted => k \in memories'[p]
    BY <1>0, <1>3 DEF Replaces, Stores, ActiveMemories, IdsOf
  <1>4. ASSUME NEW q \in Projects, UpdateMemory(q) \/ DeleteMemory(q)
        PROVE  /\ IdsOf(memories'[p]) = IdsOf(memories[p])
               /\ \A k \in memories[p] : k.deleted => k \in memories'[p]
    <2>1. ASSUME NEW m \in ActiveMemories(q), NEW t
          PROVE  Revised(m, t).id = m.id /\ Deleted(m).id = m.id
      BY <1>0 DEF ActiveMemories, Revised, Deleted, Memories
    <2>2. QED BY <1>3, <1>4, <2>1 DEF UpdateMemory, DeleteMemory
  <1>5. CASE UNCHANGED memories
    BY <1>1, <1>5
  <1>6. QED
    BY <1>1, <1>2, <1>4, <1>5 DEF MemoryNext, memoryVars, ReadMemory, SearchMemory, ReadsOne, ExportMemory

\* Whatever is exported, imported, read and linked: who replaces a memory at the revision they
\* read replaces what they read, what was deleted stays deleted, and an import leaves nothing out
\* and changes nothing (project-memory/service.ts).
THEOREM MemoryAlwaysHolds == MemorySpec => MemoryHolds
  <1>1. MemoryIInv => SeenStands /\ missed = {}
    <2> SUFFICES ASSUME MemoryIInv, seen # Nothing, LinkStatus(seen) = "current"
                 PROVE  seen.memory \in memories[seen.project]
      BY DEF MemoryIInv, SeenStands
    <2>1. PICK m \in memories[seen.project] :
            m.id = seen.memory.id /\ m.revision = seen.memory.revision
      BY DEF LinkStatus
    <2>2. PICK k \in memories[seen.project] :
            /\ k.id = seen.memory.id
            /\ k.revision = seen.memory.revision => k = seen.memory
      BY DEF MemoryIInv, SeenIsThere
    <2>3. m = k
      BY <2>1, <2>2 DEF MemoryIInv, MemoryTypeOK, StoresAreSound, ValidMemory
    <2>4. QED BY <2>1, <2>2, <2>3
  <1>2. MemoryIInv /\ MemoryIInv' /\ [MemoryNext]_memoryVars =>
          \A p \in Projects : \A m \in memories[p] : m.deleted =>
            \A n \in memories'[p] : n.id = m.id => n.deleted /\ n.text = Scrubbed
    <2> SUFFICES ASSUME MemoryIInv, MemoryIInv', [MemoryNext]_memoryVars, NEW p \in Projects,
                        NEW m \in memories[p], m.deleted, NEW n \in memories'[p], n.id = m.id
                 PROVE  n.deleted /\ n.text = Scrubbed
      OBVIOUS
    <2>1. m \in memories'[p]
      BY MemoriesStay
    <2>2. ValidMemory(memories'[p]) /\ m.text = Scrubbed
      BY DEF MemoryIInv, StoresAreSound, ValidMemory
    <2>3. n = m
      BY <2>1, <2>2 DEF ValidMemory
    <2>4. QED BY <2>2, <2>3
  <1>3. MemoryIInv /\ MemoryIInv' /\ [MemoryNext]_memoryVars =>
          \A p \in Projects :
            /\ IdsOf(memories[p]) \subseteq IdsOf(memories'[p])
            /\ \/ IdsOf(memories'[p]) = IdsOf(memories[p])
               \/ memories[p] \subseteq memories'[p]
    BY MemoriesStay
  <1>4. QED
    BY <1>1, <1>2, <1>3, MemoryInvariant, PTL
    DEF MemorySpec, MemoryHolds, DeletionIsFinal, ImportsAdd

HIDE MemoryAssumption

-----------------------------------------------------------------------------
\* Before the fixture has answered, nothing has cut the check short; what was cut short later was,
\* by what did; and only a fixture that was asked for ran.
ChecksIInv ==
  /\ ChecksTypeOK /\ ChecksHold
  /\ stage = "made" => fixture = "absent"
  /\ ~ordered.fixture => fixture = "absent"
  /\ stage \in {"made", "waiting", "asked", "leaving"} =>
       reason = "none" /\ ~expired /\ result = "none"
  /\ stage \in {"made", "waiting", "asked"} /\ halted => aborted
  /\ stage = "leaving" => overdue \/ aborted
  /\ stage \in Underway => result = "none"
  /\ stage \in {"launching", "capturing"} => ordered.type = "browser"
  /\ stage = "checking" /\ expired /\ ordered.type # "browser" => reason # "none"
  /\ reason = "abort" => aborted
  /\ reason = "timeout" => expired

LEMMA ChecksInitial == ChecksInit => ChecksIInv
  <1> SUFFICES ASSUME ChecksInit PROVE ChecksIInv
    OBVIOUS
  <1>1. ordered \in Declarations /\ ordered.type = "manual" /\ fixture = "absent"
    BY DEF ChecksInit, Declarations
  <1>2. QED
    BY <1>1 DEF ChecksInit, ChecksIInv, ChecksTypeOK, ChecksHold, FixtureKept, EndedAsTold, Places,
                Outcomes, Underway

\* The check is begun, and its fixture got ready.
LEMMA ReadyingKeeps ==
  ASSUME ChecksIInv,
         BeginCheck \/ StartPlain \/ PortConflict \/ StartFixture \/ AskReady \/ NotReady \/ Ready
         \/ DeadlinePasses
  PROVE  ChecksIInv'
  <1> USE DEF ChecksIInv, ChecksTypeOK, ChecksHold, FixtureKept, EndedAsTold, Places, Outcomes,
              Underway
  <1>1. CASE BeginCheck
    BY <1>1 DEF BeginCheck
  <1>2. CASE StartPlain
    BY <1>2 DEF StartPlain, Launched, Declarations
  <1>3. CASE PortConflict
    BY <1>3 DEF PortConflict
  <1>4. CASE StartFixture
    BY <1>4 DEF StartFixture
  <1>5. CASE AskReady \/ NotReady
    BY <1>5 DEF AskReady, NotReady
  <1>6. CASE Ready
    BY <1>6 DEF Ready, Launched, Declarations
  <1>7. CASE DeadlinePasses
    BY <1>7 DEF DeadlinePasses
  <1>8. QED BY <1>1, <1>2, <1>3, <1>4, <1>5, <1>6, <1>7

\* The fixture is given up, and moves by itself.
LEMMA FixtureKeeps ==
  ASSUME ChecksIInv, FixtureLost \/ AbandonFixture \/ FixtureAbandoned \/ FixtureMoves
  PROVE  ChecksIInv'
  <1> USE DEF ChecksIInv, ChecksTypeOK, ChecksHold, FixtureKept, EndedAsTold, Places, Outcomes,
              Underway
  <1>1. CASE FixtureLost
    BY <1>1 DEF FixtureLost
  <1>2. CASE AbandonFixture
    BY <1>2 DEF AbandonFixture
  <1>3. CASE FixtureAbandoned
    BY <1>3 DEF FixtureAbandoned
  <1>4. CASE FixtureMoves
    BY <1>4 DEF FixtureMoves
  <1>5. QED BY <1>1, <1>2, <1>3, <1>4

\* The check goes on, and is cut short.
LEMMA CheckingKeeps ==
  ASSUME ChecksIInv,
         Abort \/ Expire \/ FollowRedirect \/ BrowserOpens \/ BrowserAsserts \/ FixtureStopped
         \/ StoreResult
  PROVE  ChecksIInv'
  <1> USE DEF ChecksIInv, ChecksTypeOK, ChecksHold, FixtureKept, EndedAsTold, Places, Outcomes,
              Underway
  <1>1. CASE Abort
    BY <1>1 DEF Abort, CutsShort, CutBy
  <1>2. CASE Expire
    BY <1>2 DEF Expire, CutsShort, CutBy
  <1>3. CASE FollowRedirect
    <2>1. PICK d \in Declarations : d = ordered
      OBVIOUS
    <2>2. /\ ordered' \in Declarations /\ ordered'.type = ordered.type
          /\ ordered'.fixture = ordered.fixture
      BY <1>3, <2>1 DEF FollowRedirect, Declarations
    <2>3. QED BY <1>3, <2>2 DEF FollowRedirect
  <1>4. CASE BrowserOpens \/ BrowserAsserts
    BY <1>4 DEF BrowserOpens, BrowserAsserts
  <1>5. CASE FixtureStopped \/ StoreResult
    BY <1>5 DEF FixtureStopped, StoreResult
  <1>6. QED BY <1>1, <1>2, <1>3, <1>4, <1>5

\* A check that ends as the facts allow.
LEMMA CheckEndsKeep ==
  ASSUME ChecksIInv, NEW type, NEW with, Ends(type, with), with \subseteq Outcomes,
         "cancelled" \in with => aborted,
         "timed-out" \in with => expired,
         "passed" \in with => type = "browser" \/ reason = "none"
  PROVE  ChecksIInv'
  <1>1. stage \in Underway /\ result' \in with /\ ordered.type = type /\ stage' = "stopping"
    BY DEF Ends
  <1>2. "passed" \in with /\ type # "browser" => stage = "checking" /\ ~expired
    BY <1>1 DEF ChecksIInv, Underway, ChecksTypeOK
  <1>3. QED
    BY <1>1, <1>2
    DEF Ends, ChecksIInv, ChecksTypeOK, ChecksHold, FixtureKept, EndedAsTold, Places, Outcomes,
        Underway

LEMMA EndingKeeps ==
  ASSUME ChecksIInv, CliEnds \/ HttpEnds \/ BrowserFails \/ BrowserEnds PROVE ChecksIInv'
  <1>1. CutOutcome \in {"timed-out", "cancelled", "failed"}
        /\ (CutOutcome = "cancelled" => aborted) /\ (CutOutcome = "timed-out" => expired)
    BY DEF CutOutcome, ChecksIInv
  <1>2. CASE CliEnds
    BY <1>1, <1>2, CheckEndsKeep DEF CliEnds, Outcomes
  <1>3. CASE HttpEnds
    BY <1>1, <1>3, CheckEndsKeep DEF HttpEnds, Outcomes
  <1>4. CASE BrowserFails \/ BrowserEnds
    BY <1>4, CheckEndsKeep DEF BrowserFails, BrowserEnds, Outcomes
  <1>5. QED BY <1>2, <1>3, <1>4

LEMMA ChecksStepKeeps == ChecksIInv /\ [ChecksNext]_checkVars => ChecksIInv'
  <1> SUFFICES ASSUME ChecksIInv, [ChecksNext]_checkVars PROVE ChecksIInv'
    OBVIOUS
  <1>1. CASE UNCHANGED checkVars
    BY <1>1 DEF checkVars, ChecksIInv, ChecksTypeOK, ChecksHold, FixtureKept, EndedAsTold
  <1>2. QED
    BY <1>1, ReadyingKeeps, FixtureKeeps, CheckingKeeps, EndingKeeps DEF ChecksNext

LEMMA CheckTypesKept == ChecksIInv => ChecksTypeOK
  BY DEF ChecksIInv

\* Whenever a check is aborted, its time over, its fixture lost or its port taken: what it launched
\* is gone when its result is there, its fixture is not stopped under it unless it was aborted, and
\* its result says how it ended (executeOne, startFixture, runHttp, runBrowser).
THEOREM ChecksAlwaysHold == ChecksSpec => []ChecksHold
  <1>1. ChecksIInv => ChecksHold
    BY DEF ChecksIInv
  <1>2. QED BY <1>1, ChecksInitial, ChecksStepKeeps, PTL DEF ChecksSpec
=============================================================================
