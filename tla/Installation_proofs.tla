------------------------- MODULE Installation_proofs --------------------------
(***************************************************************************)
(* What is written onto a machine and into a project: one section per      *)
(* part, with its inductive invariant, the lemmas that its actions keep    *)
(* it, and what follows from it; last, all parts together.                 *)
(*                                                                         *)
(* The project lock, for any number of operations and recoveries, any      *)
(* number of locks ever created and any crashes: the project has at most   *)
(* one operation until an unlink removes a lock that nobody compared. The  *)
(* inductive invariant speaks of writers as well as holders: whoever has   *)
(* created a file serves its challenge (Serving), a lock once proven stale *)
(* stays so because ids are fresh (Stale), and until the first overtaken   *)
(* lock the file is the one its operation created (OnDisk).                *)
(*                                                                         *)
(* The wizard, for any number of processes that drive it and are killed    *)
(* between two writes: a call carries with it what it has saved so far     *)
(* (SavedFor), and nothing that was saved or recorded is taken back        *)
(* (OnlyMore).                                                             *)
(*                                                                         *)
(* The launchers: an operation keeps its announcement until the hash is    *)
(* written (Announcing), and holds only a launcher it has looked at        *)
(* (InHand). The code graph: two equal looks at the source, one before a   *)
(* build and one after it, mean that the build read that source            *)
(* (SyncKnows), and a query that asked another index than it saw will not  *)
(* see that one again (QueryKnows). Managed servers: what is recorded as   *)
(* Latchkit's was authorized, and so is what an apply is about to record   *)
(* or to put back (RecordedIsGranted, PlannedIsGranted, WritingIsGranted); *)
(* the bytes an apply computed spare the user's entries that it read       *)
(* (ComputedSpares); and while the number of changes stands still, what a  *)
(* launch has checked is what its provider will read (CheckIsCurrent). The *)
(* health check lists on an initialized connection only (ListsConnected).  *)
(***************************************************************************)
EXTENDS MCInstallation, InstallerTransaction_proofs, Updates_proofs, SequenceTheorems,
        FiniteSetTheorems

Ids == 1 .. made

\* The types, with the functions' domains.
LockTypes ==
  /\ made \in Nat /\ made <= MaxLocks
  /\ lock \in Ids \union {Free}
  /\ holding \in [Operators -> {Idle} \union [at : {"writing", "held"}, id : Ids]]
  /\ recovery \in [Recoverers -> {Bystander} \union [at : {"stale", "compared"}, id : Ids]]
  /\ answering \subseteq Ids /\ written \subseteq Ids
  /\ overtaken \in BOOLEAN

\* An operation under way owns an id of its own and serves its challenge; once it holds the
\* project, the bytes are on disk.
Serving ==
  \A p \in Operators :
    holding[p].at # "idle" =>
      /\ holding[p].id \in answering
      /\ holding[p].at = "held" => holding[p].id \in written
      /\ \A q \in Operators : holding[q].at # "idle" /\ holding[q].id = holding[p].id => p = q

\* What a recovery has proven stale nobody serves any more.
Stale == \A r \in Recoverers : recovery[r].at # "idle" => recovery[r].id \notin answering

\* Before a lock is overtaken, the file is the one the operation created.
OnDisk == ~overtaken => \A p \in Operators : holding[p].at # "idle" => lock = holding[p].id

LockIInv == LockTypes /\ Serving /\ Stale /\ OnDisk

-----------------------------------------------------------------------------
USE ProjectLockAssumption

\* The invariant holds of a project that nobody has locked yet.
LEMMA LockInitial == ProjectLockInit => LockIInv
  <1> SUFFICES ASSUME ProjectLockInit PROVE LockIInv
    OBVIOUS
  <1> USE DEF ProjectLockInit
  <1>a. holding \in [Operators -> {Idle} \union [at : {"writing", "held"}, id : Ids]]
    OBVIOUS
  <1>b. recovery \in [Recoverers -> {Bystander} \union [at : {"stale", "compared"}, id : Ids]]
    OBVIOUS
  <1>c. made \in Nat /\ made <= MaxLocks /\ lock \in Ids \union {Free}
    OBVIOUS
  <1>d. answering \subseteq Ids /\ written \subseteq Ids /\ overtaken \in BOOLEAN
    OBVIOUS
  <1>1. LockTypes BY <1>a, <1>b, <1>c, <1>d, Zenon DEF LockTypes
  <1> USE DEF Idle, Bystander
  <1>2. \A p \in Operators : holding[p].at = "idle"
    OBVIOUS
  <1>3. \A r \in Recoverers : recovery[r].at = "idle"
    OBVIOUS
  <1>4. QED BY <1>1, <1>2, <1>3 DEF LockIInv, Serving, Stale, OnDisk

\* open(target, 'wx') of a free lock: nobody else is under way, and the id is new.
LEMMA CreateKeeps == ASSUME LockIInv, NEW p \in Operators, CreateLock(p) PROVE LockIInv'
  <1> USE DEF LockIInv, CreateLock, Ids, Idle, Bystander
  <1>1. LockTypes' BY DEF LockTypes
  <1>2. \A q \in Operators : q # p => holding'[q] = holding[q]
    BY DEF LockTypes
  <1>3. holding'[p] = [at |-> "writing", id |-> made + 1]
    BY DEF LockTypes
  <1>4. \A q \in Operators : holding[q].at # "idle" => holding[q].id \in 1 .. made
    BY DEF LockTypes
  <1>5. Serving' BY <1>2, <1>3, <1>4 DEF LockTypes, Serving
  <1>6. Stale' BY DEF LockTypes, Stale
  <1>7. OnDisk' BY <1>2, <1>3, <1>4 DEF LockTypes, OnDisk
  <1>8. QED BY <1>1, <1>5, <1>6, <1>7

\* The metadata is written, or the endpoint is closed and an empty file stays.
LEMMA WriteKeeps == ASSUME LockIInv, NEW p \in Operators, WriteLock(p) PROVE LockIInv'
  <1> USE DEF LockIInv, WriteLock, Ids, Idle, Bystander
  <1>0. holding[p] \in [at : {"writing", "held"}, id : 1 .. made]
    BY DEF LockTypes
  <1>1. LockTypes' BY <1>0 DEF LockTypes
  <1>2. \A q \in Operators : q # p => holding'[q] = holding[q]
    BY DEF LockTypes
  <1>3. \/ holding'[p].at = "held" /\ holding'[p].id = holding[p].id
        \/ holding'[p].at = "idle"
    BY <1>0 DEF LockTypes
  <1>4. Serving' BY <1>0, <1>2, <1>3 DEF LockTypes, Serving
  <1>5. Stale' BY DEF LockTypes, Stale
  <1>6. OnDisk' BY <1>0, <1>2, <1>3 DEF LockTypes, OnDisk
  <1>7. QED BY <1>1, <1>4, <1>5, <1>6

\* release and the death of a process both stop serving one id; only the first may free the lock,
\* and only its own.
LEMMA LeaveKeeps == ASSUME LockIInv, NEW p \in Operators, ReleaseLock(p) \/ CrashHolder(p) PROVE LockIInv'
  <1> USE DEF LockIInv, ReleaseLock, CrashHolder, Ids, Idle, Bystander
  <1>0. holding[p] \in [at : {"writing", "held"}, id : 1 .. made]
    BY DEF LockTypes
  <1>1. LockTypes' BY <1>0 DEF LockTypes
  <1>2. \A q \in Operators : q # p => holding'[q] = holding[q]
    BY DEF LockTypes
  <1>3. holding'[p].at = "idle"
    BY DEF LockTypes
  <1>4. answering' = answering \ {holding[p].id} /\ written' = written /\ overtaken' = overtaken
    OBVIOUS
  <1>5. \A q \in Operators : holding'[q].at # "idle" => q # p /\ holding[q].id # holding[p].id
    BY <1>0, <1>2, <1>3 DEF Serving
  <1>6. Serving' BY <1>2, <1>4, <1>5 DEF Serving
  <1>7. Stale' BY <1>4 DEF Stale
  <1>8. OnDisk' BY <1>2, <1>4, <1>5 DEF OnDisk
  <1>9. QED BY <1>1, <1>6, <1>7, <1>8

\* A recovery looks and compares: it changes nothing of the lock, and what it has proven is
\* that the id refuses connections.
LEMMA LookKeeps == ASSUME LockIInv, NEW r \in Recoverers, InspectLock(r) \/ CompareLock(r) PROVE LockIInv'
  <1> DEFINE Seen == {Bystander} \union [at : {"stale", "compared"}, id : 1 .. made]
  <1> USE DEF LockIInv, InspectLock, CompareLock, Verdicts, Ids, Idle, Bystander
  <1>1. LockTypes'
    <2>1. PICK x : recovery' = [recovery EXCEPT ![r] = x] /\ x \in Seen
      <3>1. CASE InspectLock(r)
        BY <3>1 DEF LockTypes
      <3>2. CASE CompareLock(r) /\ lock = recovery[r].id
        <4>1. recovery[r].id \in 1 .. made
          BY <3>2 DEF LockTypes
        <4>2. [at |-> "compared", id |-> lock] \in Seen
          BY <3>2, <4>1
        <4>3. recovery' = [recovery EXCEPT ![r] = [at |-> "compared", id |-> lock]]
          BY <3>2
        <4>4. QED BY <4>2, <4>3
      <3>3. CASE CompareLock(r) /\ lock # recovery[r].id
        BY <3>3
      <3>4. QED BY <3>1, <3>2, <3>3
    <2>2. recovery' \in [Recoverers -> Seen]
      <3>1. recovery \in [Recoverers -> Seen]
        BY DEF LockTypes
      <3> HIDE DEF Seen
      <3>2. QED BY <2>1, <3>1
    <2>3. QED BY <2>2 DEF LockTypes
  <1>2. Serving' BY DEF Serving
  <1>3. Stale'
    <2>1. \A s \in Recoverers : s # r => recovery'[s] = recovery[s]
      BY DEF LockTypes
    <2>2. recovery'[r].at # "idle" => recovery'[r].id \notin answering
      BY DEF LockTypes, Stale
    <2>3. QED BY <2>1, <2>2 DEF Stale
  <1>4. OnDisk' BY DEF OnDisk
  <1>5. QED BY <1>1, <1>2, <1>3, <1>4

\* The unlink takes a served lock only by overtaking it.
LEMMA UnlinkKeeps == ASSUME LockIInv, NEW r \in Recoverers, UnlinkLock(r) PROVE LockIInv'
  <1> USE DEF LockIInv, UnlinkLock, Ids, Idle, Bystander
  <1>0. overtaken' \in BOOLEAN
    <2>1. (overtaken \/ lock \notin {Free, recovery[r].id}) \in BOOLEAN
      OBVIOUS
    <2>2. QED BY <2>1
  <1>1. LockTypes' BY <1>0 DEF LockTypes
  <1>2. Serving' BY DEF Serving
  <1>3. Stale'
    <2>1. \A s \in Recoverers : s # r => recovery'[s] = recovery[s]
      BY DEF LockTypes
    <2>2. recovery'[r].at = "idle"
      BY DEF LockTypes
    <2>3. QED BY <2>1, <2>2 DEF Stale
  <1>4. OnDisk'
    <2> SUFFICES ASSUME ~overtaken', NEW p \in Operators, holding'[p].at # "idle"
                 PROVE  FALSE
      BY DEF OnDisk
    <2>1. ~overtaken /\ lock \in {Free, recovery[r].id}
      OBVIOUS
    <2>2. lock = holding[p].id /\ holding[p].id \in answering
      BY <2>1 DEF OnDisk, Serving
    <2>3. lock # Free
      BY <2>2 DEF LockTypes
    <2>4. recovery[r].id \notin answering
      BY DEF Stale
    <2>5. QED BY <2>1, <2>2, <2>3, <2>4
  <1>5. QED BY <1>1, <1>2, <1>3, <1>4

\* What a person removes was written by nobody, so nobody holds the project by it.
LEMMA RemoveKeeps == ASSUME LockIInv, RemoveMalformed PROVE LockIInv'
  <1> USE DEF LockIInv, RemoveMalformed, Ids, Idle, Bystander
  <1>1. LockTypes' BY DEF LockTypes
  <1>2. Serving' BY DEF Serving
  <1>3. Stale' BY DEF Stale
  <1>4. OnDisk'
    <2> SUFFICES ASSUME ~overtaken, NEW p \in Operators, holding[p].at # "idle"
                 PROVE  FALSE
      BY DEF OnDisk
    <2>1. holding[p].at = "held"
      BY DEF LockTypes
    <2>2. lock = holding[p].id /\ holding[p].id \in written
      BY <2>1 DEF OnDisk, Serving
    <2>3. QED BY <2>2
  <1>5. QED BY <1>1, <1>2, <1>3, <1>4

LEMMA LockStepKeeps == LockIInv /\ [ProjectLockNext]_projectLockVars => LockIInv'
  <1> SUFFICES ASSUME LockIInv, [ProjectLockNext]_projectLockVars PROVE LockIInv'
    OBVIOUS
  <1>1. CASE \E p \in Operators : CreateLock(p) \/ WriteLock(p) \/ ReleaseLock(p) \/ CrashHolder(p)
    BY <1>1, CreateKeeps, WriteKeeps, LeaveKeeps
  <1>2. CASE \E r \in Recoverers : InspectLock(r) \/ CompareLock(r) \/ UnlinkLock(r)
    BY <1>2, LookKeeps, UnlinkKeeps
  <1>3. CASE RemoveMalformed
    BY <1>3, RemoveKeeps
  <1>4. CASE UNCHANGED projectLockVars
    BY <1>4 DEF projectLockVars, LockIInv, LockTypes, Serving, Stale, OnDisk, Ids
  <1>5. QED BY <1>1, <1>2, <1>3, <1>4 DEF ProjectLockNext

\* The invariant gives the property: two holders would own one id.
LEMMA IInvOne == LockIInv => OneOperation
  <1> SUFFICES ASSUME LockIInv, ~overtaken
               PROVE  /\ Cardinality(Holders) <= 1
                      /\ \A p \in Holders : lock = holding[p].id
    BY DEF OneOperation
  <1>1. \A p \in Holders : lock = holding[p].id
    BY DEF LockIInv, OnDisk, Holders
  <1>2. \A p, q \in Holders : p = q
    BY <1>1 DEF LockIInv, Serving, Holders
  <1>3. Holders = {} \/ \E p \in Holders : Holders = {p}
    BY <1>2
  <1>4. CASE Holders = {}
    BY <1>1, <1>4, FS_EmptySet
  <1>5. CASE \E p \in Holders : Holders = {p}
    <2>1. PICK p \in Holders : Holders = {p}
      BY <1>5
    <2>2. Cardinality(Holders) = 1
      BY <2>1, FS_Singleton
    <2>3. QED BY <1>1, <2>2
  <1>6. QED BY <1>3, <1>4, <1>5

LEMMA LockTypesKept == LockIInv => ProjectLockTypeOK
  BY DEF LockIInv, LockTypes, ProjectLockTypeOK, Ids

\* The types of the lock, for any processes and any number of locks (src/installer/lock.ts).
THEOREM LockTypesHold == ProjectLockSpec => []ProjectLockTypeOK
  BY LockTypesKept, LockInitial, LockStepKeeps, PTL DEF ProjectLockSpec

\* Whatever number of operations and recoveries race, crash and leave empty files: until a
\* recovery unlinks a lock that replaced the one it compared, one operation at a time holds the
\* project, and the file is its own (acquireProjectLock, removeProvenStaleLock).
THEOREM OneOperationAtATime == ProjectLockSpec => []OneOperation
  <1>1. QED BY LockInitial, LockStepKeeps, IInvOne, PTL DEF ProjectLockSpec

HIDE ProjectLockAssumption

-----------------------------------------------------------------------------
NeedsConfig == {"project", "providers", "workspace", "preview"}
Stores == {"verification", "usage"}
Ends == {"complete", "dismiss"}
WizardStatuses == {"not-started", "in-progress", "completed", "dismissed"}
Configs == [there : BOOLEAN, selection : {Default} \union Choices, workspace : {Default} \union Choices]
StepCalls == [at : {"init", "register", "save", "advance"}, step : WizardSteps, base : Configs]
PlainCalls == [at : {"idle", "offer", "start"}]
MarkCalls == [at : {"mark"}, how : Ends]
WizardProgress == [status : WizardStatuses, completed : SUBSET WizardSteps, skipped : SUBSET WizardSteps,
             ended : [Ends -> BOOLEAN]]

WizardCall(run) ==
  \/ run \in StepCalls
  \/ run \in PlainCalls
  \/ run \in MarkCalls

WizardTypes == DOMAIN wizard = Wizards /\ \A w \in Wizards : WizardCall(wizard[w])
SettingTypes == config \in Configs /\ settings \in [Stores -> BOOLEAN]
ProgressTypes ==
  progress \in WizardProgress /\ progress.completed \intersect progress.skipped = {} /\ handoff \in WizardStatuses

\* What a call has behind it when it gets where it is.
SavedFor(run) ==
  /\ run.at \in {"register", "save"} => config.there
  /\ run.at = "init" /\ run.step \in {"workspace", "preview"} => config.there /\ run.base.there
  /\ run.at = "save" => run.base.there /\ run.step = "providers"
  /\ run.at = "register" => run.step = "project"
  /\ run.at = "advance" /\ run.step \in NeedsConfig => config.there
  /\ run.at = "advance" /\ run.step \in Stores => settings[run.step]
  /\ run.at = "mark" => progress.ended[run.how]
SavedBefore == \A w \in Wizards : SavedFor(wizard[w])

\* RecordedIsSaved in parts.
StepsSaved ==
  /\ progress.completed \intersect NeedsConfig # {} => config.there
  /\ \A store \in Stores : store \in progress.completed => settings[store]
EndsRecorded ==
  /\ handoff = "completed" => progress.ended["complete"]
  /\ handoff = "dismissed" => progress.ended["dismiss"]
OneEntry == \A a, b \in registered : a.directory = b.directory => a = b

OnboardingIInv ==
  /\ WizardTypes /\ SettingTypes /\ ProgressTypes
  /\ SavedBefore /\ StepsSaved /\ EndsRecorded /\ OneEntry

-----------------------------------------------------------------------------
\* Nothing that was saved or recorded is taken back.
OnlyMore ==
  /\ config.there => config'.there
  /\ \A store \in Stores : settings[store] => settings'[store]
  /\ \A how \in Ends : progress.ended[how] => progress'.ended[how]

LEMMA CallStep ==
  ASSUME OnboardingIInv, OnlyMore, NEW w \in Wizards, NEW run, WizardCall(run),
         wizard' = [wizard EXCEPT ![w] = run], SavedFor(run)'
  PROVE  WizardTypes' /\ SavedBefore'
  <1>1. WizardTypes /\ SavedBefore
    BY DEF OnboardingIInv
  <1>2. DOMAIN wizard' = Wizards /\ \A x \in Wizards : wizard'[x] = IF x = w THEN run ELSE wizard[x]
    BY <1>1 DEF WizardTypes
  <1>3. WizardTypes'
    BY <1>1, <1>2 DEF WizardTypes
  <1>4. ASSUME NEW x \in Wizards, x # w PROVE SavedFor(wizard[x])'
    <2>1. wizard'[x] = wizard[x] /\ SavedFor(wizard[x]) /\ WizardCall(wizard[x])
      BY <1>1, <1>2, <1>4 DEF SavedBefore, WizardTypes
    <2>2. wizard'[x].at = "mark" => wizard'[x].how \in Ends
      BY <2>1 DEF WizardCall, StepCalls, PlainCalls, MarkCalls
    <2>4. PICK run2 : run2 = wizard'[x]
      OBVIOUS
    <2>5. SavedFor(run2) /\ (run2.at = "mark" => run2.how \in Ends)
      BY <2>1, <2>2, <2>4
    <2>6. SavedFor(run2)'
      BY <2>5 DEF SavedFor, OnlyMore
    <2>3. QED BY <2>4, <2>6 DEF SavedFor
  <1>5. SavedFor(wizard[w])'
    BY <1>2 DEF SavedFor
  <1>6. SavedBefore'
    BY <1>4, <1>5 DEF SavedBefore
  <1>7. QED BY <1>3, <1>6

\* The calls that have nothing behind them.
LEMMA PlainStep ==
  ASSUME OnboardingIInv, OnlyMore, NEW w \in Wizards, NEW run \in PlainCalls,
         wizard' = [wizard EXCEPT ![w] = run]
  PROVE  WizardTypes' /\ SavedBefore'
  <1>1. WizardCall(run) /\ SavedFor(run)'
    BY DEF WizardCall, SavedFor, PlainCalls
  <1>2. QED BY <1>1, CallStep

LEMMA BackToIdle == Waiting \in PlainCalls
  BY DEF PlainCalls, Waiting

LEMMA StillSaved ==
  ASSUME OnboardingIInv, UNCHANGED <<config, settings, progress>>
  PROVE  OnlyMore /\ SettingTypes' /\ StepsSaved' /\ (handoff' = handoff => ProgressTypes' /\ EndsRecorded')
  BY DEF OnboardingIInv, OnlyMore, SettingTypes, StepsSaved, ProgressTypes, EndsRecorded

\* A call begins, or goes on, or ends, without writing anything.
LEMMA CallOnlyKeeps ==
  ASSUME OnboardingIInv, NEW w \in Wizards,
         \/ \E stage \in WizardSteps : BeginStep(w, stage)
         \/ BeginRun(w) \/ WizardKilled(w)
  PROVE  OnboardingIInv'
  <1>0. UNCHANGED <<config, settings, progress, handoff, registered>>
    BY DEF BeginStep, BeginRun, WizardKilled
  <1>1. OnlyMore /\ SettingTypes' /\ StepsSaved' /\ ProgressTypes' /\ EndsRecorded'
    BY <1>0, StillSaved
  <1>2. OneEntry'
    BY <1>0 DEF OnboardingIInv, OneEntry
  <1>3. WizardTypes' /\ SavedBefore'
    <2>1. ASSUME NEW stage \in WizardSteps, BeginStep(w, stage) PROVE WizardTypes' /\ SavedBefore'
      <3> DEFINE run == [at |-> "init", step |-> stage, base |-> config]
      <3>1. wizard' = [wizard EXCEPT ![w] = run]
            /\ (stage \in {"workspace", "preview"} => config.there)
        BY <2>1 DEF BeginStep, Start
      <3>2. run \in StepCalls
        BY DEF OnboardingIInv, SettingTypes, StepCalls
      <3>3. WizardCall(run)
        BY <3>2 DEF WizardCall
      <3>4. PICK call : call = run
        OBVIOUS
      <3>5. SavedFor(call)'
        BY <1>0, <3>1, <3>4 DEF SavedFor
      <3>6. QED BY <1>1, <3>1, <3>3, <3>4, <3>5, CallStep
    <2>2. CASE BeginRun(w)
      <3>1. wizard' = [wizard EXCEPT ![w] =
                         [at |-> IF handoff = "completed" THEN "start" ELSE "offer"]]
        BY <2>2 DEF BeginRun, Start
      <3>2. PICK place \in {"offer", "start"} :
              place = IF handoff = "completed" THEN "start" ELSE "offer"
        OBVIOUS
      <3>3. [at |-> place] \in PlainCalls
        BY DEF PlainCalls
      <3>4. QED BY <1>1, <3>1, <3>2, <3>3, PlainStep
    <2>3. CASE WizardKilled(w)
      BY <1>1, <2>3, BackToIdle, PlainStep DEF WizardKilled, Return
    <2>4. QED BY <2>1, <2>2, <2>3
  <1>4. QED BY <1>1, <1>2, <1>3 DEF OnboardingIInv

LEMMA ConfigKeeps ==
  ASSUME OnboardingIInv, NEW w \in Wizards, InitProject(w) \/ SaveConfig(w)
  PROVE  OnboardingIInv'
  <1>0. UNCHANGED <<settings, progress, handoff, registered>>
    BY DEF InitProject, SaveConfig
  <1>1. /\ wizard[w] \in StepCalls /\ SavedFor(wizard[w]) /\ SettingTypes /\ DOMAIN wizard = Wizards
    BY DEF OnboardingIInv, WizardTypes, WizardCall, PlainCalls, MarkCalls, SavedBefore,
           InitProject, SaveConfig, AtPhase
  <1>2. config' \in Configs /\ config'.there
        /\ \E there \in {"register", "save", "advance"}, base \in Configs :
             /\ wizard' = [wizard EXCEPT ![w] = [wizard[w] EXCEPT !.at = there, !.base = base]]
             /\ there = "register" => wizard[w].step = "project"
             /\ there = "save" => wizard[w].step = "providers" /\ base.there
             /\ there = "advance" => wizard[w].step \in NeedsConfig
    <2>1. CASE InitProject(w)
      <3>1. PICK v \in Choices : config' = IF config.there THEN config
                 ELSE [there |-> TRUE, workspace |-> Default,
                       selection |-> IF wizard[w].step = "project" THEN v ELSE Default]
        BY <2>1 DEF InitProject
      <3>2. config' \in Configs /\ config'.there
        BY <1>1, <3>1 DEF Configs, SettingTypes
      <3>3. wizard' = [wizard EXCEPT ![w] = [wizard[w] EXCEPT
                         !.at = IF wizard[w].step = "project" THEN "register" ELSE "save",
                         !.base = config']]
            /\ wizard[w].step \in {"project", "providers"}
        BY <2>1 DEF InitProject
      <3>4. PICK there \in {"register", "save"} :
              there = IF wizard[w].step = "project" THEN "register" ELSE "save"
        OBVIOUS
      <3>5. QED BY <3>2, <3>3, <3>4
    <2>2. CASE SaveConfig(w)
      <3>1. wizard[w].base.there /\ wizard[w].step \in {"providers", "workspace"}
            /\ wizard[w].base \in Configs
        BY <1>1, <2>2 DEF SaveConfig, AtPhase, SavedFor, StepCalls
      <3>2. PICK v \in Choices :
              config' = IF wizard[w].step = "providers" THEN [wizard[w].base EXCEPT !.selection = v]
                        ELSE [wizard[w].base EXCEPT !.workspace = v]
        BY <2>2 DEF SaveConfig
      <3>3. config' \in Configs /\ config'.there
        BY <3>1, <3>2 DEF Configs
      <3>4. wizard' = [wizard EXCEPT ![w] = [wizard[w] EXCEPT !.at = "advance"]]
        BY <2>2 DEF SaveConfig, To
      <3>5. [wizard[w] EXCEPT !.at = "advance"]
              = [wizard[w] EXCEPT !.at = "advance", !.base = wizard[w].base]
        BY <1>1 DEF StepCalls
      <3>6. QED BY <3>1, <3>3, <3>4, <3>5 DEF NeedsConfig
    <2>3. QED BY <2>1, <2>2
  <1>3. PICK there \in {"register", "save", "advance"}, base \in Configs :
             /\ wizard' = [wizard EXCEPT ![w] = [wizard[w] EXCEPT !.at = there, !.base = base]]
             /\ there = "register" => wizard[w].step = "project"
             /\ there = "save" => wizard[w].step = "providers" /\ base.there
             /\ there = "advance" => wizard[w].step \in NeedsConfig
    BY <1>2
  <1>4. PICK run \in StepCalls : /\ wizard' = [wizard EXCEPT ![w] = run]
                                 /\ run.at = there /\ run.base = base /\ run.step = wizard[w].step
    <2>1. [wizard[w] EXCEPT !.at = there, !.base = base] \in StepCalls
      BY <1>1 DEF StepCalls
    <2>2. PICK run \in StepCalls : run = [wizard[w] EXCEPT !.at = there, !.base = base]
      BY <2>1
    <2>3. run.at = there /\ run.base = base /\ run.step = wizard[w].step
      BY <1>1, <2>2 DEF StepCalls
    <2>4. QED BY <1>3, <2>2, <2>3
  <1>5. OnlyMore /\ SettingTypes' /\ StepsSaved'
    BY <1>0, <1>2 DEF OnlyMore, OnboardingIInv, SettingTypes, StepsSaved
  <1>6. SavedFor(run)'
    BY <1>2, <1>3, <1>4 DEF SavedFor, NeedsConfig, Stores
  <1>7. WizardTypes' /\ SavedBefore'
    BY <1>4, <1>5, <1>6, CallStep DEF WizardCall
  <1>8. ProgressTypes' /\ EndsRecorded' /\ OneEntry'
    BY <1>0 DEF OnboardingIInv, ProgressTypes, EndsRecorded, OneEntry
  <1>9. QED BY <1>5, <1>7, <1>8 DEF OnboardingIInv

LEMMA SettingKeeps ==
  ASSUME OnboardingIInv, NEW w \in Wizards, SaveSetting(w) \/ RegisterProject(w)
  PROVE  OnboardingIInv'
  <1>0. UNCHANGED <<config, progress, handoff>>
    BY DEF SaveSetting, RegisterProject
  <1>1. wizard[w] \in StepCalls /\ SavedFor(wizard[w]) /\ SettingTypes
    BY DEF OnboardingIInv, WizardTypes, WizardCall, PlainCalls, MarkCalls, SavedBefore,
           SaveSetting, RegisterProject, AtPhase
  <1>2. PICK run \in StepCalls : /\ wizard' = [wizard EXCEPT ![w] = run]
                                 /\ run.at = "advance" /\ run.step = wizard[w].step
    <2>1. wizard' = [wizard EXCEPT ![w] = [wizard[w] EXCEPT !.at = "advance"]]
      BY DEF SaveSetting, RegisterProject, To
    <2>2. PICK run \in StepCalls : run = [wizard[w] EXCEPT !.at = "advance"]
      BY <1>1 DEF StepCalls
    <2>3. run.at = "advance" /\ run.step = wizard[w].step
      BY <1>1, <2>2 DEF StepCalls
    <2>4. QED BY <2>1, <2>2, <2>3
  <1>3. settings' \in [Stores -> BOOLEAN] /\ OneEntry'
        /\ (\A store \in Stores : settings[store] => settings'[store])
        /\ (run.step \in NeedsConfig => config.there) /\ (run.step \in Stores => settings'[run.step])
    <2>1. CASE SaveSetting(w)
      <3>1. /\ settings' = [store \in Stores |-> settings[store] \/ store = wizard[w].step]
            /\ UNCHANGED registered /\ wizard[w].at = "init"
            /\ wizard[w].step \in {"verification", "usage", "preview"}
        BY <1>1, <2>1 DEF SaveSetting, AtPhase, SettingTypes
      <3>2. \A store \in Stores : settings'[store] <=> settings[store] \/ store = wizard[w].step
        BY <3>1
      <3>3. settings' \in [Stores -> BOOLEAN]
        BY <3>1
      <3>4. OneEntry'
        BY <3>1 DEF OnboardingIInv, OneEntry
      <3>5. run.step \in NeedsConfig => config.there
        BY <1>1, <1>2, <3>1 DEF SavedFor, NeedsConfig
      <3>6. QED BY <1>2, <3>2, <3>3, <3>4, <3>5
    <2>2. CASE RegisterProject(w)
      <3>1. config.there /\ run.step = "project" /\ settings' = settings
        BY <1>1, <1>2, <2>2 DEF RegisterProject, AtPhase, SavedFor
      <3>2. OneEntry'
        BY <2>2 DEF RegisterProject, Upsert, SameRoot, OnboardingIInv, OneEntry
      <3>3. QED BY <1>1, <3>1, <3>2 DEF SettingTypes, NeedsConfig, Stores
    <2>3. QED BY <2>1, <2>2
  <1>4. OnlyMore /\ SettingTypes' /\ StepsSaved'
    BY <1>0, <1>1, <1>3 DEF OnlyMore, OnboardingIInv, SettingTypes, StepsSaved
  <1>5. SavedFor(run)'
    BY <1>0, <1>2, <1>3 DEF SavedFor
  <1>6. WizardTypes' /\ SavedBefore'
    BY <1>2, <1>4, <1>5, CallStep DEF WizardCall
  <1>7. ProgressTypes' /\ EndsRecorded'
    BY <1>0 DEF OnboardingIInv, ProgressTypes, EndsRecorded
  <1>8. QED BY <1>3, <1>4, <1>6, <1>7 DEF OnboardingIInv

\* The steps of the wizard's record.
LEMMA RecordKeeps ==
  ASSUME OnboardingIInv, NEW w \in Wizards,
         AdvanceStep(w) \/ SkipStep(w) \/ BackStep(w) \/ StartRun(w)
  PROVE  OnboardingIInv'
  <1>0. UNCHANGED <<config, settings, handoff, registered>>
    BY DEF AdvanceStep, SkipStep, BackStep, StartRun
  <1>1. progress \in WizardProgress /\ Resumed \in WizardStatuses /\ progress.completed \in SUBSET WizardSteps
        /\ progress.skipped \in SUBSET WizardSteps
        /\ progress.completed \intersect progress.skipped = {}
    BY DEF OnboardingIInv, ProgressTypes, WizardProgress, Resumed, WizardStatuses
  <1>2. PICK completed \in SUBSET WizardSteps, skipped \in SUBSET WizardSteps :
          /\ progress' = [progress EXCEPT !.status = Resumed, !.completed = completed, !.skipped = skipped]
          /\ completed \intersect skipped = {}
          /\ \A stage \in completed : stage \in progress.completed \/
               (AdvanceStep(w) /\ stage = wizard[w].step)
    <2>1. CASE AdvanceStep(w)
      <3>1. wizard[w].step \in WizardSteps
        BY <2>1 DEF AdvanceStep, AtPhase, OnboardingIInv, WizardTypes, WizardCall,
                   StepCalls, PlainCalls, MarkCalls
      <3>2. progress' = [progress EXCEPT !.status = Resumed,
                           !.completed = progress.completed \union {wizard[w].step},
                           !.skipped = progress.skipped \ {wizard[w].step}]
        BY <2>1 DEF AdvanceStep
      <3>3. PICK c \in SUBSET WizardSteps, k \in SUBSET WizardSteps :
              /\ c = progress.completed \union {wizard[w].step}
              /\ k = progress.skipped \ {wizard[w].step}
        BY <1>1, <3>1
      <3>4. /\ c \intersect k = {}
            /\ \A stage \in c : stage \in progress.completed \/ stage = wizard[w].step
        BY <1>1, <3>3
      <3>5. QED BY <2>1, <3>2, <3>3, <3>4
    <2>2. CASE SkipStep(w)
      <3>1. PICK stage \in WizardSteps :
              progress' = [progress EXCEPT !.status = Resumed,
                             !.completed = progress.completed \ {stage},
                             !.skipped = progress.skipped \union {stage}]
        BY <2>2 DEF SkipStep
      <3>0. stage \in WizardSteps
        OBVIOUS
      <3>2. PICK c \in SUBSET WizardSteps, k \in SUBSET WizardSteps :
              c = progress.completed \ {stage} /\ k = progress.skipped \union {stage}
        BY <1>1, <3>0
      <3>3. c \intersect k = {} /\ c \subseteq progress.completed
        BY <1>1, <3>2
      <3>4. QED BY <3>1, <3>2, <3>3, ZenonT(40)
    <2>3. CASE BackStep(w)
      <3>1. PICK stage \in WizardSteps :
              progress' = [progress EXCEPT !.status = Resumed,
                             !.completed = progress.completed \ {stage},
                             !.skipped = progress.skipped \ {stage}]
        BY <2>3 DEF BackStep
      <3>2. PICK c \in SUBSET WizardSteps, k \in SUBSET WizardSteps :
              c = progress.completed \ {stage} /\ k = progress.skipped \ {stage}
        BY <1>1
      <3>3. c \intersect k = {} /\ c \subseteq progress.completed
        BY <1>1, <3>2
      <3>4. QED BY <3>1, <3>2, <3>3, ZenonT(40)
    <2>4. CASE StartRun(w)
      <3>1. progress' = [progress EXCEPT !.status = Resumed, !.completed = progress.completed,
                                         !.skipped = progress.skipped]
        BY <1>1, <2>4 DEF StartRun, WizardProgress
      <3>2. QED BY <1>1, <3>1
    <2>5. QED BY <2>1, <2>2, <2>3, <2>4
  <1>3. /\ progress' \in WizardProgress /\ progress'.completed = completed /\ progress'.skipped = skipped
        /\ progress'.ended = progress.ended
    BY <1>1, <1>2 DEF WizardProgress
  <1>4. ProgressTypes' /\ EndsRecorded' /\ SettingTypes' /\ OneEntry' /\ OnlyMore
    BY <1>0, <1>2, <1>3
    DEF OnboardingIInv, ProgressTypes, EndsRecorded, SettingTypes, OneEntry, OnlyMore
  <1>5. StepsSaved'
    <2>1. AdvanceStep(w) => SavedFor(wizard[w]) /\ wizard[w].at = "advance"
      BY DEF OnboardingIInv, SavedBefore, AdvanceStep, AtPhase
    <2>2. QED BY <1>0, <1>2, <1>3, <2>1 DEF OnboardingIInv, StepsSaved, SavedFor
  <1>6. WizardTypes' /\ SavedBefore'
    <2>1. CASE wizard' = wizard
      <3>1. WizardTypes'
        BY <2>1 DEF OnboardingIInv, WizardTypes
      <3>2. SavedBefore'
        BY <1>0, <1>3, <2>1 DEF OnboardingIInv, SavedBefore, SavedFor
      <3>3. QED BY <3>1, <3>2
    <2>2. CASE Return(w)
      BY <1>4, <2>2, BackToIdle, PlainStep DEF Return
    <2>3. QED BY <2>1, <2>2 DEF AdvanceStep, SkipStep, BackStep, StartRun
  <1>7. QED BY <1>4, <1>5, <1>6 DEF OnboardingIInv

\* The run as a whole, for the project and for the machine.
LEMMA RunKeeps ==
  ASSUME OnboardingIInv, NEW w \in Wizards,
         MarkStarted(w) \/ MarkEnded(w) \/ \E how \in Ends : EndRun(w, how)
  PROVE  OnboardingIInv'
  <1>0. UNCHANGED <<config, settings, registered>>
    BY DEF MarkStarted, MarkEnded, EndRun
  <1>1. SettingTypes' /\ OneEntry'
    BY <1>0 DEF OnboardingIInv, SettingTypes, OneEntry
  <1>2. progress \in WizardProgress
    BY DEF OnboardingIInv, ProgressTypes
  <1>3. CASE MarkStarted(w)
    <2>1. handoff' = "in-progress" /\ UNCHANGED progress
      BY <1>3 DEF MarkStarted
    <2>2. OnlyMore /\ StepsSaved'
      BY <1>0, <2>1, StillSaved
    <2>3. ProgressTypes' /\ EndsRecorded'
      BY <2>1 DEF OnboardingIInv, ProgressTypes, EndsRecorded, WizardStatuses
    <2>4. PICK run \in PlainCalls : wizard' = [wizard EXCEPT ![w] = run]
      <3>1. wizard' = [wizard EXCEPT ![w] = [wizard[w] EXCEPT !.at = "start"]]
        BY <1>3 DEF MarkStarted, To
      <3>2. wizard[w] \in PlainCalls
        BY <1>3 DEF MarkStarted, AtPhase, OnboardingIInv, WizardTypes, WizardCall,
                    StepCalls, PlainCalls, MarkCalls
      <3>3. [wizard[w] EXCEPT !.at = "start"] \in PlainCalls
        BY <3>2 DEF PlainCalls
      <3>4. QED BY <3>1, <3>3
    <2>5. WizardTypes' /\ SavedBefore'
      BY <2>2, <2>4, PlainStep
    <2>6. QED BY <1>1, <2>2, <2>3, <2>5 DEF OnboardingIInv
  <1>4. CASE MarkEnded(w)
    <2>1. wizard[w].at = "mark" /\ handoff' = MarkOf(wizard[w].how) /\ UNCHANGED progress /\ Return(w)
      BY <1>4 DEF MarkEnded, AtPhase
    <2>2. wizard[w].how \in Ends /\ progress.ended[wizard[w].how]
      BY <2>1 DEF OnboardingIInv, WizardTypes, WizardCall, StepCalls, PlainCalls, MarkCalls,
                  SavedBefore, SavedFor
    <2>3. OnlyMore /\ StepsSaved'
      BY <1>0, <2>1, StillSaved
    <2>4. ProgressTypes' /\ EndsRecorded'
      BY <2>1, <2>2 DEF OnboardingIInv, ProgressTypes, EndsRecorded, WizardStatuses, MarkOf, Ends
    <2>5. WizardTypes' /\ SavedBefore'
      BY <2>1, <2>3, BackToIdle, PlainStep DEF Return
    <2>6. QED BY <1>1, <2>3, <2>4, <2>5 DEF OnboardingIInv
  <1>5. ASSUME NEW how \in Ends, EndRun(w, how) PROVE OnboardingIInv'
    <2>1. /\ wizard' = [wizard EXCEPT ![w] = [at |-> "mark", how |-> how]] /\ UNCHANGED handoff
          /\ progress' = [progress EXCEPT !.status = MarkOf(how),
                                          !.ended = [progress.ended EXCEPT ![how] = TRUE]]
      BY <1>5 DEF EndRun, Start
    <2>2. MarkOf(how) \in WizardStatuses
      BY DEF MarkOf, WizardStatuses
    <2>3. /\ progress' \in WizardProgress /\ progress'.completed = progress.completed
          /\ progress'.skipped = progress.skipped
          /\ \A h \in Ends : progress'.ended[h] <=> (h = how \/ progress.ended[h])
      BY <1>2, <2>1, <2>2 DEF WizardProgress
    <2>4. OnlyMore /\ StepsSaved' /\ ProgressTypes' /\ EndsRecorded'
      BY <1>0, <2>1, <2>3
      DEF OnboardingIInv, OnlyMore, StepsSaved, ProgressTypes, EndsRecorded, Ends
    <2>5. PICK run : run = [at |-> "mark", how |-> how]
      OBVIOUS
    <2>6. WizardCall(run) /\ SavedFor(run)'
      BY <2>3, <2>5 DEF WizardCall, SavedFor, MarkCalls
    <2>7. WizardTypes' /\ SavedBefore'
      BY <2>1, <2>4, <2>5, <2>6, CallStep
    <2>8. QED BY <1>1, <2>4, <2>7 DEF OnboardingIInv
  <1>6. QED BY <1>3, <1>4, <1>5

LEMMA OnboardingInitial == OnboardingInit => OnboardingIInv
  <1> SUFFICES ASSUME OnboardingInit PROVE OnboardingIInv
    OBVIOUS
  <1>1. WizardTypes /\ SavedBefore
    BY DEF OnboardingInit, WizardTypes, WizardCall, PlainCalls, SavedBefore, SavedFor, Waiting
  <1>2. SettingTypes
    BY DEF OnboardingInit, SettingTypes, Configs, Stores
  <1>3. ProgressTypes
    <2>1. progress = [status |-> "not-started", completed |-> {}, skipped |-> {},
                      ended |-> [how \in {"complete", "dismiss"} |-> FALSE]]
          /\ handoff = "not-started"
      BY DEF OnboardingInit
    <2>2. [how \in {"complete", "dismiss"} |-> FALSE] \in [Ends -> BOOLEAN]
      BY DEF Ends
    <2>3. progress \in WizardProgress
      BY <2>1, <2>2 DEF WizardProgress, WizardStatuses
    <2>4. progress.completed \intersect progress.skipped = {}
      BY <2>1
    <2>5. QED BY <2>1, <2>3, <2>4 DEF ProgressTypes, WizardStatuses
  <1>4. StepsSaved /\ EndsRecorded /\ OneEntry
    BY DEF OnboardingInit, StepsSaved, EndsRecorded, OneEntry
  <1>5. QED BY <1>1, <1>2, <1>3, <1>4 DEF OnboardingIInv

LEMMA OnboardingStep == OnboardingIInv /\ [OnboardingNext]_onboardingVars => OnboardingIInv'
  <1> SUFFICES ASSUME OnboardingIInv, [OnboardingNext]_onboardingVars PROVE OnboardingIInv'
    OBVIOUS
  <1>1. CASE RemoveProject \/ UNCHANGED onboardingVars
    <2>1. UNCHANGED <<config, settings, progress, handoff, wizard>> /\ registered' \subseteq registered
      BY <1>1 DEF RemoveProject, onboardingVars
    <2>2. SettingTypes' /\ StepsSaved' /\ ProgressTypes' /\ EndsRecorded'
      BY <2>1, StillSaved
    <2>3. OneEntry' /\ WizardTypes'
      BY <2>1 DEF OnboardingIInv, OneEntry, WizardTypes
    <2>4. SavedBefore'
      BY <2>1 DEF OnboardingIInv, SavedBefore, SavedFor
    <2>5. QED BY <2>2, <2>3, <2>4 DEF OnboardingIInv
  <1>2. CASE OnboardingNext /\ ~RemoveProject
    BY <1>2, CallOnlyKeeps, ConfigKeeps, SettingKeeps, RecordKeeps, RunKeeps
    DEF OnboardingNext, Ends
  <1>3. QED BY <1>1, <1>2

\* The inductive invariant, for any number of wizards, choices, directories and kills
\* (src/onboarding).
THEOREM OnboardingInvariant == OnboardingSpec => []OnboardingIInv
  BY OnboardingInitial, OnboardingStep, PTL DEF OnboardingSpec

LEMMA OnboardingTypesKept == OnboardingIInv => OnboardingTypeOK
  BY DEF OnboardingIInv, ProgressTypes, WizardProgress, WizardStatuses, OnboardingTypeOK

\* The types of the wizard's records.
THEOREM OnboardingTypes == OnboardingSpec => []OnboardingTypeOK
  BY OnboardingTypesKept, OnboardingInvariant, PTL

\* Wherever any number of wizards are killed: a step that is recorded as completed has its
\* setting in the store it lives in, the machine calls a run ended only when the project has
\* recorded it, and a directory has one entry in the registry (advanceStep, completeOnboarding,
\* registerProject).
THEOREM RecordedIsSavedAlways == OnboardingSpec => []RecordedIsSaved
  <1>1. ASSUME OnboardingIInv PROVE RecordedIsSaved
    <2>1. DOMAIN settings = Stores
      BY <1>1 DEF OnboardingIInv, SettingTypes
    <2>2. QED
      BY <1>1, <2>1
      DEF OnboardingIInv, RecordedIsSaved, StepsSaved, EndsRecorded, OneEntry, NeedsConfig
  <1>2. QED BY <1>1, OnboardingInvariant, PTL

-----------------------------------------------------------------------------
LauncherBytes == Templates \union {Edited, Missing}
Owners == Templates \union {Nowhere}
Intents == {NoIntent} \union [at : Launcher, next : Templates]

\* An operation works on the launchers it has still to do; what it will write or remove is one
\* of them.
RestingAt == {Nowhere} \union Launcher
WriteSteps == {"recover", "announce", "place", "own", "clear"}
Writes == [kind : {"install", "rollback"}, step : WriteSteps, version : RuntimeVersions,
           template : Templates, todo : SUBSET Launcher, seen : LauncherBytes, at : RestingAt]
Removals == [kind : {"uninstall"}, step : {"recover", "remove", "disown"},
             todo : SUBSET Launcher, seen : LauncherBytes, at : RestingAt]
Operations == {NoOp} \union Writes \union Removals

LauncherTypes ==
  /\ launcher \in [Launcher -> LauncherBytes]
  /\ owned \in [Launcher -> Owners]
  /\ intent \in Intents
  /\ versions \subseteq RuntimeVersions
  /\ current \in versions \union {Nowhere}
  /\ op \in Operations

\* Who is past the look has a launcher in hand, which was not edited when it was seen.
InHand == op.kind # "none" /\ op.step # "recover" => op.at \in Launcher /\ op.seen # Edited

\* An operation keeps its announcement until the hash is written, and its version.
Announcing ==
  op.kind \in {"install", "rollback"} =>
    /\ op.version \in versions
    /\ op.step = "announce" => intent = NoIntent
    /\ op.step \in {"place", "own", "clear"} => intent = [at |-> op.at, next |-> op.template]
    /\ op.step \in {"own", "clear"} => launcher[op.at] \in {op.template, Edited}
    /\ op.step = "clear" => owned[op.at] = op.template

\* A removal has no announcement under way, and forgets a hash only of what is gone.
Removing ==
  op.kind = "uninstall" =>
    /\ current = Nowhere
    /\ op.step = "disown" => launcher[op.at] \in {Missing, Edited}

\* What an operation has done is there: it can turn the pointer when nothing is left.
DoneIsThere ==
  op.kind \in {"install", "rollback"} => \A l \in Commands \ op.todo : launcher[l] # Missing

LaunchersIInv ==
  /\ LauncherTypes /\ InHand /\ Announcing /\ Removing /\ DoneIsThere
  /\ WrittenIsOwned /\ ActiveHasLaunchers

-----------------------------------------------------------------------------
USE LaunchersAssumption

LEMMA InstallKeeps ==
  ASSUME LaunchersIInv, NEW v \in RuntimeVersions, NEW t \in Templates, Install(v, t)
  PROVE  LaunchersIInv'
  <1> USE DEF LaunchersIInv, Install, PhaseIs, Working, Writing, Go
  <1>1. LauncherTypes'
    BY DEF LauncherTypes, Writes, Removals, Operations, WriteSteps, RestingAt, LauncherBytes,
           Owners, Intents, NoOp, NoIntent
  <1>2. InHand'
    BY DEF LauncherTypes, InHand, Writes, Removals, Operations, WriteSteps, RestingAt,
           LauncherBytes, Owners, Intents, NoOp, NoIntent
  <1>3. Announcing'
    BY DEF LauncherTypes, InHand, Announcing, Writes, Removals, Operations, WriteSteps,
           RestingAt, LauncherBytes, Owners, Intents, NoOp, NoIntent
  <1>4. Removing'
    BY DEF LauncherTypes, InHand, Removing, Writes, Removals, Operations, WriteSteps, RestingAt,
           LauncherBytes, Owners, Intents, NoOp, NoIntent
  <1>5. DoneIsThere'
    <2>1. Commands \ op'.todo = {}
      BY DEF Launcher
    <2>2. QED BY <2>1 DEF DoneIsThere
  <1>6. WrittenIsOwned'
    BY DEF LauncherTypes, InHand, Announcing, Removing, WrittenIsOwned, Announced, Writes,
           Removals, Operations, WriteSteps, RestingAt, LauncherBytes, Owners, Intents, NoOp,
              NoIntent
  <1>7. ActiveHasLaunchers'
    BY DEF LauncherTypes, InHand, Removing, DoneIsThere, ActiveHasLaunchers, Launcher, Writes,
           Removals, Operations, WriteSteps, RestingAt, LauncherBytes, Owners, Intents, NoOp,
              NoIntent
  <1>8. QED BY <1>1, <1>2, <1>3, <1>4, <1>5, <1>6, <1>7

LEMMA RollbackKeeps ==
  ASSUME LaunchersIInv, NEW v \in RuntimeVersions, NEW t \in Templates, Rollback(v, t)
  PROVE  LaunchersIInv'
  <1> USE DEF LaunchersIInv, Rollback, PhaseIs, Working, Writing, Go
  <1>1. LauncherTypes'
    <2>1. op' \in Writes
      BY DEF LauncherTypes, Writes, WriteSteps, RestingAt, LauncherBytes, Launcher
    <2>2. QED BY <2>1 DEF LauncherTypes, Operations
  <1>2. InHand'
    BY DEF LauncherTypes, InHand, Writes, Removals, Operations, WriteSteps, RestingAt,
           LauncherBytes, Owners, Intents, NoOp, NoIntent
  <1>3. Announcing'
    BY DEF LauncherTypes, InHand, Announcing, Writes, Removals, Operations, WriteSteps,
           RestingAt, LauncherBytes, Owners, Intents, NoOp, NoIntent
  <1>4. Removing'
    BY DEF LauncherTypes, InHand, Removing, Writes, Removals, Operations, WriteSteps, RestingAt,
           LauncherBytes, Owners, Intents, NoOp, NoIntent
  <1>5. DoneIsThere'
    BY DEF LauncherTypes, InHand, Announcing, DoneIsThere, Writes, Removals, Operations,
           WriteSteps, RestingAt, LauncherBytes, Owners, Intents, NoOp, NoIntent
  <1>6. WrittenIsOwned'
    BY DEF LauncherTypes, InHand, Announcing, Removing, WrittenIsOwned, Announced, Writes,
           Removals, Operations, WriteSteps, RestingAt, LauncherBytes, Owners, Intents, NoOp,
              NoIntent
  <1>7. ActiveHasLaunchers'
    BY DEF LauncherTypes, InHand, Removing, DoneIsThere, ActiveHasLaunchers, Launcher, Writes,
           Removals, Operations, WriteSteps, RestingAt, LauncherBytes, Owners, Intents, NoOp,
              NoIntent
  <1>8. QED BY <1>1, <1>2, <1>3, <1>4, <1>5, <1>6, <1>7

LEMMA UninstallKeeps ==
  ASSUME LaunchersIInv, Uninstall
  PROVE  LaunchersIInv'
  <1> USE DEF LaunchersIInv, Uninstall, PhaseIs, Working, Writing, Go
  <1>1. LauncherTypes'
    <2>1. op' \in Removals
      BY DEF LauncherTypes, Removals, RestingAt, LauncherBytes, Launcher
    <2>2. QED BY <2>1 DEF LauncherTypes, Operations
  <1>2. InHand'
    BY DEF LauncherTypes, InHand, Writes, Removals, Operations, WriteSteps, RestingAt,
           LauncherBytes, Owners, Intents, NoOp, NoIntent
  <1>3. Announcing'
    BY DEF LauncherTypes, InHand, Announcing, Writes, Removals, Operations, WriteSteps,
           RestingAt, LauncherBytes, Owners, Intents, NoOp, NoIntent
  <1>4. Removing'
    BY DEF LauncherTypes, InHand, Removing, Writes, Removals, Operations, WriteSteps, RestingAt,
           LauncherBytes, Owners, Intents, NoOp, NoIntent
  <1>5. DoneIsThere'
    BY DEF LauncherTypes, InHand, Announcing, DoneIsThere, Writes, Removals, Operations,
           WriteSteps, RestingAt, LauncherBytes, Owners, Intents, NoOp, NoIntent
  <1>6. WrittenIsOwned'
    BY DEF LauncherTypes, InHand, Announcing, Removing, WrittenIsOwned, Announced, Writes,
           Removals, Operations, WriteSteps, RestingAt, LauncherBytes, Owners, Intents, NoOp,
              NoIntent
  <1>7. ActiveHasLaunchers'
    BY DEF LauncherTypes, InHand, Removing, DoneIsThere, ActiveHasLaunchers, Launcher, Writes,
           Removals, Operations, WriteSteps, RestingAt, LauncherBytes, Owners, Intents, NoOp,
              NoIntent
  <1>8. QED BY <1>1, <1>2, <1>3, <1>4, <1>5, <1>6, <1>7

LEMMA AdoptAnnouncedKeeps ==
  ASSUME LaunchersIInv, AdoptAnnounced
  PROVE  LaunchersIInv'
  <1> USE DEF LaunchersIInv, AdoptAnnounced, PhaseIs, Working, Writing, Go
  <1>1. LauncherTypes'
    BY DEF LauncherTypes, Writes, Removals, Operations, WriteSteps, RestingAt, LauncherBytes,
           Owners, Intents, NoOp, NoIntent, Announced
  <1>2. InHand'
    BY DEF LauncherTypes, InHand, Writes, Removals, Operations, WriteSteps, RestingAt,
           LauncherBytes, Owners, Intents, NoOp, NoIntent, Announced
  <1>3. Announcing'
    BY DEF LauncherTypes, InHand, Announcing, Writes, Removals, Operations, WriteSteps,
           RestingAt, LauncherBytes, Owners, Intents, NoOp, NoIntent, Announced
  <1>4. Removing'
    BY DEF LauncherTypes, InHand, Removing, Writes, Removals, Operations, WriteSteps, RestingAt,
           LauncherBytes, Owners, Intents, NoOp, NoIntent, Announced
  <1>5. DoneIsThere'
    BY DEF LauncherTypes, InHand, Announcing, DoneIsThere, Writes, Removals, Operations,
           WriteSteps, RestingAt, LauncherBytes, Owners, Intents, NoOp, NoIntent, Announced
  <1>6. WrittenIsOwned'
    BY DEF LauncherTypes, InHand, Announcing, Removing, WrittenIsOwned, Announced, Writes,
           Removals, Operations, WriteSteps, RestingAt, LauncherBytes, Owners, Intents, NoOp,
              NoIntent
  <1>7. ActiveHasLaunchers'
    BY DEF LauncherTypes, InHand, Removing, DoneIsThere, ActiveHasLaunchers, Launcher, Writes,
           Removals, Operations, WriteSteps, RestingAt, LauncherBytes, Owners, Intents, NoOp,
              NoIntent, Announced
  <1>8. QED BY <1>1, <1>2, <1>3, <1>4, <1>5, <1>6, <1>7

LEMMA ClearIntentKeeps ==
  ASSUME LaunchersIInv, ClearIntent
  PROVE  LaunchersIInv'
  <1> USE DEF LaunchersIInv, ClearIntent, PhaseIs, Working, Writing, Go
  <1>1. LauncherTypes'
    BY DEF LauncherTypes, Writes, Removals, Operations, WriteSteps, RestingAt, LauncherBytes,
           Owners, Intents, NoOp, NoIntent, Announced
  <1>2. InHand'
    BY DEF LauncherTypes, InHand, Writes, Removals, Operations, WriteSteps, RestingAt,
           LauncherBytes, Owners, Intents, NoOp, NoIntent, Announced
  <1>3. Announcing'
    BY DEF LauncherTypes, InHand, Announcing, Writes, Removals, Operations, WriteSteps,
           RestingAt, LauncherBytes, Owners, Intents, NoOp, NoIntent, Announced
  <1>4. Removing'
    BY DEF LauncherTypes, InHand, Removing, Writes, Removals, Operations, WriteSteps, RestingAt,
           LauncherBytes, Owners, Intents, NoOp, NoIntent, Announced
  <1>5. DoneIsThere'
    BY DEF LauncherTypes, InHand, Announcing, DoneIsThere, Writes, Removals, Operations,
           WriteSteps, RestingAt, LauncherBytes, Owners, Intents, NoOp, NoIntent, Announced
  <1>6. WrittenIsOwned'
    BY DEF LauncherTypes, InHand, Announcing, Removing, WrittenIsOwned, Announced, Writes,
           Removals, Operations, WriteSteps, RestingAt, LauncherBytes, Owners, Intents, NoOp,
              NoIntent
  <1>7. ActiveHasLaunchers'
    BY DEF LauncherTypes, InHand, Removing, DoneIsThere, ActiveHasLaunchers, Launcher, Writes,
           Removals, Operations, WriteSteps, RestingAt, LauncherBytes, Owners, Intents, NoOp,
              NoIntent, Announced
  <1>8. QED BY <1>1, <1>2, <1>3, <1>4, <1>5, <1>6, <1>7

LEMMA LookAtKeeps ==
  ASSUME LaunchersIInv, NEW l \in Launcher, LookAt(l)
  PROVE  LaunchersIInv'
  <1> USE DEF LaunchersIInv, LookAt, PhaseIs, Working, Writing, Go
  <1>1. LauncherTypes'
    BY DEF LauncherTypes, Writes, Removals, Operations, WriteSteps, RestingAt, LauncherBytes,
           Owners, Intents, NoOp, NoIntent, OwnedOrMissing
  <1>2. InHand'
    BY DEF LauncherTypes, InHand, Writes, Removals, Operations, WriteSteps, RestingAt,
           LauncherBytes, Owners, Intents, NoOp, NoIntent, OwnedOrMissing
  <1>3. Announcing'
    BY DEF LauncherTypes, InHand, Announcing, Writes, Removals, Operations, WriteSteps,
           RestingAt, LauncherBytes, Owners, Intents, NoOp, NoIntent, OwnedOrMissing
  <1>4. Removing'
    BY DEF LauncherTypes, InHand, Removing, Writes, Removals, Operations, WriteSteps, RestingAt,
           LauncherBytes, Owners, Intents, NoOp, NoIntent, OwnedOrMissing
  <1>5. DoneIsThere'
    BY DEF LauncherTypes, InHand, Announcing, DoneIsThere, Writes, Removals, Operations,
           WriteSteps, RestingAt, LauncherBytes, Owners, Intents, NoOp, NoIntent, OwnedOrMissing
  <1>6. WrittenIsOwned'
    BY DEF LauncherTypes, InHand, Announcing, Removing, WrittenIsOwned, Announced, Writes,
           Removals, Operations, WriteSteps, RestingAt, LauncherBytes, Owners, Intents, NoOp,
              NoIntent, OwnedOrMissing
  <1>7. ActiveHasLaunchers'
    BY DEF LauncherTypes, InHand, Removing, DoneIsThere, ActiveHasLaunchers, Launcher, Writes,
           Removals, Operations, WriteSteps, RestingAt, LauncherBytes, Owners, Intents, NoOp,
              NoIntent, OwnedOrMissing
  <1>8. QED BY <1>1, <1>2, <1>3, <1>4, <1>5, <1>6, <1>7

LEMMA RefuseEditedKeeps ==
  ASSUME LaunchersIInv, NEW l \in Launcher, RefuseEdited(l)
  PROVE  LaunchersIInv'
  <1> USE DEF LaunchersIInv, RefuseEdited, PhaseIs, Working, Writing, Go
  <1>1. LauncherTypes'
    BY DEF LauncherTypes, Writes, Removals, Operations, WriteSteps, RestingAt, LauncherBytes,
           Owners, Intents, NoOp, NoIntent, OwnedOrMissing
  <1>2. InHand'
    BY DEF LauncherTypes, InHand, Writes, Removals, Operations, WriteSteps, RestingAt,
           LauncherBytes, Owners, Intents, NoOp, NoIntent, OwnedOrMissing
  <1>3. Announcing'
    BY DEF LauncherTypes, InHand, Announcing, Writes, Removals, Operations, WriteSteps,
           RestingAt, LauncherBytes, Owners, Intents, NoOp, NoIntent, OwnedOrMissing
  <1>4. Removing'
    BY DEF LauncherTypes, InHand, Removing, Writes, Removals, Operations, WriteSteps, RestingAt,
           LauncherBytes, Owners, Intents, NoOp, NoIntent, OwnedOrMissing
  <1>5. DoneIsThere'
    BY DEF LauncherTypes, InHand, Announcing, DoneIsThere, Writes, Removals, Operations,
           WriteSteps, RestingAt, LauncherBytes, Owners, Intents, NoOp, NoIntent, OwnedOrMissing
  <1>6. WrittenIsOwned'
    BY DEF LauncherTypes, InHand, Announcing, Removing, WrittenIsOwned, Announced, Writes,
           Removals, Operations, WriteSteps, RestingAt, LauncherBytes, Owners, Intents, NoOp,
              NoIntent, OwnedOrMissing
  <1>7. ActiveHasLaunchers'
    BY DEF LauncherTypes, InHand, Removing, DoneIsThere, ActiveHasLaunchers, Launcher, Writes,
           Removals, Operations, WriteSteps, RestingAt, LauncherBytes, Owners, Intents, NoOp,
              NoIntent, OwnedOrMissing
  <1>8. QED BY <1>1, <1>2, <1>3, <1>4, <1>5, <1>6, <1>7

LEMMA LookAtOwnedKeeps ==
  ASSUME LaunchersIInv, NEW l \in Launcher, LookAtOwned(l)
  PROVE  LaunchersIInv'
  <1> USE DEF LaunchersIInv, LookAtOwned, PhaseIs, Working, Writing, Go
  <1>1. LauncherTypes'
    BY DEF LauncherTypes, Writes, Removals, Operations, WriteSteps, RestingAt, LauncherBytes,
           Owners, Intents, NoOp, NoIntent, OwnedOrMissing
  <1>2. InHand'
    BY DEF LauncherTypes, InHand, Writes, Removals, Operations, WriteSteps, RestingAt,
           LauncherBytes, Owners, Intents, NoOp, NoIntent, OwnedOrMissing
  <1>3. Announcing'
    BY DEF LauncherTypes, InHand, Announcing, Writes, Removals, Operations, WriteSteps,
           RestingAt, LauncherBytes, Owners, Intents, NoOp, NoIntent, OwnedOrMissing
  <1>4. Removing'
    BY DEF LauncherTypes, InHand, Removing, Writes, Removals, Operations, WriteSteps, RestingAt,
           LauncherBytes, Owners, Intents, NoOp, NoIntent, OwnedOrMissing
  <1>5. DoneIsThere'
    BY DEF LauncherTypes, InHand, Announcing, DoneIsThere, Writes, Removals, Operations,
           WriteSteps, RestingAt, LauncherBytes, Owners, Intents, NoOp, NoIntent, OwnedOrMissing
  <1>6. WrittenIsOwned'
    BY DEF LauncherTypes, InHand, Announcing, Removing, WrittenIsOwned, Announced, Writes,
           Removals, Operations, WriteSteps, RestingAt, LauncherBytes, Owners, Intents, NoOp,
              NoIntent, OwnedOrMissing
  <1>7. ActiveHasLaunchers'
    BY DEF LauncherTypes, InHand, Removing, DoneIsThere, ActiveHasLaunchers, Launcher, Writes,
           Removals, Operations, WriteSteps, RestingAt, LauncherBytes, Owners, Intents, NoOp,
              NoIntent, OwnedOrMissing
  <1>8. QED BY <1>1, <1>2, <1>3, <1>4, <1>5, <1>6, <1>7

LEMMA SkipUnownedKeeps ==
  ASSUME LaunchersIInv, NEW l \in Launcher, SkipUnowned(l)
  PROVE  LaunchersIInv'
  <1> USE DEF LaunchersIInv, SkipUnowned, PhaseIs, Working, Writing, Go
  <1>1. LauncherTypes'
    BY DEF LauncherTypes, Writes, Removals, Operations, WriteSteps, RestingAt, LauncherBytes,
           Owners, Intents, NoOp, NoIntent
  <1>2. InHand'
    BY DEF LauncherTypes, InHand, Writes, Removals, Operations, WriteSteps, RestingAt,
           LauncherBytes, Owners, Intents, NoOp, NoIntent
  <1>3. Announcing'
    BY DEF LauncherTypes, InHand, Announcing, Writes, Removals, Operations, WriteSteps,
           RestingAt, LauncherBytes, Owners, Intents, NoOp, NoIntent
  <1>4. Removing'
    BY DEF LauncherTypes, InHand, Removing, Writes, Removals, Operations, WriteSteps, RestingAt,
           LauncherBytes, Owners, Intents, NoOp, NoIntent
  <1>5. DoneIsThere'
    BY DEF LauncherTypes, InHand, Announcing, DoneIsThere, Writes, Removals, Operations,
           WriteSteps, RestingAt, LauncherBytes, Owners, Intents, NoOp, NoIntent
  <1>6. WrittenIsOwned'
    BY DEF LauncherTypes, InHand, Announcing, Removing, WrittenIsOwned, Announced, Writes,
           Removals, Operations, WriteSteps, RestingAt, LauncherBytes, Owners, Intents, NoOp,
              NoIntent
  <1>7. ActiveHasLaunchers'
    BY DEF LauncherTypes, InHand, Removing, DoneIsThere, ActiveHasLaunchers, Launcher, Writes,
           Removals, Operations, WriteSteps, RestingAt, LauncherBytes, Owners, Intents, NoOp,
              NoIntent
  <1>8. QED BY <1>1, <1>2, <1>3, <1>4, <1>5, <1>6, <1>7

LEMMA AnnounceKeeps ==
  ASSUME LaunchersIInv, Announce
  PROVE  LaunchersIInv'
  <1> USE DEF LaunchersIInv, Announce, PhaseIs, Working, Writing, Go
  <1>1. LauncherTypes'
    <2>1. op \in Writes
      BY DEF LauncherTypes, Writes, Removals, Operations, WriteSteps, RestingAt, LauncherBytes,
             Owners, Intents, NoOp, NoIntent
    <2>2. op' \in Writes
      BY <2>1 DEF Writes, WriteSteps
    <2>3. op.at \in Launcher /\ op.template \in Templates
      BY <2>1 DEF InHand, Writes
    <2>4. QED BY <2>2, <2>3 DEF LauncherTypes, Operations, Intents, LauncherBytes, Owners
  <1>2. InHand'
    BY DEF LauncherTypes, InHand, Writes, Removals, Operations, WriteSteps, RestingAt,
           LauncherBytes, Owners, Intents, NoOp, NoIntent
  <1>3. Announcing'
    BY DEF LauncherTypes, InHand, Announcing, Writes, Removals, Operations, WriteSteps,
           RestingAt, LauncherBytes, Owners, Intents, NoOp, NoIntent
  <1>4. Removing'
    BY DEF LauncherTypes, InHand, Removing, Writes, Removals, Operations, WriteSteps, RestingAt,
           LauncherBytes, Owners, Intents, NoOp, NoIntent
  <1>5. DoneIsThere'
    BY DEF LauncherTypes, InHand, Announcing, DoneIsThere, Writes, Removals, Operations,
           WriteSteps, RestingAt, LauncherBytes, Owners, Intents, NoOp, NoIntent
  <1>6. WrittenIsOwned'
    BY DEF LauncherTypes, InHand, Announcing, Removing, WrittenIsOwned, Announced, Writes,
           Removals, Operations, WriteSteps, RestingAt, LauncherBytes, Owners, Intents, NoOp,
              NoIntent
  <1>7. ActiveHasLaunchers'
    BY DEF LauncherTypes, InHand, Removing, DoneIsThere, ActiveHasLaunchers, Launcher, Writes,
           Removals, Operations, WriteSteps, RestingAt, LauncherBytes, Owners, Intents, NoOp,
              NoIntent
  <1>8. QED BY <1>1, <1>2, <1>3, <1>4, <1>5, <1>6, <1>7

LEMMA PlaceKeeps ==
  ASSUME LaunchersIInv, Place
  PROVE  LaunchersIInv'
  <1> USE DEF LaunchersIInv, Place, PhaseIs, Working, Writing, Go
  <1>1. LauncherTypes'
    <2>1. op \in Writes
      BY DEF LauncherTypes, Writes, Removals, Operations, WriteSteps, RestingAt, LauncherBytes,
             Owners, Intents, NoOp, NoIntent
    <2>2. op' \in Writes
      BY <2>1 DEF Writes, WriteSteps
    <2>3. op.at \in Launcher /\ op.template \in Templates
      BY <2>1 DEF InHand, Writes
    <2>4. QED BY <2>2, <2>3 DEF LauncherTypes, Operations, Intents, LauncherBytes, Owners
  <1>2. InHand'
    BY DEF LauncherTypes, InHand, Writes, Removals, Operations, WriteSteps, RestingAt,
           LauncherBytes, Owners, Intents, NoOp, NoIntent
  <1>3. Announcing'
    BY DEF LauncherTypes, InHand, Announcing, Writes, Removals, Operations, WriteSteps,
           RestingAt, LauncherBytes, Owners, Intents, NoOp, NoIntent
  <1>4. Removing'
    BY DEF LauncherTypes, InHand, Removing, Writes, Removals, Operations, WriteSteps, RestingAt,
           LauncherBytes, Owners, Intents, NoOp, NoIntent
  <1>5. DoneIsThere'
    BY DEF LauncherTypes, InHand, Announcing, DoneIsThere, Writes, Removals, Operations,
           WriteSteps, RestingAt, LauncherBytes, Owners, Intents, NoOp, NoIntent
  <1>6. WrittenIsOwned'
    BY DEF LauncherTypes, InHand, Announcing, Removing, WrittenIsOwned, Announced, Writes,
           Removals, Operations, WriteSteps, RestingAt, LauncherBytes, Owners, Intents, NoOp,
              NoIntent
  <1>7. ActiveHasLaunchers'
    BY DEF LauncherTypes, InHand, Removing, DoneIsThere, ActiveHasLaunchers, Launcher, Writes,
           Removals, Operations, WriteSteps, RestingAt, LauncherBytes, Owners, Intents, NoOp,
              NoIntent
  <1>8. QED BY <1>1, <1>2, <1>3, <1>4, <1>5, <1>6, <1>7

LEMMA OwnKeeps ==
  ASSUME LaunchersIInv, Own
  PROVE  LaunchersIInv'
  <1> USE DEF LaunchersIInv, Own, PhaseIs, Working, Writing, Go
  <1>1. LauncherTypes'
    <2>1. op \in Writes
      BY DEF LauncherTypes, Writes, Removals, Operations, WriteSteps, RestingAt, LauncherBytes,
             Owners, Intents, NoOp, NoIntent
    <2>2. op' \in Writes
      BY <2>1 DEF Writes, WriteSteps
    <2>3. op.at \in Launcher /\ op.template \in Templates
      BY <2>1 DEF InHand, Writes
    <2>4. QED BY <2>2, <2>3 DEF LauncherTypes, Operations, Intents, LauncherBytes, Owners
  <1>2. InHand'
    BY DEF LauncherTypes, InHand, Writes, Removals, Operations, WriteSteps, RestingAt,
           LauncherBytes, Owners, Intents, NoOp, NoIntent
  <1>3. Announcing'
    BY DEF LauncherTypes, InHand, Announcing, Writes, Removals, Operations, WriteSteps,
           RestingAt, LauncherBytes, Owners, Intents, NoOp, NoIntent
  <1>4. Removing'
    BY DEF LauncherTypes, InHand, Removing, Writes, Removals, Operations, WriteSteps, RestingAt,
           LauncherBytes, Owners, Intents, NoOp, NoIntent
  <1>5. DoneIsThere'
    BY DEF LauncherTypes, InHand, Announcing, DoneIsThere, Writes, Removals, Operations,
           WriteSteps, RestingAt, LauncherBytes, Owners, Intents, NoOp, NoIntent
  <1>6. WrittenIsOwned'
    BY DEF LauncherTypes, InHand, Announcing, Removing, WrittenIsOwned, Announced, Writes,
           Removals, Operations, WriteSteps, RestingAt, LauncherBytes, Owners, Intents, NoOp,
              NoIntent
  <1>7. ActiveHasLaunchers'
    BY DEF LauncherTypes, InHand, Removing, DoneIsThere, ActiveHasLaunchers, Launcher, Writes,
           Removals, Operations, WriteSteps, RestingAt, LauncherBytes, Owners, Intents, NoOp,
              NoIntent
  <1>8. QED BY <1>1, <1>2, <1>3, <1>4, <1>5, <1>6, <1>7

LEMMA ClearKeeps ==
  ASSUME LaunchersIInv, Clear
  PROVE  LaunchersIInv'
  <1> USE DEF LaunchersIInv, Clear, PhaseIs, Working, Writing, Go
  <1>1. LauncherTypes'
    BY DEF LauncherTypes, Writes, Removals, Operations, WriteSteps, RestingAt, LauncherBytes,
           Owners, Intents, NoOp, NoIntent
  <1>2. InHand'
    BY DEF LauncherTypes, InHand, Writes, Removals, Operations, WriteSteps, RestingAt,
           LauncherBytes, Owners, Intents, NoOp, NoIntent
  <1>3. Announcing'
    BY DEF LauncherTypes, InHand, Announcing, Writes, Removals, Operations, WriteSteps,
           RestingAt, LauncherBytes, Owners, Intents, NoOp, NoIntent
  <1>4. Removing'
    BY DEF LauncherTypes, InHand, Removing, Writes, Removals, Operations, WriteSteps, RestingAt,
           LauncherBytes, Owners, Intents, NoOp, NoIntent
  <1>5. DoneIsThere'
    BY DEF LauncherTypes, InHand, Announcing, DoneIsThere, Writes, Removals, Operations,
           WriteSteps, RestingAt, LauncherBytes, Owners, Intents, NoOp, NoIntent
  <1>6. WrittenIsOwned'
    BY DEF LauncherTypes, InHand, Announcing, Removing, WrittenIsOwned, Announced, Writes,
           Removals, Operations, WriteSteps, RestingAt, LauncherBytes, Owners, Intents, NoOp,
              NoIntent
  <1>7. ActiveHasLaunchers'
    BY DEF LauncherTypes, InHand, Removing, DoneIsThere, ActiveHasLaunchers, Launcher, Writes,
           Removals, Operations, WriteSteps, RestingAt, LauncherBytes, Owners, Intents, NoOp,
              NoIntent
  <1>8. QED BY <1>1, <1>2, <1>3, <1>4, <1>5, <1>6, <1>7

LEMMA ActivateVersionKeeps ==
  ASSUME LaunchersIInv, ActivateVersion
  PROVE  LaunchersIInv'
  <1> USE DEF LaunchersIInv, ActivateVersion, PhaseIs, Working, Writing, Go
  <1>1. LauncherTypes'
    <2>1. op.version \in versions
      BY DEF Announcing
    <2>2. QED BY <2>1 DEF LauncherTypes, Operations
  <1>2. InHand'
    BY DEF LauncherTypes, InHand, Writes, Removals, Operations, WriteSteps, RestingAt,
           LauncherBytes, Owners, Intents, NoOp, NoIntent
  <1>3. Announcing'
    BY DEF LauncherTypes, InHand, Announcing, Writes, Removals, Operations, WriteSteps,
           RestingAt, LauncherBytes, Owners, Intents, NoOp, NoIntent
  <1>4. Removing'
    BY DEF LauncherTypes, InHand, Removing, Writes, Removals, Operations, WriteSteps, RestingAt,
           LauncherBytes, Owners, Intents, NoOp, NoIntent
  <1>5. DoneIsThere'
    BY DEF LauncherTypes, InHand, Announcing, DoneIsThere, Writes, Removals, Operations,
           WriteSteps, RestingAt, LauncherBytes, Owners, Intents, NoOp, NoIntent
  <1>6. WrittenIsOwned'
    BY DEF LauncherTypes, InHand, Announcing, Removing, WrittenIsOwned, Announced, Writes,
           Removals, Operations, WriteSteps, RestingAt, LauncherBytes, Owners, Intents, NoOp,
              NoIntent
  <1>7. ActiveHasLaunchers'
    BY DEF LauncherTypes, InHand, Removing, DoneIsThere, ActiveHasLaunchers, Launcher, Writes,
           Removals, Operations, WriteSteps, RestingAt, LauncherBytes, Owners, Intents, NoOp,
              NoIntent
  <1>8. QED BY <1>1, <1>2, <1>3, <1>4, <1>5, <1>6, <1>7

LEMMA RemoveLauncherKeeps ==
  ASSUME LaunchersIInv, Remove
  PROVE  LaunchersIInv'
  <1> USE DEF LaunchersIInv, Remove, PhaseIs, Working, Writing, Go
  <1>1. LauncherTypes'
    BY DEF LauncherTypes, Writes, Removals, Operations, WriteSteps, RestingAt, LauncherBytes,
           Owners, Intents, NoOp, NoIntent
  <1>2. InHand'
    BY DEF LauncherTypes, InHand, Writes, Removals, Operations, WriteSteps, RestingAt,
           LauncherBytes, Owners, Intents, NoOp, NoIntent
  <1>3. Announcing'
    BY DEF LauncherTypes, InHand, Announcing, Writes, Removals, Operations, WriteSteps,
           RestingAt, LauncherBytes, Owners, Intents, NoOp, NoIntent
  <1>4. Removing'
    BY DEF LauncherTypes, InHand, Removing, Writes, Removals, Operations, WriteSteps, RestingAt,
           LauncherBytes, Owners, Intents, NoOp, NoIntent
  <1>5. DoneIsThere'
    BY DEF LauncherTypes, InHand, Announcing, DoneIsThere, Writes, Removals, Operations,
           WriteSteps, RestingAt, LauncherBytes, Owners, Intents, NoOp, NoIntent
  <1>6. WrittenIsOwned'
    BY DEF LauncherTypes, InHand, Announcing, Removing, WrittenIsOwned, Announced, Writes,
           Removals, Operations, WriteSteps, RestingAt, LauncherBytes, Owners, Intents, NoOp,
              NoIntent
  <1>7. ActiveHasLaunchers'
    BY DEF LauncherTypes, InHand, Removing, DoneIsThere, ActiveHasLaunchers, Launcher, Writes,
           Removals, Operations, WriteSteps, RestingAt, LauncherBytes, Owners, Intents, NoOp,
              NoIntent
  <1>8. QED BY <1>1, <1>2, <1>3, <1>4, <1>5, <1>6, <1>7

LEMMA DisownKeeps ==
  ASSUME LaunchersIInv, Disown
  PROVE  LaunchersIInv'
  <1> USE DEF LaunchersIInv, Disown, PhaseIs, Working, Writing, Go
  <1>1. LauncherTypes'
    BY DEF LauncherTypes, Writes, Removals, Operations, WriteSteps, RestingAt, LauncherBytes,
           Owners, Intents, NoOp, NoIntent
  <1>2. InHand'
    BY DEF LauncherTypes, InHand, Writes, Removals, Operations, WriteSteps, RestingAt,
           LauncherBytes, Owners, Intents, NoOp, NoIntent
  <1>3. Announcing'
    BY DEF LauncherTypes, InHand, Announcing, Writes, Removals, Operations, WriteSteps,
           RestingAt, LauncherBytes, Owners, Intents, NoOp, NoIntent
  <1>4. Removing'
    BY DEF LauncherTypes, InHand, Removing, Writes, Removals, Operations, WriteSteps, RestingAt,
           LauncherBytes, Owners, Intents, NoOp, NoIntent
  <1>5. DoneIsThere'
    BY DEF LauncherTypes, InHand, Announcing, DoneIsThere, Writes, Removals, Operations,
           WriteSteps, RestingAt, LauncherBytes, Owners, Intents, NoOp, NoIntent
  <1>6. WrittenIsOwned'
    BY DEF LauncherTypes, InHand, Announcing, Removing, WrittenIsOwned, Announced, Writes,
           Removals, Operations, WriteSteps, RestingAt, LauncherBytes, Owners, Intents, NoOp,
              NoIntent
  <1>7. ActiveHasLaunchers'
    BY DEF LauncherTypes, InHand, Removing, DoneIsThere, ActiveHasLaunchers, Launcher, Writes,
           Removals, Operations, WriteSteps, RestingAt, LauncherBytes, Owners, Intents, NoOp,
              NoIntent
  <1>8. QED BY <1>1, <1>2, <1>3, <1>4, <1>5, <1>6, <1>7

LEMMA UninstalledKeeps ==
  ASSUME LaunchersIInv, Uninstalled
  PROVE  LaunchersIInv'
  <1> USE DEF LaunchersIInv, Uninstalled, PhaseIs, Working, Writing, Go
  <1>1. LauncherTypes'
    BY DEF LauncherTypes, Writes, Removals, Operations, WriteSteps, RestingAt, LauncherBytes,
           Owners, Intents, NoOp, NoIntent
  <1>2. InHand'
    BY DEF LauncherTypes, InHand, Writes, Removals, Operations, WriteSteps, RestingAt,
           LauncherBytes, Owners, Intents, NoOp, NoIntent
  <1>3. Announcing'
    BY DEF LauncherTypes, InHand, Announcing, Writes, Removals, Operations, WriteSteps,
           RestingAt, LauncherBytes, Owners, Intents, NoOp, NoIntent
  <1>4. Removing'
    BY DEF LauncherTypes, InHand, Removing, Writes, Removals, Operations, WriteSteps, RestingAt,
           LauncherBytes, Owners, Intents, NoOp, NoIntent
  <1>5. DoneIsThere'
    BY DEF LauncherTypes, InHand, Announcing, DoneIsThere, Writes, Removals, Operations,
           WriteSteps, RestingAt, LauncherBytes, Owners, Intents, NoOp, NoIntent
  <1>6. WrittenIsOwned'
    BY DEF LauncherTypes, InHand, Announcing, Removing, WrittenIsOwned, Announced, Writes,
           Removals, Operations, WriteSteps, RestingAt, LauncherBytes, Owners, Intents, NoOp,
              NoIntent
  <1>7. ActiveHasLaunchers'
    BY DEF LauncherTypes, InHand, Removing, DoneIsThere, ActiveHasLaunchers, Launcher, Writes,
           Removals, Operations, WriteSteps, RestingAt, LauncherBytes, Owners, Intents, NoOp,
              NoIntent
  <1>8. QED BY <1>1, <1>2, <1>3, <1>4, <1>5, <1>6, <1>7

LEMMA EditLauncherKeeps ==
  ASSUME LaunchersIInv, NEW l \in Launcher, EditLauncher(l)
  PROVE  LaunchersIInv'
  <1> USE DEF LaunchersIInv, EditLauncher, PhaseIs, Working, Writing, Go
  <1>1. LauncherTypes'
    BY DEF LauncherTypes, Writes, Removals, Operations, WriteSteps, RestingAt, LauncherBytes,
           Owners, Intents, NoOp, NoIntent
  <1>2. InHand'
    BY DEF LauncherTypes, InHand, Writes, Removals, Operations, WriteSteps, RestingAt,
           LauncherBytes, Owners, Intents, NoOp, NoIntent
  <1>3. Announcing'
    BY DEF LauncherTypes, InHand, Announcing, Writes, Removals, Operations, WriteSteps,
           RestingAt, LauncherBytes, Owners, Intents, NoOp, NoIntent
  <1>4. Removing'
    BY DEF LauncherTypes, InHand, Removing, Writes, Removals, Operations, WriteSteps, RestingAt,
           LauncherBytes, Owners, Intents, NoOp, NoIntent
  <1>5. DoneIsThere'
    BY DEF LauncherTypes, InHand, Announcing, DoneIsThere, Writes, Removals, Operations,
           WriteSteps, RestingAt, LauncherBytes, Owners, Intents, NoOp, NoIntent
  <1>6. WrittenIsOwned'
    BY DEF LauncherTypes, InHand, Announcing, Removing, WrittenIsOwned, Announced, Writes,
           Removals, Operations, WriteSteps, RestingAt, LauncherBytes, Owners, Intents, NoOp,
              NoIntent
  <1>7. ActiveHasLaunchers'
    BY DEF LauncherTypes, InHand, Removing, DoneIsThere, ActiveHasLaunchers, Launcher, Writes,
           Removals, Operations, WriteSteps, RestingAt, LauncherBytes, Owners, Intents, NoOp,
              NoIntent
  <1>8. QED BY <1>1, <1>2, <1>3, <1>4, <1>5, <1>6, <1>7

LEMMA CrashManagerKeeps ==
  ASSUME LaunchersIInv, CrashManager
  PROVE  LaunchersIInv'
  <1> USE DEF LaunchersIInv, CrashManager, PhaseIs, Working, Writing, Go
  <1>1. LauncherTypes'
    BY DEF LauncherTypes, Writes, Removals, Operations, WriteSteps, RestingAt, LauncherBytes,
           Owners, Intents, NoOp, NoIntent
  <1>2. InHand'
    BY DEF LauncherTypes, InHand, Writes, Removals, Operations, WriteSteps, RestingAt,
           LauncherBytes, Owners, Intents, NoOp, NoIntent
  <1>3. Announcing'
    BY DEF LauncherTypes, InHand, Announcing, Writes, Removals, Operations, WriteSteps,
           RestingAt, LauncherBytes, Owners, Intents, NoOp, NoIntent
  <1>4. Removing'
    BY DEF LauncherTypes, InHand, Removing, Writes, Removals, Operations, WriteSteps, RestingAt,
           LauncherBytes, Owners, Intents, NoOp, NoIntent
  <1>5. DoneIsThere'
    BY DEF LauncherTypes, InHand, Announcing, DoneIsThere, Writes, Removals, Operations,
           WriteSteps, RestingAt, LauncherBytes, Owners, Intents, NoOp, NoIntent
  <1>6. WrittenIsOwned'
    BY DEF LauncherTypes, InHand, Announcing, Removing, WrittenIsOwned, Announced, Writes,
           Removals, Operations, WriteSteps, RestingAt, LauncherBytes, Owners, Intents, NoOp,
              NoIntent
  <1>7. ActiveHasLaunchers'
    BY DEF LauncherTypes, InHand, Removing, DoneIsThere, ActiveHasLaunchers, Launcher, Writes,
           Removals, Operations, WriteSteps, RestingAt, LauncherBytes, Owners, Intents, NoOp,
              NoIntent
  <1>8. QED BY <1>1, <1>2, <1>3, <1>4, <1>5, <1>6, <1>7

\* The invariant holds before the first installation.
LEMMA LaunchersInitial == LaunchersInit => LaunchersIInv
  <1> SUFFICES ASSUME LaunchersInit PROVE LaunchersIInv
    OBVIOUS
  <1> USE DEF LaunchersInit
  <1>1. LauncherTypes
    BY DEF LauncherTypes, Operations, LauncherBytes, Owners, Intents
  <1>2. InHand /\ Announcing /\ Removing /\ DoneIsThere
    BY DEF InHand, Announcing, Removing, DoneIsThere, NoOp
  <1>3. WrittenIsOwned /\ ActiveHasLaunchers
    BY DEF WrittenIsOwned, ActiveHasLaunchers
  <1>4. QED BY <1>1, <1>2, <1>3 DEF LaunchersIInv

\* A step without an action changes nothing.
LEMMA LaunchersStutter == LaunchersIInv /\ UNCHANGED launcherVars => LaunchersIInv'
  BY DEF LaunchersIInv, launcherVars, LauncherTypes, InHand, Announcing, Removing, DoneIsThere,
         WrittenIsOwned, ActiveHasLaunchers, Announced

LEMMA LaunchersStepKeeps == LaunchersIInv /\ [LaunchersNext]_launcherVars => LaunchersIInv'
  BY LaunchersStutter, InstallKeeps, RollbackKeeps, UninstallKeeps, AdoptAnnouncedKeeps,
     ClearIntentKeeps, LookAtKeeps, RefuseEditedKeeps, LookAtOwnedKeeps, SkipUnownedKeeps,
        AnnounceKeeps, PlaceKeeps, OwnKeeps, ClearKeeps, ActivateVersionKeeps,
           RemoveLauncherKeeps, DisownKeeps, UninstalledKeeps, EditLauncherKeeps,
              CrashManagerKeeps DEF LaunchersNext

\* The inductive invariant, for any number of launchers, releases, edits and crashes
\* (src/installation/manager.ts).
THEOREM LaunchersInvariant == LaunchersSpec => []LaunchersIInv
  BY LaunchersInitial, LaunchersStepKeeps, PTL DEF LaunchersSpec

\* The types of the installation root.
LEMMA LauncherTypesKept == LaunchersIInv => LaunchersTypeOK
  BY DEF LaunchersIInv, LauncherTypes, LauncherBytes, Owners, LaunchersTypeOK

\* Only a placed launcher and a removal overwrite what is there, and they looked at it.
LEMMA LookedBefore ==
  ASSUME LaunchersIInv, [LaunchersNext]_launcherVars, NEW l \in Launcher,
         launcher[l] = Edited, launcher'[l] # Edited
  PROVE  op.at = l /\ op.seen # Edited
  <1>1. Place \/ Remove
    BY DEF LaunchersNext, Install, Rollback, Uninstall, AdoptAnnounced, ClearIntent, LookAt,
           RefuseEdited, LookAtOwned, SkipUnowned, Announce, Own, Clear, ActivateVersion, Disown,
           Uninstalled, EditLauncher, CrashManager, launcherVars, LaunchersIInv, LauncherTypes
  <1>2. op.at = l
    BY <1>1 DEF Place, Remove, LaunchersIInv, LauncherTypes
  <1>3. QED BY <1>1, <1>2 DEF Place, Remove, PhaseIs, Working, LaunchersIInv, InHand

\* Killed anywhere, the installation owns what it wrote, keeps its pointer usable and leaves what
\* the user edited (writeOwnedLauncher, recoverLauncherIntent, uninstallInstallation).
THEOREM LaunchersHoldAlways == LaunchersSpec => LaunchersHold
  <1>1. LaunchersIInv => WrittenIsOwned /\ ActiveHasLaunchers
    BY DEF LaunchersIInv
  <1>2. LaunchersIInv /\ [LaunchersNext]_launcherVars =>
          [\A l \in Launcher :
             launcher[l] = Edited /\ launcher'[l] # Edited => op.at = l /\ op.seen # Edited]_launcherVars
    BY LookedBefore
  <1>3. QED BY <1>1, <1>2, LaunchersInvariant, PTL DEF LaunchersSpec, LaunchersHold, EditedIsKept

HIDE LaunchersAssumption

-----------------------------------------------------------------------------
Numbered == Nat \union {NoIndex}
SyncReceipts == [source : Numbered, index : Numbered]
Looks == [index : Numbered, source : Nat, receipt : SyncReceipts]
Stages == {"build", "after", "commit", "decide", "revalidate"}
Inspections == [at : {"index", "source", "receipt", "built", "graph"} \union Stages,
                next : Stages, seen : Looks, first : Looks, answer : Numbered]

CodegraphTypes ==
  /\ workTree \in Nat /\ builds \in Seq(Nat) /\ index \in Numbered /\ receipt \in SyncReceipts
  /\ enabled \in BOOLEAN /\ syncLock \in BOOLEAN /\ outside \in 0..MaxOutside
  /\ working \in [Calls -> {NotWorking} \union Inspections]

AtWork(c) == working[c].at # "idle"
PastIndex(c) == working[c].at # "index"
PastSource(c) == working[c].at \notin {"index", "source"}

\* A call looks, and then does what it looked for; a sync has the lock to itself.
Proceeds(c) ==
  /\ \/ working[c].at \in {"index", "source", "receipt", working[c].next}
     \/ working[c].at = "built" /\ working[c].next = "build"
     \/ working[c].at = "graph" /\ working[c].next = "revalidate"
  /\ working[c].next \in IF c \in Queries THEN {"decide", "revalidate"}
                                          ELSE {"build", "after", "commit"}
Progressing == \A c \in Calls : AtWork(c) => Proceeds(c)
OneSync ==
  /\ syncLock <=> \E c \in Synchronizers : AtWork(c)
  /\ \A c, d \in Synchronizers : AtWork(c) /\ AtWork(d) => c = d

\* No index that was ever seen is the one a sync is about to put in place.
IsPublished(i) ==
  i # NoIndex => /\ i \in 1..Len(builds)
                 /\ \A c \in Synchronizers : working[c].at = "built" => i # Len(builds)
SeesPublished(c) ==
  IsPublished(working[c].seen.index) /\ IsPublished(working[c].first.index)
IndexesArePublished ==
  /\ IsPublished(index)
  /\ \A c \in Calls : AtWork(c) => SeesPublished(c)

\* A receipt names the source that its index was built from.
Describes(r) == r = NoReceipt \/ (r.index \in 1..Len(builds) /\ r.source = builds[r.index])
ReceiptsDescribe ==
  /\ Describes(receipt)
  /\ \A c \in Calls : AtWork(c) => Describes(working[c].seen.receipt)

\* What a call has seen of the source is not of the future.
SeenIsPast == \A c \in Calls : AtWork(c) => working[c].seen.source <= workTree

\* What a sync knows of the build: it read the source after the first look and before the
\* second one; when the two agree, the index is of that source.
Built == builds[Len(builds)]
SyncKnows ==
  \A c \in Synchronizers : AtWork(c) =>
    /\ working[c].at = "built" => /\ builds # <<>>
                                  /\ working[c].seen.source <= Built /\ Built <= workTree
    /\ working[c].next = "after" =>
         /\ builds # <<>>
         /\ working[c].first.source <= Built /\ Built <= workTree
         /\ index \in {NoIndex, Len(builds)}
         /\ PastIndex(c) => working[c].seen.index \in {NoIndex, Len(builds)}
         /\ PastSource(c) => Built <= working[c].seen.source
    /\ working[c].next = "commit" =>
         /\ builds # <<>>
         /\ working[c].first.source = Built /\ working[c].first.index = Len(builds)

\* A query that asked another index than the one it had seen will not see that one again.
QueryKnows ==
  \A c \in Queries : AtWork(c) /\ working[c].next = "revalidate" =>
    /\ working[c].first.index # NoIndex
    /\ working[c].at = "graph" => working[c].seen.index = working[c].first.index
    /\ \/ working[c].answer = working[c].first.index
       \/ /\ index # working[c].first.index
          /\ PastIndex(c) => working[c].seen.index # working[c].first.index

CodegraphIInv ==
  /\ CodegraphTypes /\ Progressing /\ OneSync /\ IndexesArePublished /\ ReceiptsDescribe
  /\ SeenIsPast /\ SyncKnows /\ QueryKnows /\ GraphIsCurrent

\* The cases of the actions that decide.
ReviewGood(c) ==
  /\ working[c].at = "after" /\ SourceHeld(working[c])
  /\ working' = [working EXCEPT ![c] = Again(@, "commit")]
  /\ UNCHANGED <<workTree, index, builds, receipt, enabled, syncLock, outside>>
CommitGood(c) ==
  /\ working[c].at = "commit" /\ Unmoved(working[c])
  /\ receipt' = [source |-> working[c].first.source, index |-> working[c].first.index]
  /\ working' = [working EXCEPT ![c] = NotWorking]
  /\ syncLock' = FALSE
  /\ UNCHANGED <<workTree, index, builds, enabled, outside>>
QueryGood(c) ==
  /\ working[c].at = "decide" /\ IndexCurrent(working[c].seen)
  /\ working' = [working EXCEPT ![c] = [Again(@, "revalidate") EXCEPT !.answer = index]]
  /\ UNCHANGED <<workTree, index, builds, receipt, enabled, syncLock, outside>>
RevalidateGood(c) ==
  /\ working[c].at = "revalidate" /\ IndexCurrent(working[c].seen) /\ Unmoved(working[c])
  /\ working' = [working EXCEPT ![c] = [@ EXCEPT !.at = "graph"]]
  /\ UNCHANGED <<workTree, index, builds, receipt, enabled, syncLock, outside>>
StopQuery(c) ==
  /\ working' = [working EXCEPT ![c] = NotWorking]
  /\ UNCHANGED <<workTree, index, builds, receipt, enabled, syncLock, outside>>

-----------------------------------------------------------------------------
USE CodegraphAssumption

LEMMA SeeIndexKeeps ==
  ASSUME CodegraphIInv, NEW c \in Calls, SeeIndex(c),
         UNCHANGED <<workTree, index, builds, receipt, enabled, syncLock, outside>>
  PROVE  CodegraphIInv'
  <1> USE DEF CodegraphIInv, SeeIndex, Calls
  <1>1. PICK v \in Inspections : v = working[c]
    BY DEF CodegraphTypes, NotWorking
  <1>2. \A d \in Calls \ {c} : working'[d] = working[d]
    BY DEF CodegraphTypes
  <1>3. working'[c] \in Inspections
    BY <1>1 DEF CodegraphTypes, Inspections, Looks, Numbered, Stages
  <1>4. /\ working'[c].at = "source"
        /\ working'[c].next = v.next
        /\ working'[c].seen.index = index
        /\ working'[c].seen.source = v.seen.source
        /\ working'[c].seen.receipt = v.seen.receipt
        /\ working'[c].first.index = v.first.index
        /\ working'[c].first.source = v.first.source
        /\ working'[c].first.receipt = v.first.receipt
        /\ working'[c].answer = v.answer
    BY <1>1 DEF CodegraphTypes, Inspections, Looks
  <1>5. working' \in [Calls -> {NotWorking} \union Inspections]
    BY <1>3 DEF CodegraphTypes
  <1>6. CodegraphTypes'
    BY <1>1, <1>5 DEF CodegraphTypes, Inspections, Looks, SyncReceipts, Numbered
  <1>7. Progressing'
    <2>1. \A d \in Calls \ {c} : (AtWork(d) => Proceeds(d))'
      BY <1>2 DEF Progressing, Proceeds, AtWork
    <2>2. (AtWork(c) => Proceeds(c))'
      BY <1>1, <1>4 DEF Progressing, Proceeds, AtWork, Inspections, Stages
    <2>3. QED BY <2>1, <2>2 DEF Progressing
  <1>8. OneSync'
    BY <1>1, <1>2, <1>3, <1>4 DEF CodegraphTypes, AtWork, OneSync, Inspections, Looks, Stages
  <1>9. IndexesArePublished'
    <2>1. builds' = builds /\ index' = index
      OBVIOUS
    <2>2. \A d \in Synchronizers : working'[d].at = "built" => working[d].at = "built"
      BY <1>1, <1>2, <1>4 DEF Progressing, Proceeds
    <2>3. \A i \in Numbered : IsPublished(i) => IsPublished(i)'
      BY <2>1, <2>2 DEF IsPublished
    <2>4. \A d \in Calls \ {c} : (AtWork(d) => SeesPublished(d))'
      <3>1. SUFFICES ASSUME NEW d \in Calls \ {c}, AtWork(d)'
                     PROVE  SeesPublished(d)'
        OBVIOUS
      <3>2. working'[d] = working[d] /\ working[d] \in Inspections /\ SeesPublished(d)
        BY <1>2, <3>1 DEF AtWork, NotWorking, CodegraphTypes, IndexesArePublished, SeesPublished
      <3>3. QED BY <2>3, <3>2 DEF SeesPublished, Inspections, Looks
    <2>5. (AtWork(c) => SeesPublished(c))'
      <3>1. SeesPublished(c) /\ IsPublished(index)
        BY <1>1 DEF IndexesArePublished, SeesPublished, AtWork, Inspections, Stages
      <3>2. QED BY <1>1, <1>4, <2>3, <3>1 DEF SeesPublished, Inspections, Looks, CodegraphTypes
    <2>6. QED BY <2>1, <2>3, <2>4, <2>5 DEF IndexesArePublished, CodegraphTypes
  <1>10. ReceiptsDescribe'
    <2>1. \A r \in SyncReceipts : Describes(r) => Describes(r)'
      BY DEF Describes
    <2>2. Describes(receipt)' /\ Describes(receipt) /\ receipt \in SyncReceipts
      BY <2>1 DEF ReceiptsDescribe, CodegraphTypes
    <2>3. \A d \in Calls \ {c} : AtWork(d)' => Describes(working[d].seen.receipt)'
      <3>1. SUFFICES ASSUME NEW d \in Calls \ {c}, AtWork(d)'
                     PROVE  Describes(working[d].seen.receipt)'
        OBVIOUS
      <3>2. working'[d] = working[d] /\ working[d] \in Inspections /\ Describes(working[d].seen.receipt)
        BY <1>2, <3>1 DEF AtWork, NotWorking, CodegraphTypes, ReceiptsDescribe
      <3>3. QED BY <2>1, <3>2 DEF Inspections, Looks
    <2>4. Describes(working[c].seen.receipt)'
      <3>1. Describes(v.seen.receipt) /\ v.seen.receipt \in SyncReceipts
        BY <1>1 DEF ReceiptsDescribe, AtWork, Inspections, Looks, Stages
      <3>2. QED BY <1>4, <2>1, <2>2, <3>1
    <2>5. QED BY <2>2, <2>3, <2>4 DEF ReceiptsDescribe
  <1>11. SeenIsPast'
    BY <1>1, <1>2, <1>3, <1>4 DEF CodegraphTypes, AtWork, SeenIsPast, Inspections, Looks, Stages
  <1>12. SyncKnows'
    BY <1>1, <1>2, <1>3, <1>4 DEF CodegraphTypes, AtWork, SyncKnows, PastIndex, PastSource,
                                  Built, Inspections, Looks, Stages
  <1>13. QueryKnows'
    BY <1>1, <1>2, <1>3, <1>4 DEF CodegraphTypes, AtWork, QueryKnows, PastIndex, Inspections,
                                  Looks, Stages
  <1>14. GraphIsCurrent'
    BY <1>1, <1>2, <1>3, <1>4 DEF CodegraphTypes, AtWork, GraphIsCurrent, Inspections, Looks,
                                  Stages
  <1>15. QED BY <1>6, <1>7, <1>8, <1>9, <1>10, <1>11, <1>12, <1>13, <1>14

LEMMA SeeSourceKeeps ==
  ASSUME CodegraphIInv, NEW c \in Calls, SeeSource(c),
         UNCHANGED <<workTree, index, builds, receipt, enabled, syncLock, outside>>
  PROVE  CodegraphIInv'
  <1> USE DEF CodegraphIInv, SeeSource, Calls
  <1>1. PICK v \in Inspections : v = working[c]
    BY DEF CodegraphTypes, NotWorking
  <1>2. \A d \in Calls \ {c} : working'[d] = working[d]
    BY DEF CodegraphTypes
  <1>3. working'[c] \in Inspections
    BY <1>1 DEF CodegraphTypes, Inspections, Looks, Numbered, Stages
  <1>4. /\ working'[c].at = "receipt"
        /\ working'[c].next = v.next
        /\ working'[c].seen.index = v.seen.index
        /\ working'[c].seen.source = workTree
        /\ working'[c].seen.receipt = v.seen.receipt
        /\ working'[c].first.index = v.first.index
        /\ working'[c].first.source = v.first.source
        /\ working'[c].first.receipt = v.first.receipt
        /\ working'[c].answer = v.answer
    BY <1>1 DEF CodegraphTypes, Inspections, Looks
  <1>5. working' \in [Calls -> {NotWorking} \union Inspections]
    BY <1>3 DEF CodegraphTypes
  <1>6. CodegraphTypes'
    BY <1>1, <1>5 DEF CodegraphTypes, Inspections, Looks, SyncReceipts, Numbered
  <1>7. Progressing'
    <2>1. \A d \in Calls \ {c} : (AtWork(d) => Proceeds(d))'
      BY <1>2 DEF Progressing, Proceeds, AtWork
    <2>2. (AtWork(c) => Proceeds(c))'
      BY <1>1, <1>4 DEF Progressing, Proceeds, AtWork, Inspections, Stages
    <2>3. QED BY <2>1, <2>2 DEF Progressing
  <1>8. OneSync'
    BY <1>1, <1>2, <1>3, <1>4 DEF CodegraphTypes, AtWork, OneSync, Inspections, Looks, Stages
  <1>9. IndexesArePublished'
    <2>1. builds' = builds /\ index' = index
      OBVIOUS
    <2>2. \A d \in Synchronizers : working'[d].at = "built" => working[d].at = "built"
      BY <1>1, <1>2, <1>4 DEF Progressing, Proceeds
    <2>3. \A i \in Numbered : IsPublished(i) => IsPublished(i)'
      BY <2>1, <2>2 DEF IsPublished
    <2>4. \A d \in Calls \ {c} : (AtWork(d) => SeesPublished(d))'
      <3>1. SUFFICES ASSUME NEW d \in Calls \ {c}, AtWork(d)'
                     PROVE  SeesPublished(d)'
        OBVIOUS
      <3>2. working'[d] = working[d] /\ working[d] \in Inspections /\ SeesPublished(d)
        BY <1>2, <3>1 DEF AtWork, NotWorking, CodegraphTypes, IndexesArePublished, SeesPublished
      <3>3. QED BY <2>3, <3>2 DEF SeesPublished, Inspections, Looks
    <2>5. (AtWork(c) => SeesPublished(c))'
      <3>1. SeesPublished(c) /\ IsPublished(index)
        BY <1>1 DEF IndexesArePublished, SeesPublished, AtWork, Inspections, Stages
      <3>2. QED BY <1>1, <1>4, <2>3, <3>1 DEF SeesPublished, Inspections, Looks, CodegraphTypes
    <2>6. QED BY <2>1, <2>3, <2>4, <2>5 DEF IndexesArePublished, CodegraphTypes
  <1>10. ReceiptsDescribe'
    <2>1. \A r \in SyncReceipts : Describes(r) => Describes(r)'
      BY DEF Describes
    <2>2. Describes(receipt)' /\ Describes(receipt) /\ receipt \in SyncReceipts
      BY <2>1 DEF ReceiptsDescribe, CodegraphTypes
    <2>3. \A d \in Calls \ {c} : AtWork(d)' => Describes(working[d].seen.receipt)'
      <3>1. SUFFICES ASSUME NEW d \in Calls \ {c}, AtWork(d)'
                     PROVE  Describes(working[d].seen.receipt)'
        OBVIOUS
      <3>2. working'[d] = working[d] /\ working[d] \in Inspections /\ Describes(working[d].seen.receipt)
        BY <1>2, <3>1 DEF AtWork, NotWorking, CodegraphTypes, ReceiptsDescribe
      <3>3. QED BY <2>1, <3>2 DEF Inspections, Looks
    <2>4. Describes(working[c].seen.receipt)'
      <3>1. Describes(v.seen.receipt) /\ v.seen.receipt \in SyncReceipts
        BY <1>1 DEF ReceiptsDescribe, AtWork, Inspections, Looks, Stages
      <3>2. QED BY <1>4, <2>1, <2>2, <3>1
    <2>5. QED BY <2>2, <2>3, <2>4 DEF ReceiptsDescribe
  <1>11. SeenIsPast'
    BY <1>1, <1>2, <1>3, <1>4 DEF CodegraphTypes, AtWork, SeenIsPast, Inspections, Looks, Stages
  <1>12. SyncKnows'
    BY <1>1, <1>2, <1>3, <1>4 DEF CodegraphTypes, AtWork, SyncKnows, PastIndex, PastSource,
                                  Built, Inspections, Looks, Stages
  <1>13. QueryKnows'
    BY <1>1, <1>2, <1>3, <1>4 DEF CodegraphTypes, AtWork, QueryKnows, PastIndex, Inspections,
                                  Looks, Stages
  <1>14. GraphIsCurrent'
    BY <1>1, <1>2, <1>3, <1>4 DEF CodegraphTypes, AtWork, GraphIsCurrent, Inspections, Looks,
                                  Stages
  <1>15. QED BY <1>6, <1>7, <1>8, <1>9, <1>10, <1>11, <1>12, <1>13, <1>14

LEMMA SeeReceiptKeeps ==
  ASSUME CodegraphIInv, NEW c \in Calls, SeeReceipt(c),
         UNCHANGED <<workTree, index, builds, receipt, enabled, syncLock, outside>>
  PROVE  CodegraphIInv'
  <1> USE DEF CodegraphIInv, SeeReceipt, Calls
  <1>1. PICK v \in Inspections : v = working[c]
    BY DEF CodegraphTypes, NotWorking
  <1>2. \A d \in Calls \ {c} : working'[d] = working[d]
    BY DEF CodegraphTypes
  <1>3. working'[c] \in Inspections
    BY <1>1 DEF CodegraphTypes, Inspections, Looks, Numbered, Stages
  <1>4. /\ working'[c].at = v.next
        /\ working'[c].next = v.next
        /\ working'[c].seen.index = v.seen.index
        /\ working'[c].seen.source = v.seen.source
        /\ working'[c].seen.receipt = receipt
        /\ working'[c].first.index = v.first.index
        /\ working'[c].first.source = v.first.source
        /\ working'[c].first.receipt = v.first.receipt
        /\ working'[c].answer = v.answer
    BY <1>1 DEF CodegraphTypes, Inspections, Looks
  <1>5. working' \in [Calls -> {NotWorking} \union Inspections]
    BY <1>3 DEF CodegraphTypes
  <1>6. CodegraphTypes'
    BY <1>1, <1>5 DEF CodegraphTypes, Inspections, Looks, SyncReceipts, Numbered
  <1>7. Progressing'
    <2>1. \A d \in Calls \ {c} : (AtWork(d) => Proceeds(d))'
      BY <1>2 DEF Progressing, Proceeds, AtWork
    <2>2. (AtWork(c) => Proceeds(c))'
      BY <1>1, <1>4 DEF Progressing, Proceeds, AtWork, Inspections, Stages
    <2>3. QED BY <2>1, <2>2 DEF Progressing
  <1>8. OneSync'
    BY <1>1, <1>2, <1>3, <1>4 DEF CodegraphTypes, AtWork, OneSync, Inspections, Looks, Stages
  <1>9. IndexesArePublished'
    <2>1. builds' = builds /\ index' = index
      OBVIOUS
    <2>2. \A d \in Synchronizers : working'[d].at = "built" => working[d].at = "built"
      BY <1>1, <1>2, <1>4 DEF Progressing, Proceeds, Inspections, Stages
    <2>3. \A i \in Numbered : IsPublished(i) => IsPublished(i)'
      BY <2>1, <2>2 DEF IsPublished
    <2>4. \A d \in Calls \ {c} : (AtWork(d) => SeesPublished(d))'
      <3>1. SUFFICES ASSUME NEW d \in Calls \ {c}, AtWork(d)'
                     PROVE  SeesPublished(d)'
        OBVIOUS
      <3>2. working'[d] = working[d] /\ working[d] \in Inspections /\ SeesPublished(d)
        BY <1>2, <3>1 DEF AtWork, NotWorking, CodegraphTypes, IndexesArePublished, SeesPublished
      <3>3. QED BY <2>3, <3>2 DEF SeesPublished, Inspections, Looks
    <2>5. (AtWork(c) => SeesPublished(c))'
      <3>1. SeesPublished(c) /\ IsPublished(index)
        BY <1>1 DEF IndexesArePublished, SeesPublished, AtWork, Inspections, Stages
      <3>2. QED BY <1>1, <1>4, <2>3, <3>1 DEF SeesPublished, Inspections, Looks, CodegraphTypes
    <2>6. QED BY <2>1, <2>3, <2>4, <2>5 DEF IndexesArePublished, CodegraphTypes
  <1>10. ReceiptsDescribe'
    <2>1. \A r \in SyncReceipts : Describes(r) => Describes(r)'
      BY DEF Describes
    <2>2. Describes(receipt)' /\ Describes(receipt) /\ receipt \in SyncReceipts
      BY <2>1 DEF ReceiptsDescribe, CodegraphTypes
    <2>3. \A d \in Calls \ {c} : AtWork(d)' => Describes(working[d].seen.receipt)'
      <3>1. SUFFICES ASSUME NEW d \in Calls \ {c}, AtWork(d)'
                     PROVE  Describes(working[d].seen.receipt)'
        OBVIOUS
      <3>2. working'[d] = working[d] /\ working[d] \in Inspections /\ Describes(working[d].seen.receipt)
        BY <1>2, <3>1 DEF AtWork, NotWorking, CodegraphTypes, ReceiptsDescribe
      <3>3. QED BY <2>1, <3>2 DEF Inspections, Looks
    <2>4. Describes(working[c].seen.receipt)'
      <3>1. Describes(v.seen.receipt) /\ v.seen.receipt \in SyncReceipts
        BY <1>1 DEF ReceiptsDescribe, AtWork, Inspections, Looks, Stages
      <3>2. QED BY <1>4, <2>1, <2>2, <3>1
    <2>5. QED BY <2>2, <2>3, <2>4 DEF ReceiptsDescribe
  <1>11. SeenIsPast'
    BY <1>1, <1>2, <1>3, <1>4 DEF CodegraphTypes, AtWork, SeenIsPast, Inspections, Looks, Stages
  <1>12. SyncKnows'
    BY <1>1, <1>2, <1>3, <1>4 DEF CodegraphTypes, AtWork, SyncKnows, PastIndex, PastSource,
                                  Built, Inspections, Looks, Stages
  <1>13. QueryKnows'
    BY <1>1, <1>2, <1>3, <1>4 DEF CodegraphTypes, AtWork, QueryKnows, PastIndex, Inspections,
                                  Looks, Stages
  <1>14. GraphIsCurrent'
    BY <1>1, <1>2, <1>3, <1>4 DEF CodegraphTypes, AtWork, GraphIsCurrent, Inspections, Looks,
                                  Stages
  <1>15. QED BY <1>6, <1>7, <1>8, <1>9, <1>10, <1>11, <1>12, <1>13, <1>14

LEMMA ReadForBuildKeeps ==
  ASSUME CodegraphIInv, NEW c \in Synchronizers, ReadForBuild(c)
  PROVE  CodegraphIInv'
  <1> USE DEF CodegraphIInv, ReadForBuild, Calls
  <1>1. PICK v \in Inspections : v = working[c]
    BY DEF CodegraphTypes, NotWorking
  <1>2. \A d \in Calls \ {c} : working'[d] = working[d]
    BY DEF CodegraphTypes
  <1>3. working'[c] \in Inspections
    BY <1>1 DEF CodegraphTypes, Inspections, Looks, Numbered, Stages
  <1>4. /\ working'[c].at = "built"
        /\ working'[c].next = v.next
        /\ working'[c].seen.index = v.seen.index
        /\ working'[c].seen.source = v.seen.source
        /\ working'[c].seen.receipt = v.seen.receipt
        /\ working'[c].first.index = v.first.index
        /\ working'[c].first.source = v.first.source
        /\ working'[c].first.receipt = v.first.receipt
        /\ working'[c].answer = v.answer
    BY <1>1 DEF CodegraphTypes, Inspections, Looks
  <1>5. working' \in [Calls -> {NotWorking} \union Inspections]
    BY <1>3 DEF CodegraphTypes
  <1>a. PICK n \in Nat : n = Len(builds)
    BY DEF CodegraphTypes
  <1>b. builds' \in Seq(Nat) /\ Len(builds') = n + 1 /\ builds'[n + 1] = workTree
    BY <1>a DEF CodegraphTypes
  <1>c. \A i \in 1..n : builds'[i] = builds[i]
    BY <1>a DEF CodegraphTypes
  <1>d. \A d \in Synchronizers : working[d].at # "built" /\ (d # c => ~AtWork(d))
    BY DEF OneSync, AtWork
  <1>6. CodegraphTypes'
    BY <1>1, <1>5 DEF CodegraphTypes, Inspections, Looks, SyncReceipts, Numbered
  <1>7. Progressing'
    <2>1. \A d \in Calls \ {c} : (AtWork(d) => Proceeds(d))'
      BY <1>2 DEF Progressing, Proceeds, AtWork
    <2>2. (AtWork(c) => Proceeds(c))'
      BY <1>1, <1>4 DEF Progressing, Proceeds, AtWork, Inspections, Stages
    <2>3. QED BY <2>1, <2>2 DEF Progressing
  <1>8. OneSync'
    BY <1>1, <1>2, <1>3, <1>4 DEF CodegraphTypes, AtWork, OneSync, Inspections, Looks, Stages
  <1>9. IndexesArePublished'
    <2>1. ASSUME NEW i \in Numbered, IsPublished(i)
          PROVE  i # NoIndex => i \in 1..Len(builds') /\ i # Len(builds')
      BY <2>1, <1>a, <1>b DEF IsPublished, Numbered
    <2>2. IsPublished(index)'
      BY <2>1 DEF IndexesArePublished, SeesPublished, CodegraphTypes, IsPublished
    <2>3. ASSUME NEW d \in Calls, AtWork(d)'
          PROVE  IsPublished(working[d].seen.index)' /\ IsPublished(working[d].first.index)'
      <3>1. PICK x \in Inspections : x = working[d]
        BY <2>3, <1>1, <1>2 DEF CodegraphTypes, AtWork, NotWorking
      <3>2. IsPublished(x.seen.index) /\ IsPublished(x.first.index)
        BY <3>1, <2>3, <1>1, <1>2 DEF IndexesArePublished, SeesPublished, AtWork
      <3>3. working'[d].seen.index = x.seen.index /\ working'[d].first.index = x.first.index
        BY <3>1, <1>1, <1>2, <1>4
      <3>4. x.seen.index \in Numbered /\ x.first.index \in Numbered
        BY DEF Inspections, Looks
      <3>5. QED BY <2>1, <3>2, <3>3, <3>4 DEF IsPublished
    <2>4. QED BY <2>2, <2>3 DEF IndexesArePublished, SeesPublished
  <1>10. ReceiptsDescribe'
    <2>1. ASSUME NEW r, Describes(r) PROVE Describes(r)'
      BY <2>1, <1>a, <1>b, <1>c DEF Describes
    <2>2. Describes(receipt)'
      BY <2>1 DEF ReceiptsDescribe, Describes
    <2>3. ASSUME NEW d \in Calls, AtWork(d)' PROVE Describes(working[d].seen.receipt)'
      <3>1. PICK x \in Inspections : x = working[d]
        BY <2>3, <1>1, <1>2 DEF CodegraphTypes, AtWork, NotWorking
      <3>2. Describes(x.seen.receipt)
        BY <3>1, <2>3, <1>1, <1>2 DEF ReceiptsDescribe, AtWork
      <3>3. working'[d].seen.receipt = x.seen.receipt
        BY <3>1, <1>1, <1>2, <1>4
      <3>4. QED BY <2>1, <3>2, <3>3 DEF Describes
    <2>4. QED BY <2>2, <2>3 DEF ReceiptsDescribe
  <1>11. SeenIsPast'
    BY <1>1, <1>2, <1>3, <1>4 DEF CodegraphTypes, AtWork, SeenIsPast, Inspections, Looks, Stages
  <1>12. SyncKnows'
    <2>1. \A d \in Synchronizers \ {c} : ~AtWork(d)'
      BY <1>d, <1>2 DEF AtWork
    <2>2. v.next = "build"
      BY <1>1 DEF Progressing, Proceeds, AtWork
    <2>3. Built' = workTree /\ builds' # <<>>
      BY <1>a, <1>b DEF Built
    <2>4. v.seen.source <= workTree /\ v.seen.source \in Nat /\ workTree \in Nat
      BY <1>1 DEF SeenIsPast, AtWork, Inspections, Looks, CodegraphTypes
    <2>5. Built' <= workTree
      BY <2>3, <2>4
    <2>6. QED BY <1>4, <2>1, <2>2, <2>3, <2>4, <2>5 DEF SyncKnows
  <1>13. QueryKnows'
    BY <1>1, <1>2, <1>3, <1>4 DEF CodegraphTypes, AtWork, QueryKnows, PastIndex, Inspections,
                                  Looks, Stages
  <1>14. GraphIsCurrent'
    <2> SUFFICES ASSUME NEW d \in Queries, (working[d].at = "graph")'
                 PROVE  /\ working'[d].answer = working'[d].seen.index
                        /\ builds'[working'[d].answer] = working'[d].seen.source
      BY DEF GraphIsCurrent
    <2>1. d # c /\ working'[d] = working[d]
      BY <1>2
    <2>2. PICK x \in Inspections : x = working[d]
      BY <2>1 DEF CodegraphTypes, NotWorking
    <2>3. x.answer = x.seen.index /\ builds[x.answer] = x.seen.source
      BY <2>1, <2>2 DEF GraphIsCurrent
    <2>4. IsPublished(x.seen.index)
      BY <2>1, <2>2 DEF IndexesArePublished, SeesPublished, AtWork
    <2>5. x.seen.index # NoIndex
      BY <2>1, <2>2 DEF QueryKnows, Progressing, Proceeds, AtWork
    <2>6. x.answer \in 1..n
      BY <1>a, <2>3, <2>4, <2>5 DEF IsPublished
    <2>7. QED BY <1>c, <2>1, <2>2, <2>3, <2>6
  <1>15. QED BY <1>6, <1>7, <1>8, <1>9, <1>10, <1>11, <1>12, <1>13, <1>14

LEMMA FinishBuildKeeps ==
  ASSUME CodegraphIInv, NEW c \in Synchronizers, FinishBuild(c)
  PROVE  CodegraphIInv'
  <1> USE DEF CodegraphIInv, FinishBuild, Calls
  <1>1. PICK v \in Inspections : v = working[c]
    BY DEF CodegraphTypes, NotWorking
  <1>2. \A d \in Calls \ {c} : working'[d] = working[d]
    BY DEF CodegraphTypes
  <1>3. working'[c] \in Inspections
    BY <1>1 DEF CodegraphTypes, Inspections, Looks, Numbered, Stages, Again
  <1>4. /\ working'[c].at = "index"
        /\ working'[c].next = "after"
        /\ working'[c].seen.index = v.seen.index
        /\ working'[c].seen.source = v.seen.source
        /\ working'[c].seen.receipt = v.seen.receipt
        /\ working'[c].first.index = v.seen.index
        /\ working'[c].first.source = v.seen.source
        /\ working'[c].first.receipt = v.seen.receipt
        /\ working'[c].answer = v.answer
    BY <1>1 DEF CodegraphTypes, Inspections, Looks, Again
  <1>5. working' \in [Calls -> {NotWorking} \union Inspections]
    BY <1>3 DEF CodegraphTypes
  <1>d. \A d \in Synchronizers : working'[d].at # "built" /\ (d # c => ~AtWork(d))
    BY <1>2, <1>4 DEF OneSync, AtWork
  <1>e. index' = Len(builds) /\ Len(builds) \in Nat /\ Len(builds) \in 1..Len(builds)
    BY DEF SyncKnows, AtWork, CodegraphTypes
  <1>6. CodegraphTypes'
    BY <1>1, <1>5 DEF CodegraphTypes, Inspections, Looks, SyncReceipts, Numbered
  <1>7. Progressing'
    <2>1. \A d \in Calls \ {c} : (AtWork(d) => Proceeds(d))'
      BY <1>2 DEF Progressing, Proceeds, AtWork
    <2>2. (AtWork(c) => Proceeds(c))'
      BY <1>1, <1>4 DEF Progressing, Proceeds, AtWork, Inspections, Stages
    <2>3. QED BY <2>1, <2>2 DEF Progressing
  <1>8. OneSync'
    BY <1>1, <1>2, <1>3, <1>4 DEF CodegraphTypes, AtWork, OneSync, Inspections, Looks, Stages
  <1>9. IndexesArePublished'
    <2>1. ASSUME NEW i, IsPublished(i)
          PROVE  i # NoIndex => i \in 1..Len(builds)
      BY <2>1 DEF IsPublished
    <2>2. IsPublished(index)'
      BY <1>d, <1>e DEF IsPublished
    <2>3. ASSUME NEW d \in Calls, AtWork(d)'
          PROVE  IsPublished(working[d].seen.index)' /\ IsPublished(working[d].first.index)'
      <3>1. PICK x \in Inspections : x = working[d]
        BY <2>3, <1>1, <1>2 DEF CodegraphTypes, AtWork, NotWorking
      <3>2. IsPublished(x.seen.index) /\ IsPublished(x.first.index)
        BY <3>1, <2>3, <1>1, <1>2 DEF IndexesArePublished, SeesPublished, AtWork
      <3>3. working'[d].seen.index = x.seen.index
            /\ working'[d].first.index \in {x.seen.index, x.first.index}
        BY <3>1, <1>1, <1>2, <1>4
      <3>4. QED BY <2>1, <3>2, <3>3, <1>d DEF IsPublished
    <2>4. QED BY <2>2, <2>3 DEF IndexesArePublished, SeesPublished
  <1>10. ReceiptsDescribe'
    <2>1. \A r \in SyncReceipts : Describes(r) => Describes(r)'
      BY DEF Describes
    <2>2. Describes(receipt)' /\ Describes(receipt) /\ receipt \in SyncReceipts
      BY <2>1 DEF ReceiptsDescribe, CodegraphTypes
    <2>3. \A d \in Calls \ {c} : AtWork(d)' => Describes(working[d].seen.receipt)'
      <3>1. SUFFICES ASSUME NEW d \in Calls \ {c}, AtWork(d)'
                     PROVE  Describes(working[d].seen.receipt)'
        OBVIOUS
      <3>2. working'[d] = working[d] /\ working[d] \in Inspections /\ Describes(working[d].seen.receipt)
        BY <1>2, <3>1 DEF AtWork, NotWorking, CodegraphTypes, ReceiptsDescribe
      <3>3. QED BY <2>1, <3>2 DEF Inspections, Looks
    <2>4. Describes(working[c].seen.receipt)'
      <3>1. Describes(v.seen.receipt) /\ v.seen.receipt \in SyncReceipts
        BY <1>1 DEF ReceiptsDescribe, AtWork, Inspections, Looks, Stages
      <3>2. QED BY <1>4, <2>1, <2>2, <3>1
    <2>5. QED BY <2>2, <2>3, <2>4 DEF ReceiptsDescribe
  <1>11. SeenIsPast'
    BY <1>1, <1>2, <1>3, <1>4 DEF CodegraphTypes, AtWork, SeenIsPast, Inspections, Looks, Stages
  <1>12. SyncKnows'
    BY <1>1, <1>2, <1>3, <1>4 DEF CodegraphTypes, AtWork, SyncKnows, PastIndex, PastSource,
                                  Built, Inspections, Looks, Stages
  <1>13. QueryKnows'
    <2> SUFFICES ASSUME NEW d \in Queries, AtWork(d)', (working[d].next = "revalidate")'
                 PROVE  /\ working'[d].first.index # NoIndex
                        /\ working'[d].at = "graph"
                             => working'[d].seen.index = working'[d].first.index
                        /\ \/ working'[d].answer = working'[d].first.index
                           \/ /\ index' # working'[d].first.index
                              /\ working'[d].at # "index"
                                   => working'[d].seen.index # working'[d].first.index
      BY DEF QueryKnows, PastIndex
    <2>1. d # c /\ working'[d] = working[d] /\ AtWork(d)
      BY <1>2 DEF AtWork
    <2>2. IsPublished(working[d].first.index)
      BY <2>1 DEF IndexesArePublished, SeesPublished
    <2>3. working[d].first.index # NoIndex => working[d].first.index # Len(builds)
      BY <2>2 DEF IsPublished
    <2>4. QED BY <2>1, <2>3, <1>e DEF QueryKnows, PastIndex
  <1>14. GraphIsCurrent'
    BY <1>1, <1>2, <1>3, <1>4 DEF CodegraphTypes, AtWork, GraphIsCurrent, Inspections, Looks,
                                  Stages
  <1>15. QED BY <1>6, <1>7, <1>8, <1>9, <1>10, <1>11, <1>12, <1>13, <1>14

LEMMA ReviewGoodKeeps ==
  ASSUME CodegraphIInv, NEW c \in Synchronizers, ReviewGood(c)
  PROVE  CodegraphIInv'
  <1> USE DEF CodegraphIInv, ReviewGood, Calls
  <1>1. PICK v \in Inspections : v = working[c]
    BY DEF CodegraphTypes, NotWorking
  <1>2. \A d \in Calls \ {c} : working'[d] = working[d]
    BY DEF CodegraphTypes
  <1>3. working'[c] \in Inspections
    BY <1>1 DEF CodegraphTypes, Inspections, Looks, Numbered, Stages, Again
  <1>4. /\ working'[c].at = "index"
        /\ working'[c].next = "commit"
        /\ working'[c].seen.index = v.seen.index
        /\ working'[c].seen.source = v.seen.source
        /\ working'[c].seen.receipt = v.seen.receipt
        /\ working'[c].first.index = v.seen.index
        /\ working'[c].first.source = v.seen.source
        /\ working'[c].first.receipt = v.seen.receipt
        /\ working'[c].answer = v.answer
    BY <1>1 DEF CodegraphTypes, Inspections, Looks, Again
  <1>5. working' \in [Calls -> {NotWorking} \union Inspections]
    BY <1>3 DEF CodegraphTypes
  <1>6. CodegraphTypes'
    BY <1>1, <1>5 DEF CodegraphTypes, Inspections, Looks, SyncReceipts, Numbered
  <1>7. Progressing'
    <2>1. \A d \in Calls \ {c} : (AtWork(d) => Proceeds(d))'
      BY <1>2 DEF Progressing, Proceeds, AtWork
    <2>2. (AtWork(c) => Proceeds(c))'
      BY <1>1, <1>4 DEF Progressing, Proceeds, AtWork, Inspections, Stages
    <2>3. QED BY <2>1, <2>2 DEF Progressing
  <1>8. OneSync'
    BY <1>1, <1>2, <1>3, <1>4 DEF CodegraphTypes, AtWork, OneSync, Inspections, Looks, Stages
  <1>9. IndexesArePublished'
    <2>1. builds' = builds /\ index' = index
      OBVIOUS
    <2>2. \A d \in Synchronizers : working'[d].at = "built" => working[d].at = "built"
      BY <1>1, <1>2, <1>4 DEF Progressing, Proceeds
    <2>3. \A i \in Numbered : IsPublished(i) => IsPublished(i)'
      BY <2>1, <2>2 DEF IsPublished
    <2>4. \A d \in Calls \ {c} : (AtWork(d) => SeesPublished(d))'
      <3>1. SUFFICES ASSUME NEW d \in Calls \ {c}, AtWork(d)'
                     PROVE  SeesPublished(d)'
        OBVIOUS
      <3>2. working'[d] = working[d] /\ working[d] \in Inspections /\ SeesPublished(d)
        BY <1>2, <3>1 DEF AtWork, NotWorking, CodegraphTypes, IndexesArePublished, SeesPublished
      <3>3. QED BY <2>3, <3>2 DEF SeesPublished, Inspections, Looks
    <2>5. (AtWork(c) => SeesPublished(c))'
      <3>1. SeesPublished(c) /\ IsPublished(index)
        BY <1>1 DEF IndexesArePublished, SeesPublished, AtWork, Inspections, Stages
      <3>2. QED BY <1>1, <1>4, <2>3, <3>1 DEF SeesPublished, Inspections, Looks, CodegraphTypes
    <2>6. QED BY <2>1, <2>3, <2>4, <2>5 DEF IndexesArePublished, CodegraphTypes
  <1>10. ReceiptsDescribe'
    BY <1>1, <1>2, <1>3, <1>4 DEF CodegraphTypes, AtWork, ReceiptsDescribe, Describes,
                                  Inspections, Looks, Stages
  <1>11. SeenIsPast'
    BY <1>1, <1>2, <1>3, <1>4 DEF CodegraphTypes, AtWork, SeenIsPast, Inspections, Looks, Stages
  <1>12. SyncKnows'
    <2>1. \A d \in Synchronizers \ {c} : ~AtWork(d)'
      BY <1>2 DEF OneSync, AtWork
    <2>2. v.next = "after"
      BY <1>1 DEF Progressing, Proceeds, AtWork
    <2>3. /\ builds # <<>> /\ v.first.source <= Built /\ Built <= v.seen.source
          /\ v.seen.index \in {NoIndex, Len(builds)}
      BY <1>1, <2>2 DEF SyncKnows, AtWork, PastIndex, PastSource
    <2>4. v.seen.source = v.first.source /\ v.seen.index = Len(builds)
      BY <1>1, <2>3 DEF SourceHeld
    <2>5. Built \in Nat /\ v.seen.source \in Nat
      BY <2>3 DEF Built, CodegraphTypes, Inspections, Looks
    <2>6. v.seen.source = Built
      BY <2>3, <2>4, <2>5
    <2>7. Built' = Built
      BY DEF Built
    <2>8. QED BY <1>4, <2>1, <2>3, <2>4, <2>6, <2>7 DEF SyncKnows
  <1>13. QueryKnows'
    BY <1>1, <1>2, <1>3, <1>4 DEF CodegraphTypes, AtWork, QueryKnows, PastIndex, Inspections,
                                  Looks, Stages
  <1>14. GraphIsCurrent'
    BY <1>1, <1>2, <1>3, <1>4 DEF CodegraphTypes, AtWork, GraphIsCurrent, Inspections, Looks,
                                  Stages
  <1>15. QED BY <1>6, <1>7, <1>8, <1>9, <1>10, <1>11, <1>12, <1>13, <1>14

LEMMA QueryGoodKeeps ==
  ASSUME CodegraphIInv, NEW c \in Queries, QueryGood(c)
  PROVE  CodegraphIInv'
  <1> USE DEF CodegraphIInv, QueryGood, Calls
  <1>1. PICK v \in Inspections : v = working[c]
    BY DEF CodegraphTypes, NotWorking
  <1>2. \A d \in Calls \ {c} : working'[d] = working[d]
    BY DEF CodegraphTypes
  <1>3. working'[c] \in Inspections
    BY <1>1 DEF CodegraphTypes, Inspections, Looks, Numbered, Stages, Again
  <1>4. /\ working'[c].at = "index"
        /\ working'[c].next = "revalidate"
        /\ working'[c].seen.index = v.seen.index
        /\ working'[c].seen.source = v.seen.source
        /\ working'[c].seen.receipt = v.seen.receipt
        /\ working'[c].first.index = v.seen.index
        /\ working'[c].first.source = v.seen.source
        /\ working'[c].first.receipt = v.seen.receipt
        /\ working'[c].answer = index
    BY <1>1 DEF CodegraphTypes, Inspections, Looks, Again
  <1>5. working' \in [Calls -> {NotWorking} \union Inspections]
    BY <1>3 DEF CodegraphTypes
  <1>6. CodegraphTypes'
    BY <1>1, <1>5 DEF CodegraphTypes, Inspections, Looks, SyncReceipts, Numbered
  <1>7. Progressing'
    <2>1. \A d \in Calls \ {c} : (AtWork(d) => Proceeds(d))'
      BY <1>2 DEF Progressing, Proceeds, AtWork
    <2>2. (AtWork(c) => Proceeds(c))'
      BY <1>1, <1>4 DEF Progressing, Proceeds, AtWork, Inspections, Stages
    <2>3. QED BY <2>1, <2>2 DEF Progressing
  <1>8. OneSync'
    BY <1>1, <1>2, <1>3, <1>4 DEF CodegraphTypes, AtWork, OneSync, Inspections, Looks, Stages
  <1>9. IndexesArePublished'
    <2>1. builds' = builds /\ index' = index
      OBVIOUS
    <2>2. \A d \in Synchronizers : working'[d].at = "built" => working[d].at = "built"
      BY <1>1, <1>2, <1>4 DEF Progressing, Proceeds
    <2>3. \A i \in Numbered : IsPublished(i) => IsPublished(i)'
      BY <2>1, <2>2 DEF IsPublished
    <2>4. \A d \in Calls \ {c} : (AtWork(d) => SeesPublished(d))'
      <3>1. SUFFICES ASSUME NEW d \in Calls \ {c}, AtWork(d)'
                     PROVE  SeesPublished(d)'
        OBVIOUS
      <3>2. working'[d] = working[d] /\ working[d] \in Inspections /\ SeesPublished(d)
        BY <1>2, <3>1 DEF AtWork, NotWorking, CodegraphTypes, IndexesArePublished, SeesPublished
      <3>3. QED BY <2>3, <3>2 DEF SeesPublished, Inspections, Looks
    <2>5. (AtWork(c) => SeesPublished(c))'
      <3>1. SeesPublished(c) /\ IsPublished(index)
        BY <1>1 DEF IndexesArePublished, SeesPublished, AtWork, Inspections, Stages
      <3>2. QED BY <1>1, <1>4, <2>3, <3>1 DEF SeesPublished, Inspections, Looks, CodegraphTypes
    <2>6. QED BY <2>1, <2>3, <2>4, <2>5 DEF IndexesArePublished, CodegraphTypes
  <1>10. ReceiptsDescribe'
    BY <1>1, <1>2, <1>3, <1>4 DEF CodegraphTypes, AtWork, ReceiptsDescribe, Describes,
                                  Inspections, Looks, Stages
  <1>11. SeenIsPast'
    BY <1>1, <1>2, <1>3, <1>4 DEF CodegraphTypes, AtWork, SeenIsPast, Inspections, Looks, Stages
  <1>12. SyncKnows'
    BY <1>1, <1>2, <1>3, <1>4 DEF CodegraphTypes, AtWork, SyncKnows, PastIndex, PastSource,
                                  Built, Inspections, Looks, Stages
  <1>13. QueryKnows'
    <2>1. v.seen.index # NoIndex
      BY <1>1 DEF IndexCurrent
    <2>2. \A d \in Queries \ {c} : working'[d] = working[d]
      BY <1>2
    <2>3. QED BY <2>1, <2>2, <1>4 DEF QueryKnows, AtWork, PastIndex
  <1>14. GraphIsCurrent'
    BY <1>1, <1>2, <1>3, <1>4 DEF CodegraphTypes, AtWork, GraphIsCurrent, Inspections, Looks,
                                  Stages
  <1>15. QED BY <1>6, <1>7, <1>8, <1>9, <1>10, <1>11, <1>12, <1>13, <1>14

LEMMA RevalidateGoodKeeps ==
  ASSUME CodegraphIInv, NEW c \in Queries, RevalidateGood(c)
  PROVE  CodegraphIInv'
  <1> USE DEF CodegraphIInv, RevalidateGood, Calls
  <1>1. PICK v \in Inspections : v = working[c]
    BY DEF CodegraphTypes, NotWorking
  <1>2. \A d \in Calls \ {c} : working'[d] = working[d]
    BY DEF CodegraphTypes
  <1>3. working'[c] \in Inspections
    BY <1>1 DEF CodegraphTypes, Inspections, Looks, Numbered, Stages
  <1>4. /\ working'[c].at = "graph"
        /\ working'[c].next = v.next
        /\ working'[c].seen.index = v.seen.index
        /\ working'[c].seen.source = v.seen.source
        /\ working'[c].seen.receipt = v.seen.receipt
        /\ working'[c].first.index = v.first.index
        /\ working'[c].first.source = v.first.source
        /\ working'[c].first.receipt = v.first.receipt
        /\ working'[c].answer = v.answer
    BY <1>1 DEF CodegraphTypes, Inspections, Looks
  <1>5. working' \in [Calls -> {NotWorking} \union Inspections]
    BY <1>3 DEF CodegraphTypes
  <1>6. CodegraphTypes'
    BY <1>1, <1>5 DEF CodegraphTypes, Inspections, Looks, SyncReceipts, Numbered
  <1>7. Progressing'
    <2>1. \A d \in Calls \ {c} : (AtWork(d) => Proceeds(d))'
      BY <1>2 DEF Progressing, Proceeds, AtWork
    <2>2. (AtWork(c) => Proceeds(c))'
      BY <1>1, <1>4 DEF Progressing, Proceeds, AtWork, Inspections, Stages
    <2>3. QED BY <2>1, <2>2 DEF Progressing
  <1>8. OneSync'
    BY <1>1, <1>2, <1>3, <1>4 DEF CodegraphTypes, AtWork, OneSync, Inspections, Looks, Stages
  <1>9. IndexesArePublished'
    <2>1. builds' = builds /\ index' = index
      OBVIOUS
    <2>2. \A d \in Synchronizers : working'[d].at = "built" => working[d].at = "built"
      BY <1>1, <1>2, <1>4 DEF Progressing, Proceeds
    <2>3. \A i \in Numbered : IsPublished(i) => IsPublished(i)'
      BY <2>1, <2>2 DEF IsPublished
    <2>4. \A d \in Calls \ {c} : (AtWork(d) => SeesPublished(d))'
      <3>1. SUFFICES ASSUME NEW d \in Calls \ {c}, AtWork(d)'
                     PROVE  SeesPublished(d)'
        OBVIOUS
      <3>2. working'[d] = working[d] /\ working[d] \in Inspections /\ SeesPublished(d)
        BY <1>2, <3>1 DEF AtWork, NotWorking, CodegraphTypes, IndexesArePublished, SeesPublished
      <3>3. QED BY <2>3, <3>2 DEF SeesPublished, Inspections, Looks
    <2>5. (AtWork(c) => SeesPublished(c))'
      <3>1. SeesPublished(c) /\ IsPublished(index)
        BY <1>1 DEF IndexesArePublished, SeesPublished, AtWork, Inspections, Stages
      <3>2. QED BY <1>1, <1>4, <2>3, <3>1 DEF SeesPublished, Inspections, Looks, CodegraphTypes
    <2>6. QED BY <2>1, <2>3, <2>4, <2>5 DEF IndexesArePublished, CodegraphTypes
  <1>10. ReceiptsDescribe'
    BY <1>1, <1>2, <1>3, <1>4 DEF CodegraphTypes, AtWork, ReceiptsDescribe, Describes,
                                  Inspections, Looks, Stages
  <1>11. SeenIsPast'
    BY <1>1, <1>2, <1>3, <1>4 DEF CodegraphTypes, AtWork, SeenIsPast, Inspections, Looks, Stages
  <1>12. SyncKnows'
    BY <1>1, <1>2, <1>3, <1>4 DEF CodegraphTypes, AtWork, SyncKnows, PastIndex, PastSource,
                                  Built, Inspections, Looks, Stages
  <1>13. QueryKnows'
    <2>1. v.next = "revalidate" /\ v.seen.index = v.first.index
      BY <1>1 DEF Progressing, Proceeds, AtWork, Unmoved
    <2>2. \A d \in Queries \ {c} : working'[d] = working[d]
      BY <1>2
    <2>3. QED BY <2>1, <2>2, <1>1, <1>4 DEF QueryKnows, AtWork, PastIndex
  <1>14. GraphIsCurrent'
    <2>1. v.next = "revalidate" /\ v.seen.index = v.first.index /\ v.seen.index # NoIndex
      BY <1>1 DEF Progressing, Proceeds, AtWork, Unmoved, IndexCurrent
    <2>2. v.answer = v.seen.index
      BY <1>1, <2>1 DEF QueryKnows, AtWork, PastIndex
    <2>3. v.seen.receipt = [source |-> v.seen.source, index |-> v.seen.index]
      BY <1>1 DEF IndexCurrent
    <2>4. Describes(v.seen.receipt)
      BY <1>1 DEF ReceiptsDescribe, AtWork
    <2>5. builds[v.seen.index] = v.seen.source
      BY <2>1, <2>3, <2>4 DEF Describes, NoReceipt
    <2>6. \A d \in Queries \ {c} : working'[d] = working[d]
      BY <1>2
    <2>7. QED BY <1>4, <2>2, <2>5, <2>6 DEF GraphIsCurrent
  <1>15. QED BY <1>6, <1>7, <1>8, <1>9, <1>10, <1>11, <1>12, <1>13, <1>14

LEMMA BeginSyncKeeps ==
  ASSUME CodegraphIInv, NEW c \in Synchronizers, BeginSync(c)
  PROVE  CodegraphIInv'
  <1> USE DEF CodegraphIInv, BeginSync, Calls
  <1>1. working[c] \in {NotWorking} \union Inspections
    BY DEF CodegraphTypes
  <1>2. \A d \in Calls \ {c} : working'[d] = working[d]
    BY DEF CodegraphTypes
  <1>3. working'[c] = Look("build")
    BY DEF CodegraphTypes
  <1>4. /\ working'[c].at = "index" /\ working'[c].next = "build"
        /\ working'[c].seen = [index |-> NoIndex, source |-> 0, receipt |-> NoReceipt]
        /\ working'[c].first = [index |-> NoIndex, source |-> 0, receipt |-> NoReceipt]
        /\ working'[c] \in Inspections
    BY <1>3 DEF Look, Inspections, Looks, Numbered, SyncReceipts, NoReceipt, Stages
  <1>5. working' \in [Calls -> {NotWorking} \union Inspections]
    BY <1>4 DEF CodegraphTypes
  <1>6. CodegraphTypes'
    BY <1>1, <1>5 DEF CodegraphTypes, Inspections, Looks, SyncReceipts, Numbered
  <1>7. Progressing'
    <2>1. \A d \in Calls \ {c} : (AtWork(d) => Proceeds(d))'
      BY <1>2 DEF Progressing, Proceeds, AtWork
    <2>2. (AtWork(c) => Proceeds(c))'
      BY <1>1, <1>4 DEF Progressing, Proceeds, AtWork, Inspections, Stages
    <2>3. QED BY <2>1, <2>2 DEF Progressing
  <1>8. OneSync'
    BY <1>1, <1>2, <1>3, <1>4 DEF CodegraphTypes, AtWork, OneSync, Inspections, Looks, Stages
  <1>9. IndexesArePublished'
    BY <1>1, <1>2, <1>3, <1>4 DEF CodegraphTypes, AtWork, IndexesArePublished, SeesPublished,
                                  IsPublished, Inspections, Looks, Stages
  <1>10. ReceiptsDescribe'
    BY <1>1, <1>2, <1>3, <1>4 DEF CodegraphTypes, AtWork, ReceiptsDescribe, Describes,
                                  Inspections, Looks, Stages
  <1>11. SeenIsPast'
    BY <1>1, <1>2, <1>3, <1>4 DEF CodegraphTypes, AtWork, SeenIsPast, Inspections, Looks, Stages
  <1>12. SyncKnows'
    BY <1>1, <1>2, <1>3, <1>4 DEF CodegraphTypes, AtWork, SyncKnows, PastIndex, PastSource,
                                  Built, Inspections, Looks, Stages
  <1>13. QueryKnows'
    BY <1>1, <1>2, <1>3, <1>4 DEF CodegraphTypes, AtWork, QueryKnows, PastIndex, Inspections,
                                  Looks, Stages
  <1>14. GraphIsCurrent'
    BY <1>1, <1>2, <1>3, <1>4 DEF CodegraphTypes, AtWork, GraphIsCurrent, Inspections, Looks,
                                  Stages
  <1>15. QED BY <1>6, <1>7, <1>8, <1>9, <1>10, <1>11, <1>12, <1>13, <1>14

LEMMA BeginExploreKeeps ==
  ASSUME CodegraphIInv, NEW c \in Queries, BeginExplore(c)
  PROVE  CodegraphIInv'
  <1> USE DEF CodegraphIInv, BeginExplore, Calls
  <1>1. working[c] \in {NotWorking} \union Inspections
    BY DEF CodegraphTypes
  <1>2. \A d \in Calls \ {c} : working'[d] = working[d]
    BY DEF CodegraphTypes
  <1>3. working'[c] = Look("decide")
    BY DEF CodegraphTypes
  <1>4. /\ working'[c].at = "index" /\ working'[c].next = "decide"
        /\ working'[c].seen = [index |-> NoIndex, source |-> 0, receipt |-> NoReceipt]
        /\ working'[c].first = [index |-> NoIndex, source |-> 0, receipt |-> NoReceipt]
        /\ working'[c] \in Inspections
    BY <1>3 DEF Look, Inspections, Looks, Numbered, SyncReceipts, NoReceipt, Stages
  <1>5. working' \in [Calls -> {NotWorking} \union Inspections]
    BY <1>4 DEF CodegraphTypes
  <1>6. CodegraphTypes'
    BY <1>1, <1>5 DEF CodegraphTypes, Inspections, Looks, SyncReceipts, Numbered
  <1>7. Progressing'
    <2>1. \A d \in Calls \ {c} : (AtWork(d) => Proceeds(d))'
      BY <1>2 DEF Progressing, Proceeds, AtWork
    <2>2. (AtWork(c) => Proceeds(c))'
      BY <1>1, <1>4 DEF Progressing, Proceeds, AtWork, Inspections, Stages
    <2>3. QED BY <2>1, <2>2 DEF Progressing
  <1>8. OneSync'
    BY <1>1, <1>2, <1>3, <1>4 DEF CodegraphTypes, AtWork, OneSync, Inspections, Looks, Stages
  <1>9. IndexesArePublished'
    BY <1>1, <1>2, <1>3, <1>4 DEF CodegraphTypes, AtWork, IndexesArePublished, SeesPublished,
                                  IsPublished, Inspections, Looks, Stages
  <1>10. ReceiptsDescribe'
    BY <1>1, <1>2, <1>3, <1>4 DEF CodegraphTypes, AtWork, ReceiptsDescribe, Describes,
                                  Inspections, Looks, Stages
  <1>11. SeenIsPast'
    BY <1>1, <1>2, <1>3, <1>4 DEF CodegraphTypes, AtWork, SeenIsPast, Inspections, Looks, Stages
  <1>12. SyncKnows'
    BY <1>1, <1>2, <1>3, <1>4 DEF CodegraphTypes, AtWork, SyncKnows, PastIndex, PastSource,
                                  Built, Inspections, Looks, Stages
  <1>13. QueryKnows'
    BY <1>1, <1>2, <1>3, <1>4 DEF CodegraphTypes, AtWork, QueryKnows, PastIndex, Inspections,
                                  Looks, Stages
  <1>14. GraphIsCurrent'
    BY <1>1, <1>2, <1>3, <1>4 DEF CodegraphTypes, AtWork, GraphIsCurrent, Inspections, Looks,
                                  Stages
  <1>15. QED BY <1>6, <1>7, <1>8, <1>9, <1>10, <1>11, <1>12, <1>13, <1>14

LEMMA GiveUpKeeps ==
  ASSUME CodegraphIInv, NEW c \in Synchronizers, AtWork(c), GiveUp(c)
  PROVE  CodegraphIInv'
  <1> USE DEF CodegraphIInv, GiveUp, Calls, AtWork
  <1>1. PICK v \in Inspections : v = working[c]
    BY DEF CodegraphTypes, NotWorking, AtWork
  <1>2. \A d \in Calls \ {c} : working'[d] = working[d]
    BY DEF CodegraphTypes
  <1>3. working'[c] = NotWorking
    BY DEF CodegraphTypes
  <1>4. ~AtWork(c)'
    BY <1>3 DEF AtWork, NotWorking
  <1>5. working' \in [Calls -> {NotWorking} \union Inspections]
    BY <1>3 DEF CodegraphTypes
  <1>6. CodegraphTypes'
    BY <1>1, <1>5 DEF CodegraphTypes, Inspections, Looks, SyncReceipts, Numbered
  <1>7. Progressing'
    <2>1. \A d \in Calls \ {c} : (AtWork(d) => Proceeds(d))'
      BY <1>2 DEF Progressing, Proceeds, AtWork
    <2>2. (AtWork(c) => Proceeds(c))'
      BY <1>1, <1>4 DEF Progressing, Proceeds, AtWork, Inspections, Stages
    <2>3. QED BY <2>1, <2>2 DEF Progressing
  <1>8. OneSync'
    BY <1>1, <1>2, <1>3, <1>4 DEF CodegraphTypes, AtWork, OneSync, Inspections, Looks, Stages
  <1>9. IndexesArePublished'
    <2>1. builds' = builds /\ index' = index
      OBVIOUS
    <2>2. \A d \in Synchronizers : working'[d].at = "built" => working[d].at = "built"
      BY <1>1, <1>2, <1>4 DEF Progressing, Proceeds
    <2>3. \A i \in Numbered : IsPublished(i) => IsPublished(i)'
      BY <2>1, <2>2 DEF IsPublished
    <2>4. \A d \in Calls \ {c} : (AtWork(d) => SeesPublished(d))'
      <3>1. SUFFICES ASSUME NEW d \in Calls \ {c}, AtWork(d)'
                     PROVE  SeesPublished(d)'
        OBVIOUS
      <3>2. working'[d] = working[d] /\ working[d] \in Inspections /\ SeesPublished(d)
        BY <1>2, <3>1 DEF AtWork, NotWorking, CodegraphTypes, IndexesArePublished, SeesPublished
      <3>3. QED BY <2>3, <3>2 DEF SeesPublished, Inspections, Looks
    <2>5. (AtWork(c) => SeesPublished(c))'
      <3>1. SeesPublished(c) /\ IsPublished(index)
        BY <1>1 DEF IndexesArePublished, SeesPublished, AtWork, Inspections, Stages
      <3>2. QED BY <1>1, <1>4, <2>3, <3>1 DEF SeesPublished, Inspections, Looks, CodegraphTypes
    <2>6. QED BY <2>1, <2>3, <2>4, <2>5 DEF IndexesArePublished, CodegraphTypes
  <1>10. ReceiptsDescribe'
    BY <1>1, <1>2, <1>3, <1>4 DEF CodegraphTypes, AtWork, ReceiptsDescribe, Describes,
                                  Inspections, Looks, Stages
  <1>11. SeenIsPast'
    BY <1>1, <1>2, <1>3, <1>4 DEF CodegraphTypes, AtWork, SeenIsPast, Inspections, Looks, Stages
  <1>12. SyncKnows'
    BY <1>1, <1>2, <1>3, <1>4 DEF CodegraphTypes, AtWork, SyncKnows, PastIndex, PastSource,
                                  Built, Inspections, Looks, Stages
  <1>13. QueryKnows'
    BY <1>1, <1>2, <1>3, <1>4 DEF CodegraphTypes, AtWork, QueryKnows, PastIndex, Inspections,
                                  Looks, Stages
  <1>14. GraphIsCurrent'
    BY <1>1, <1>2, <1>3, <1>4 DEF CodegraphTypes, AtWork, GraphIsCurrent, Inspections, Looks,
                                  Stages
  <1>15. QED BY <1>6, <1>7, <1>8, <1>9, <1>10, <1>11, <1>12, <1>13, <1>14

LEMMA CommitGoodKeeps ==
  ASSUME CodegraphIInv, NEW c \in Synchronizers, CommitGood(c)
  PROVE  CodegraphIInv'
  <1> USE DEF CodegraphIInv, CommitGood, Calls
  <1>1. PICK v \in Inspections : v = working[c]
    BY DEF CodegraphTypes, NotWorking
  <1>2. \A d \in Calls \ {c} : working'[d] = working[d]
    BY DEF CodegraphTypes
  <1>3. working'[c] = NotWorking
    BY DEF CodegraphTypes
  <1>4. ~AtWork(c)'
    BY <1>3 DEF AtWork, NotWorking
  <1>5. working' \in [Calls -> {NotWorking} \union Inspections]
    BY <1>3 DEF CodegraphTypes
  <1>6. CodegraphTypes'
    BY <1>1, <1>5 DEF CodegraphTypes, Inspections, Looks, SyncReceipts, Numbered
  <1>7. Progressing'
    <2>1. \A d \in Calls \ {c} : (AtWork(d) => Proceeds(d))'
      BY <1>2 DEF Progressing, Proceeds, AtWork
    <2>2. (AtWork(c) => Proceeds(c))'
      BY <1>1, <1>4 DEF Progressing, Proceeds, AtWork, Inspections, Stages
    <2>3. QED BY <2>1, <2>2 DEF Progressing
  <1>8. OneSync'
    BY <1>1, <1>2, <1>3, <1>4 DEF CodegraphTypes, AtWork, OneSync, Inspections, Looks, Stages
  <1>9. IndexesArePublished'
    BY <1>1, <1>2, <1>3, <1>4 DEF CodegraphTypes, AtWork, IndexesArePublished, SeesPublished,
                                  IsPublished, Inspections, Looks, Stages
  <1>10. ReceiptsDescribe'
    <2>1. v.next = "commit"
      BY <1>1 DEF Progressing, Proceeds, AtWork
    <2>2. builds # <<>> /\ v.first.source = Built /\ v.first.index = Len(builds)
      BY <1>1, <2>1 DEF SyncKnows, AtWork
    <2>3. Len(builds) \in 1..Len(builds)
      BY <2>2 DEF CodegraphTypes
    <2>4. Describes(receipt)'
      BY <1>1, <2>2, <2>3 DEF Describes, Built
    <2>5. QED BY <1>2, <1>4, <2>4 DEF ReceiptsDescribe, Describes, AtWork
  <1>11. SeenIsPast'
    BY <1>1, <1>2, <1>3, <1>4 DEF CodegraphTypes, AtWork, SeenIsPast, Inspections, Looks, Stages
  <1>12. SyncKnows'
    BY <1>1, <1>2, <1>3, <1>4 DEF CodegraphTypes, AtWork, SyncKnows, PastIndex, PastSource,
                                  Built, Inspections, Looks, Stages
  <1>13. QueryKnows'
    BY <1>1, <1>2, <1>3, <1>4 DEF CodegraphTypes, AtWork, QueryKnows, PastIndex, Inspections,
                                  Looks, Stages
  <1>14. GraphIsCurrent'
    BY <1>1, <1>2, <1>3, <1>4 DEF CodegraphTypes, AtWork, GraphIsCurrent, Inspections, Looks,
                                  Stages
  <1>15. QED BY <1>6, <1>7, <1>8, <1>9, <1>10, <1>11, <1>12, <1>13, <1>14

LEMMA StopQueryKeeps ==
  ASSUME CodegraphIInv, NEW c \in Queries, StopQuery(c)
  PROVE  CodegraphIInv'
  <1> USE DEF CodegraphIInv, StopQuery, Calls
  <1>1. working[c] \in {NotWorking} \union Inspections
    BY DEF CodegraphTypes
  <1>2. \A d \in Calls \ {c} : working'[d] = working[d]
    BY DEF CodegraphTypes
  <1>3. working'[c] = NotWorking
    BY DEF CodegraphTypes
  <1>4. ~AtWork(c)'
    BY <1>3 DEF AtWork, NotWorking
  <1>5. working' \in [Calls -> {NotWorking} \union Inspections]
    BY <1>3 DEF CodegraphTypes
  <1>6. CodegraphTypes'
    BY <1>1, <1>5 DEF CodegraphTypes, Inspections, Looks, SyncReceipts, Numbered
  <1>7. Progressing'
    <2>1. \A d \in Calls \ {c} : (AtWork(d) => Proceeds(d))'
      BY <1>2 DEF Progressing, Proceeds, AtWork
    <2>2. (AtWork(c) => Proceeds(c))'
      BY <1>1, <1>4 DEF Progressing, Proceeds, AtWork, Inspections, Stages
    <2>3. QED BY <2>1, <2>2 DEF Progressing
  <1>8. OneSync'
    BY <1>1, <1>2, <1>3, <1>4 DEF CodegraphTypes, AtWork, OneSync, Inspections, Looks, Stages
  <1>9. IndexesArePublished'
    BY <1>1, <1>2, <1>3, <1>4 DEF CodegraphTypes, AtWork, IndexesArePublished, SeesPublished,
                                  IsPublished, Inspections, Looks, Stages
  <1>10. ReceiptsDescribe'
    BY <1>1, <1>2, <1>3, <1>4 DEF CodegraphTypes, AtWork, ReceiptsDescribe, Describes,
                                  Inspections, Looks, Stages
  <1>11. SeenIsPast'
    BY <1>1, <1>2, <1>3, <1>4 DEF CodegraphTypes, AtWork, SeenIsPast, Inspections, Looks, Stages
  <1>12. SyncKnows'
    BY <1>1, <1>2, <1>3, <1>4 DEF CodegraphTypes, AtWork, SyncKnows, PastIndex, PastSource,
                                  Built, Inspections, Looks, Stages
  <1>13. QueryKnows'
    BY <1>1, <1>2, <1>3, <1>4 DEF CodegraphTypes, AtWork, QueryKnows, PastIndex, Inspections,
                                  Looks, Stages
  <1>14. GraphIsCurrent'
    BY <1>1, <1>2, <1>3, <1>4 DEF CodegraphTypes, AtWork, GraphIsCurrent, Inspections, Looks,
                                  Stages
  <1>15. QED BY <1>6, <1>7, <1>8, <1>9, <1>10, <1>11, <1>12, <1>13, <1>14

LEMMA EditSourceKeeps ==
  ASSUME CodegraphIInv, outside < MaxOutside, EditSource, outside' = outside + 1,
         UNCHANGED <<builds, receipt, syncLock, working>>
  PROVE  CodegraphIInv'
  <1> USE DEF CodegraphIInv, EditSource, Calls
  <1>6. CodegraphTypes'
    BY DEF CodegraphTypes, Numbered
  <1>7. Progressing'
    BY DEF CodegraphTypes, AtWork, Progressing, Proceeds, Inspections, Looks, Numbered
  <1>8. OneSync'
    BY DEF CodegraphTypes, AtWork, OneSync, Inspections, Looks, Numbered
  <1>9. IndexesArePublished'
    BY DEF CodegraphTypes, AtWork, IndexesArePublished, SeesPublished, IsPublished, Inspections,
           Looks, Numbered
  <1>10. ReceiptsDescribe'
    BY DEF CodegraphTypes, AtWork, ReceiptsDescribe, Describes, Inspections, Looks, Numbered
  <1>11. SeenIsPast'
    <2> SUFFICES ASSUME NEW c \in Calls, AtWork(c)
                 PROVE  working[c].seen.source <= workTree + 1
      BY DEF SeenIsPast, AtWork
    <2>1. working[c].seen.source \in Nat /\ workTree \in Nat
      BY DEF CodegraphTypes, AtWork, NotWorking, Inspections, Looks
    <2>2. QED BY <2>1 DEF SeenIsPast
  <1>12. SyncKnows'
    BY DEF CodegraphTypes, AtWork, SyncKnows, PastIndex, PastSource, Built, Inspections, Looks,
           Numbered
  <1>13. QueryKnows'
    BY DEF CodegraphTypes, AtWork, QueryKnows, PastIndex, Inspections, Looks, Numbered
  <1>14. GraphIsCurrent'
    BY DEF CodegraphTypes, AtWork, GraphIsCurrent, Inspections, Looks, Numbered
  <1>15. QED BY <1>6, <1>7, <1>8, <1>9, <1>10, <1>11, <1>12, <1>13, <1>14

LEMMA DeleteIndexKeeps ==
  ASSUME CodegraphIInv, outside < MaxOutside, DeleteIndex, outside' = outside + 1,
         UNCHANGED <<builds, receipt, syncLock, working>>
  PROVE  CodegraphIInv'
  <1> USE DEF CodegraphIInv, DeleteIndex, Calls
  <1>6. CodegraphTypes'
    BY DEF CodegraphTypes, Numbered
  <1>7. Progressing'
    BY DEF CodegraphTypes, AtWork, Progressing, Proceeds, Inspections, Looks, Numbered
  <1>8. OneSync'
    BY DEF CodegraphTypes, AtWork, OneSync, Inspections, Looks, Numbered
  <1>9. IndexesArePublished'
    BY DEF CodegraphTypes, AtWork, IndexesArePublished, SeesPublished, IsPublished, Inspections,
           Looks, Numbered
  <1>10. ReceiptsDescribe'
    BY DEF CodegraphTypes, AtWork, ReceiptsDescribe, Describes, Inspections, Looks, Numbered
  <1>11. SeenIsPast'
    BY DEF CodegraphTypes, AtWork, SeenIsPast, Inspections, Looks, Numbered
  <1>12. SyncKnows'
    BY DEF CodegraphTypes, AtWork, SyncKnows, PastIndex, PastSource, Built, Inspections, Looks,
           Numbered
  <1>13. QueryKnows'
    BY DEF CodegraphTypes, AtWork, QueryKnows, PastIndex, Inspections, Looks, Numbered
  <1>14. GraphIsCurrent'
    BY DEF CodegraphTypes, AtWork, GraphIsCurrent, Inspections, Looks, Numbered
  <1>15. QED BY <1>6, <1>7, <1>8, <1>9, <1>10, <1>11, <1>12, <1>13, <1>14

LEMMA SaveSettingsKeeps ==
  ASSUME CodegraphIInv, outside < MaxOutside, SaveSettings, outside' = outside + 1,
         UNCHANGED <<builds, receipt, syncLock, working>>
  PROVE  CodegraphIInv'
  <1> USE DEF CodegraphIInv, SaveSettings, Calls
  <1>6. CodegraphTypes'
    BY DEF CodegraphTypes, Numbered
  <1>7. Progressing'
    BY DEF CodegraphTypes, AtWork, Progressing, Proceeds, Inspections, Looks, Numbered
  <1>8. OneSync'
    BY DEF CodegraphTypes, AtWork, OneSync, Inspections, Looks, Numbered
  <1>9. IndexesArePublished'
    BY DEF CodegraphTypes, AtWork, IndexesArePublished, SeesPublished, IsPublished, Inspections,
           Looks, Numbered
  <1>10. ReceiptsDescribe'
    BY DEF CodegraphTypes, AtWork, ReceiptsDescribe, Describes, Inspections, Looks, Numbered
  <1>11. SeenIsPast'
    BY DEF CodegraphTypes, AtWork, SeenIsPast, Inspections, Looks, Numbered
  <1>12. SyncKnows'
    BY DEF CodegraphTypes, AtWork, SyncKnows, PastIndex, PastSource, Built, Inspections, Looks,
           Numbered
  <1>13. QueryKnows'
    BY DEF CodegraphTypes, AtWork, QueryKnows, PastIndex, Inspections, Looks, Numbered
  <1>14. GraphIsCurrent'
    BY DEF CodegraphTypes, AtWork, GraphIsCurrent, Inspections, Looks, Numbered
  <1>15. QED BY <1>6, <1>7, <1>8, <1>9, <1>10, <1>11, <1>12, <1>13, <1>14

\* The invariant holds before the first sync.
LEMMA CodegraphInitial == CodegraphInit => CodegraphIInv
  <1> SUFFICES ASSUME CodegraphInit PROVE CodegraphIInv
    OBVIOUS
  <1> USE DEF CodegraphInit
  <1>1. CodegraphTypes
    <2>1. workTree \in Nat /\ index \in Numbered /\ receipt \in SyncReceipts
      BY DEF Numbered, SyncReceipts, NoReceipt
    <2>2. builds \in Seq(Nat) /\ outside \in 0..MaxOutside
      OBVIOUS
    <2>3. working \in [Calls -> {NotWorking} \union Inspections]
      OBVIOUS
    <2>4. enabled \in BOOLEAN /\ syncLock \in BOOLEAN
      OBVIOUS
    <2>5. QED BY <2>1, <2>2, <2>3, <2>4 DEF CodegraphTypes
  <1>2. \A c \in Calls : ~AtWork(c)
    BY DEF AtWork, NotWorking
  <1>3. Progressing /\ SeenIsPast
    BY <1>2 DEF Progressing, Proceeds, SeenIsPast
  <1>4. OneSync
    BY <1>2 DEF OneSync, Calls
  <1>5. IndexesArePublished /\ ReceiptsDescribe
    BY <1>2 DEF IndexesArePublished, SeesPublished, IsPublished, ReceiptsDescribe, Describes
  <1>6. SyncKnows /\ QueryKnows
    BY <1>2 DEF SyncKnows, QueryKnows, Calls
  <1>7. GraphIsCurrent
    BY DEF GraphIsCurrent, Calls, NotWorking
  <1>8. QED BY <1>1, <1>3, <1>4, <1>5, <1>6, <1>7 DEF CodegraphIInv

\* A step without an action.
LEMMA CodegraphStutter == CodegraphIInv /\ UNCHANGED codegraphVars => CodegraphIInv'
  <1> SUFFICES ASSUME CodegraphIInv, UNCHANGED codegraphVars PROVE CodegraphIInv'
    OBVIOUS
  <1> USE DEF CodegraphIInv, codegraphVars
  <1>1. CodegraphTypes' /\ Progressing' /\ OneSync'
    BY DEF CodegraphTypes, Progressing, Proceeds, OneSync, AtWork
  <1>2. IndexesArePublished' /\ ReceiptsDescribe' /\ SeenIsPast'
    BY DEF IndexesArePublished, SeesPublished, ReceiptsDescribe, SeenIsPast, AtWork, IsPublished, Describes
  <1>3. SyncKnows' /\ QueryKnows' /\ GraphIsCurrent'
    BY DEF SyncKnows, QueryKnows, GraphIsCurrent, AtWork, PastIndex, PastSource, Built
  <1>4. QED BY <1>1, <1>2, <1>3

\* The actions of the outside, of a look, of a sync and of a query.
LEMMA OutsideKeeps == CodegraphIInv /\ Outside => CodegraphIInv'
  <1> SUFFICES ASSUME CodegraphIInv, Outside PROVE CodegraphIInv'
    OBVIOUS
  <1>1. /\ outside < MaxOutside /\ outside' = outside + 1
        /\ UNCHANGED <<builds, receipt, syncLock, working>>
        /\ EditSource \/ DeleteIndex \/ SaveSettings
    BY DEF Outside
  <1>2. QED BY <1>1, EditSourceKeeps, DeleteIndexKeeps, SaveSettingsKeeps

LEMMA InspectKeeps ==
  ASSUME CodegraphIInv, NEW c \in Calls, Inspect(c)
  PROVE  CodegraphIInv'
  BY SeeIndexKeeps, SeeSourceKeeps, SeeReceiptKeeps DEF Inspect

LEMMA SyncKeeps ==
  ASSUME CodegraphIInv, NEW c \in Synchronizers,
         \/ BeginSync(c) \/ ReadForBuild(c) \/ FinishBuild(c) \/ FailBuild(c)
         \/ ReviewBuild(c) \/ CommitReceipt(c)
  PROVE  CodegraphIInv'
  <1>1. CASE FailBuild(c)
    BY <1>1, GiveUpKeeps DEF FailBuild, AtWork
  <1>2. CASE ReviewBuild(c)
    BY <1>2, GiveUpKeeps, ReviewGoodKeeps DEF ReviewBuild, ReviewGood, AtWork
  <1>3. CASE CommitReceipt(c)
    BY <1>3, GiveUpKeeps, CommitGoodKeeps DEF CommitReceipt, CommitGood, AtWork
  <1>4. QED BY <1>1, <1>2, <1>3, BeginSyncKeeps, ReadForBuildKeeps, FinishBuildKeeps

LEMMA ExploreKeeps ==
  ASSUME CodegraphIInv, NEW c \in Queries,
         BeginExplore(c) \/ Query(c) \/ Revalidate(c) \/ ReturnGraph(c)
  PROVE  CodegraphIInv'
  <1> USE DEF CodegraphIInv
  <1>0. working \in [Calls -> {NotWorking} \union Inspections] /\ c \in Calls
    BY DEF CodegraphTypes, Calls
  <1>1. CASE Query(c)
    BY <1>0, <1>1, StopQueryKeeps, QueryGoodKeeps DEF Query, StopQuery, QueryGood
  <1>2. CASE Revalidate(c)
    BY <1>0, <1>2, StopQueryKeeps, RevalidateGoodKeeps DEF Revalidate, StopQuery, RevalidateGood
  <1>3. CASE ReturnGraph(c)
    BY <1>3, StopQueryKeeps DEF ReturnGraph, StopQuery
  <1>4. QED BY <1>1, <1>2, <1>3, BeginExploreKeeps

LEMMA CodegraphStepKeeps == CodegraphIInv /\ [CodegraphNext]_codegraphVars => CodegraphIInv'
  BY CodegraphStutter, OutsideKeeps, InspectKeeps, SyncKeeps, ExploreKeeps DEF CodegraphNext

\* The inductive invariant, for any synchronizers, queries, edits and settings
\* (integrations/codegraph.ts).
THEOREM CodegraphInvariant == CodegraphSpec => []CodegraphIInv
  BY CodegraphInitial, CodegraphStepKeeps, PTL DEF CodegraphSpec

\* The types of the index and its receipt.
LEMMA CodegraphTypesKept == CodegraphIInv => CodegraphTypeOK
  <1> SUFFICES ASSUME CodegraphIInv PROVE CodegraphTypeOK
    OBVIOUS
  <1> USE DEF CodegraphIInv
  <1>1. index \in (1..Len(builds)) \union {NoIndex}
    BY DEF IndexesArePublished, SeesPublished, IsPublished
  <1>2. receipt = NoReceipt \/ receipt.index \in 1..Len(builds)
    BY DEF ReceiptsDescribe, Describes
  <1>3. syncLock <=> \E c \in Synchronizers : working[c].at # "idle"
    BY DEF OneSync, AtWork
  <1>4. QED BY <1>1, <1>2, <1>3 DEF CodegraphTypes, CodegraphTypeOK

HIDE CodegraphAssumption

-----------------------------------------------------------------------------
ServerSets == [McpServers -> Definitions \union {Unlisted}]
McpConfigs == [McpServers -> Definitions \union {ForeignEntry, Unlisted}]
OwnedRecords == [definition : Definitions \union {Unlisted}, runtime : Nat]
OwnedSets == [McpServers -> OwnedRecords]
Previews == [wanted : ServerSets, provider : Hosts, snapshot : Nat \X Nat]

\* An apply in its stages.
PlannedApplies == [at : {"planned"}, wanted : ServerSets, provider : Hosts, snapshot : Nat \X Nat,
                   authorized : BOOLEAN, granted : Nat]
ComputedApplies == [at : {"computed"}, provider : Hosts, read : McpConfigs, config : McpConfigs,
                    records : OwnedSets]
NotedApplies == [at : {"noted", "blocked"}, provider : Hosts, read : McpConfigs,
                 config : McpConfigs, records : OwnedSets, before : McpConfigs, owned : OwnedSets]
LaunchChecks == [at : {"recorded", "checked"}, provider : Hosts, record : OwnedSets,
                 since : Nat \X Nat]

McpFileTypes ==
  /\ mcpConfig \in [Hosts -> McpConfigs]
  /\ ownedEntries \in [Hosts -> OwnedSets]
  /\ runtime \in [Hosts -> Nat] /\ changed \in [Hosts -> Nat]
McpReviewTypes == reviewed \in {NoPreview} \union Previews
McpApplyTypes ==
  applying \in {NotApplying} \union PlannedApplies \union ComputedApplies \union NotedApplies
McpBoundTypes == mcpBounds \in [previews : 0..MaxSets, user : 0..MaxUserSteps]
McpSessionTypes ==
  /\ session.at \in {"none", "recorded", "checked", "running"}
  /\ session.at \in {"recorded", "checked"} => session \in LaunchChecks

\* What is recorded as Latchkit's, and what an apply is about to record, was authorised.
Grant(p, s, d, r) == [provider |-> p, server |-> s, definition |-> d, runtime |-> r]
Granted(p, entries) ==
  \A s \in McpServers :
    entries[s] # NotOwned => Grant(p, s, entries[s].definition, entries[s].runtime) \in grants
RecordedIsGranted == \A p \in Hosts : Granted(p, ownedEntries[p])
PlannedIsGranted ==
  applying.at = "planned" =>
    \A s \in Wanted(applying.wanted) :
      Grant(applying.provider, s, applying.wanted[s], applying.granted) \in grants
WritingIsGranted ==
  /\ applying.at \in {"computed", "noted", "blocked"} => Granted(applying.provider, applying.records)
  /\ applying.at \in {"noted", "blocked"} => Granted(applying.provider, applying.owned)

\* The bytes that were computed keep every entry of the user's that was read.
Spares(read, bytes) ==
  \A s \in McpServers : bytes[s] = ForeignEntry <=> read[s] = ForeignEntry
ComputedSpares ==
  applying.at \in {"computed", "noted", "blocked"} => Spares(applying.read, applying.config)

\* A check under way read a record that was authorised, and as long as nothing changed it is the
\* record of now and the configuration agrees with what was compared.
CheckIsGranted ==
  session.at \in {"recorded", "checked"} => Granted(session.provider, session.record)
CheckIsCurrent ==
  session.at \in {"recorded", "checked"} =>
    /\ session.since[1] <= changed[session.provider]
    /\ session.since[2] <= runtime[session.provider]
    /\ session.since = McpFacts(session.provider) =>
         /\ ownedEntries[session.provider] = session.record
         /\ session.at = "checked" => MayLaunch(session)

ApplyInv == McpApplyTypes /\ PlannedIsGranted /\ WritingIsGranted /\ ComputedSpares
SessionInv == McpSessionTypes /\ CheckIsGranted /\ CheckIsCurrent /\ LaunchedIsGranted

McpIInv ==
  /\ McpFileTypes /\ McpReviewTypes /\ McpBoundTypes /\ RecordedIsGranted
  /\ ApplyInv /\ SessionInv

-----------------------------------------------------------------------------
USE McpAssumption

\* The invariant holds of providers without managed servers.
LEMMA McpInitial == McpInit => McpIInv
  <1> SUFFICES ASSUME McpInit PROVE McpIInv
    OBVIOUS
  <1> USE DEF McpInit
  <1>1. McpFileTypes
    BY DEF McpFileTypes, McpConfigs, OwnedSets, OwnedRecords, NotOwned
  <1>2. McpReviewTypes /\ McpBoundTypes
    BY DEF McpReviewTypes, McpBoundTypes
  <1>3. RecordedIsGranted
    BY DEF RecordedIsGranted, Granted
  <1>4. ApplyInv
    BY DEF ApplyInv, McpApplyTypes, PlannedIsGranted, WritingIsGranted, ComputedSpares, NotApplying
  <1>5. SessionInv
    BY DEF SessionInv, McpSessionTypes, CheckIsGranted, CheckIsCurrent, LaunchedIsGranted,
           NotLaunched
  <1>6. QED BY <1>1, <1>2, <1>3, <1>4, <1>5 DEF McpIInv

LEMMA ApplyStays ==
  ASSUME ApplyInv, UNCHANGED applying, grants \subseteq grants'
  PROVE  ApplyInv'
  <1>1. McpApplyTypes' /\ ComputedSpares' /\ PlannedIsGranted'
    BY DEF ApplyInv, McpApplyTypes, ComputedSpares, PlannedIsGranted, Spares, Wanted, Grant
  <1>2. WritingIsGranted'
    BY DEF ApplyInv, WritingIsGranted, Granted, Grant
  <1>3. QED BY <1>1, <1>2 DEF ApplyInv

\* A step of another part: a provider's files change only with their number.
LEMMA SessionStays ==
  ASSUME SessionInv, McpFileTypes, McpFileTypes', UNCHANGED session, grants \subseteq grants',
         \A p \in Hosts : /\ changed[p] <= changed'[p] /\ runtime[p] <= runtime'[p]
                          /\ changed'[p] = changed[p] => /\ mcpConfig'[p] = mcpConfig[p]
                                                         /\ ownedEntries'[p] = ownedEntries[p]
  PROVE  SessionInv'
  <1>1. McpSessionTypes' /\ LaunchedIsGranted'
    BY DEF SessionInv, McpSessionTypes, LaunchedIsGranted, Admitted
  <1>2. CheckIsGranted'
    BY DEF SessionInv, CheckIsGranted, Granted, Grant
  <1>3. CheckIsCurrent'
    <2> SUFFICES ASSUME session.at \in {"recorded", "checked"} PROVE CheckIsCurrent'
      BY DEF CheckIsCurrent
    <2>1. PICK p \in Hosts, a \in Nat, b \in Nat : session.provider = p /\ session.since = <<a, b>>
      BY DEF SessionInv, McpSessionTypes, LaunchChecks
    <2>2. /\ changed[p] \in Nat /\ changed'[p] \in Nat /\ runtime[p] \in Nat /\ runtime'[p] \in Nat
      BY DEF McpFileTypes
    <2>3. /\ a <= changed[p] /\ b <= runtime[p]
          /\ (a = changed[p] /\ b = runtime[p]) =>
               /\ ownedEntries[p] = session.record
               /\ session.at = "checked" => MayLaunch(session)
      BY <2>1 DEF SessionInv, CheckIsCurrent, McpFacts
    <2>4. a <= changed'[p] /\ b <= runtime'[p]
      BY <2>1, <2>2, <2>3
    <2>5. ASSUME a = changed'[p], b = runtime'[p]
          PROVE  /\ ownedEntries'[p] = session.record
                 /\ session.at = "checked" => MayLaunch(session)'
      <3>1. changed'[p] = changed[p] /\ runtime'[p] = runtime[p]
        BY <2>1, <2>2, <2>3, <2>5
      <3>2. mcpConfig'[p] = mcpConfig[p] /\ ownedEntries'[p] = ownedEntries[p]
        BY <2>1, <3>1
      <3>3. QED BY <2>1, <2>3, <2>5, <3>1, <3>2 DEF MayLaunch
    <2>6. QED BY <2>1, <2>4, <2>5 DEF CheckIsCurrent, McpFacts
  <1>4. QED BY <1>1, <1>2, <1>3 DEF SessionInv

LEMMA EditMcpConfigKeeps ==
  ASSUME McpIInv, NEW p \in Hosts, NEW s \in McpServers, EditMcpConfig(p, s)
  PROVE  McpIInv'
  <1> USE DEF McpIInv, EditMcpConfig
  <1>1. McpFileTypes'
    <2>1. PICK e \in {ForeignEntry, Unlisted} : mcpConfig' = [mcpConfig EXCEPT ![p][s] = e]
      OBVIOUS
    <2>2. mcpConfig' \in [Hosts -> McpConfigs]
      BY <2>1 DEF McpFileTypes, McpConfigs
    <2>3. QED BY <2>2 DEF McpFileTypes
  <1>2. McpReviewTypes' /\ McpBoundTypes' /\ RecordedIsGranted'
    BY DEF McpReviewTypes, McpBoundTypes, RecordedIsGranted, Granted, Grant
  <1>3. ApplyInv'
    BY ApplyStays
  <1>4. SessionInv'
    <2>1. \A q \in Hosts : /\ changed[q] <= changed'[q] /\ runtime[q] <= runtime'[q]
                           /\ changed'[q] = changed[q] => mcpConfig'[q] = mcpConfig[q]
      BY DEF McpFileTypes
    <2>2. QED BY <1>1, <2>1, SessionStays
  <1>5. QED BY <1>1, <1>2, <1>3, <1>4

LEMMA UpgradeRuntimeKeeps ==
  ASSUME McpIInv, NEW p \in Hosts, UpgradeRuntime(p)
  PROVE  McpIInv'
  <1> USE DEF McpIInv, UpgradeRuntime
  <1>1. McpFileTypes'
    BY DEF McpFileTypes
  <1>2. McpReviewTypes' /\ McpBoundTypes' /\ RecordedIsGranted'
    BY DEF McpReviewTypes, McpBoundTypes, RecordedIsGranted, Granted, Grant
  <1>3. ApplyInv'
    BY ApplyStays
  <1>4. SessionInv'
    <2>1. \A q \in Hosts : changed[q] <= changed'[q] /\ runtime[q] <= runtime'[q]
      BY DEF McpFileTypes
    <2>2. QED BY <1>1, <2>1, SessionStays
  <1>5. QED BY <1>1, <1>2, <1>3, <1>4

\* Steps that leave the files alone.
LEMMA FilesStay ==
  ASSUME McpIInv, UNCHANGED <<mcpConfig, ownedEntries, changed, runtime>>
  PROVE  /\ McpFileTypes'
         /\ grants \subseteq grants' => RecordedIsGranted'
         /\ UNCHANGED session /\ grants \subseteq grants' => SessionInv'
  <1>1. McpFileTypes'
    BY DEF McpIInv, McpFileTypes
  <1>2. ASSUME grants \subseteq grants' PROVE RecordedIsGranted'
    BY <1>2 DEF McpIInv, RecordedIsGranted, Granted, Grant
  <1>3. ASSUME UNCHANGED session, grants \subseteq grants' PROVE SessionInv'
    <2>1. \A p \in Hosts : changed[p] <= changed'[p] /\ runtime[p] <= runtime'[p]
      BY DEF McpIInv, McpFileTypes
    <2>2. QED BY <1>1, <1>3, <2>1, SessionStays DEF McpIInv
  <1>4. QED BY <1>1, <1>2, <1>3

LEMMA PreviewKeeps ==
  ASSUME McpIInv, NEW set \in ServerSets, NEW p \in Hosts, Preview(set, p)
  PROVE  McpIInv'
  <1> USE DEF McpIInv, Preview
  <1>1. McpFileTypes' /\ RecordedIsGranted' /\ SessionInv'
    BY FilesStay
  <1>2. McpReviewTypes'
    <2>1. Addressed(set, p) \in Hosts
      BY DEF Addressed, Hosts
    <2>2. McpSnapshot \in Nat \X Nat
      BY DEF McpSnapshot, McpFileTypes, Hosts
    <2>3. reviewed' \in Previews
      BY <2>1, <2>2 DEF Previews
    <2>4. QED BY <2>3 DEF McpReviewTypes
  <1>3. McpBoundTypes'
    BY DEF McpBoundTypes
  <1>4. ApplyInv'
    BY ApplyStays
  <1>5. QED BY <1>1, <1>2, <1>3, <1>4

LEMMA BeginApplyKeeps == McpIInv /\ BeginApply => McpIInv'
  <1> SUFFICES ASSUME McpIInv, BeginApply PROVE McpIInv'
    OBVIOUS
  <1> USE DEF McpIInv, BeginApply
  <1>1. McpFileTypes' /\ McpReviewTypes' /\ McpBoundTypes' /\ RecordedIsGranted' /\ SessionInv'
    BY FilesStay DEF McpReviewTypes, McpBoundTypes
  <1>2. reviewed \in Previews
    BY DEF McpReviewTypes
  <1>3. CASE applying' = applying
    BY <1>1, <1>3, ApplyStays
  <1>4. CASE applying' # applying
    <2>1. McpSnapshot \in Nat \X Nat
      BY DEF McpSnapshot, McpFileTypes, Hosts
    <2>2. runtime[reviewed.provider] \in Nat /\ (Wanted(reviewed.wanted) # {}) \in BOOLEAN
      BY <1>2 DEF Previews, McpFileTypes
    <2>3. PICK w \in ServerSets, p \in Hosts, n \in Nat \X Nat, b \in BOOLEAN, g \in Nat :
            /\ applying' = [at |-> "planned", wanted |-> w, provider |-> p, snapshot |-> n,
                            authorized |-> b, granted |-> g]
            /\ w = reviewed.wanted /\ p = reviewed.provider /\ g = runtime[p]
      BY <1>2, <1>4, <2>1, <2>2 DEF Previews
    <2>4. McpApplyTypes' /\ applying'.at = "planned"
      BY <2>3 DEF McpApplyTypes, PlannedApplies
    <2>5. PlannedIsGranted'
      BY <2>3 DEF PlannedIsGranted, GrantsOf, Wanted, Grant
    <2>6. WritingIsGranted' /\ ComputedSpares'
      BY <2>4 DEF WritingIsGranted, ComputedSpares
    <2>7. QED BY <1>1, <2>4, <2>5, <2>6 DEF ApplyInv
  <1>5. QED BY <1>3, <1>4

\* What a plan computes: authorised records, and bytes that spare the user's entries.
LEMMA ComputedKeeps ==
  ASSUME McpIInv, applying.at = "planned", Accepts(applying),
         NEW p \in Hosts, NEW set \in ServerSets, p = applying.provider, set = applying.wanted
  PROVE  /\ Written(p, set) \in McpConfigs /\ Recorded(p, set) \in OwnedSets
         /\ Granted(p, Recorded(p, set)) /\ Spares(mcpConfig[p], Written(p, set))
  <1> USE DEF McpIInv
  <1>1. Written(p, set) \in McpConfigs
    BY DEF Written, McpConfigs, ServerSets, McpFileTypes
  <1>2. Recorded(p, set) \in OwnedSets
    <2>1. \A s \in McpServers :
            (IF set[s] = Unlisted THEN NotOwned
             ELSE [definition |-> set[s], runtime |-> runtime[p]]) \in OwnedRecords
      BY DEF OwnedRecords, ServerSets, McpFileTypes, NotOwned
    <2>2. QED BY <2>1 DEF Recorded, OwnedSets
  <1>3. Granted(p, Recorded(p, set))
    <2> SUFFICES ASSUME NEW s \in McpServers, Recorded(p, set)[s] # NotOwned
                 PROVE  Grant(p, s, Recorded(p, set)[s].definition, Recorded(p, set)[s].runtime)
                          \in grants
      BY DEF Granted
    <2>1. set[s] # Unlisted /\ Recorded(p, set)[s] = [definition |-> set[s], runtime |-> runtime[p]]
      BY DEF Recorded
    <2>2. Wanted(applying.wanted) # {} /\ s \in Wanted(applying.wanted)
      BY <2>1 DEF Wanted
    <2>3. applying.granted = runtime[p]
      BY <2>2 DEF Accepts
    <2>4. Grant(p, s, set[s], applying.granted) \in grants
      BY <2>2 DEF ApplyInv, PlannedIsGranted
    <2>5. QED BY <2>1, <2>3, <2>4
  <1>4. Spares(mcpConfig[p], Written(p, set))
    <2> SUFFICES ASSUME NEW s \in McpServers
                 PROVE  Written(p, set)[s] = ForeignEntry <=> mcpConfig[p][s] = ForeignEntry
      BY DEF Spares
    <2>1. set[s] # ForeignEntry /\ ownedEntries[p][s].definition # ForeignEntry
      BY DEF ServerSets, McpFileTypes, OwnedSets, OwnedRecords
    <2>2. s \in Managed(p) => mcpConfig[p][s] # ForeignEntry
      BY <2>1 DEF Accepts, NoConflict, Untouched
    <2>3. s \in Wanted(set) /\ s \notin Managed(p) => mcpConfig[p][s] = Unlisted
      BY DEF Accepts, NoConflict
    <2>4. QED BY <2>1, <2>2, <2>3 DEF Written, Wanted
  <1>5. QED BY <1>1, <1>2, <1>3, <1>4

LEMMA IdleApply ==
  ASSUME applying' = NotApplying
  PROVE  ApplyInv'
  BY DEF ApplyInv, McpApplyTypes, PlannedIsGranted, WritingIsGranted, ComputedSpares, NotApplying

LEMMA ComputeEntriesKeeps == McpIInv /\ ComputeEntries => McpIInv'
  <1> SUFFICES ASSUME McpIInv, ComputeEntries PROVE McpIInv'
    OBVIOUS
  <1> USE DEF McpIInv, ComputeEntries
  <1>1. McpFileTypes' /\ McpReviewTypes' /\ McpBoundTypes' /\ RecordedIsGranted' /\ SessionInv'
    BY FilesStay DEF McpReviewTypes, McpBoundTypes
  <1>2. PICK p \in Hosts, set \in ServerSets : p = applying.provider /\ set = applying.wanted
    BY DEF ApplyInv, McpApplyTypes, NotApplying, PlannedApplies, ComputedApplies, NotedApplies
  <1>3. CASE ~Accepts(applying)
    BY <1>1, <1>3, IdleApply
  <1>4. CASE Accepts(applying)
    <2>1. PICK read \in McpConfigs, bytes \in McpConfigs, records \in OwnedSets :
            /\ applying' = [at |-> "computed", provider |-> p, read |-> read, config |-> bytes,
                            records |-> records]
            /\ Granted(p, records) /\ Spares(read, bytes)
      BY <1>2, <1>4, ComputedKeeps DEF Computed, McpFileTypes
    <2>2. McpApplyTypes' /\ PlannedIsGranted'
      BY <2>1 DEF McpApplyTypes, ComputedApplies, PlannedIsGranted
    <2>3. WritingIsGranted' /\ ComputedSpares'
      BY <2>1 DEF WritingIsGranted, ComputedSpares, Granted, Grant, Spares
    <2>4. QED BY <1>1, <2>2, <2>3 DEF ApplyInv
  <1>5. QED BY <1>3, <1>4

LEMMA NoteBeforeKeeps == McpIInv /\ NoteBefore => McpIInv'
  <1> SUFFICES ASSUME McpIInv, NoteBefore PROVE McpIInv'
    OBVIOUS
  <1> USE DEF McpIInv, NoteBefore
  <1>1. McpFileTypes' /\ McpReviewTypes' /\ McpBoundTypes' /\ RecordedIsGranted' /\ SessionInv'
    BY FilesStay DEF McpReviewTypes, McpBoundTypes
  <1>2. applying \in ComputedApplies
    BY DEF ApplyInv, McpApplyTypes, NotApplying, PlannedApplies, NotedApplies
  <1>3. PICK p \in Hosts, read \in McpConfigs, bytes \in McpConfigs, records \in OwnedSets,
             before \in McpConfigs, mine \in OwnedSets :
          /\ applying' = [at |-> "noted", provider |-> p, read |-> read, config |-> bytes,
                          records |-> records, before |-> before, owned |-> mine]
          /\ p = applying.provider /\ read = applying.read /\ bytes = applying.config
          /\ records = applying.records /\ mine = ownedEntries[p]
    BY <1>2 DEF ComputedApplies, McpFileTypes
  <1>4. McpApplyTypes' /\ PlannedIsGranted'
    BY <1>3 DEF McpApplyTypes, NotedApplies, PlannedIsGranted
  <1>5. Granted(p, records) /\ Granted(p, mine) /\ Spares(read, bytes)
    BY <1>3 DEF ApplyInv, WritingIsGranted, ComputedSpares, RecordedIsGranted
  <1>6. WritingIsGranted' /\ ComputedSpares'
    BY <1>3, <1>5 DEF WritingIsGranted, ComputedSpares, Granted, Grant, Spares
  <1>7. QED BY <1>1, <1>4, <1>6 DEF ApplyInv

\* The end of a transaction, or its rollback: what is written is of the right type, and what is
\* recorded was authorised.
LEMMA FilesMove ==
  ASSUME McpIInv, NEW p \in Hosts, NEW bytes \in McpConfigs, NEW records \in OwnedSets,
         Granted(p, records),
         mcpConfig' = [mcpConfig EXCEPT ![p] = bytes] \/ UNCHANGED mcpConfig,
         ownedEntries' = [ownedEntries EXCEPT ![p] = records] \/ UNCHANGED ownedEntries,
         changed' = [changed EXCEPT ![p] = @ + 1], UNCHANGED <<runtime, grants, session>>
  PROVE  McpFileTypes' /\ RecordedIsGranted' /\ SessionInv'
  <1> USE DEF McpIInv
  <1>1. McpFileTypes'
    BY DEF McpFileTypes
  <1>2. \A q \in Hosts : ownedEntries'[q] = ownedEntries[q] \/ (q = p /\ ownedEntries'[q] = records)
    BY DEF McpFileTypes
  <1>3. RecordedIsGranted'
    BY <1>2 DEF RecordedIsGranted, Granted, Grant
  <1>4. \A q \in Hosts : /\ changed[q] <= changed'[q] /\ runtime[q] <= runtime'[q]
                         /\ changed'[q] = changed[q] => /\ mcpConfig'[q] = mcpConfig[q]
                                                        /\ ownedEntries'[q] = ownedEntries[q]
    BY DEF McpFileTypes
  <1>5. QED BY <1>1, <1>3, <1>4, SessionStays

LEMMA WriteEntriesKeeps == McpIInv /\ WriteEntries => McpIInv'
  <1> SUFFICES ASSUME McpIInv, WriteEntries PROVE McpIInv'
    OBVIOUS
  <1> USE DEF McpIInv, WriteEntries
  <1>1. applying \in NotedApplies
    BY DEF ApplyInv, McpApplyTypes, NotApplying, PlannedApplies, ComputedApplies
  <1>2. PICK p \in Hosts, bytes \in McpConfigs, records \in OwnedSets :
          p = applying.provider /\ bytes = applying.config /\ records = applying.records
    BY <1>1 DEF NotedApplies
  <1>3. Granted(p, records)
    BY <1>2 DEF ApplyInv, WritingIsGranted
  <1>4. /\ mcpConfig' = [mcpConfig EXCEPT ![p] = bytes] \/ UNCHANGED mcpConfig
        /\ ownedEntries' = [ownedEntries EXCEPT ![p] = records] \/ UNCHANGED ownedEntries
        /\ changed' = [changed EXCEPT ![p] = @ + 1] /\ UNCHANGED <<runtime, grants, session>>
    BY <1>2 DEF Replaced
  <1>5. McpFileTypes' /\ RecordedIsGranted' /\ SessionInv'
    BY <1>3, <1>4, FilesMove
  <1>6. McpReviewTypes' /\ McpBoundTypes'
    BY DEF McpReviewTypes, McpBoundTypes
  <1>7. ApplyInv'
    <2>1. CASE applying' = NotApplying
      BY <2>1, IdleApply
    <2>2. CASE applying' = [applying EXCEPT !.at = "blocked"]
      <3>1. applying' \in NotedApplies /\ applying'.at = "blocked"
        BY <1>1, <2>2 DEF NotedApplies
      <3>2. /\ applying'.provider = applying.provider /\ applying'.read = applying.read
            /\ applying'.config = applying.config /\ applying'.records = applying.records
            /\ applying'.owned = applying.owned
        BY <1>1, <2>2 DEF NotedApplies
      <3>3. McpApplyTypes' /\ PlannedIsGranted'
        BY <3>1 DEF McpApplyTypes, PlannedIsGranted
      <3>4. /\ Granted(applying.provider, applying.records)
            /\ Granted(applying.provider, applying.owned) /\ Spares(applying.read, applying.config)
        BY DEF ApplyInv, WritingIsGranted, ComputedSpares
      <3>5. WritingIsGranted' /\ ComputedSpares'
        BY <3>1, <3>2, <3>4 DEF WritingIsGranted, ComputedSpares, Granted, Grant, Spares
      <3>6. QED BY <3>3, <3>5 DEF ApplyInv
    <2>3. QED BY <2>1, <2>2
  <1>8. QED BY <1>5, <1>6, <1>7

LEMMA RecoverEntriesKeeps == McpIInv /\ RecoverEntries => McpIInv'
  <1> SUFFICES ASSUME McpIInv, RecoverEntries PROVE McpIInv'
    OBVIOUS
  <1> USE DEF McpIInv, RecoverEntries
  <1>1. PICK p \in Hosts, before \in McpConfigs, mine \in OwnedSets :
          p = applying.provider /\ before = applying.before /\ mine = applying.owned
    BY DEF ApplyInv, McpApplyTypes, NotApplying, PlannedApplies, ComputedApplies, NotedApplies
  <1>2. Granted(p, mine)
    BY <1>1 DEF ApplyInv, WritingIsGranted
  <1>3. McpFileTypes' /\ RecordedIsGranted' /\ SessionInv'
    BY <1>1, <1>2, FilesMove
  <1>4. McpReviewTypes' /\ McpBoundTypes'
    BY DEF McpReviewTypes, McpBoundTypes
  <1>5. QED BY <1>3, <1>4, IdleApply

\* A launch: the record that is read was authorised, and a provider that starts with nothing
\* changed since runs with what the check admitted.
LEMMA CheckStepKeeps ==
  ASSUME McpIInv, NEW p \in Hosts, ReadRecord(p) \/ CheckConfigured
  PROVE  SessionInv'
  <1> USE DEF McpIInv
  <1>1. CASE ReadRecord(p)
    <2>1. PICK record \in OwnedSets, since \in Nat \X Nat :
            /\ session' = [at |-> "recorded", provider |-> p, record |-> record, since |-> since]
            /\ record = ownedEntries[p] /\ since = <<changed[p], runtime[p]>>
      BY <1>1 DEF ReadRecord, McpFileTypes, McpFacts
    <2>2. McpSessionTypes' /\ LaunchedIsGranted'
      BY <2>1 DEF McpSessionTypes, LaunchChecks, LaunchedIsGranted
    <2>3. UNCHANGED <<changed, runtime, ownedEntries, grants>> /\ Granted(p, record)
      BY <1>1, <2>1 DEF ReadRecord, RecordedIsGranted
    <2>4. CheckIsGranted'
      BY <2>1, <2>3 DEF CheckIsGranted, Granted, Grant
    <2>5. CheckIsCurrent'
      BY <2>1, <2>3 DEF CheckIsCurrent, McpFileTypes
    <2>6. QED BY <2>2, <2>4, <2>5 DEF SessionInv
  <1>2. CASE CheckConfigured
    <2>1. session \in LaunchChecks /\ session.at = "recorded"
      BY <1>2 DEF CheckConfigured, SessionInv, McpSessionTypes
    <2>2. CASE session' = NotLaunched
      BY <2>2 DEF SessionInv, McpSessionTypes, CheckIsGranted, CheckIsCurrent, LaunchedIsGranted,
                  NotLaunched
    <2>3. CASE MayLaunch(session) /\ session' = [session EXCEPT !.at = "checked"]
      <3>1. /\ session' \in LaunchChecks /\ session'.at = "checked"
            /\ session'.provider = session.provider /\ session'.record = session.record
            /\ session'.since = session.since
        BY <2>1, <2>3 DEF LaunchChecks
      <3>2. UNCHANGED <<mcpConfig, ownedEntries, changed, runtime, grants>>
        BY <1>2 DEF CheckConfigured
      <3>3. McpSessionTypes' /\ LaunchedIsGranted'
        BY <3>1 DEF McpSessionTypes, LaunchedIsGranted
      <3>4. CheckIsGranted'
        BY <2>1, <3>1, <3>2 DEF SessionInv, CheckIsGranted, Granted, Grant
      <3>5. MayLaunch(session)'
        BY <2>3, <3>1, <3>2 DEF MayLaunch
      <3>6. CheckIsCurrent'
        BY <2>1, <3>1, <3>2, <3>5 DEF SessionInv, CheckIsCurrent, McpFacts
      <3>7. QED BY <3>3, <3>4, <3>6 DEF SessionInv
    <2>4. QED BY <1>2, <2>2, <2>3 DEF CheckConfigured
  <1>3. QED BY <1>1, <1>2

LEMMA LaunchKeeps ==
  ASSUME McpIInv, Launch
  PROVE  SessionInv'
  <1> USE DEF McpIInv, Launch
  <1>1. session \in LaunchChecks /\ session.at = "checked"
    BY DEF SessionInv, McpSessionTypes
  <1>2. PICK p \in Hosts, record \in OwnedSets : p = session.provider /\ record = session.record
    BY <1>1 DEF LaunchChecks
  <1>3. Admitted(session) \subseteq grants
    BY <1>1 DEF SessionInv, CheckIsGranted, Granted, Admitted, Grant
  <1>4. ASSUME McpFacts(p) = session.since PROVE ListedEntries(p) = Admitted(session)
    <2>1. ownedEntries[p] = record /\ MayLaunch(session)
      BY <1>1, <1>2, <1>4 DEF SessionInv, CheckIsCurrent
    <2>2. Managed(p) = {s \in McpServers : record[s] # NotOwned}
      BY <2>1 DEF Managed
    <2>3. \A s \in Managed(p) : /\ mcpConfig[p][s] = record[s].definition
                                /\ runtime[p] = record[s].runtime
      BY <1>2, <2>1, <2>2 DEF MayLaunch
    <2>4. QED BY <1>2, <2>2, <2>3 DEF ListedEntries, Admitted
  <1>5. /\ session'.at = "running" /\ session'.provider = p /\ session'.record = record
        /\ session'.since = session.since /\ session'.now = McpFacts(p)
        /\ session'.entries = ListedEntries(p) /\ UNCHANGED grants
    BY <1>2
  <1>6. Admitted(session') = Admitted(session)
    BY <1>2, <1>5 DEF Admitted
  <1>7. LaunchedIsGranted'
    BY <1>3, <1>4, <1>5, <1>6 DEF LaunchedIsGranted
  <1>8. QED BY <1>5, <1>7 DEF SessionInv, McpSessionTypes, CheckIsGranted, CheckIsCurrent

LEMMA SessionStepKeeps ==
  ASSUME McpIInv, NEW p \in Hosts, ReadRecord(p) \/ CheckConfigured \/ Launch \/ EndSession
  PROVE  McpIInv'
  <1> USE DEF McpIInv
  <1>1. UNCHANGED <<mcpConfig, ownedEntries, changed, runtime, grants, reviewed, applying, mcpBounds>>
    BY DEF ReadRecord, CheckConfigured, Launch, EndSession
  <1>2. McpFileTypes' /\ RecordedIsGranted' /\ McpReviewTypes' /\ McpBoundTypes' /\ ApplyInv'
    BY <1>1, FilesStay, ApplyStays DEF McpReviewTypes, McpBoundTypes
  <1>3. CASE EndSession
    BY <1>2, <1>3 DEF EndSession, SessionInv, McpSessionTypes, CheckIsGranted, CheckIsCurrent,
                      LaunchedIsGranted, NotLaunched
  <1>4. QED BY <1>2, <1>3, CheckStepKeeps, LaunchKeeps

LEMMA McpStepKeeps == McpIInv /\ [McpNext]_mcpVars => McpIInv'
  <1> SUFFICES ASSUME McpIInv, [McpNext]_mcpVars PROVE McpIInv'
    OBVIOUS
  <1>1. CASE UNCHANGED mcpVars
    <2>1. UNCHANGED <<mcpConfig, ownedEntries, changed, runtime, grants, reviewed, applying, session,
                      mcpBounds>>
      BY <1>1 DEF mcpVars
    <2>2. McpReviewTypes' /\ McpBoundTypes'
      BY <2>1 DEF McpIInv, McpReviewTypes, McpBoundTypes
    <2>3. QED BY <2>1, <2>2, FilesStay, ApplyStays DEF McpIInv
  <1>2. CASE McpNext
    <2>1. Hosts # {}
      BY DEF Hosts
    <2>2. QED BY <1>2, <2>1, EditMcpConfigKeeps, UpgradeRuntimeKeeps, PreviewKeeps,
                 BeginApplyKeeps, ComputeEntriesKeeps, NoteBeforeKeeps, WriteEntriesKeeps,
                 RecoverEntriesKeeps, SessionStepKeeps DEF McpNext, ServerSets
  <1>3. QED BY <1>1, <1>2

\* The inductive invariant, for any providers, servers, definitions and edits (integrations/mcp).
THEOREM McpInvariant == McpSpec => []McpIInv
  BY McpInitial, McpStepKeeps, PTL DEF McpSpec

\* The types of the managed servers.
LEMMA McpTypesKept == McpIInv => McpTypeOK
  <1> SUFFICES ASSUME McpIInv PROVE McpTypeOK
    OBVIOUS
  <1>1. applying.at \in {"idle", "planned", "computed", "noted", "blocked"}
    BY DEF McpIInv, ApplyInv, McpApplyTypes, PlannedApplies, ComputedApplies, NotedApplies,
           NotApplying
  <1>2. session.at \in {"none", "recorded", "checked", "running"}
    BY DEF McpIInv, SessionInv, McpSessionTypes
  <1>3. QED BY <1>1, <1>2 DEF McpIInv, McpFileTypes, McpBoundTypes, McpConfigs, Managed, McpTypeOK

\* A step of Latchkit leaves what the user wrote or deleted, but for what was edited between the
\* reading of an apply and the note of its transaction.
LEMMA StepsSpareUsers ==
  ASSUME McpIInv, [McpNext]_mcpVars, mcpBounds'.user = mcpBounds.user,
         NEW p \in Hosts, NEW s \in McpServers,
         (mcpConfig[p][s] = ForeignEntry) # (mcpConfig'[p][s] = ForeignEntry)
  PROVE  applying.provider = p /\ applying.read[s] # applying.before[s]
  <1>1. mcpBounds.user \in Nat
    BY DEF McpIInv, McpBoundTypes
  <1>2. WriteEntries \/ RecoverEntries
    <2>1. ~\E q \in Hosts, r \in McpServers : EditMcpConfig(q, r)
      BY <1>1 DEF EditMcpConfig, McpIInv, McpBoundTypes
    <2>2. mcpConfig' # mcpConfig
      OBVIOUS
    <2>3. QED BY <2>1, <2>2 DEF McpNext, mcpVars, UpgradeRuntime, ReadRecord, Preview, BeginApply,
                 ComputeEntries, NoteBefore, CheckConfigured, Launch, EndSession
  <1>3. /\ applying \in NotedApplies /\ Spares(applying.read, applying.config)
        /\ mcpConfig \in [Hosts -> McpConfigs]
    BY <1>2 DEF WriteEntries, RecoverEntries, McpIInv, ApplyInv, McpApplyTypes, ComputedSpares,
                NotApplying, PlannedApplies, ComputedApplies, McpFileTypes
  <1>4. PICK q \in Hosts : applying.provider = q
    BY <1>3 DEF NotedApplies
  <1>5. p = q
    <2>1. mcpConfig' = mcpConfig \/ \E c : mcpConfig' = [mcpConfig EXCEPT ![q] = c]
      BY <1>2, <1>4 DEF WriteEntries, RecoverEntries, Replaced
    <2>2. QED BY <1>3, <2>1
  <1>6. CASE WriteEntries
    <2>1. mcpConfig[p] = applying.before /\ mcpConfig'[p] = applying.config
      BY <1>3, <1>4, <1>5, <1>6 DEF WriteEntries, Replaced, AsNoted
    <2>2. QED BY <1>3, <1>4, <1>5, <2>1 DEF Spares
  <1>7. CASE RecoverEntries
    <2>1. mcpConfig[p] = applying.config /\ mcpConfig'[p] = applying.before
      BY <1>3, <1>4, <1>5, <1>7 DEF RecoverEntries
    <2>2. QED BY <1>3, <1>4, <1>5, <2>1 DEF Spares
  <1>8. QED BY <1>2, <1>6, <1>7

HIDE McpAssumption

-----------------------------------------------------------------------------
HealthChecks ==
  [at : {"initialize", "announce", "list", "release", "released"}, connected : BOOLEAN,
   session : {"none", "open"}, pages : 0..(MaxPages - 1), tools : SUBSET Tools,
   used : SUBSET Cursors, cursor : Cursors \union {LastPage},
   result : {"none", "failed", "unsupported", "discovered"}]

HealthTypes == check \in HealthChecks /\ expired \in BOOLEAN

\* Tools are listed on an initialised connection, and nothing is reported before the end.
ListsConnected ==
  /\ check.at = "list" => check.connected
  /\ check.at \in {"initialize", "announce", "list"} => check.result = "none"

HealthIInv == HealthTypes /\ ListsConnected /\ DiscoveryIsWhole

-----------------------------------------------------------------------------
USE HealthAssumption

\* The invariant holds before the first request.
LEMMA HealthInitial == HealthInit => HealthIInv
  <1> SUFFICES ASSUME HealthInit PROVE HealthIInv
    OBVIOUS
  <1>1. check \in HealthChecks
    BY DEF HealthInit, HealthChecks
  <1>2. expired \in BOOLEAN
    BY DEF HealthInit
  <1>3. ListsConnected /\ DiscoveryIsWhole
    BY DEF HealthInit, ListsConnected, DiscoveryIsWhole
  <1>4. QED BY <1>1, <1>2, <1>3 DEF HealthIInv, HealthTypes

\* A check that ends without tools.
LEMMA FailKeeps ==
  ASSUME HealthIInv, Fail, UNCHANGED expired
  PROVE  HealthIInv'
  BY DEF HealthIInv, HealthTypes, HealthChecks, ListsConnected, DiscoveryIsWhole, Fail, End

\* A page that was listed: the check goes on, ends, or gives up.
LEMMA PageKeeps ==
  ASSUME HealthIInv, check.at = "list", UNCHANGED expired,
         NEW page \in SUBSET Tools, NEW next \in Cursors \union {LastPage},
         check' = Listed(page, next)
  PROVE  HealthIInv'
  <1> PICK tools \in SUBSET Tools : tools = check.tools \union page
    BY DEF HealthIInv, HealthTypes, HealthChecks
  <1> PICK c \in HealthChecks : c = check
    BY DEF HealthIInv, HealthTypes
  <1>0. c.at = "list" /\ c.connected /\ c.result = "none" /\ c.pages < MaxPages
    BY DEF HealthIInv, ListsConnected, DiscoveryIsWhole
  <1>1. CASE Cardinality(tools) > MaxTools
    BY <1>1, FailKeeps DEF Listed, Fail
  <1>2. CASE ~(Cardinality(tools) > MaxTools) /\ next = LastPage
    <2>1. check' = [c EXCEPT !.at = "release", !.result = "discovered", !.tools = tools,
                             !.cursor = next]
      BY <1>2 DEF Listed, PagesEnd, End, HealthChecks
    <2>2. check' \in HealthChecks
      BY <1>2, <2>1 DEF HealthChecks
    <2>3. /\ check'.connected /\ check'.cursor = LastPage /\ check'.pages = c.pages
          /\ check'.tools = tools /\ check'.at = "release" /\ check'.connected = c.connected
      BY <1>0, <1>2, <2>1 DEF HealthChecks
    <2>4. Cardinality(tools) <= MaxTools
      <3>1. IsFiniteSet(tools)
        BY FS_Subset
      <3>2. Cardinality(tools) \in Nat
        BY <3>1, FS_CardinalityType
      <3>3. QED BY <1>2, <3>2
    <2>5. QED BY <1>0, <2>2, <2>3, <2>4 DEF HealthIInv, HealthTypes, ListsConnected,
                                            DiscoveryIsWhole
  <1>3. CASE ~(Cardinality(tools) > MaxTools) /\ next # LastPage /\ c.pages + 1 = MaxPages
    <2>1. check' = [c EXCEPT !.at = "release", !.result = "failed", !.tools = tools,
                             !.cursor = next]
      BY <1>3 DEF Listed, PagesEnd, End, HealthChecks
    <2>2. QED BY <1>0, <2>1 DEF HealthChecks, HealthIInv, HealthTypes, ListsConnected,
                                DiscoveryIsWhole
  <1>4. CASE ~(Cardinality(tools) > MaxTools) /\ next # LastPage /\ c.pages + 1 # MaxPages
    <2>0. PICK n \in 0..(MaxPages - 1) : n = c.pages + 1
      BY <1>0, <1>4 DEF HealthChecks
    <2>1. check' = [c EXCEPT !.pages = n, !.tools = tools, !.used = c.used \union {next},
                             !.cursor = next]
      BY <1>4, <2>0 DEF Listed, PagesEnd
    <2>2. check' \in HealthChecks
      <3>1. PICK u \in SUBSET Cursors : u = c.used \union {next}
        BY <1>4 DEF HealthChecks
      <3>2. check' = [c EXCEPT !.pages = n, !.tools = tools, !.used = u, !.cursor = next]
        BY <2>1, <3>1
      <3>3. QED BY <3>2 DEF HealthChecks
    <2>3. check'.at = "list" /\ check'.connected = c.connected /\ check'.result = "none"
          /\ check'.pages = n
      BY <1>0, <2>1 DEF HealthChecks
    <2>4. QED BY <1>0, <2>2, <2>3 DEF HealthIInv, HealthTypes, ListsConnected, DiscoveryIsWhole
  <1>5. QED BY <1>1, <1>2, <1>3, <1>4

LEMMA InitializeKeeps ==
  ASSUME HealthIInv, Initialize
  PROVE  HealthIInv'
  <1>1. CASE Fail
    BY <1>1, FailKeeps DEF Initialize
  <1>2. CASE ~Fail
    BY <1>2, ZenonT(40) DEF Initialize, HealthIInv, HealthTypes, HealthChecks, ListsConnected,
                            DiscoveryIsWhole
  <1>3. QED BY <1>1, <1>2

LEMMA AnnounceClientKeeps ==
  ASSUME HealthIInv, AnnounceClient
  PROVE  HealthIInv'
  <1>1. CASE Fail
    BY <1>1, FailKeeps DEF AnnounceClient
  <1>2. CASE ~Fail
    BY <1>2, ZenonT(40) DEF AnnounceClient, End, HealthIInv, HealthTypes, HealthChecks,
                            ListsConnected, DiscoveryIsWhole
  <1>3. QED BY <1>1, <1>2

LEMMA ListToolsKeeps ==
  ASSUME HealthIInv, ListTools
  PROVE  HealthIInv'
  <1>1. CASE Fail
    BY <1>1, FailKeeps DEF ListTools
  <1>2. CASE ~Fail
    <2>1. PICK page \in SUBSET Tools, next \in Cursors \union {LastPage} :
            check' = Listed(page, next)
      BY <1>2 DEF ListTools, Fail
    <2>2. QED BY <2>1, PageKeeps DEF ListTools
  <1>3. QED BY <1>1, <1>2

LEMMA ReleaseKeeps ==
  ASSUME HealthIInv, Release
  PROVE  HealthIInv'
  <1>1. PICK s \in {"none", "open"} : check' = [check EXCEPT !.at = "released", !.session = s]
    BY DEF Release, HealthIInv, HealthTypes, HealthChecks
  <1>2. QED BY <1>1 DEF Release, HealthIInv, HealthTypes, HealthChecks, ListsConnected,
                        DiscoveryIsWhole

LEMMA ExpireKeeps == HealthIInv /\ Expire => HealthIInv'
  BY DEF Expire, HealthIInv, HealthTypes, ListsConnected, DiscoveryIsWhole

LEMMA HealthStepKeeps == HealthIInv /\ [HealthNext]_healthVars => HealthIInv'
  <1>1. HealthIInv /\ UNCHANGED healthVars => HealthIInv'
    BY DEF healthVars, HealthIInv, HealthTypes, ListsConnected, DiscoveryIsWhole
  <1>2. QED BY <1>1, ExpireKeeps, InitializeKeeps, AnnounceClientKeeps, ListToolsKeeps,
               ReleaseKeeps DEF HealthNext

\* The inductive invariant, for any tools, pages and cursors (integrations/mcp, the health
\* check).
THEOREM HealthInvariant == HealthSpec => []HealthIInv
  BY HealthInitial, HealthStepKeeps, PTL DEF HealthSpec

\* The types of a health check.
LEMMA HealthTypesKept == HealthIInv => HealthTypeOK
  BY DEF HealthIInv, HealthTypes, HealthChecks, HealthTypeOK

HIDE HealthAssumption

-----------------------------------------------------------------------------
\* What each part keeps, whichever of them moves.
PartsKeep ==
  /\ IInv /\ LaunchersIInv /\ LockIInv /\ UpdatesIInv /\ OnboardingIInv /\ CodegraphIInv
  /\ McpIInv /\ HealthIInv

LEMMA PartsInitial == MCInit => PartsKeep
  BY InitIInv, LaunchersInitial, LockInitial, UpdatesInitial, OnboardingInitial, CodegraphInitial,
     McpInitial, HealthInitial
  DEF MCInit, PartsKeep

LEMMA PartsStep == PartsKeep /\ [MCNext]_allVars => PartsKeep'
  <1> SUFFICES ASSUME PartsKeep, [MCNext]_allVars PROVE PartsKeep'
    OBVIOUS
  <1>1. [Next]_vars
    BY DEF MCNext, allVars
  <1>2. [LaunchersNext]_launcherVars
    BY DEF MCNext, allVars
  <1>3. [ProjectLockNext]_projectLockVars
    BY DEF MCNext, allVars
  <1>4. [UpdatesNext]_updateVars
    BY DEF MCNext, allVars
  <1>5. [OnboardingNext]_onboardingVars
    BY DEF MCNext, allVars
  <1>6. [CodegraphNext]_codegraphVars
    BY DEF MCNext, allVars
  <1>7. [McpNext]_mcpVars
    BY DEF MCNext, allVars
  <1>8. [HealthNext]_healthVars
    BY DEF MCNext, allVars
  <1>9. QED
    BY <1>1, <1>2, <1>3, <1>4, <1>5, <1>6, <1>7, <1>8, NextStep, LaunchersStepKeeps,
       LockStepKeeps,
       UpdatesStep, OnboardingStep, CodegraphStepKeeps, McpStepKeeps, HealthStepKeeps
    DEF PartsKeep

\* The types of all that is installed, whichever part moves and for any values of its constants.
THEOREM InstallationTypesHold == MCSpec => []TypesOK
  <1>1. PartsKeep => TypesOK
    BY LauncherTypesKept, LockTypesKept, UpdateTypesKept, OnboardingTypesKept, CodegraphTypesKept,
       McpTypesKept, HealthTypesKept
    DEF PartsKeep, IInv, TypesOK
  <1>2. QED BY <1>1, PartsInitial, PartsStep, PTL DEF MCSpec

\* Whatever is edited, upgraded and interrupted: a graph is returned only of the sources it was
\* built from; a server is launched only after it was found as authorized, and runs as it was
\* found unless something changed during the launch; only an edit between an apply's reading
\* and its transaction's own look at the file can be overwritten; and a health check lists all
\* tools or none (src/integrations).
THEOREM IntegrationsHoldAlways == MCSpec => IntegrationsHold
  <1>1. PartsKeep => GraphIsCurrent /\ LaunchedIsGranted /\ DiscoveryIsWhole
    BY DEF PartsKeep, CodegraphIInv, McpIInv, SessionInv, HealthIInv
  <1>2. PartsKeep /\ [MCNext]_allVars =>
          [mcpBounds'.user = mcpBounds.user =>
             \A p \in Hosts, s \in McpServers :
               (mcpConfig[p][s] = ForeignEntry) # (mcpConfig'[p][s] = ForeignEntry)
                 => applying.provider = p /\ applying.read[s] # applying.before[s]]_mcpVars
    <2>1. [MCNext]_allVars => [McpNext]_mcpVars
      BY DEF MCNext, allVars
    <2>2. QED BY <2>1, StepsSpareUsers DEF PartsKeep
  <1>3. QED BY <1>1, <1>2, PartsInitial, PartsStep, PTL
            DEF MCSpec, IntegrationsHold, UserEntriesSurvive

=============================================================================
