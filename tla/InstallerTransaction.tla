------------------------ MODULE InstallerTransaction ------------------------
(***************************************************************************)
(* The journalled installer: applySync and recoverProject of               *)
(* src/src/core.ts over src/src/installer/transactions.ts and the atomic   *)
(* file writes of src/src/storage.ts.                                      *)
(*                                                                         *)
(* A sync reads the configuration, the manifest and the managed files,     *)
(* journals the state of every file it will touch and the state it wants,  *)
(* publishes the files in concurrent batches, then the manifest, and last  *)
(* removes the journal.  A failure rolls back in process; a crash leaves   *)
(* the journal, and `latchkit recover` decides from the bytes on disk      *)
(* whether to roll back or to keep the new files.  All the while a person  *)
(* may edit managed files and the configuration.                           *)
(*                                                                         *)
(* File contents are abstract versions.  A file also has a mode: a write   *)
(* publishes it with the mode the umask allows, and a chmod then sets the  *)
(* recorded one.  One operation at a time holds the project lock.          *)
(***************************************************************************)
EXTENDS Naturals

CONSTANTS
  Files,        \* managed paths (the registered resources)
  Versions,     \* contents that latchkit installs
  Foreign,      \* contents only a person writes
  Absent,       \* no such file; no manifest entry; not desired
  NoJournal,    \* no .latchkit/transaction.json
  NoSurvey,     \* no recovery has computed its registry
  Batch,        \* Batch[f]: index of the batch of 16 that f falls in
  MaxEdits,     \* bound: files a person edits
  MaxConfigs,   \* bound: configuration changes
  MaxFaults     \* bound: crashes and I/O failures

Contents == Versions \union {Foreign, Absent}
Modes    == {"recorded", "masked"}   \* as journalled, or cut by the umask
Snapshot == [bytes : Contents, mode : Modes]
Manifest == [Files -> Versions \union {Absent}]
Journal  == [files : SUBSET Files, before : [Files -> Snapshot],
             manifestBefore : Manifest, manifestAfter : Manifest]
Plan     == [files : SUBSET Files, manifest : Manifest]

ASSUME InstallerAssumption ==
  /\ Absent \notin Versions \union {Foreign}
  /\ Foreign \notin Versions
  /\ NoJournal \notin Journal \union Manifest
  /\ Batch \in [Files -> Nat]
  /\ {MaxEdits, MaxConfigs, MaxFaults} \subseteq Nat

VARIABLES
  file,        \* file[f]: bytes and mode on disk
  manifest,    \* .latchkit/manifest.json: the version recorded for each file
  wanted,      \* what the configuration selects, Absent when f is not selected
  journal,     \* .latchkit/transaction.json
  pc,          \* where the operation holding the project lock is
  plan,        \* the changes a sync has decided on, before it journals them
  step,        \* step[f]: progress of the publication of one file
  restore,     \* restore[f]: what a rollback still has to do for one file
  registry,    \* paths the current operation accepts in a journal
  surveyed,    \* registry of a recovery that is about to take the lock
  lockFile,    \* .latchkit/lock: "none", "held", or "stale" after a crash
  edited,      \* history: files a person has edited
  raced,       \* history: files edited between a check and the write it guards
  edits, configs, faults   \* history: used up bounds

vars == <<file, manifest, wanted, journal, pc, plan, step, restore, registry, surveyed,
          lockFile, edited, raced, edits, configs, faults>>
people    == <<wanted, edited, raced, edits, configs>>
elsewhere == <<manifest, pc, plan, restore, registry, surveyed, lockFile, people>>

Phases == {"idle", "planned", "apply", "unlink",
           "classify", "restore", "discard"}
Steps  == {"todo", "checked", "renamed", "done", "failed"}
Dues   == {"bytes", "mode", "none"}
NoFile == [bytes |-> Absent, mode |-> "recorded"]
Fresh  == [f \in Files |-> "todo"]
NoneDue == [f \in Files |-> "none"]
NoPlan == [files |-> {}, manifest |-> [f \in Files |-> Absent]]

Touched       == IF journal = NoJournal THEN {} ELSE journal.files
Advance(f, s) == step' = [step EXCEPT ![f] = s]

\* The states the journal records for f.  A new file's mode needs no chmod.
Before(f) == journal.before[f]
After(f)  == [bytes |-> journal.manifestAfter[f],
              mode |-> IF Before(f).bytes = Absent \/ journal.manifestAfter[f] = Absent
                       THEN "recorded" ELSE Before(f).mode]

\* The operation returns or throws, and releases the project lock.  (The
\* variant leaves the lock behind.)
KeepsLock == /\ pc' = "idle"
             /\ step' = Fresh
             /\ restore' = NoneDue
             /\ UNCHANGED lockFile
Finish    == /\ pc' = "idle"
             /\ step' = Fresh
             /\ restore' = NoneDue
             /\ lockFile' = "none"

\* An I/O failure or a crash, within its bound.
Fault == /\ faults < MaxFaults
         /\ faults' = faults + 1

-----------------------------------------------------------------------------
Init ==
  /\ manifest \in Manifest
  /\ wanted \in Manifest
  /\ file = [f \in Files |-> [bytes |-> manifest[f], mode |-> "recorded"]]
  /\ journal = NoJournal
  /\ pc = "idle"
  /\ plan = NoPlan
  /\ step = Fresh
  /\ restore = NoneDue
  /\ registry = {}
  /\ surveyed = NoSurvey
  /\ lockFile = "none"
  /\ edited = {}
  /\ raced = {}
  /\ edits = 0
  /\ configs = 0
  /\ faults = 0

-----------------------------------------------------------------------------
(* Sync *)

\* What a sync wants, or a removal, which wants nothing whatever is selected.
Nothing == [f \in Files |-> Absent]
Goals   == {wanted, Nothing}

\* makePlan looks at a file when the manifest records it or the operation wants
\* it; existing bytes other than the recorded ones conflict.
InPlan(f, goal)   == manifest[f] # Absent \/ goal[f] # Absent
Conflict(f, goal) == InPlan(f, goal) /\ file[f].bytes \notin {Absent, manifest[f]}
Changes(goal)     == {f \in Files : /\ InPlan(f, goal)
                                    /\ goal[f] = Absent \/ file[f].bytes # goal[f]}

\* registryFor: the paths the manifest records or the operation wants.
Registered(goal) == {f \in Files : InPlan(f, goal)}

\* A transaction does not start over the journal of another one.  (The variant
\* forgets to look.)
IgnoresJournal   == TRUE
NoPendingJournal == journal = NoJournal

\* applySync up to its re-check of every changed file: no conflict, something
\* to do, and a registry that knows what the journal will name.
PlanSync ==
  /\ pc = "idle"
  /\ lockFile = "none"
  /\ NoPendingJournal
  /\ \E goal \in Goals :
       /\ ~\E f \in Files : Conflict(f, goal)
       /\ Changes(goal) # {}
       /\ plan' = [files |-> Changes(goal),
                   manifest |-> [f \in Files |-> IF f \in Changes(goal) THEN goal[f]
                                                                        ELSE manifest[f]]]
       /\ registry' = Registered(goal)
  /\ lockFile' = "held"
  /\ pc' = "planned"
  /\ UNCHANGED <<file, manifest, journal, step, restore, surveyed, faults, people>>

\* Snapshot every file of the plan and publish the journal.  A failure after
\* the rename leaves the journal to a later recovery.
WriteJournal ==
  /\ pc = "planned"
  /\ journal' = [files |-> plan.files,
                 before |-> [f \in Files |-> IF f \in plan.files THEN file[f] ELSE NoFile],
                 manifestBefore |-> manifest, manifestAfter |-> plan.manifest]
  /\ plan' = NoPlan
  /\ \/ /\ pc' = "apply"
        /\ UNCHANGED <<step, restore, lockFile, faults>>
     \/ Fault /\ Finish
  /\ UNCHANGED <<file, manifest, registry, surveyed, people>>

AbandonPlan ==
  /\ pc = "planned"
  /\ Fault /\ Finish
  /\ plan' = NoPlan
  /\ UNCHANGED <<file, manifest, journal, registry, surveyed, people>>

\* A file may start when every file of the earlier batches has been published.
Started(f) == \A g \in Touched : Batch[g] < Batch[f] => step[g] = "done"

\* The file must still be in the state the journal records.  (The variant
\* trusts the journal.)
TrustsSnapshot(f) == TRUE
StillBefore(f)    == file[f].bytes = Before(f).bytes

CheckFile(f) ==
  /\ pc = "apply"
  /\ f \in Touched
  /\ step[f] = "todo"
  /\ Started(f)
  /\ Advance(f, IF StillBefore(f) THEN "checked" ELSE "failed")
  /\ UNCHANGED <<file, journal, faults, elsewhere>>

\* Replace the file by rename, or remove it; the mode is set by a later chmod.
Published(snapshot) == [snapshot EXCEPT !.mode = IF snapshot.bytes = Absent THEN @ ELSE "masked"]

WriteFile(f) ==
  /\ f \in Touched
  /\ step[f] = "checked"
  /\ \/ /\ file' = [file EXCEPT ![f] = Published(After(f))]
        /\ \/ /\ Advance(f, IF After(f).bytes = Absent THEN "done" ELSE "renamed")
              /\ UNCHANGED faults
           \/ Fault /\ Advance(f, "failed")
     \/ /\ Fault /\ Advance(f, "failed")
        /\ UNCHANGED file
  /\ UNCHANGED <<journal, elsewhere>>

ChmodFile(f) ==
  /\ f \in Touched
  /\ step[f] = "renamed"
  /\ \/ /\ file' = [file EXCEPT ![f].mode = After(f).mode]
        /\ Advance(f, "done")
        /\ UNCHANGED faults
     \/ /\ Fault /\ Advance(f, "failed")
        /\ UNCHANGED file
  /\ UNCHANGED <<journal, elsewhere>>

\* Promise.allSettled: a failed batch is drained before the rollback starts.
\* (One variant is Promise.all, which rejects at once and leaves the others in
\* flight; the other waits for the batches that never start.)
FirstFailure == \E f \in Touched : step[f] = "failed"
AllBatches   == FirstFailure /\ \A f \in Touched : step[f] \in {"done", "failed"}
Drained      == /\ \E f \in Touched : step[f] = "failed"
                /\ \A f \in Touched : Started(f) => step[f] \in {"done", "failed"}

ApplyFailed ==
  /\ pc = "apply"
  /\ Drained
  /\ pc' = "classify"
  /\ step' = [f \in Files |-> IF step[f] \in {"checked", "renamed"} THEN step[f] ELSE "todo"]
  /\ UNCHANGED <<file, manifest, journal, plan, restore, registry, surveyed, lockFile,
                 faults, people>>

\* The manifest is published when every file is.  (The variant forgets that a
\* file may have failed.)
NoneInFlight == \A f \in Touched : step[f] \in {"done", "failed"}
AllDone      == \A f \in Touched : step[f] = "done"

CommitManifest ==
  /\ pc = "apply"
  /\ AllDone
  /\ step' = Fresh
  /\ \/ /\ manifest' = journal.manifestAfter
        /\ \/ pc' = "unlink" /\ UNCHANGED faults
           \/ pc' = "classify" /\ Fault
     \/ /\ pc' = "classify" /\ Fault
        /\ UNCHANGED manifest
  /\ UNCHANGED <<file, journal, plan, restore, registry, surveyed, lockFile, people>>

\* The last step of a sync.  A failure of the removal falls into recovery.
UnlinkJournal ==
  /\ pc = "unlink"
  /\ \/ /\ journal' = NoJournal
        /\ Finish
        /\ UNCHANGED faults
     \/ /\ journal' \in {journal, NoJournal}
        /\ pc' = "classify"
        /\ Fault
        /\ UNCHANGED <<step, restore, lockFile>>
  /\ UNCHANGED <<file, manifest, plan, registry, surveyed, people>>

-----------------------------------------------------------------------------
(* Recovery *)

\* recoverProject: a stale lock is removed and the registry computed before
\* the project lock is taken.
SurveyRecovery ==
  /\ surveyed = NoSurvey
  /\ lockFile # "held"
  /\ lockFile' = "none"
  /\ surveyed' = Registered(wanted)
  /\ UNCHANGED <<file, manifest, journal, pc, plan, step, restore, registry, faults, people>>

\* Another operation may have come in between; then the recovery fails.
BeginRecovery ==
  /\ surveyed # NoSurvey
  /\ surveyed' = NoSurvey
  /\ \/ /\ lockFile = "none"
        /\ lockFile' = "held"
        /\ registry' = surveyed
        /\ pc' = "classify"
     \/ /\ lockFile # "none"
        /\ UNCHANGED <<lockFile, registry, pc>>
  /\ UNCHANGED <<file, manifest, journal, plan, step, restore, faults, people>>

\* classify: the state before is looked for first, and by bytes alone.
IsBefore(f)   == file[f].bytes = Before(f).bytes
IsAfter(f)    == ~IsBefore(f) /\ file[f].bytes = journal.manifestAfter[f]
InConflict(f) == ~IsBefore(f) /\ ~IsAfter(f)
RolledBack    == manifest = journal.manifestBefore
Committed     == ~RolledBack /\ manifest = journal.manifestAfter

\* What blocks a recovery: a journal naming unknown paths, or bytes that match
\* neither recorded state.
Recognised == Touched \subseteq registry
Blocked    == \/ ~Recognised
              \/ \E f \in Touched : InConflict(f)
              \/ ~RolledBack /\ ~Committed

NothingToRecover ==
  /\ pc = "classify"
  /\ journal # NoJournal => Blocked
  /\ Finish
  /\ UNCHANGED <<file, manifest, journal, plan, registry, surveyed, faults, people>>

\* Only a file in the state after is restored.
Classify ==
  /\ pc = "classify"
  /\ journal # NoJournal
  /\ ~Blocked
  /\ \/ /\ RolledBack
        /\ pc' = "restore"
        /\ restore' = [f \in Files |-> IF f \in Touched /\ IsAfter(f) THEN "bytes" ELSE "none"]
     \/ /\ Committed
        /\ pc' = "discard"
        /\ UNCHANGED restore
  /\ UNCHANGED <<file, manifest, journal, plan, step, registry, surveyed, lockFile,
                 faults, people>>

\* Restores run one after the other; a failure ends the operation and leaves
\* the journal for the next recovery.
RestoreFile(f) ==
  /\ restore[f] = "bytes"
  /\ \A g \in Files : restore[g] # "mode"
  /\ \/ /\ file' = [file EXCEPT ![f] = Published(Before(f))]
        /\ \/ /\ restore' = [restore EXCEPT ![f] = IF Before(f).bytes = Absent THEN "none" ELSE "mode"]
              /\ UNCHANGED <<pc, step, lockFile, faults>>
           \/ Fault /\ Finish
     \/ /\ Fault /\ Finish
        /\ UNCHANGED file
  /\ UNCHANGED <<manifest, journal, plan, registry, surveyed, people>>

RestoreMode(f) ==
  /\ restore[f] = "mode"
  /\ \/ /\ file' = [file EXCEPT ![f].mode = Before(f).mode]
        /\ restore' = [restore EXCEPT ![f] = "none"]
        /\ UNCHANGED <<pc, step, lockFile, faults>>
     \/ /\ Fault /\ Finish
        /\ UNCHANGED file
  /\ UNCHANGED <<manifest, journal, plan, registry, surveyed, people>>

\* The journal goes once nothing is left to restore.
RemoveJournal ==
  /\ \/ pc = "restore" /\ restore = NoneDue
     \/ pc = "discard"
  /\ Finish
  /\ \/ /\ journal' = NoJournal
        /\ UNCHANGED faults
     \/ /\ journal' \in {journal, NoJournal}
        /\ Fault
  /\ UNCHANGED <<file, manifest, plan, registry, surveyed, people>>

-----------------------------------------------------------------------------
(* The environment *)

\* The process dies: the disk and the lock file stay as they are.
Crash ==
  /\ pc # "idle"
  /\ Fault
  /\ pc' = "idle"
  /\ lockFile' = "stale"
  /\ step' = Fresh
  /\ restore' = NoneDue
  /\ plan' = NoPlan
  /\ UNCHANGED <<file, manifest, journal, registry, surveyed, people>>

\* Between the read that allows a write of f and the write itself.
InWindow(f) ==
  \/ pc = "planned" /\ f \in plan.files
  \/ step[f] = "checked"
  \/ restore[f] = "bytes"

\* A person changes, deletes or puts back a managed file.
EditFile(f) ==
  /\ edits < MaxEdits
  /\ edits' = edits + 1
  /\ \E bytes \in Contents \ {file[f].bytes} :
       file' = [file EXCEPT ![f] = [bytes |-> bytes, mode |-> "recorded"]]
  /\ edited' = edited \union {f}
  /\ raced' = IF InWindow(f) THEN raced \union {f} ELSE raced
  /\ UNCHANGED <<manifest, wanted, journal, pc, plan, step, restore, registry, surveyed,
                 lockFile, configs, faults>>

\* A person replaces the manifest, which puts every file out of step with it.
EditManifest ==
  /\ edits < MaxEdits
  /\ edits' = edits + 1
  /\ manifest' \in Manifest \ {manifest}
  /\ edited' = Files
  /\ UNCHANGED <<file, wanted, journal, pc, plan, step, restore, registry, surveyed,
                 lockFile, raced, configs, faults>>

\* The configuration selects something else (saveConfig, or an editor).
EditConfig ==
  /\ configs < MaxConfigs
  /\ configs' = configs + 1
  /\ wanted' \in Manifest \ {wanted}
  /\ UNCHANGED <<file, manifest, journal, pc, plan, step, restore, registry, surveyed,
                 lockFile, edited, raced, edits, faults>>

SyncStep ==
  \/ WriteJournal \/ ApplyFailed \/ CommitManifest \/ UnlinkJournal
  \/ \E f \in Files : CheckFile(f) \/ WriteFile(f) \/ ChmodFile(f)

RecoveryStep ==
  \/ NothingToRecover \/ Classify \/ RemoveJournal
  \/ \E f \in Files : RestoreFile(f) \/ RestoreMode(f)

Next ==
  \/ PlanSync \/ AbandonPlan \/ SyncStep
  \/ SurveyRecovery \/ BeginRecovery \/ RecoveryStep
  \/ Crash \/ EditManifest \/ EditConfig
  \/ \E f \in Files : EditFile(f)

\* A running operation is never suspended for ever.  Nobody has to start one.
Spec == Init /\ [][Next]_vars /\ WF_vars(SyncStep) /\ WF_vars(RecoveryStep)


-----------------------------------------------------------------------------
(* Properties *)

\* Types, and that the project lock is held exactly while an operation runs,
\* and a plan exists exactly while it has not been journalled.
TypeOK ==
  /\ file \in [Files -> Snapshot]
  /\ manifest \in Manifest
  /\ wanted \in Manifest
  /\ journal \in Journal \union {NoJournal}
  /\ pc \in Phases
  /\ plan \in Plan
  /\ step \in [Files -> Steps]
  /\ restore \in [Files -> Dues]
  /\ registry \in SUBSET Files
  /\ surveyed \in (SUBSET Files) \union {NoSurvey}
  /\ lockFile \in {"none", "held", "stale"}
  /\ edited \in SUBSET Files
  /\ raced \in SUBSET Files
  /\ {edits, configs, faults} \subseteq Nat
  /\ (pc # "idle") <=> (lockFile = "held")
  /\ (plan # NoPlan) => (pc = "planned")
  /\ pc \in {"apply", "unlink", "restore", "discard"} => journal # NoJournal

\* Whenever no journal is pending, every file that no person has touched holds
\* exactly what the manifest records: no crash, failure or retry of sync and
\* recovery leaves a half-installed project behind.
Installed ==
  journal = NoJournal => \A f \in Files \ edited : file[f].bytes = manifest[f]

\* A pending journal is always decidable: an untouched file is in one of the
\* two recorded states, and once the manifest has committed they are all new.
Decidable ==
  journal # NoJournal =>
    \A f \in Touched \ edited : IF Committed THEN IsAfter(f) ELSE ~InConflict(f)

\* Contents that only a person writes disappear by the program's doing only if
\* the edit fell between a check and the write it guards.
EditsSurvive ==
  [][\A f \in Files :
       file[f].bytes = Foreign /\ file'[f].bytes # Foreign => f \in raced' \/ edits' # edits]_vars

\* Every sync and every recovery ends, whatever fails and whoever edits.
OperationsEnd == pc # "idle" ~> pc = "idle"

\* What a reader who consults the journal sees in f: the recorded state that
\* recovery would settle on.
Effective(f) ==
  IF f \notin Touched THEN file[f].bytes
  ELSE IF RolledBack THEN Before(f).bytes ELSE journal.manifestAfter[f]

\* What a sync has decided on and not yet recorded in the manifest.
Requested ==
  IF pc = "planned" THEN plan.manifest
  ELSE IF journal # NoJournal /\ RolledBack THEN journal.manifestAfter
  ELSE NoJournal

Abstract == INSTANCE AtomicInstall WITH
  content <- [f \in Files |-> Effective(f)], recorded <- manifest,
  request <- Requested, NoRequest <- NoJournal

\* The installer implements an installation that is one atomic step.
ImplementsAtomicInstall == Abstract!Spec

\* docs/recovery.md:7 "Run the same command without --dry-run to ... perform
\* the reported recovery" and :9 "Committed transactions retain the new
\* resources and remove completed metadata": the paths of a pending journal
\* are known to a recovery, as long as nobody edits files or configuration.
JournalRecognised ==
  journal # NoJournal /\ edited = {} /\ configs = 0 => Touched \subseteq Registered(wanted)
=============================================================================
