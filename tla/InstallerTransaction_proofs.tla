--------------------- MODULE InstallerTransaction_proofs ---------------------
(***************************************************************************)
(* For any files, versions and batches, and any number of edits, failures  *)
(* and crashes: whatever sync and recovery leave behind agrees with the    *)
(* manifest, and the installer implements AtomicInstall.                   *)
(*                                                                         *)
(* The inductive invariant describes the untouched files: what the plan    *)
(* and the journal say of them, and, for every point of a publication or   *)
(* a rollback, which of the two recorded states each of them is in.        *)
(***************************************************************************)
EXTENDS InstallerTransaction, TLAPS

Unedited == Files \ edited

\* Where the pieces of an operation in progress may be found.
Control ==
  /\ pc = "planned" => journal = NoJournal
  /\ \A f \in Files : step[f] # "todo" => pc = "apply" /\ f \in Touched /\ Started(f)
  /\ \A f \in Files : restore[f] # "none" => pc = "restore" /\ f \in Touched

\* Without a journal an untouched file is as the manifest says, and a plan
\* changes exactly the untouched files it names.
Settled ==
  /\ journal = NoJournal => \A f \in Unedited : file[f].bytes = manifest[f]
  /\ pc = "planned" =>
       \A f \in Unedited : f \in plan.files <=> plan.manifest[f] # manifest[f]

\* A journal is true to the untouched files: it names those that change, and
\* recorded what the manifest recorded.
Truthful ==
  journal # NoJournal =>
    \A f \in Unedited :
      /\ f \in journal.files <=> journal.manifestAfter[f] # journal.manifestBefore[f]
      /\ f \in journal.files => journal.before[f].bytes = journal.manifestBefore[f]
      /\ file[f].bytes \in {journal.manifestBefore[f], journal.manifestAfter[f]}
      /\ manifest \in {journal.manifestBefore, journal.manifestAfter}
      /\ manifest = journal.manifestAfter => file[f].bytes = journal.manifestAfter[f]

\* How far the publication, or the rollback, of an untouched file has come.
Progress ==
  \A f \in Unedited :
    /\ pc \in {"apply", "restore"} => manifest = journal.manifestBefore
    /\ pc \in {"unlink", "discard"} => manifest = journal.manifestAfter
    /\ pc = "apply" /\ f \in Touched =>
         /\ step[f] \in {"todo", "checked"} => file[f].bytes = journal.manifestBefore[f]
         /\ step[f] \in {"renamed", "done"} => file[f].bytes = journal.manifestAfter[f]
    /\ pc = "restore" /\ restore[f] # "bytes" => file[f].bytes = journal.manifestBefore[f]

\* Foreign contents on their way to be overwritten were put there by an edit
\* between the check and the write.
Window ==
  \A f \in Files :
    /\ journal # NoJournal /\ f \in journal.files /\ journal.before[f].bytes = Foreign
         => f \in raced
    /\ InWindow(f) /\ file[f].bytes = Foreign => f \in raced

IInv == TypeOK /\ Control /\ Settled /\ Truthful /\ Progress /\ Window

-----------------------------------------------------------------------------
USE InstallerAssumption

\* The states a journal records, and what a rename publishes, are snapshots.
LEMMA SnapshotTypes ==
  ASSUME TypeOK, journal # NoJournal, NEW f \in Files
  PROVE  /\ journal \in Journal
         /\ Before(f) \in Snapshot
         /\ After(f) \in Snapshot
         /\ After(f).bytes = journal.manifestAfter[f]
         /\ Published(Before(f)) \in Snapshot
         /\ Published(Before(f)).bytes = Before(f).bytes
         /\ Published(After(f)) \in Snapshot
         /\ Published(After(f)).bytes = After(f).bytes
  <1>1. journal \in Journal BY DEF TypeOK
  <1>2. Before(f) \in Snapshot BY <1>1 DEF Journal, Before
  <1>3. journal.manifestAfter[f] \in Versions \union {Absent} BY <1>1 DEF Journal, Manifest
  <1>4. After(f) \in Snapshot /\ After(f).bytes = journal.manifestAfter[f]
    BY <1>2, <1>3 DEF After, Snapshot, Contents, Modes
  <1>5. ASSUME NEW s \in Snapshot PROVE Published(s) \in Snapshot /\ Published(s).bytes = s.bytes
    BY DEF Published, Snapshot, Modes
  <1>6. QED BY <1>1, <1>2, <1>4, <1>5

\* A project whose files are as the manifest says satisfies the invariant.
LEMMA InitIInv == Init => IInv
  <1> SUFFICES ASSUME Init PROVE IInv
    OBVIOUS
  <1> USE DEF Init, Fresh, NoneDue, NoPlan, Unedited, Touched
  <1>1. TypeOK BY DEF TypeOK, Snapshot, Contents, Modes, Manifest, Phases, Plan, Steps, Dues
  <1>2. Control BY DEF Control
  <1>3. Settled BY DEF Settled
  <1>4. Truthful BY DEF Truthful
  <1>5. Progress BY DEF Progress
  <1>6. Window BY DEF Window, InWindow
  <1>7. QED BY <1>1, <1>2, <1>3, <1>4, <1>5, <1>6 DEF IInv

\* A plan names exactly the untouched files it changes.
LEMMA PlanSyncStep == ASSUME IInv, PlanSync PROVE IInv'
  <1> USE DEF IInv
  <1>1. TypeOK' BY DEF PlanSync, people, Goals, Nothing, Changes, Registered, TypeOK, Manifest,
                       Phases, Plan
  <1>2. Control' BY DEF PlanSync, NoPendingJournal, Control
  <1>3. Settled' BY DEF PlanSync, people, Changes, InPlan, NoPendingJournal, Settled, Unedited
  <1>4. Truthful' BY DEF PlanSync, NoPendingJournal, Truthful
  <1>5. Progress' BY DEF PlanSync, Progress
  <1>6. Window' BY DEF PlanSync, people, Changes, Conflict, TypeOK, Window, InWindow, Manifest
  <1>7. QED BY <1>1, <1>2, <1>3, <1>4, <1>5, <1>6

\* The journal records, of untouched files, what the manifest recorded.
LEMMA WriteJournalStep == ASSUME IInv, WriteJournal PROVE IInv'
  <1> USE DEF IInv
  <1>1. TypeOK' BY DEF WriteJournal, Fault, Finish, Fresh, NoneDue, NoPlan, NoFile, people,
                       TypeOK, Snapshot, Contents, Modes, Manifest, Journal, Phases, Plan, Steps,
                          Dues
  <1>2. Control' BY DEF WriteJournal, Finish, Fresh, NoneDue, Control
  <1>3. Settled' BY DEF WriteJournal, Finish, people, Control, Settled, Unedited
  <1>4. Truthful' BY DEF WriteJournal, people, Control, Settled, Truthful, Unedited
  <1>5. Progress' BY DEF WriteJournal, Finish, people, Control, Settled, Progress, Unedited
  <1>6. Window' BY DEF WriteJournal, Finish, Fresh, NoneDue, people, Window, InWindow
  <1>7. QED BY <1>1, <1>2, <1>3, <1>4, <1>5, <1>6

\* A plan that fails before its journal leaves everything as it was.
LEMMA AbandonPlanStep == ASSUME IInv, AbandonPlan PROVE IInv'
  <1> USE DEF IInv
  <1>1. TypeOK' BY DEF AbandonPlan, Fault, Finish, Fresh, NoneDue, NoPlan, people, TypeOK,
                       Manifest, Phases, Plan, Steps, Dues
  <1>2. Control' BY DEF AbandonPlan, Finish, Fresh, NoneDue, Control
  <1>3. Settled' BY DEF AbandonPlan, Finish, people, Settled, Unedited
  <1>4. Truthful' BY DEF AbandonPlan, Control, Truthful
  <1>5. Progress' BY DEF AbandonPlan, Finish, Progress
  <1>6. Window' BY DEF AbandonPlan, Finish, Fresh, NoneDue, people, Window, InWindow
  <1>7. QED BY <1>1, <1>2, <1>3, <1>4, <1>5, <1>6

\* A check starts only files of batches whose turn has come.
LEMMA CheckFileStep == ASSUME NEW f \in Files, IInv, CheckFile(f) PROVE IInv'
  <1> USE DEF IInv
  <1>1. TypeOK' BY DEF CheckFile, Advance, people, elsewhere, TypeOK, Steps
  <1>2. Control' BY DEF CheckFile, Advance, elsewhere, Control, Touched, Started
  <1>3. Settled' BY DEF CheckFile, elsewhere, TypeOK, Settled
  <1>4. Truthful' BY DEF CheckFile, people, elsewhere, Truthful, Unedited
  <1>5. Progress' BY DEF CheckFile, Advance, people, elsewhere, Progress, Unedited, Touched
  <1>6. Window' BY DEF CheckFile, Advance, people, elsewhere, StillBefore, Before, Window,
                       InWindow, Touched
  <1>7. QED BY <1>1, <1>2, <1>3, <1>4, <1>5, <1>6

\* A rename takes an untouched file from its old state to its new one.
LEMMA WriteFileStep == ASSUME NEW f \in Files, IInv, WriteFile(f) PROVE IInv'
  <1> USE DEF IInv
  <1> DEFINE Next1 == IF After(f).bytes = Absent THEN "done" ELSE "renamed"
  <1>1. /\ journal # NoJournal
        /\ f \in journal.files
        /\ pc = "apply"
    BY DEF WriteFile, Control, Touched
  <1>2. /\ Published(After(f)) \in Snapshot
        /\ Published(After(f)).bytes = journal.manifestAfter[f]
    BY <1>1, SnapshotTypes
  <1>3. /\ \/ file' = [file EXCEPT ![f] = Published(After(f))] /\ step' = [step EXCEPT ![f] = Next1]
           \/ file' = [file EXCEPT ![f] = Published(After(f))] /\ step' = [step EXCEPT ![f] = "failed"]
           \/ file' = file /\ step' = [step EXCEPT ![f] = "failed"]
        /\ step[f] = "checked"
        /\ faults' \in {faults, faults + 1}
        /\ UNCHANGED <<journal, elsewhere>>
    BY DEF WriteFile, Advance, Fault
  <1>4. /\ file' \in [Files -> Snapshot]
        /\ \A g \in Files \ {f} : file'[g] = file[g]
        /\ step' \in [Files -> Steps]
        /\ \A g \in Files \ {f} : step'[g] = step[g]
        /\ \/ file'[f].bytes = journal.manifestAfter[f] /\ step'[f] \in {"done", "renamed", "failed"}
           \/ file'[f].bytes = file[f].bytes /\ step'[f] = "failed"
    <2>1. Next1 \in {"done", "renamed"} OBVIOUS
    <2> HIDE DEF Next1
    <2>2. QED BY <1>2, <1>3, <2>1 DEF TypeOK, Steps
  <1> HIDE DEF Next1
  <1>5. UNCHANGED <<journal, elsewhere>> /\ step[f] = "checked" /\ faults' \in {faults, faults + 1}
    BY <1>3
  <1>6. TypeOK' BY <1>4, <1>5 DEF TypeOK, elsewhere, people
  <1>7. Control'
    <2>1. Touched' = Touched /\ pc' = pc /\ restore' = restore /\ journal' = journal
      BY <1>5 DEF Touched, elsewhere
    <2>2. ASSUME NEW g \in Files, step'[g] # "todo" PROVE Started(g)'
      <3>1. Started(g) BY <1>4, <1>5, <2>2 DEF Control
      <3>2. \A h \in Touched : Batch[h] < Batch[g] => h # f BY <1>5, <3>1 DEF Started
      <3>3. Touched \subseteq Files BY <1>1 DEF Touched, TypeOK, Journal
      <3>4. QED BY <1>4, <2>1, <3>1, <3>2, <3>3 DEF Started
    <2>3. QED BY <1>1, <1>4, <1>5, <2>1, <2>2 DEF Control
  <1>8. Settled' BY <1>1, <1>4, <1>5 DEF elsewhere, Settled
  <1>9. Truthful'
    BY <1>1, <1>4, <1>5 DEF elsewhere, people, Truthful, Unedited
  <1>10. Progress'
    BY <1>1, <1>4, <1>5 DEF elsewhere, people, Progress, Unedited, Touched
  <1>11. Window'
    <2>1. journal.manifestAfter[f] # Foreign BY <1>1 DEF TypeOK, Journal, Manifest
    <2>2. QED BY <1>1, <1>4, <1>5, <2>1 DEF elsewhere, people, Window, InWindow
  <1>12. QED BY <1>6, <1>7, <1>8, <1>9, <1>10, <1>11

\* A chmod completes the publication and leaves the bytes alone.
LEMMA ChmodFileStep == ASSUME NEW f \in Files, IInv, ChmodFile(f) PROVE IInv'
  <1> USE DEF IInv
  <1>1. /\ journal # NoJournal
        /\ f \in journal.files
        /\ pc = "apply"
    BY DEF ChmodFile, Control, Touched
  <1>2. After(f).mode \in Modes
    BY <1>1, SnapshotTypes DEF Snapshot
  <1>3. /\ \/ file' = [file EXCEPT ![f].mode = After(f).mode] /\ step' = [step EXCEPT ![f] = "done"]
           \/ file' = file /\ step' = [step EXCEPT ![f] = "failed"]
        /\ step[f] = "renamed"
        /\ faults' \in {faults, faults + 1}
        /\ UNCHANGED <<journal, elsewhere>>
    BY DEF ChmodFile, Advance, Fault
  <1>4. /\ file' \in [Files -> Snapshot]
        /\ \A g \in Files : file'[g].bytes = file[g].bytes
        /\ step' \in [Files -> Steps]
        /\ \A g \in Files \ {f} : step'[g] = step[g]
        /\ step'[f] \in {"done", "failed"}
    <2>1. step' \in [Files -> Steps] /\ (\A g \in Files \ {f} : step'[g] = step[g])
          /\ step'[f] \in {"done", "failed"}
      BY <1>3 DEF TypeOK, Steps
    <2>2. file' \in [Files -> Snapshot] /\ \A g \in Files : file'[g].bytes = file[g].bytes
      BY <1>2, <1>3 DEF TypeOK, Snapshot
    <2>3. QED BY <2>1, <2>2
  <1>5. UNCHANGED <<journal, elsewhere>> /\ step[f] = "renamed" /\ faults' \in {faults, faults + 1}
    BY <1>3
  <1>6. TypeOK' BY <1>4, <1>5 DEF TypeOK, elsewhere, people
  <1>7. Control'
    <2>1. Touched' = Touched /\ pc' = pc /\ restore' = restore /\ journal' = journal
      BY <1>5 DEF Touched, elsewhere
    <2>2. ASSUME NEW g \in Files, step'[g] # "todo" PROVE Started(g)'
      <3>1. Started(g) BY <1>4, <1>5, <2>2 DEF Control
      <3>2. \A h \in Touched : Batch[h] < Batch[g] => h # f BY <1>5, <3>1 DEF Started
      <3>3. Touched \subseteq Files BY <1>1 DEF Touched, TypeOK, Journal
      <3>4. QED BY <1>4, <2>1, <3>1, <3>2, <3>3 DEF Started
    <2>3. QED BY <1>1, <1>4, <1>5, <2>1, <2>2 DEF Control
  <1>8. Settled' BY <1>1, <1>4, <1>5 DEF elsewhere, Settled
  <1>9. Truthful' BY <1>1, <1>4, <1>5 DEF elsewhere, people, Truthful, Unedited
  <1>10. Progress' BY <1>1, <1>4, <1>5 DEF elsewhere, people, Progress, Unedited, Touched
  <1>11. Window' BY <1>1, <1>4, <1>5 DEF elsewhere, people, Window, InWindow
  <1>12. QED BY <1>6, <1>7, <1>8, <1>9, <1>10, <1>11

\* A drained batch leaves every untouched file in a recorded state.
LEMMA ApplyFailedStep == ASSUME IInv, ApplyFailed PROVE IInv'
  <1> USE DEF IInv
  <1>1. TypeOK' BY DEF ApplyFailed, people, TypeOK, Phases, Steps
  <1>2. Control' BY DEF ApplyFailed, Drained, Control
  <1>3. Settled' BY DEF ApplyFailed, TypeOK, Settled
  <1>4. Truthful' BY DEF ApplyFailed, people, Truthful, Unedited
  <1>5. Progress' BY DEF ApplyFailed, Progress
  <1>6. Window' BY DEF ApplyFailed, people, Window, InWindow
  <1>7. QED BY <1>1, <1>2, <1>3, <1>4, <1>5, <1>6

\* The manifest is published when every file is in its new state.
LEMMA CommitManifestStep == ASSUME IInv, CommitManifest PROVE IInv'
  <1> USE DEF IInv
  <1>1. TypeOK' BY DEF CommitManifest, Fault, Fresh, people, TypeOK, Journal, Phases, Steps
  <1>2. Control' BY DEF CommitManifest, Fresh, Control
  <1>3. Settled' BY DEF CommitManifest, TypeOK, Settled
  <1>4. Truthful' BY DEF CommitManifest, people, AllDone, Truthful, Progress, Unedited, Touched
  <1>5. Progress' BY DEF CommitManifest, Progress
  <1>6. Window' BY DEF CommitManifest, Fresh, people, Window, InWindow
  <1>7. QED BY <1>1, <1>2, <1>3, <1>4, <1>5, <1>6

\* Without its journal a committed sync is as its manifest says.
LEMMA UnlinkJournalStep == ASSUME IInv, UnlinkJournal PROVE IInv'
  <1> USE DEF IInv
  <1>1. TypeOK' BY DEF UnlinkJournal, Fault, Finish, Fresh, NoneDue, people, TypeOK, Phases,
                       Steps, Dues
  <1>2. Control' BY DEF UnlinkJournal, Finish, Fresh, NoneDue, Control
  <1>3. Settled' BY DEF UnlinkJournal, Finish, people, Settled, Truthful, Progress, Unedited
  <1>4. Truthful' BY DEF UnlinkJournal, people, Truthful, Unedited
  <1>5. Progress' BY DEF UnlinkJournal, Finish, Progress
  <1>6. Window' BY DEF UnlinkJournal, Finish, Fresh, NoneDue, people, Window, InWindow
  <1>7. QED BY <1>1, <1>2, <1>3, <1>4, <1>5, <1>6

\* Computing a registry and reclaiming a stale lock keep the invariant.
LEMMA SurveyRecoveryStep == ASSUME IInv, SurveyRecovery PROVE IInv'
  <1> USE DEF IInv
  <1>1. TypeOK' BY DEF SurveyRecovery, people, Registered, TypeOK
  <1>2. Control' BY DEF SurveyRecovery, TypeOK, Control
  <1>3. Settled' BY DEF SurveyRecovery, people, Settled, Unedited
  <1>4. Truthful' BY DEF SurveyRecovery, people, Truthful, Unedited
  <1>5. Progress' BY DEF SurveyRecovery, TypeOK, Progress
  <1>6. Window' BY DEF SurveyRecovery, people, Window, InWindow
  <1>7. QED BY <1>1, <1>2, <1>3, <1>4, <1>5, <1>6

\* Taking the project lock for a recovery keeps the invariant.
LEMMA BeginRecoveryStep == ASSUME IInv, BeginRecovery PROVE IInv'
  <1> USE DEF IInv
  <1>1. TypeOK' BY DEF BeginRecovery, people, TypeOK, Phases
  <1>2. Control' BY DEF BeginRecovery, TypeOK, Control, Touched, Started
  <1>3. Settled' BY DEF BeginRecovery, people, Settled, Unedited
  <1>4. Truthful' BY DEF BeginRecovery, people, Truthful, Unedited
  <1>5. Progress' BY DEF BeginRecovery, people, Progress, Unedited, Touched
  <1>6. Window' BY DEF BeginRecovery, people, Window, InWindow
  <1>7. QED BY <1>1, <1>2, <1>3, <1>4, <1>5, <1>6

\* A recovery that has nothing to do, or is blocked, changes no file.
LEMMA NothingToRecoverStep == ASSUME IInv, NothingToRecover PROVE IInv'
  <1> USE DEF IInv
  <1>1. TypeOK' BY DEF NothingToRecover, Finish, Fresh, NoneDue, people, TypeOK, Phases, Steps,
                       Dues
  <1>2. Control' BY DEF NothingToRecover, Finish, Fresh, NoneDue, Control
  <1>3. Settled' BY DEF NothingToRecover, Finish, people, Settled, Unedited
  <1>4. Truthful' BY DEF NothingToRecover, people, Truthful, Unedited
  <1>5. Progress' BY DEF NothingToRecover, Finish, Progress
  <1>6. Window' BY DEF NothingToRecover, Finish, Fresh, NoneDue, people, Window, InWindow
  <1>7. QED BY <1>1, <1>2, <1>3, <1>4, <1>5, <1>6

\* Exactly the untouched files that are in their new state are due.
LEMMA ClassifyStep == ASSUME IInv, Classify PROVE IInv'
  <1> USE DEF IInv
  <1>1. TypeOK' BY DEF Classify, people, TypeOK, Phases, Dues
  <1>2. Control' BY DEF Classify, Control, Touched
  <1>3. Settled' BY DEF Classify, Settled
  <1>4. Truthful' BY DEF Classify, people, Truthful, Unedited
  <1>5. Progress' BY DEF Classify, people, Blocked, RolledBack, Committed, InConflict, IsBefore,
                         Before, Truthful, Progress, Unedited, Touched
  <1>6. Window' BY DEF Classify, people, IsAfter, TypeOK, Window, InWindow, Journal, Manifest
  <1>7. QED BY <1>1, <1>2, <1>3, <1>4, <1>5, <1>6

\* A restored file is in its old state and no longer due.
LEMMA RestoreFileStep == ASSUME NEW f \in Files, IInv, RestoreFile(f) PROVE IInv'
  <1> USE DEF IInv
  <1> DEFINE Due == IF Before(f).bytes = Absent THEN "none" ELSE "mode"
  <1>1. /\ journal # NoJournal
        /\ f \in journal.files
        /\ pc = "restore"
        /\ step = Fresh
    BY DEF RestoreFile, Control, Touched, TypeOK, Fresh
  <1>2. /\ Published(Before(f)) \in Snapshot
        /\ Published(Before(f)).bytes = journal.before[f].bytes
    BY <1>1, SnapshotTypes DEF Before
  <1>3. /\ \/ /\ file' = [file EXCEPT ![f] = Published(Before(f))]
              /\ restore' = [restore EXCEPT ![f] = Due]
              /\ UNCHANGED <<pc, step, lockFile>>
           \/ /\ file' = [file EXCEPT ![f] = Published(Before(f))] \/ file' = file
              /\ pc' = "idle" /\ lockFile' = "none" /\ step' = Fresh /\ restore' = NoneDue
        /\ restore[f] = "bytes"
        /\ faults' \in {faults, faults + 1}
        /\ UNCHANGED <<manifest, journal, plan, registry, surveyed, people>>
    BY DEF RestoreFile, Finish, Fault
  <1>4. /\ file' \in [Files -> Snapshot]
        /\ \A g \in Files \ {f} : file'[g] = file[g]
        /\ file'[f].bytes \in {file[f].bytes, journal.before[f].bytes}
        /\ step' = step
        /\ restore' \in [Files -> Dues]
        /\ \/ /\ file'[f].bytes = journal.before[f].bytes
              /\ restore'[f] \in {"none", "mode"}
              /\ \A g \in Files \ {f} : restore'[g] = restore[g]
              /\ UNCHANGED <<pc, lockFile>>
           \/ /\ pc' = "idle" /\ lockFile' = "none"
              /\ \A g \in Files : restore'[g] = "none"
    <2>1. Due \in {"none", "mode"} OBVIOUS
    <2> HIDE DEF Due
    <2>2. QED BY <1>1, <1>2, <1>3, <2>1 DEF TypeOK, Dues, NoneDue
  <1> HIDE DEF Due
  <1>5. /\ UNCHANGED <<manifest, journal, plan, registry, surveyed, people>>
        /\ faults' \in {faults, faults + 1}
    BY <1>3
  <1>6. TypeOK' BY <1>1, <1>4, <1>5 DEF TypeOK, people, Phases
  <1>7. Control' BY <1>1, <1>4, <1>5 DEF Control, Touched
  <1>8. Settled' BY <1>1, <1>4, <1>5 DEF Settled
  <1>9. Truthful' BY <1>1, <1>4, <1>5 DEF people, Truthful, Progress, Unedited
  <1>10. Progress' BY <1>1, <1>4, <1>5 DEF people, Truthful, Progress, Unedited
  <1>11. Window' BY <1>1, <1>3, <1>4, <1>5 DEF people, Window, InWindow
  <1>12. QED BY <1>6, <1>7, <1>8, <1>9, <1>10, <1>11

\* A chmod completes the restoration and leaves the bytes alone.
LEMMA RestoreModeStep == ASSUME NEW f \in Files, IInv, RestoreMode(f) PROVE IInv'
  <1> USE DEF IInv
  <1>1. /\ journal # NoJournal
        /\ f \in journal.files
        /\ pc = "restore"
        /\ step = Fresh
    BY DEF RestoreMode, Control, Touched, TypeOK, Fresh
  <1>2. Before(f).mode \in Modes
    BY <1>1, SnapshotTypes DEF Snapshot
  <1>3. /\ file' = [file EXCEPT ![f].mode = Before(f).mode] \/ file' = file
        /\ \/ restore' = [restore EXCEPT ![f] = "none"] /\ UNCHANGED <<pc, step, lockFile>>
           \/ pc' = "idle" /\ lockFile' = "none" /\ step' = Fresh /\ restore' = NoneDue
        /\ restore[f] = "mode"
        /\ faults' \in {faults, faults + 1}
        /\ UNCHANGED <<manifest, journal, plan, registry, surveyed, people>>
    BY DEF RestoreMode, Finish, Fault
  <1>4. /\ file' \in [Files -> Snapshot]
        /\ \A g \in Files : file'[g].bytes = file[g].bytes
        /\ step' = step
        /\ restore' \in [Files -> Dues]
        /\ \/ /\ restore'[f] = "none" /\ restore[f] # "bytes"
              /\ \A g \in Files \ {f} : restore'[g] = restore[g]
              /\ UNCHANGED <<pc, lockFile>>
           \/ /\ pc' = "idle" /\ lockFile' = "none"
              /\ \A g \in Files : restore'[g] = "none"
    <2>1. file' \in [Files -> Snapshot] /\ \A g \in Files : file'[g].bytes = file[g].bytes
      BY <1>2, <1>3 DEF TypeOK, Snapshot
    <2>2. QED BY <1>1, <1>3, <2>1 DEF TypeOK, Dues, NoneDue
  <1>5. /\ UNCHANGED <<manifest, journal, plan, registry, surveyed, people>>
        /\ faults' \in {faults, faults + 1}
    BY <1>3
  <1>6. TypeOK' BY <1>1, <1>4, <1>5 DEF TypeOK, people, Phases
  <1>7. Control' BY <1>1, <1>4, <1>5 DEF Control, Touched
  <1>8. Settled' BY <1>1, <1>4, <1>5 DEF Settled
  <1>9. Truthful' BY <1>1, <1>4, <1>5 DEF people, Truthful, Unedited
  <1>10. Progress' BY <1>1, <1>4, <1>5 DEF people, Progress, Unedited
  <1>11. Window' BY <1>1, <1>4, <1>5 DEF people, Window, InWindow
  <1>12. QED BY <1>6, <1>7, <1>8, <1>9, <1>10, <1>11

\* When nothing is due the files are as the manifest says.
LEMMA RemoveJournalStep == ASSUME IInv, RemoveJournal PROVE IInv'
  <1> USE DEF IInv
  <1>1. TypeOK' BY DEF RemoveJournal, Fault, Finish, Fresh, NoneDue, people, TypeOK, Phases,
                       Steps, Dues
  <1>2. Control' BY DEF RemoveJournal, Finish, Fresh, NoneDue, Control
  <1>3. Settled' BY DEF RemoveJournal, Finish, NoneDue, people, Settled, Truthful, Progress,
                        Unedited
  <1>4. Truthful' BY DEF RemoveJournal, people, Truthful, Unedited
  <1>5. Progress' BY DEF RemoveJournal, Finish, Progress
  <1>6. Window' BY DEF RemoveJournal, Finish, Fresh, NoneDue, people, Window, InWindow
  <1>7. QED BY <1>1, <1>2, <1>3, <1>4, <1>5, <1>6

\* A crash changes nothing on disk.
LEMMA CrashStep == ASSUME IInv, Crash PROVE IInv'
  <1> USE DEF IInv
  <1>1. TypeOK' BY DEF Crash, Fault, Fresh, NoneDue, NoPlan, people, TypeOK, Manifest, Phases,
                       Plan, Steps, Dues
  <1>2. Control' BY DEF Crash, Fresh, NoneDue, Control
  <1>3. Settled' BY DEF Crash, people, Settled, Unedited
  <1>4. Truthful' BY DEF Crash, people, Truthful, Unedited
  <1>5. Progress' BY DEF Crash, Progress
  <1>6. Window' BY DEF Crash, Fresh, NoneDue, people, Window, InWindow
  <1>7. QED BY <1>1, <1>2, <1>3, <1>4, <1>5, <1>6

\* A replaced manifest takes every file out of the promise.
LEMMA EditManifestStep == ASSUME IInv, EditManifest PROVE IInv'
  <1> USE DEF IInv
  <1>1. TypeOK' BY DEF EditManifest, TypeOK
  <1>2. Control' BY DEF EditManifest, Control, Touched, Started
  <1>3. Settled' BY DEF EditManifest, Settled, Unedited
  <1>4. Truthful' BY DEF EditManifest, Truthful, Unedited
  <1>5. Progress' BY DEF EditManifest, Progress, Unedited
  <1>6. Window' BY DEF EditManifest, Window, InWindow
  <1>7. QED BY <1>1, <1>2, <1>3, <1>4, <1>5, <1>6

\* The configuration is not part of what is promised.
LEMMA EditConfigStep == ASSUME IInv, EditConfig PROVE IInv'
  <1> USE DEF IInv
  <1>1. TypeOK' BY DEF EditConfig, TypeOK
  <1>2. Control' BY DEF EditConfig, Control, Touched, Started
  <1>3. Settled' BY DEF EditConfig, Settled, Unedited
  <1>4. Truthful' BY DEF EditConfig, Truthful, Unedited
  <1>5. Progress' BY DEF EditConfig, Progress, Unedited, Touched
  <1>6. Window' BY DEF EditConfig, Window, InWindow
  <1>7. QED BY <1>1, <1>2, <1>3, <1>4, <1>5, <1>6

\* An edit takes its file out of the promise, and notes the window it hit.
LEMMA EditFileStep == ASSUME NEW f \in Files, IInv, EditFile(f) PROVE IInv'
  <1> USE DEF IInv
  <1>1. TypeOK' BY DEF EditFile, TypeOK, Snapshot, Modes
  <1>2. Control' BY DEF EditFile, Control, Touched, Started
  <1>3. Settled' BY DEF EditFile, Settled, Unedited
  <1>4. Truthful' BY DEF EditFile, Truthful, Unedited
  <1>5. Progress' BY DEF EditFile, Progress, Unedited, Touched
  <1>6. Window' BY DEF EditFile, Window, InWindow
  <1>7. QED BY <1>1, <1>2, <1>3, <1>4, <1>5, <1>6

\* The invariant is a formula about vars.
LEMMA StutterStep == IInv /\ UNCHANGED vars => IInv'
  BY DEF vars, people, IInv, TypeOK, Control, Settled, Truthful, Progress, Window,
         Unedited, Touched, Started, InWindow

\* Every step keeps the invariant.
LEMMA NextStep == IInv /\ [Next]_vars => IInv'
  BY PlanSyncStep, WriteJournalStep, AbandonPlanStep, CheckFileStep, WriteFileStep,
     ChmodFileStep, ApplyFailedStep, CommitManifestStep, UnlinkJournalStep,
     SurveyRecoveryStep, BeginRecoveryStep, NothingToRecoverStep, ClassifyStep,
     RestoreFileStep, RestoreModeStep, RemoveJournalStep, CrashStep, EditManifestStep,
     EditConfigStep, EditFileStep, StutterStep
     DEF Next, SyncStep, RecoveryStep

\* The whole invariant holds in every reachable state, whatever the constants.
THEOREM Invariance == Spec => []IInv
  BY InitIInv, NextStep, PTL DEF Spec

\* Every variable keeps its type, the lock is held exactly while an operation
\* runs, and no phase that reads the journal runs without one.
THEOREM TypeCorrect == Spec => []TypeOK
  BY Invariance, PTL DEF IInv

\* Without a pending journal every untouched file is as the manifest says.
THEOREM InstalledAlways == Spec => []Installed
  <1>1. IInv => Installed BY DEF IInv, Settled, Unedited, Installed
  <1>2. QED BY <1>1, Invariance, PTL

\* A pending journal can always be decided from the untouched files.
THEOREM DecidableAlways == Spec => []Decidable
  <1>1. ASSUME IInv, journal # NoJournal, NEW f \in Touched \ edited
        PROVE  IF Committed THEN IsAfter(f) ELSE ~InConflict(f)
    <2>1. f \in Unedited /\ f \in journal.files
      BY <1>1 DEF IInv, TypeOK, Journal, Touched, Unedited
    <2>2. /\ journal.manifestAfter[f] # journal.manifestBefore[f]
          /\ Before(f).bytes = journal.manifestBefore[f]
          /\ file[f].bytes \in {journal.manifestBefore[f], journal.manifestAfter[f]}
          /\ manifest = journal.manifestAfter => file[f].bytes = journal.manifestAfter[f]
      BY <1>1, <2>1 DEF IInv, Truthful, Before
    <2>3. QED BY <2>2 DEF Committed, IsAfter, IsBefore, InConflict
  <1>2. IInv => Decidable BY <1>1 DEF Decidable
  <1>3. QED BY <1>2, Invariance, PTL

-----------------------------------------------------------------------------
(* Foreign contents *)

\* Only the two writes can remove them, and both do it inside the window.
LEMMA EditsSurviveStep ==
  ASSUME IInv, [Next]_vars, NEW f \in Files,
         file[f].bytes = Foreign, file'[f].bytes # Foreign
  PROVE  f \in raced' \/ edits' # edits
  <1> USE DEF IInv
  <1>1. ASSUME NEW g \in Files, WriteFile(g) PROVE f \in raced'
    <2>1. file' \in {file, [file EXCEPT ![g] = Published(After(g))]} /\ step[g] = "checked"
      BY <1>1 DEF WriteFile
    <2>2. f = g BY <2>1 DEF TypeOK
    <2>3. QED BY <1>1, <2>1, <2>2 DEF WriteFile, elsewhere, people, Window, InWindow
  <1>2. ASSUME NEW g \in Files, RestoreFile(g) PROVE f \in raced'
    <2>1. file' \in {file, [file EXCEPT ![g] = Published(Before(g))]} /\ restore[g] = "bytes"
      BY <1>2 DEF RestoreFile
    <2>2. f = g BY <2>1 DEF TypeOK
    <2>3. QED BY <1>2, <2>1, <2>2 DEF RestoreFile, people, Window, InWindow
  <1>3. ASSUME NEW g \in Files, ChmodFile(g) PROVE FALSE
    <2>1. \E m : file' \in {file, [file EXCEPT ![g].mode = m]}
      BY <1>3 DEF ChmodFile
    <2>2. QED BY <2>1 DEF TypeOK, Snapshot
  <1>4. ASSUME NEW g \in Files, RestoreMode(g) PROVE FALSE
    <2>1. \E m : file' \in {file, [file EXCEPT ![g].mode = m]}
      BY <1>4 DEF RestoreMode
    <2>2. QED BY <2>1 DEF TypeOK, Snapshot
  <1>5. ASSUME NEW g \in Files, EditFile(g) PROVE edits' # edits
    BY <1>5 DEF EditFile
  <1>6. file' # file
    OBVIOUS
  <1>7. QED
    BY <1>1, <1>2, <1>3, <1>4, <1>5, <1>6
       DEF vars, Next, SyncStep, RecoveryStep, PlanSync, WriteJournal, AbandonPlan, CheckFile,
           ApplyFailed, CommitManifest, UnlinkJournal, SurveyRecovery, BeginRecovery,
           NothingToRecover, Classify, RemoveJournal, Crash, EditManifest, EditConfig

\* Foreign contents are overwritten only after an edit in the window between
\* the comparison and the write.
THEOREM EditsSurviveAlways == Spec => EditsSurvive
  <1> DEFINE Survives == \A f \in Files :
        file[f].bytes = Foreign /\ file'[f].bytes # Foreign => f \in raced' \/ edits' # edits
  <1>1. IInv /\ [Next]_vars => [Survives]_vars
    BY EditsSurviveStep
  <1> HIDE DEF Survives
  <1>2. Spec => [][Survives]_vars
    BY <1>1, Invariance, PTL DEF Spec
  <1>3. QED BY <1>2 DEF Survives, EditsSurvive

-----------------------------------------------------------------------------
(* The refinement *)

\* What a reader sees through the journal is what the manifest records.
LEMMA EffectiveIsRecorded == IInv => \A f \in Unedited : Effective(f) = manifest[f]
  BY DEF IInv, Settled, Truthful, Touched, Effective, RolledBack, Before

\* So a step that records nothing new for an untouched file leaves it alone.
LEMMA SameWhileRecorded ==
  ASSUME IInv, IInv', edited \subseteq edited',
         \A f \in Files \ edited' : manifest'[f] = manifest[f]
  PROVE  \A f \in Files \ edited' : Abstract!Same(f)
  <1>1. (\A f \in Unedited : Effective(f) = manifest[f])'
    BY EffectiveIsRecorded, PTL
  <1>2. \A f \in Files \ edited' : Effective(f) = manifest[f] /\ Effective(f)' = manifest'[f]
    BY <1>1, EffectiveIsRecorded DEF Unedited
  <1>3. QED BY <1>2 DEF Abstract!Same

\* The initial states are initial states of AtomicInstall.
LEMMA InitRefines == Init => Abstract!Init
  <1> SUFFICES ASSUME Init PROVE Abstract!Init
    OBVIOUS
  <1>1. [f \in Files |-> Effective(f)] = manifest
    BY DEF Init, Effective, Touched, Manifest
  <1>2. QED
    BY <1>1 DEF Init, Requested, Manifest, Abstract!Init, Abstract!Targets

\* A step that leaves the manifest and the request alone is a Disturb, which
\* may be no disturbance at all.
LEMMA QuietStep ==
  ASSUME IInv, IInv', manifest' = manifest, edited \subseteq edited', Requested' = Requested
  PROVE  Abstract!Disturb
  <1>1. \A f \in Files \ edited' : Abstract!Same(f) BY SameWhileRecorded
  <1>2. edited' \in SUBSET Files BY DEF IInv, TypeOK
  <1>3. QED BY <1>1, <1>2 DEF Abstract!Disturb

\* Nothing recorded changes when a request is given up.
LEMMA WithdrawStep ==
  ASSUME IInv, IInv', manifest' = manifest, edited' = edited, Requested' = NoJournal
  PROVE  Abstract!Withdraw
  <1>1. \A f \in Files \ edited' : Abstract!Same(f) BY SameWhileRecorded
  <1>2. QED BY <1>1 DEF Abstract!Withdraw, Abstract!Untouched

\* Deciding on a plan is asking for what it records.
LEMMA PlanSyncRefines == ASSUME IInv, IInv', PlanSync PROVE Abstract!Ask
  <1>1. \A f \in Files \ edited' : Abstract!Same(f)
    BY SameWhileRecorded DEF PlanSync, people
  <1>2. Requested = NoJournal BY DEF PlanSync, NoPendingJournal, Requested
  <1>3. Requested' \in Manifest BY DEF PlanSync, Requested, IInv, TypeOK, Plan
  <1>4. edited' = edited BY DEF PlanSync, people
  <1>5. QED
    BY <1>1, <1>2, <1>3, <1>4 DEF Abstract!Ask, Abstract!Untouched, Abstract!Targets, Manifest

\* Publishing the manifest installs the request, everywhere at once.
LEMMA CommitManifestRefines ==
  ASSUME IInv, IInv', CommitManifest PROVE Abstract!Install \/ Abstract!Disturb
  <1> USE DEF IInv
  <1>1. /\ pc = "apply" /\ pc' # "planned"
        /\ journal # NoJournal /\ journal \in Journal
        /\ UNCHANGED <<journal, edited>>
        /\ manifest' \in {manifest, journal.manifestAfter}
    BY DEF CommitManifest, TypeOK, people
  <1>2. CASE manifest' = manifest
    <2>1. Requested' = Requested BY <1>1, <1>2 DEF Requested, RolledBack
    <2>2. QED BY <1>1, <1>2, <2>1, QuietStep
  <1>3. CASE manifest' # manifest /\ RolledBack
    <2>1. manifest' = journal.manifestAfter /\ ~RolledBack'
      BY <1>1, <1>3 DEF RolledBack
    <2>2. Requested = journal.manifestAfter /\ Requested' = NoJournal
      BY <1>1, <1>3, <2>1 DEF Requested
    <2>3. (\A f \in Unedited : Effective(f) = manifest[f])'
      BY EffectiveIsRecorded, PTL
    <2>4. Requested # NoJournal
      BY <1>1, <2>2 DEF Journal
    <2>5. \A f \in Files \ edited : Effective(f)' = Requested[f] /\ manifest'[f] = Requested[f]
      BY <1>1, <2>1, <2>2, <2>3 DEF Unedited
    <2>6. QED BY <1>1, <2>2, <2>4, <2>5 DEF Abstract!Install, Abstract!Untouched
  <1>4. CASE ~RolledBack
    <2>1. edited' = Files
      BY <1>1, <1>4 DEF Progress, Unedited, RolledBack, TypeOK
    <2>2. QED BY <1>1, <2>1 DEF Abstract!Disturb
  <1>5. QED BY <1>2, <1>3, <1>4

\* Every step is a step of AtomicInstall, or none.
LEMMA StepRefines ==
  ASSUME IInv, IInv', Next PROVE Abstract!Next
  <1> USE DEF IInv
  <1>1. CASE PlanSync BY <1>1, PlanSyncRefines DEF Abstract!Next
  <1>2. CASE AbandonPlan
    <2>1. manifest' = manifest /\ edited' = edited /\ Requested' = NoJournal
      BY <1>2 DEF AbandonPlan, Finish, people, Requested, Control
    <2>2. QED BY <2>1, WithdrawStep DEF Abstract!Next
  <1>3. CASE WriteJournal
    <2>1. /\ journal'.manifestAfter = plan.manifest /\ journal'.manifestBefore = manifest
          /\ manifest' = manifest /\ pc = "planned" /\ pc' # "planned"
      BY <1>3 DEF WriteJournal, Finish
    <2>2. journal' \in Journal
      <3>1. [f \in Files |-> IF f \in plan.files THEN file[f] ELSE NoFile] \in [Files -> Snapshot]
        BY DEF TypeOK, NoFile, Snapshot, Contents, Modes
      <3>2. QED BY <1>3, <3>1 DEF WriteJournal, TypeOK, Plan, Journal
    <2>3. Requested' = Requested
      BY <2>1, <2>2 DEF Requested, RolledBack
    <2>4. QED BY <1>3, <2>3, QuietStep DEF WriteJournal, people, Abstract!Next
  <1>4. CASE CommitManifest BY <1>4, CommitManifestRefines DEF Abstract!Next
  <1>5. CASE UnlinkJournal \/ RemoveJournal
    <2>1. /\ journal' \in {journal, NoJournal} /\ pc' # "planned" /\ pc # "planned"
          /\ manifest' = manifest /\ edited' = edited
      BY <1>5 DEF UnlinkJournal, RemoveJournal, Finish, people
    <2>2. CASE journal' = journal
      <3>1. Requested' = Requested BY <2>1, <2>2 DEF Requested, RolledBack
      <3>2. QED BY <2>1, <3>1, QuietStep DEF Abstract!Next
    <2>3. CASE journal' = NoJournal
      <3>1. Requested' = NoJournal BY <2>1, <2>3 DEF Requested
      <3>2. QED BY <2>1, <3>1, WithdrawStep DEF Abstract!Next
    <2>4. QED BY <2>1, <2>2, <2>3
  <1>6. CASE Crash
    <2>1. /\ journal' = journal /\ pc' # "planned" /\ manifest' = manifest /\ edited' = edited
      BY <1>6 DEF Crash, people
    <2>2. CASE pc = "planned"
      <3>1. Requested' = NoJournal BY <2>1, <2>2 DEF Requested, Control
      <3>2. QED BY <2>1, <3>1, WithdrawStep DEF Abstract!Next
    <2>3. CASE pc # "planned"
      <3>1. Requested' = Requested BY <2>1, <2>3 DEF Requested, RolledBack
      <3>2. QED BY <2>1, <3>1, QuietStep DEF Abstract!Next
    <2>4. QED BY <2>2, <2>3
  <1>7. CASE EditManifest
    BY <1>7 DEF EditManifest, Abstract!Next, Abstract!Disturb, TypeOK
  <1>8. CASE EditConfig \/ SurveyRecovery \/ BeginRecovery \/ NothingToRecover \/ Classify
             \/ ApplyFailed \/ \E f \in Files : \/ CheckFile(f) \/ WriteFile(f) \/ ChmodFile(f)
                                               \/ RestoreFile(f) \/ RestoreMode(f) \/ EditFile(f)
    <2>1. /\ journal' = journal /\ manifest' = manifest /\ plan' = plan
          /\ edited \subseteq edited'
          /\ pc' = "planned" <=> pc = "planned"
      BY <1>8 DEF EditConfig, SurveyRecovery, BeginRecovery, NothingToRecover, Classify,
                  ApplyFailed, CheckFile, WriteFile, ChmodFile, RestoreFile, RestoreMode,
                  EditFile, Finish, people, elsewhere, TypeOK, Control
    <2>2. Requested' = Requested BY <2>1 DEF Requested, RolledBack
    <2>3. QED BY <2>1, <2>2, QuietStep DEF Abstract!Next
  <1>9. QED
    BY <1>1, <1>2, <1>3, <1>4, <1>5, <1>6, <1>7, <1>8 DEF Next, SyncStep, RecoveryStep

\* The journalled installer implements one that changes all files at once.
THEOREM Refinement == Spec => ImplementsAtomicInstall
  <1>1. IInv /\ IInv' /\ [Next]_vars => [Abstract!Next]_(Abstract!vars)
    <2> SUFFICES ASSUME IInv, IInv', [Next]_vars PROVE [Abstract!Next]_(Abstract!vars)
      OBVIOUS
    <2>1. CASE Next BY <2>1, StepRefines
    <2>2. CASE UNCHANGED vars
      BY <2>2 DEF vars, Abstract!vars, Effective, Requested, Touched, RolledBack, Before
    <2>3. QED BY <2>1, <2>2
  <1>2. QED
    BY <1>1, InitRefines, Invariance, PTL DEF Spec, ImplementsAtomicInstall, Abstract!Spec
=============================================================================
