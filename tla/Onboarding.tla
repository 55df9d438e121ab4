------------------------------ MODULE Onboarding ------------------------------
(***************************************************************************)
(* The setup wizard (src/onboarding), the hand-off state beside the        *)
(* installation (src/installation/onboarding-state.ts), the project's      *)
(* configuration (src/core.ts) and the registry of projects                *)
(* (src/projects).  A step saves its setting in the store the setting      *)
(* lives in and is recorded afterwards; the end of a run is recorded for   *)
(* the project and then for the machine.  The console and the command line *)
(* run at once and may be killed between any two writes; only a single     *)
(* write is under a lock.                                                  *)
(***************************************************************************)
EXTENDS Naturals

CONSTANTS Wizards,      \* processes that drive the wizard
          Choices,      \* values of a setting
          Directories,  \* project directories of one repository
          Spellings,    \* ways to spell the path of a directory
          MaxActions    \* bound: actions begun

ASSUME OnboardingAssumption == MaxActions \in Nat

VARIABLES config,      \* the project's configuration
          settings,    \* the verification and usage stores
          progress,    \* the wizard's record for the project
          handoff,     \* what the machine remembers
          registered,  \* the registry of projects
          wizard,      \* the call of each process
          begun        \* actions begun so far

onboardingVars == <<config, settings, progress, handoff, registered, wizard, begun>>

WizardSteps == {"project", "providers", "workspace", "verification", "usage", "preview"}
Required == {"project"}
Default == CHOOSE v \in Choices : TRUE
Waiting == [at |-> "idle"]

OnboardingInit ==
  /\ config = [there |-> FALSE, selection |-> Default, workspace |-> Default]
  /\ settings = [store \in {"verification", "usage"} |-> FALSE]
  /\ progress = [status |-> "not-started", completed |-> {}, skipped |-> {},
                 ended |-> [how \in {"complete", "dismiss"} |-> FALSE]]
  /\ handoff = "not-started"
  /\ registered = {}
  /\ wizard = [w \in Wizards |-> Waiting]
  /\ begun = 0

AtPhase(w, phase) == wizard[w].at = phase
To(w, phase) == wizard' = [wizard EXCEPT ![w].at = phase]
Return(w) == wizard' = [wizard EXCEPT ![w] = Waiting]
Start(w, call) ==
  /\ AtPhase(w, "idle")
  /\ begun < MaxActions
  /\ begun' = begun + 1
  /\ wizard' = [wizard EXCEPT ![w] = call]

-----------------------------------------------------------------------------
(* A step: selectProject, updateProjectSelection, updateWorkspacePreference,*)
(* updateVerificationPreference, updateUsagePreference, preview.  The      *)
(* workspace step and the preview need a configuration, the providers step *)
(* initializes one.                                                        *)
BeginStep(w, step) ==
  /\ Start(w, [at |-> "init", step |-> step, base |-> config])
  /\ step \in {"workspace", "preview"} => config.there
  /\ UNCHANGED <<config, settings, progress, handoff, registered>>

(* initProject writes a configuration only where there is none. *)
InitProject(w) ==
  /\ AtPhase(w, "init")
  /\ wizard[w].step \in {"project", "providers"}
  /\ \E v \in Choices :
       config' = IF config.there THEN config
                 ELSE [there |-> TRUE, workspace |-> Default,
                       selection |-> IF wizard[w].step = "project" THEN v ELSE Default]
  /\ wizard' = [wizard EXCEPT ![w] =
       [@ EXCEPT !.at = IF wizard[w].step = "project" THEN "register" ELSE "save", !.base = config']]
  /\ UNCHANGED <<settings, progress, handoff, registered, begun>>

(* saveConfig writes the whole configuration that was read before. *)
SaveConfig(w) ==
  /\ \/ AtPhase(w, "save")
     \/ AtPhase(w, "init") /\ wizard[w].step = "workspace"
  /\ \E v \in Choices :
       config' = IF wizard[w].step = "providers" THEN [wizard[w].base EXCEPT !.selection = v]
                 ELSE [wizard[w].base EXCEPT !.workspace = v]
  /\ To(w, "advance")
  /\ UNCHANGED <<settings, progress, handoff, registered, begun>>

(* configureVerification and configureUsage; a preview saves nothing. *)
SaveSetting(w) ==
  /\ AtPhase(w, "init")
  /\ wizard[w].step \in {"verification", "usage", "preview"}
  /\ settings' = [store \in DOMAIN settings |-> settings[store] \/ store = wizard[w].step]
  /\ To(w, "advance")
  /\ UNCHANGED <<config, progress, handoff, registered, begun>>

(* registerProjectWithRegistry: a record is found by its canonical root; a *)
(* registry that fails is a warning.                                       *)
SameSpelling(record, root) == record.spelling = root.spelling /\ record.directory = root.directory
SameRoot(record, root) == record.directory = root.directory

Upsert(root) ==
  registered' = IF \E record \in registered : SameRoot(record, root) THEN registered
                ELSE registered \union {root}

RegisterProject(w) ==
  /\ AtPhase(w, "register")
  /\ \/ \E d \in Directories, s \in Spellings : Upsert([directory |-> d, spelling |-> s])
     \/ UNCHANGED registered
  /\ To(w, "advance")
  /\ UNCHANGED <<config, settings, progress, handoff, begun>>

RemoveProject ==
  /\ \E record \in registered : registered' = registered \ {record}
  /\ begun < MaxActions /\ begun' = begun + 1
  /\ UNCHANGED <<config, settings, progress, handoff, wizard>>

(* advanceStep: a completed run stays completed, a dismissed one resumes. *)
Resumed == IF progress.status = "completed" THEN "completed" ELSE "in-progress"

AdvanceStep(w) ==
  /\ AtPhase(w, "advance")
  /\ progress' = [progress EXCEPT !.status = Resumed, !.completed = @ \union {wizard[w].step},
                                  !.skipped = @ \ {wizard[w].step}]
  /\ Return(w)
  /\ UNCHANGED <<config, settings, handoff, registered, begun>>

SkipStep(w) ==
  /\ AtPhase(w, "idle") /\ begun < MaxActions /\ begun' = begun + 1
  /\ \E step \in WizardSteps \ Required :
       progress' = [progress EXCEPT !.status = Resumed, !.completed = @ \ {step},
                                    !.skipped = @ \union {step}]
  /\ UNCHANGED <<config, settings, handoff, registered, wizard>>

BackStep(w) ==
  /\ AtPhase(w, "idle") /\ begun < MaxActions /\ begun' = begun + 1
  /\ \E step \in WizardSteps :
       progress' = [progress EXCEPT !.status = Resumed, !.completed = @ \ {step},
                                    !.skipped = @ \ {step}]
  /\ UNCHANGED <<config, settings, handoff, registered, wizard>>

-----------------------------------------------------------------------------
(* startOnboarding: the machine's state is read, written when it was not   *)
(* completed, and then the project's.                                      *)
BeginRun(w) ==
  /\ Start(w, [at |-> IF handoff = "completed" THEN "start" ELSE "offer"])
  /\ UNCHANGED <<config, settings, progress, handoff, registered>>

MarkStarted(w) ==
  /\ AtPhase(w, "offer")
  /\ handoff' = "in-progress"
  /\ To(w, "start")
  /\ UNCHANGED <<config, settings, progress, registered, begun>>

StartRun(w) ==
  /\ AtPhase(w, "start")
  /\ progress' = [progress EXCEPT !.status = Resumed]
  /\ Return(w)
  /\ UNCHANGED <<config, settings, handoff, registered, begun>>

(* completeOnboarding and dismissOnboarding: the project first. *)
MarkOf(how) == IF how = "complete" THEN "completed" ELSE "dismissed"

EndRun(w, how) ==
  /\ Start(w, [at |-> "mark", how |-> how])
  /\ progress' = [progress EXCEPT !.status = MarkOf(how), !.ended[how] = TRUE]
  /\ UNCHANGED <<config, settings, handoff, registered>>

MarkEnded(w) ==
  /\ AtPhase(w, "mark")
  /\ handoff' = MarkOf(wizard[w].how)
  /\ Return(w)
  /\ UNCHANGED <<config, settings, progress, registered, begun>>

(* The process is killed between two writes. *)
WizardKilled(w) ==
  /\ ~AtPhase(w, "idle")
  /\ Return(w)
  /\ UNCHANGED <<config, settings, progress, handoff, registered, begun>>

OnboardingNext ==
  \/ \E w \in Wizards :
       \/ \E step \in WizardSteps : BeginStep(w, step)
       \/ InitProject(w) \/ SaveConfig(w) \/ SaveSetting(w) \/ RegisterProject(w)
       \/ AdvanceStep(w) \/ SkipStep(w) \/ BackStep(w)
       \/ BeginRun(w) \/ MarkStarted(w) \/ StartRun(w)
       \/ \E how \in {"complete", "dismiss"} : EndRun(w, how)
       \/ MarkEnded(w) \/ WizardKilled(w)
  \/ RemoveProject

OnboardingSpec == OnboardingInit /\ [][OnboardingNext]_onboardingVars

-----------------------------------------------------------------------------
OnboardingTypeOK ==
  /\ progress.status \in {"not-started", "in-progress", "completed", "dismissed"}
  /\ handoff \in {"not-started", "in-progress", "completed", "dismissed"}
  /\ progress.completed \subseteq WizardSteps
  /\ progress.skipped \subseteq WizardSteps \ progress.completed

(* Wherever a process is killed: a step recorded as completed has its      *)
(* setting in the store it lives in; the machine calls a run completed or  *)
(* dismissed only when the project has recorded it; and the overview has   *)
(* one entry for a directory, however its path was spelled (advanceStep,   *)
(* completeOnboarding, registerProject).                                   *)
RecordedIsSaved ==
  /\ progress.completed \intersect {"project", "providers", "workspace", "preview"} # {}
       => config.there
  /\ \A store \in DOMAIN settings : store \in progress.completed => settings[store]
  /\ handoff = "completed" => progress.ended["complete"]
  /\ handoff = "dismissed" => progress.ended["dismiss"]
  /\ \A a, b \in registered : a.directory = b.directory => a = b

=============================================================================
