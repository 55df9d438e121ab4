# Latchkit in TLA+

Latchkit adds durable engineering workflows to coding agents. It is a set of services over
files under `.latchkit/`: no daemon owns the state, and any number of processes (command lines,
the local server, provider hooks) read and write the same files, are killed, and are started
again. What makes it correct is therefore in its protocols: locks that survive their owner,
journals that decide what a crash left, revisions that refuse stale callers, and records that
keep approvals and evidence bound to what they were given for. This directory specifies those
protocols, model-checks them on small instances and proves the central ones for all instances.

Source paths below are relative to the repository's `src/` unless they start with `docs/` or
`test/`.

## The system

### Components, their state and what is hard

| Component | State it keeps | Hard behaviour | What makes it correct | Module |
| --- | --- | --- | --- | --- |
| Task-state lock (`task-state/lock.ts`) | lock file, loopback challenge server of the owner | owners die; two contenders prove the same lock stale; compare and unlink are two calls; slow owners | mutual exclusion; a live owner's lock is never reclaimed; malformed locks are left to people; acquisition ends unless others keep taking the lock | `TaskStateLock` |
| Installer (`installer/transactions.ts`, `core.ts`, `storage.ts`) | managed files, manifest, transaction journal | crashes between any two renames, failing files in a concurrent batch, a failing rollback, people editing files | all or nothing; a pending journal is decidable; a person's contents survive | `InstallerTransaction` |
| Project lock (`installer/lock.ts`) | lock file and proof endpoint | creation and writing are two calls, the same compare-and-unlink | one operation at a time | `ProjectLock` |
| Task state (`task-state/service.ts`) | state, owner, runs, criteria, enhanced workflow, evidence, events | retries after lost answers, takeover of dead runs, criteria edited under evidence | ownership agrees; evidence counts only for the text it was given for; verified stays verified; a conflict means nothing happened | `TaskState` |
| Acceptance verifier and quality gates (`acceptance/`, `quality-gates/`) | artifacts, a fixture's process | the source moves while a check runs; abort, timers and the end of a fixture race | a pass belongs to the source that was tested; no fixture outlives its check; a result says how the check ended | `TaskState`, `AcceptanceChecks` |
| Context briefs (`context-brief/`) | the last binding, in the workflow | task, workflow and tree are read one after the other and bound later | no reconciliation goes untold, no edit is invented | `ContextBriefs` |
| Decision comparison (`reviews/decision-comparison.ts`) | none | what a review saw is found again by clock readings | what is reported as changed, current or covered is so | `DecisionComparisons` |
| Project memory (`project-memory/`) | one document per project | replacement by an expected revision, exports imported after deletions | what was read is what is replaced; a deletion is final | `ProjectMemory` |
| Records and reconciliation (`task-state/records.ts`, `reconcile.ts`) | records of a task and their history | a preview is computed without the lock, one reading after the other, and applied later by its digest | intent changes only with authorization, and as it was reviewed | `TaskRecords` |
| Contracts between tasks (`task-state/contract-coordination.ts`) | associations, a journal, receipts | two tasks move under an association; a crash between journal and document; reports read without the lock | nobody is launched on a contract he has not received | `Contracts` |
| Workflow decisions (`workflows/*decision*`) | one decision per specification or result | presented anew while it is approved; lost answers, reused IDs | a decision is about what was presented | `Decisions` |
| Workflow controller (`workflows/`) | workflow record with pending action, in-process drivers | journal, effect and commit are three steps with people and other processes in between; late results; retries of uncertain actions | one effect at a time; approvals bind; cancelled is inert; verified workflows have verified tasks; drivers end | `Workflow` |
| Execution fence, task controller (`runtime/execution-fence.ts`, `task-controller.ts`) | one fence per task, sessions in memory | a direct session and a workflow check each other in two stores; children outlive their controller; a release may fail unnoticed | one provider works on a task | `DirectSessions` |
| Process runner (`runtime/process-runner.ts`) | one process tree | exit, timeout, output limit and cancellation race | exactly one outcome, no process left | `ProcessRunner` |
| Scheduler (`scheduler/`) | schedules, runs, owner lock | several owners, restarts, missed periods, edits during a run | a claimed run belongs to the owner of the project and settles once | `Scheduler` |
| Reviews (`reviews/`) | reviews, admission ledger, comments on a diff | the stored copy is overwritten by every save; cancellation from another process; dead owners in the ledger, and places that could not be given back | each review keeps to its limit over all processes; a cancellation is not overwritten | `Reviews`, `DiffAnnotations` |
| Workspaces (`workspaces/git.ts`) | worktrees and their registry | Git and the registry are two stores, without a lock; the copy is taken from a checkout that moves | a copy is one state of its source; work that was seen is not removed | `Workspaces` |
| Installation (`installation/manager.ts`) | version directories, launchers and their hashes, pointer | crashes between launcher, hash and pointer; launchers edited by people | an active version has its launchers; what was written is recognised | `Launchers` |
| Updates (`installation/updates/`) | staged version, restart lease, heartbeats | a handoff against work that begins or another of its server, a lease that expires or is cleared by somebody else, a failing replacement | one server hands over, and a failed attempt leaves nothing | `Updates` |
| Onboarding, configuration, projects (`onboarding/`, `core.ts`, `projects/`) | progress, settings, hand-off, registry | two wizards killed between two stores | a completed step has its setting | `Onboarding` |
| Managed tools (`managed-tools/`) | runtime directories, records, journal, a detached controller | the parent dies before it commits the controller; late answers | no server runs unrecorded | `ManagedTool` |
| Integrations (`integrations/`) | a code graph with its receipt, MCP entries of two providers | sources, index and receipt move under an unlocked query; entries edited after the preview, or while they are written; servers that answer late | answers are about the current source; a launch is admitted for granted entries only; the user's entries survive but for one window | `Codegraph`, `McpIntegrations`, `McpHealth` |
| Specification imports (`spec-imports/`) | associations, next to the tasks | two stores written one after the other; one budget for three adapters | an entry has one live record; the scan stays within its limits | `SpecImports`, `SpecDiscovery` |
| Usage (`usage/`) | ledger | observations late, twice, out of order; switching off meanwhile | a replay only corrects | `UsageLedger` |
| Evaluations (`evaluations/`) | none that lasts | timer against executor; a gate over claims and hashes | neither passes on what did not happen | `Evaluations` |
| Verification preferences, providers, rules and packs, CLI, server and web console | single documents, or none | little beyond the shared store protocol | validation and rendering | not modelled, or as a single value |

### How they interact

- Every writer of task, workflow, fence, schedule, review and usage state runs its read-modify-write
  under the task-state lock; sync, removal, recovery and the integrations' writes run under the project lock.
- The workflow controller calls the task service (`resume`, `complete`, `verify`,
  `cancel`), the acceptance verifier (which calls `recordEvidence`), the review orchestrator and a
  provider's process through the runner. It holds no lock while an effect runs: the pending action
  in the workflow record is what tells others.
- The task service tells the workflow of reconciliations (`workflows/reconcile.ts`), and asks
  whether an action of a live process is pending before it reconciles.
- The fence keeps direct sessions and workflow actions apart; the scheduler starts either. Both ask the
  contracts whether a provider may be launched for a task.
- Reviewers and sessions get their worktrees from the workspaces; a specification import creates tasks and
  records through the task service; a session is launched with the MCP entries that are granted.
- The console server admits mutations, and an update waits for them before it hands the server over.
- The installer shares nothing with task state except the directory.

## Modules

Each component is a module of its own that can be read alone. Four MC modules put several of them beside
each other for TLC, one *scene* per component.

| Module | Models | Proofs |
| --- | --- | --- |
| `TaskStateLock` | the lock of the stores, down to system calls | `Services_proofs` |
| `InstallerTransaction`, implementing `AtomicInstall` | sync, removal and recovery; the promise that a request takes effect at once or not at all | `InstallerTransaction_proofs` |
| `ProjectLock` | the lock that `InstallerTransaction` takes for one step | `Installation_proofs` |
| `TaskState` | one task: lifecycle, criteria, enrolment, evidence, retried calls, checks | `Task_proofs` |
| `TaskRecords`, `Decisions` | records, reconciliation by preview; decisions of a reviewer | `Task_proofs` |
| `Contracts` | an association between two tasks | `Task_proofs` |
| `Workflow` | one workflow over a task summarised by what the controller reads of it, two processes, their drivers and people | `Workflow_proofs` |
| `DirectSessions`, `Scheduler` | what launches, owns and stops work | `Execution_proofs` |
| `ProcessRunner` | one child process and what its streams and timers do | |
| `Reviews`, `Workspaces`, `Evaluations` | what judges work, and where it happens | `Execution_proofs` |
| `DiffAnnotations` | comments on a diff | `Task_proofs` |
| `ManagedTool` | the managed proxy and its controllers | `Execution_proofs` |
| `Updates` | how an installation that serves is replaced | `Updates_proofs` |
| `Launchers`, `Onboarding` | what is put on a machine, and how it is set up | `Installation_proofs` |
| `Codegraph`, `McpIntegrations`, `McpHealth` | integrations | `Installation_proofs` |
| `SpecImports`, `SpecDiscovery`, `UsageLedger` | specifications and usage | `Task_proofs` |
| `ContextBriefs`, `DecisionComparisons` | what the agent of a dispatch and a reviewer are told of a task | `Context_proofs` |
| `ProjectMemory`, `AcceptanceChecks` | the memory of a project; one check and its fixture | `Context_proofs` |
| `MCTaskStateLock`, `MCInstallerTransaction`, `MCTaskState`, `MCWorkflow` | one component each, for the runs that need its whole specification or end in a counterexample | |
| `MCTask`, `MCExecution`, `MCInstallation`, `MCServices` | scenes | |

A scene is chosen by the initial state: the component it names takes its steps and all others stay in one initial
state. So a run explores the sum of its components and not their product, which is what they would be explored for, since
they share no variables. `VIEW Moving` leaves out what cannot change in a scene. The last
disjunct of `MCNext` lets the other scenes rest at their bounds, while in the scene `task` a deadlock
is still reported. Fairness is bound to the scene (`MCFairness`): in the others its actions are never enabled. In
`task_lifecycle` two pairs of constants share their model values, because a symmetry set must permute both.

### TaskStateLock

A writer's `pc` follows `acquireTaskStateLock`: `Create` (server and temporary file), `Publish`
(the exclusive link), `PublishAndFail` (the link succeeds, unlinking the temporary does not),
`Collide` and then `Inspect`, `Challenge`, `Rechallenge`, and one of `DecideLive`, `DecideStale`,
`DecideUnknown`; `DecideStale` is the second read and comparison, `UnlinkStale` the unlink,
separate because the code awaits between them. `Release`/`UnlinkOwn`/`CloseServer` are the release
function. An identity stands for UUID, port and key; it may be chosen again only when nothing
refers to it. A challenge of a serving endpoint is answered or times out; of a closed one it is
refused or times out. A turn that finds the lock gone, unlinks it, or finds it changed under an unanswered challenge goes on
without a look at the deadline, as the `continue`s do, and a writer may acquire any number of times. `orphaned` and `foreignUnlink` are history variables.

One assumption comes from the code's environment: the challenge connects to 127.0.0.1 and the
recorded host name is never compared (`lock.ts:118-167`), so all writers of a project are taken
to share one loopback.

### InstallerTransaction and AtomicInstall

`PlanSync` reads configuration, manifest and files (one step: everything after it works on the
snapshot, and `raced` records edits that fall between a check and its write); `WriteJournal`
records before and after states; `CheckFile`, `WriteFile` and `ChmodFile` publish one file, in
concurrent batches in which every file settles before a failure is acted upon; `CommitManifest` is
the commit point and `UnlinkJournal` the end. `ApplyFailed` starts the in-process rollback,
which is the recovery algorithm (`Classify`, `RestoreFile`, `RestoreMode`, `RemoveJournal`).
`Crash` leaves everything on disk and a stale lock; `SurveyRecovery` computes the registry of a
later `latchkit recover`, before `BeginRecovery` takes the lock, as `recoverProject` does.
The abstraction has contents as versions, one foreign content, and a mode that is either the recorded
one or what the umask left.

The refinement maps contents to what a reader sees through the journal (`Effective`), the request
to the plan or the journal's after state (`Requested`).

### TaskState

One action per mutation of `task-state/service.ts`. Each call in flight is a slot, and whether its
revision is current is `fresh`; `Commit` takes freshness from everybody else, `Refuse` is the
conflict, and a repeated mutation ID of a committed call is answered without effect, before the
revision is compared, as `mutate` does. What a fresh call asks for was formed from the present task, so
it is chosen when it commits; the result of a check is older, and kept. `LaunchCheck`/`EndCheck`
and `LaunchGate`/`EndGate` are the acceptance verifier and the quality gates: both end in
`Record`. The source is captured atomically with the mutation because the code captures it under
the lock. A check is enrolled with or without a definition (`defined`), which decides whether a result must be of the present
enrolment; `RecordReported` records a result that a caller brings. Records, modes and checkpoints only advance the revision (`Annotate`). `live` is what
the probe of the owner's process says.

### Workflow

The driver (`Drive`) is `drive` and `schedule`: `Read` reads record and task and asks the
policy (`NextAction`, which is `next_step` of `policy.ts`); `Prepare*` are the checks before the
journal; `Own` is `ensureRunningTask`; `Journal` the compare-and-set that journals; `Invoke`,
`Verify`, `Review`, `CompleteTask` and `VerifyTask` the effects; `Commit` is `commitAction`. Any step that
can throw may (`Throw`), and then `Caught`, `Excuse` and `Settle`, `Leave` are the catch and finally
blocks. People call `Run`, `BeginApprove`/`FinishApprove` (the read and the compare-and-set are apart),
`Resume`, `Cancel`/`FinishCancel` in any process. `Upset` bounds what happens around it: edits,
criteria revisions, reconciliations, halts of the task, shutdowns and crashes.

- A record's revision is abstracted to `fresh`, the task's to `taskFresh`: who has read it since it
  last changed. A failed comparison throws.
- The criteria and adopted records of the task are one number, its intent. It never returns to
  an old value because the digest of the criteria includes their revisions.
- `owns` is `LIVE_ACTION_OWNERS`; a process asks it about its own drivers and probes the PID of
  others.
- A provider that implements may change the source at will; a check or a review may pass or fail.
- A process that died does not return; a new process is one that was idle so far.
- Creation of the workflow is `Init`, for a route that is a constant; the later escalation to the
  high-impact route is modelled.
- Every write is validated (`Valid`), as the store does: a write that the validation refuses
  throws. `Valid` has the relational checks that a step of the model could fail.
- A repeat of an already committed call only schedules, like `Run`, and is not modelled again.

Not modelled: a failing read in the finally block (`Leave` ends the driver either way), changes of policy or provider capabilities between steps, answer-only routes, the
execution fence, prompts, acknowledgments, the bounds on the length of histories.

### DirectSessions, ProcessRunner, Scheduler

`DirectSessions` has one variable `at` per call of `start` or `resume`: the reads of the task, the fence and the workflow,
the claim, the spawn, the attachment and the settlement are steps, since each is a locked section between two awaits. The release of the
fence may fail, which the code swallows: the session is then `kept`. The ACTIVE map of a controller dies with it, its children do not. The task revision is the set of calls that would still find what they read.
`ProcessRunner` is one run: output up to one chunk above the limit, `exit` of the leader, `close` of its pipes, the timer, the
abort and the escalation; a process may survive SIGTERM. `Scheduler` gives a foreground process its start, owner lock,
recovery, poll, claim, run, cancellation poll and `stop`; the clock is the position of `nextRunAt` (ahead, due, missed by a period).
`strayed` marks the two loose ends of `stop` (see Observations).

### Reviews, DiffAnnotations, Workspaces, Evaluations

`Reviews` separates the stored copy of a review from its owner's memory, and reserves places in the shared ledger before a
worker is launched, each review within its own limit (`LimitOf`); the release of a place may throw (`ReleaseFails`), and then the item has failed and
the place stays in the ledger while the owner lives (`unreturned`). `lost` are reviews whose owner died. `DiffAnnotations` computes the worktree's revision before the
lock, as every call does. `Workspaces` reads and writes the registry in separate steps, with Git's commands in between, and copies a
source file by file while it is edited; `inspected` remembers what the source was when the copy began.
`Evaluations` scores one scenario under a timer, and runs the scripted arms whose gate judges files and claims.

### TaskRecords, Contracts, Decisions

A record is its status, one link (to a record, the criterion, a file or a memory) and revision. An outcome is computed by steps: what the patch leaves
and reaches (`BeginPreview`), the state of each linked file and memory (`ReadLinkStatus`), the working tree (`CaptureTree`), and the digest with the files as they are then
(`ShowPreview`). It is computed twice, for the preview without the lock and for the application under it (`BeginReconciliation`, `ApplyPreview`), and the two are compared by
their digests only. Editors move files, and whoever may take the lock moves task, workflow and memories, in between. `Contracts` journals `prepared`, writes, and `committed`; a caller that crashed leaves any prefix. `agreed`
remembers which content was received at which revision. In `Decisions` a view is what a caller last read, and `accepted`
the requests that were answered; that `present` refuses what is not fresh, and the limit on notes, are left out, which only adds behaviours.

### Launchers, Updates, Onboarding, ProjectLock

`Launchers` writes intent, launcher, hash, and removes the intent, and a crash leaves any prefix; a release may write other
text into a launcher. `Updates` is the staging record, the lease with its expiry, heartbeats, the admission barrier and the
handoff (preflight, assessment, lease, spawn, verify, activate, record, drain). A handoff has an identity of its own: the two routes that start one are exempt from the
admission barrier and nothing orders them (`installation/updates/routes.ts:56-60`), and a server's own lease does not stop it (`installation/updates/workload.ts:118`), so handoffs of one server overlap;
the first that ends clears the lease under the others. `Onboarding` saves a setting, then the progress; `Spellings` are paths
of one directory. `ProjectLock` creates the file in one step and writes it in the next, so that a crash leaves an empty file that only a person removes.

### ManagedTool, Codegraph, McpIntegrations, McpHealth

`ManagedTool` has the operation, its lock file, the journal of the registered transaction, the records and the processes. A
controller is launched uncommitted with a bootstrap timer, its parent writes the ACTIVE record and asks it to commit; the
answer may be lost. In `Codegraph` a source is the number of its edit and an index the number of its build.
`McpIntegrations` has two hosts with a configuration and a record each, and the grants a person gave. An apply reads, checks and computes the new bytes
(`ComputeEntries`), has the transaction note what it finds (`NoteBefore`), and replaces the file if it is as noted (`WriteEntries`), else leaves the journal to
`RecoverEntries`; a person edits the file between any of these. What is noted is not compared with what was read. A launch reads the record (`ReadRecord`), then compares the
configuration (`CheckConfigured`), then starts the provider (`Launch`), which reads its configuration itself. `McpHealth` follows a server's
pages under one deadline.

### SpecImports, SpecDiscovery, UsageLedger

`SpecImports` writes task and record first and the association after them, and the process may stop between them;
`Unstorable` entries have identifiers that the second store refuses. `SpecDiscovery` is the loop of three adapters over one
budget of files and bytes. `UsageLedger` keeps every observation that was ever made and delivers any of them again.

### ContextBriefs, DecisionComparisons, ProjectMemory, AcceptanceChecks

`ContextBriefs` has a driver read the workflow (`ReadWorkflow`), the task (`InspectWork`) and the tree (`Assemble`) in three
steps, and bind its brief in the write that claims the action (`Journal`), against other drivers, which may die. Digests are
the values they are digests of; which items fit the budget is any choice; `told`, `edits` and `first` are history.
`DecisionComparisons` gives each mutation its two clock readings, for the record's history and for the event, and a comparison its
two reads; the report is a function of what was read. `ProjectMemory` makes each mutation one step, as the lock does, and
lets a reader, a link and an export grow old. `AcceptanceChecks` is `executeOne`: the fixture and who listens on its port, the
abort as an event that only who listens already hears, the timers, and the end of a process, request or browser.

## Runs

| Run | Module, instance | Asks |
| --- | --- | --- |
| `lock` | `MCServices`: two writers, three identities; two sessions, a process run, two schedulers, two orchestrators, two controllers, one server | `TypesOK`, `ExclusiveUntilOrphaned`, `ExclusiveUntilForeignUnlink`, `StaleMeansDead`, `MalformedKept`, `CallsEnd` |
| `task_lifecycle` | `MCTask`: two callers and a gate, two runs, two wordings of which one needs an approval; two records of two kinds; two requests of a contract, one crash; two entries to import; two reviewers of a comment; two invocations of usage; two drivers and five workflow revisions; three task events at three readings; two projects with two memories; one check | `TypesOK`, `OwnershipAgrees`, `EvidenceOfText`, `ConflictMeansUnapplied`, `DecisionsStand`, `ContractsHold`, `ImportsHold`, `ChangedAsRead`, `ReadersToldTrue`, `ReplaysOnlyCorrect` |
| `task_evidence` | `MCExecution`: one caller and one verifier, two sources, a check, two evidence entries; two clients of workspaces; two controllers with two sessions; two schedulers with two claims; two reviews with a limit each, one and two; two managed controllers; one evaluation | `VerifiedStands`, `OneProvider`, `ExecutedIsRecorded`, `ServedIsRecorded`, `ReviewsHold`, `WorkspacesHold`, `EvaluationsHold` |
| `installer_failures` | `MCInstallation`: two files in one batch, two versions, two faults, one edit; launchers, project lock, two servers with two handoffs, wizard, integrations | `TypesOK`, `Installed`, `Decidable`, `OneOperation`, `RecordedIsSaved`, `UpdatesHold`, `EditsSurvive`, `LaunchersHold`, `IntegrationsHold` |
| `installer_histories` | `MCInstallerTransaction`: two batches, one configuration change, two faults, one edit | `OperationsEnd`, `ImplementsAtomicInstall` |
| `workflow` | `MCWorkflow`: two processes, two sources, two calls, one upset, one repair, a lightweight route that may escalate | `TypeOK`, `OnlyOwnerRuns`, `VerifiedTogether`, `ApprovedWork`, `CancelledIsInert` |
| `workflow_drivers` | `MCWorkflow`: one process, two calls, two upsets | `DriversEnd` |
| `lock_race`, `installer_registry`, `task_tested_source`, `workflow_cancellation`, `workflow_escalation` | as small as the violation needs | one statement of the documentation, a comment or a test each, which the code does not keep (see Findings) |

Why the bounds are enough. Two lock writers are the least that race, and the third identity keeps
a fresh one available while two are referred to; a writer may acquire as often as it likes, so what one acquisition left behind is met by the next. Two files are the least for a half-published batch and for two batches; two faults are a failure and the
failure of its rollback, or of the recovery. Two revisions of a criterion let it be revised, and
removed and added again; two evidence entries let a later result supersede an earlier one. Two
calls and an upset are enough for an approval, a cancellation or a resumption against a driver, a crash or an
edit; the repair limit of one (three in the code) already shows the counter at zero, counting, and at its limit.
Two clients, controllers, schedulers, orchestrators and servers are the least that interleave, and two claims,
sessions or installations the least that meet what an earlier one left. One crash interrupts a contract, two interrupt also the
recovery of the managed tool and of the launchers. A review under a limit of one shows it full, and one under a limit of two shares the ledger with it; two handoffs overlap in one server, or meet in two; two changes around a
reconciliation move what it reads before, within and between its two computations; four files and six bytes
exceed each of the limits of a discovery in turn. Two files that are copied and two edits let the source change before and after
what was copied. Two drivers and five revisions of a workflow let one dispatch be overtaken by another, and three revisions of the task put a
reconciliation or an edit before, between and after two dispatches; three readings of the clock and three events order a review before, at and after
a change. The liveness of `lock` needs the longest paths and so has one server and one claim; the safety of
updates and schedules is asked with two of them. One link per record, and of a successor to a record only, is the bound on links.
The proofs hold for every value of the constants of their components.

`CHECK_DEADLOCK FALSE` is set where the system may rest: nobody has to start another acquisition,
installation or call, and all processes may be dead.

### Properties worth a word

- `ExclusiveUntilOrphaned`, `ExclusiveUntilForeignUnlink`: the lock excludes as long as no
  published lock has lost its owner; and, with crashes, as long as no unlink removed bytes that
  were not compared. `MutualExclusion` without either condition is what the code does not keep.
- `Installed`, `Decidable`: between operations, files and manifest agree; within one, and after
  a crash, every untouched file is in one of the two journalled states, and on the after side once
  the manifest has committed.
- `EditsSurvive`: contents that only a person writes are lost only if the edit fell between
  the comparison and the rename that follows it.
- `EvidenceOfText`: the revision of a criterion is enough to tell its wording, although IDs are
  removed and added again.
- `VerifiedStands`: a verified task has, for one source, a passing last result for every criterion,
  as it still reads, with the approvals it demands, and one for every enrolled check: of that enrolment if the check was enrolled with a definition, and else
  possibly of an earlier one (`task-state/service.ts:1209-1215`).
- `ConflictMeansUnapplied`: a caller that lost an answer and repeats the call is never told of a conflict
  if the call was carried out.
- `OnlyOwnerRuns`: while an effect runs, the journal names it, so nobody resolved, retried or
  replaced it: two effects never overlap, even when two processes drive the workflow and an action
  is abandoned and retried.
- `ApprovedWork`: an implementation under way on a route that demands approval has one, for the intent
  the driver had read. Intent can change after that read; the next `Read` asks again.
- `CancelledIsInert`: a driver changes nothing of a cancelled workflow except to give up its action.
- `VerifiedTogether`: a workflow marked verified has a verified task, although the two are written by
  separate calls.
- `OneOperation`: as long as no recovery has unlinked a lock that replaced the one it compared, one operation holds a project.
- `OneProvider`: while its task is not cancelled, at most one provider works on it for a living process, whichever of
  session and workflow claims first. A cancelled task is left out because its late child is only asked to stop.
- `ExecutedIsRecorded`: a run that a living scheduler executes is the recorded run of the schedule, and the scheduler owns the project.
- `ReviewsHold`: every provider of a living process holds a place, a place that nobody uses is one whose release failed, and the places taken are within the
  limit of a review that holds one of them; a cancellation recorded by another process is how the review ends. More than that the code does not keep, since the limit is an input
  of each review.
- `WorkspacesHold`: a review copy is, file for file, what the source was when the copy began; cleanup loses only ignored files that came after it looked.
- `ServedIsRecorded`: a committed controller that runs is named by the ACTIVE record.
- `EvaluationsHold`: the gate passes only on what the files show, and a timed-out execution never passes.
- `DecisionsStand`: what a person agreed to is what he was shown, and an ID stands for one request.
- `ChangedAsRead`: what is changed on the strength of a reading is what was read. `RecordsAsReviewed`: a reconciliation is applied as it was
  reviewed, as far as its digest says what was: excepted are links to a file that was edited while one of the two computations was under way, and what was said of a memory that
  moved since. `NoBlindReview`: nobody resolves a comment over a change he has not been shown. `MemoryHolds`: a memory is replaced as it was seen, also
  by its links; a deletion is final, and no import of an old export brings a deleted ID back. `ToldOnce`: a dispatch is bound to the workflow as it
  was read, so that no change is told to two of them.
- `ReadersToldTrue`: what is told of a task is so. `BriefsTrue`: each reconciliation after the first dispatch is told of, whichever
  driver binds the brief and whenever it was committed, and no brief blames an edit that nobody made. `ComparisonsHold`: a change is reported
  where there is one, and missed only where the clock stood between two readings; evidence and approvals count where the gates count them.
  `ChecksHold`: a fixture is gone when its check has a result, and a result names the abort or timer that ended the check.
- `ContractsHold`: no launch on a content that was not received; no crash leaves a document nobody can settle.
- `ImportsHold`: one live record per entry after any interruption; discovery within its budget, and truthful about what it left out.
- `ReplaysOnlyCorrect`: a replay never replaces a newer observation.
- `LaunchersHold`: what was written is recognised after any crash.
- `UpdatesHold`: until a lease expires or the end of another handoff clears it, only one server restarts the installation; an attempt that fails leaves no replacement running, and one
  whose server dies at most an orphan. It does not say that one handoff succeeds at a time: two of one server may.
- `RecordedIsSaved`: a step that is done has its setting.
- `IntegrationsHold`: what a graph returns is what was built. A session starts only after its entries were found as granted, and runs with them unless they were changed after the
  check began. What the user wrote or deleted stays so, whatever is applied or recovered, unless he wrote between the reading that the bytes come from and the transaction's own.
- `DriversEnd`, `OperationsEnd`, `CallsEnd`: liveness. `CallsEnd` is the conjunction of `AcquireSettles` (a call for the lock is
  answered, unless others publish locks over and over), `FenceReturned` (a run gives its claim back, unless the release fails), `StoppedSettles` (a process that is to stop ends with its
  group), `CancelEnds` and `CancelEndsReview` (a requested cancellation happens), `UncommittedEnds` (an orphaned controller exits)
  and `HandoffsEnd`.

### Variants

Beside some definitions stands a variant with the same parameters, named and commented as such: the
definition with one plausible mistake (a dropped comparison, an uncounted repair, an approval that
outlives its intent). None is used by the specification. Replacing the definition by its variant makes
the property it belongs to fail, which is how we know that the property depends on that line of the code;
`PROJECT.json` lists the pairs.

### Fairness

- `TaskStateLock`: weak fairness of each writer's own next step and of its timer. The event loop
  runs both, the challenge server included, and the critical sections are bounded file operations.
  No fairness for starting, crashing, or removing a malformed lock by hand. It is not enough under contention: a call of which others take the lock over and over may lose for ever, and
  `AcquireSettles` says so by `Contended`.
- `InstallerTransaction`: weak fairness of the steps of the operation in progress (bounded file operations of one process). None for
  failures, edits, crashes, or for anybody to run a recovery.
- `Workflow`: weak fairness of each process's driver. Providers, checks and reviews have time
  limits, after which they end with an outcome. None for calls and upsets.
- `DirectSessions`: each session's own next step, a failing release among them; its child ends because `ProcessRunner` makes it. `ProcessRunner`: `close` after
  the last holder of the pipes, and both timers. No fairness for providers: they may run for ever unless they are stopped.
- `Scheduler`: the steps of a foreground process, of a run, and the end of a run, which the runner guarantees. None for
  edits, crashes or the clock.
- `Reviews`: the cancellation poll, the conclusion of an assignment (its provider has a time limit, and its release succeeds or fails) and the final save.
- `ManagedTool`: a controller that becomes ready, exits, or, uncommitted, is shut down by its bootstrap timer. None for its parent.
- `Updates`: the steps of each handoff, and of requests, which end. A handoff waits for another only while that one holds the installation lock, for two steps at most.
- The other modules state no liveness: each operation is an atomic mutation, or ends by its own bounded steps, at somebody's request.

## Proofs

TLAPS checks the theorems listed in `PROJECT.json`, and the lemmas under them, without bounds on writers, identities, files,
versions, batches, criteria, checks, sources, runs, calls, processes, requests, installations, reviews, schedules, servers,
records, crashes or upsets. Every safety property and action property that a passing run checks is stated by a theorem. Where
components have scenes of their own in an MC module, the theorems are about the component's specification
(`ProjectLockSpec`, `UpdatesSpec`, ...), and two kinds of theorem are about the MC module's `MCSpec`: the composed type
invariants (`TaskTypesHold`, `InstallationTypesHold`, `ServicesTypesHold`) and the composed properties (`ImportsHoldAlways`,
`ChangedAsReadAlways`, `ReadersToldTrueAlways`, `IntegrationsHoldAlways`). Those are proved part by part: a step of a scene is a step of one component or leaves
it as it is.

They assume the named assumption of their component, which the module states next to the constants and TLC
evaluates in every run: `LockAssumption`, `InstallerAssumption`, `ProjectLockAssumption`, `TaskStateAssumption`,
`ContractsAssumption`, `DecisionsAssumption`, `RecordsAssumption`, `SpecImportsAssumption`, `SpecDiscoveryAssumption`,
`AnnotationsAssumption`, `UsageAssumption`, `WorkflowAssumption`, `SessionsAssumption`, `SchedulerAssumption`,
`ReviewsAssumption`, `WorkspacesAssumption`, `EvaluationsAssumption`, `ManagedToolAssumption`, `UpdatesAssumption`,
`OnboardingAssumption`, `LaunchersAssumption`, `CodegraphAssumption`, `McpAssumption`, `HealthAssumption`,
`BriefsAssumption`, `ComparisonsAssumption`, `MemoryAssumption`. They say that the
distinguished values (no lock, no journal, absent, none) differ from the ordinary ones, that bounds are natural numbers and the
sets that are counted finite, and, of a route that requires approval, that its implementation does not directly
follow its requirements, which is so in every profile of `workflows/routing.ts:68-109`.

What follows says for each module why its properties are not inductive and what had to be added. All invariants
were checked by TLC before they were proved.

`Services_proofs`, on `TaskStateLock` and the scene of services:

- `TypeCorrect`, `ExclusionUntilOrphaned`, `ExclusionUntilForeignUnlink`, `OnlyDeadReclaimed`, `MalformedAlwaysKept`. One has to know that no two
  writers serve the same identity (`Ownership`), that an identity once proved dead stays dead because identities are fresh (`Evidence`), that the
  holder's identity is on disk until a foreign unlink (`HolderOnDisk`), and that before the first orphan every
  lock on disk is served, so nobody proves it stale (`OwnerAlive`). While a malformed file lies there, nobody has read or
  published another lock (`MalformedAlone`), so no step of a writer takes it away.

`InstallerTransaction_proofs`:

- `TypeCorrect`, `InstalledAlways`, `DecidableAlways`, `EditsSurviveAlways`, `Refinement`. The invariant says of every untouched file how the journal
  describes it (`Truthful`), which of its two states it is in at each point of a publication or rollback (`Progress`), which parts of an
  operation can be in progress together (`Control`), and that foreign contents about to be overwritten arrived inside a window (`Window`). The refinement
  follows: every step but the plan, the commit, and the end of a failed operation maps to a disturbance
  that changes no untouched file.

`Workflow_proofs`:

- `TypeCorrect`, `OneEffectAtATime`, `WorkIsApproved`, `VerifiedIsVerified`, `CancelledIsLeftAlone`.
  `OnlyOwnerRuns` is nearly inductive: whoever would take the action away must find its owner gone. The approval is not, since it is
  checked long before the effect. The strengthening says what a driver that holds the stored record may rely on
  (`Current`: nothing pending, not cancelled, the approval covers the step), that a record under an effect is running, interrupted or cancelled
  (`Underway`, so nobody approves or escalates it), that only a verified task is closed (`Planning`), and that an ended driver
  owns and knows nothing (`Ending`).

`Task_proofs`, on the task and the stores about it:

- `TaskState`: `TypeCorrect`, `OwnershipAlwaysAgrees`, `EvidenceIsOfText`, `VerificationStands`, `ConflictIsHonest`. The strengthening adds that the enrolled mapping stays sound
  (`MappingCovers`) and that a conflict is answered only to calls that can no longer be fresh or applied (`ConflictMeansBehind`).
- `Contracts`: `ContractsAlwaysHold`. A launch is decided on a field of an association that was read earlier, so the
  invariant follows the association through document, journal, the caller's base and the check's copy, and says of each that a
  current receipt was really given (`KeptReceipts`); `Applying` says that a caller works on the document as it is.
- `Decisions`: `DecisionsStandAlways`. What was approved is compared with what was shown only through a revision. So every approval under way that expects
  the revision on record was prepared by somebody who had read what the record holds (`RevisionsName`); revisions count the
  ledger, on which every answered request has an ID of its own (`Ledger`, and `DecisionCounts` with an injection into the IDs).
- `TaskRecords`: `RecordsInvariant`, `RecordsAsReviewedAlways`. A preview and its application are two computations that never meet but in a digest. So the invariant says
  of each by itself what it is: an outcome is that of its patch as long as the task and workflow it started from stay, with each link as the file or memory was, but for what was edited
  meanwhile (`OutcomeInv`); so is the preview made of one (`PreviewInv`); and an application computes the patch of the preview that it is compared with (`ApplicationInv`).
  Equal digests then make equal outcomes (`PatchesAlike`). IDs are given in order (`InOrder`).
- `DiffAnnotations`: `NoBlindReviewAlways`. Nobody was shown a version that is not written yet (`ShownWasWritten`), and a comment is resolved on the
  revision it is on (`ResolvedWhereItIs`).
- `SpecImports` and `SpecDiscovery`: `ImportsHoldAlways`. That an entry has one record and one association has to survive a registration of several steps with
  interruptions: what a registration in progress relies on stays so, because it has the project to itself and people only detach
  (`RegisteringKnows`), and an association names a record of its own entry (`AssociatedIsRecorded`).
- `UsageLedger`: `ReplaysOnlyCorrectAlways`. A key has one record (`OneOfAKey`), nothing is recorded before it happened
  (`AllHappened`), and trimming really shrinks the ledger: the oldest record exists, which is the least-number principle
  (`LeastNatural`), from the library's theorem on well-founded relations.

- On all of them, in the scenes of `MCTask`: `TaskTypesHold`, `ImportsHoldAlways`, `ChangedAsReadAlways`, `ReadersToldTrueAlways`.

`Context_proofs`, on what readers are told and the memory of a project:

- `ContextBriefs`: `BriefsAlwaysHold`. The properties speak of bindings, the driver has only read. So the invariant compares each point that
  somebody holds (the last binding, a task that was read) with the task as it is: what differs is explained by an edit or a reconciliation
  (`Explains`), what was read is a part of the present task (`IsPast`), and who read the workflow at its present revision knows its last
  binding (`FlowWas`). That the brief a driver binds tells what lies between two bindings then follows from the compared revision.
- `DecisionComparisons`: `ComparisonsAlwaysHold`. The comparison trusts the clock, so the invariant orders it: events and the revisions between
  them follow their readings (`Chronicle`), and a review parts the revisions it saw from those that began later (`Observes`, `Parts`).
- `ProjectMemory`: `MemoryAlwaysHolds`. IDs are drawn once, in every project and export, and what was read is there as it was or at a later
  revision (`SeenIsThere`).
- `AcceptanceChecks`: `ChecksAlwaysHold`. What cut a check short is known by its reason, and a check is under way only on a fixture that answered.

`Execution_proofs`, on what runs:

- `DirectSessions`: `OneProviderAlways`. The fence is a record that outlives its owner, so the invariant says that a run of a living controller holds it from claim to
  release unless the task was cancelled under it (`FenceHeld`), that it is cleared only for a controller that is gone (`ClearsOfDead`), that the action of
  a workflow excludes one (`ActingAlone`), and that a save which has read an older revision changes nothing (`PausesOwn`).
- `Scheduler`: `ExecutionIsRecorded`. Until an owner lets go too early, whoever is past `own` holds the project (`OwnerHolds`); a poll runs
  only while its scheduler is started (`PollsStarted`), and the run that is executed is the one that was claimed (`ExecutesOwn`).
- `Reviews`: `ReviewsHoldAlways`. Who runs a provider is in the ledger, and who is in it runs one or failed to return its place (`ReservedIsLaunched`); the ledger is within the limit of one
  of its holders, because each admission counted the others and each release only shrinks it (`WithinLimit`); a review whose state is computed has no provider left (`Staged`).
- `Workspaces`: `WorkspacesHoldAlways`. One caller at a time copies into a worktree and nobody once it is inspected (`OneCopier`, `InspectedAlone`);
  a removal was preceded by a look (`LookedFirst`).
- `Evaluations`: `EvaluationsHoldAlways`. Metrics and gate look at what the controller left (`HashedIsLeft`), a timer settles once what is scored (`TimedOut`).
- `ManagedTool`: `ToolTypesHold`, `ServedIsAlwaysRecorded`. A controller that was asked to commit may still do it after its parent gave
  up, so the invariant binds the record to those that are committed *or asked* (`Named`), and says what the operation under way may rely on (`Reached`).

`Updates_proofs`:

- `UpdatesHoldAlways`. The server of a handoff that relies on the lease owns it, and a handoff about to take it holds the installation lock and has found none of another
  server (`LeaseOwned`, `LeaseAssessed`), both until a lease is lost; the process a handoff spawned runs just while the handoff needs it (`ReplacementRuns`).

`Installation_proofs`, on what is installed and integrated:

- `ProjectLock`: `LockTypesHold`, `OneOperationAtATime`. The invariant speaks of writers as well as holders: whoever has
  created the file serves its challenge (`Serving`), a lock once proven stale stays so because identities are fresh (`Stale`), and until
  a lock is overtaken the file is the one its operation created (`OnDisk`).
- `Onboarding`: `RecordedIsSavedAlways`. A call that is about to record a step has its store behind it (`SavedBefore`), wherever it is
  interrupted.
- `Launchers`: `LaunchersHoldAlways`. A crash may leave a launcher written and its hash not recorded, so the announcement has to name what is written until the hash
  is (`Announcing`); the pointer turns when nothing is left to do, which is when every launcher is there (`DoneIsThere`).
- `Codegraph`: `CodegraphInvariant`, of which `GraphIsCurrent` is a part. An answer comes from an index that may be replaced between the two looks of a query. So no call has seen
  the index that a sync has built but not put in place (`IndexesArePublished`), a receipt names the source its index was built
  from (`ReceiptsDescribe`), a sync read the source between its own two looks (`SyncKnows`), and a query that asked another index than
  the one it had seen will not see that one again (`QueryKnows`).
- `McpIntegrations`: what is recorded as Latchkit's, and what an apply under way is about to record or a recovery to restore, was granted (`RecordedIsGranted`,
  `PlannedIsGranted`, `WritingIsGranted`); the bytes that an apply computed have the user's entries as they were read (`ComputedSpares`); and a check under way read a granted record,
  which is that of now, with the configuration that was compared, while nothing changes (`CheckIsGranted`, `CheckIsCurrent`). `McpHealth`: tools are listed on an initialised connection (`ListsConnected`).
  The two, `Codegraph` and their action properties make up `IntegrationsHoldAlways`.

### Only model-checked

- Liveness: `CallsEnd`, `OperationsEnd`, `DriversEnd`. Fairness and ENABLED are outside what the prover handles.
- The runs that end in a counterexample show that something is false; there is nothing to prove.
- `ProcessRunner`: what it promises is that a stopped child settles, which is a part of `CallsEnd`.
- Induction over data is avoided: where a least or a smallest element is needed, it is had from the well-foundedness of the natural numbers; no model
  that is proved about has a recursive operator.

## Findings

Five runs end in a counterexample, each to a sentence of the repository.

1. `lock_race`: two contenders that both proved the same dead lock stale: the second unlinks the new lock that
   the first has published in between, and two writers hold the lock (`task-state/lock.ts:322-326`).
2. `installer_registry`: a crash between publishing the manifest of a removal and unlinking its journal leaves a journal whose
   paths are neither in the new manifest nor in the configuration; recovery refuses it (`core.ts:800-824`; `docs/recovery.md:7,9`).
3. `task_tested_source`: the source is compared when a check ends and captured anew, without comparison, when the result is recorded; an
   edit in between passes a source that was not tested (`acceptance/service.ts:639`, comment at 818).
4. `workflow_cancellation`: a cancellation from another process leaves the action of a live owner pending; once that owner is dead, `resume` resolves
   the action without looking at the status, and the cancelled workflow runs (`workflows/service.ts:1462-1548`; `docs/architecture.md:58`).
5. `workflow_escalation`: with a reviewer configured from the start, the notice of an escalated route is overwritten by the error handling of the driver that wrote it,
   and `resume`, which looks for the notice, refuses (`workflows/service.ts:874-883, 1163-1171, 1520-1525`). The test of the escalation has no reviewer, for which validation refuses
   the overwriting write.

### Observations

Noted while modelling, without a run of their own. Line numbers are those of the code.

- A rollback whose chmod fails after its rename is taken for complete when repeated, since states are compared by bytes: the recorded mode
  is lost (`installer/transactions.ts:268`; `docs/recovery.md:9`).
- A criterion that requires approval and is enrolled in a check cannot be verified: recording accepts only approvals for it, verification demands the check's evidence
  (`task-state/service.ts:1034, 1183-1213`; `docs/task-state.md:17,19`).
- A route with phases plan, implementation and verification demands an approval but never makes requirements, and the validation refuses `awaiting-approval` without them
  (`workflows/contracts.ts:660`): the workflow is blocked instead.
- A call that arrives while the previous driver is in its finally block leaves a running record without a driver until the next `run` or `resume` (`workflows/service.ts:1159`).
- An escalated record without a reviewer cannot be cancelled: the validation refuses any status but blocked with the notice.

Tasks, records and decisions:

- A brief lists work as completed from evidence alone and ignores enrolled checks, although its comment says that it follows the task's own
  verification (`context-brief/service.ts:351-368`); work flagged by a reconciliation is listed as completed again once one dispatch has told of it.
- A comment says that a mutation and its event share one reading of the clock (`reviews/decision-comparison.ts:47`); the code reads it
  twice (`task-state/service.ts:374-420`), which is why `NothingMissed` has its exceptions.
- An abort that comes before a request or browser of a check listens, or while the browser is launched, is not heard by it, so such a check can pass
  (`acceptance/service.ts:270-352`); another server on the port of a fixture can answer for it (`:178-197,524-531`); a followed redirect gets its full time anew.
- Cancelling a task reaches the children of the controller that is asked, not those of another process (`runtime/task-controller.ts:617`; `docs/task-state.md:108`).
- A record at its history limit is refused with the advice to supersede it, but superseding appends to the same history without looking and
  the store's validation refuses the write (`task-state/service.ts:1890,2008`, the append in `recordTaskRecord`; `task-state/contracts.ts:840`).
- The preview of a reconciliation does not run the store's validation, which may refuse the application (`task-state/service.ts:2325`); its digest does not bind
  what it says of memory links, and the `recordRevision` that a superseding change names is never compared (`:2229`).
- A preview reads the state of its links before its digest reads the same files: a file edited in between is shown as it was and bound as it is, and the application succeeds with other
  doubtful links than were shown; so it does when a linked memory moved after the preview. The comment says that what changed since is refused
  (`task-state/service.ts:2602,2615-2634,2661`; comment at 2764-2767). `AppliedAsReviewed` excepts both.
- A check enrolled without a definition accepts evidence of an earlier enrolment, since the revision of the workflow is compared only with one (`task-state/service.ts:1209-1215`).
- The turns of the task-state lock that find it gone, unlink it, or find it changed under a challenge without an answer `continue` without a look at the deadline
  (`task-state/lock.ts:321,324,337,348`), so a call that keeps losing to new owners has no time limit.
- A listing of comments computes the worktree's revision before the lock and may mark a fresh comment stale (`reviews/diff-annotations.ts:289-314,368-376`).

Execution:

- A session swallows a failing release of its fence (`runtime/task-controller.ts:552-556`): the claim stays with the living process, and until that is gone the task can only be cancelled.
- A reservation whose release fails (`reviews/orchestrator.ts:648-670`) fails its assignment, whatever the provider answered, and counts against every review of the project until its
  owner's process is gone.
- The limit on providers is an input of each review (`reviews/orchestrator.ts:353-356`, `reviews/admission.ts:74,116`): a review that allows more is admitted next to one that allows less.
- `stop` of a scheduler does not wait for a recovery, and a poll that fails while `stop` waits leaves its run behind: the guard `~strayed` of `ExecutedIsRecorded`.
- The registry of worktrees is read, changed and rewritten without a lock (`workspaces/git.ts:522,616-626,765`): a record may be lost, which leaves a worktree that
  cleanup refuses. A crash between removal and rewriting leaves a record whose ownership check fails.
- A commit that reaches a managed controller while it shuts itself down is acknowledged (`managed-tools/fcc-controller.ts:18-25`), and its parent takes it for committed; one that answers 503 to a stop stays in `stopping`.
- The evaluation of a requirement change counts the harness's own files as rework (`evaluations/runner.ts:400`; `docs/requirement-change-evaluations.md:39`); a timed-out scenario
  with only prose expectations is scored on the timer's text (`:188-194`).

Installation and integrations:

- An activation that fails half way has already rewritten launchers, while the documentation says that a failure before the reconnection leaves the installation untouched
  (`installation/updates/handoff.ts:153`; `docs/installation.md:382-386`). The comment of `activateStagedUpdate` still says that no restart may call it (`installation/updates/service.ts:415-420`), which `routes.ts:248` does.
- `markOnboardingHandoffStarted` checks and rewrites without a lock, so a state that "cannot silently flip" can (`installation/onboarding-state.ts:170-190`); the configuration's
  read-modify-write in the wizard loses a concurrent update (`onboarding/service.ts:195-238`, `core.ts:239`).
- Removal of managed MCP entries and their recovery cover Claude only (`integrations/mcp/managed.ts:324-385,509-514`, `codex.ts:397-401`; `docs/mcp-integrations.md:43,53-60`).
- The two routes that restart the installation are exempt from its admission barrier (`installation/updates/routes.ts:56-60`), nothing orders them, and a server's own lease does not count
  (`installation/updates/workload.ts:118`). So one console asked twice runs two handoffs; the first to end clears the lease under the other, which lets a third server begin, and both may
  leave a serving replacement.
- An apply of MCP entries computes the file from one reading (`integrations/mcp/managed.ts:417`, `codex.ts:406`) and its transaction takes the file's present bytes for the state before
  (`installer/transactions.ts:385`), without comparing the two: an edit in between is overwritten, and an entry deleted in between comes back. `UserEntriesSurvive` excepts just that.
- A session may run with MCP entries that changed after its check (`integrations/mcp/managed.ts:478-481`), since the provider reads its own configuration when it starts.
- `GraphIsCurrent` rests on edits not being undone byte for byte while a query runs.

Imports and usage:

- A registration that was interrupted between its two stores and is repeated after an edit associates the new digest with the record of the old text
  (`spec-imports/registration-service.ts:395-422`), although changed content is to supersede the record (`docs/spec-imports.md:320-327`); an interrupted revision cannot be repeated at all, since its
  record is already superseded (`task-state/service.ts:1740`; `docs/spec-imports.md:398-404`). One that stops between creating the task and recording it leaves a task without a record and makes another (`registration-service.ts:438`).
- An entry whose identifier has more than 128 characters is discovered but its association cannot be stored (`spec-imports/contracts.ts:684-692`), after its task was made.
- An OpenSpec change whose core files use up its file limit has its delta specs left out without a warning or the `truncated` flag (`spec-imports/openspec-adapter.ts:420`; `docs/spec-imports.md:226`).
- An unavailable and a measured observation of one invocation have different keys and count twice (`usage/service.ts:84-96,195-205`; `docs/local-usage.md:16`); an expired record may come back by a stale replay.

## Plan

The order follows how much depends on a protocol and how hard it is to test.

1. *Done*: `TaskStateLock`, `InstallerTransaction` refining `AtomicInstall`, `TaskState` and `Workflow`, with proofs.
2. *Done*: the components that start, own and stop work (`DirectSessions`, `ProcessRunner`, `Scheduler`, `Reviews`, `Workspaces`, `ManagedTool`), the stores about a task
   (`TaskRecords`, `Contracts`, `Decisions`, `SpecImports`, `DiffAnnotations`, `UsageLedger`, `ProjectMemory`), what is told of it (`ContextBriefs`, `DecisionComparisons`,
   `AcceptanceChecks`), and what is installed (`ProjectLock`, `Launchers`, `Updates`, `Onboarding`, the integrations).
3. *Done*: proofs of all safety properties of the passing runs.
4. Open: `ProjectLock` as a refinement of the one lock that `InstallerTransaction` assumes; the task-state lock under a compare-and-set store, as an implementation of the atomic
   mutation that `TaskState` assumes; `Workflow` over `TaskState`'s operations.

## Not modelled

`PROJECT.json` gives the reason for every component. In short: the rendering, parsing and validation of single documents (rules, packs, the formats of providers,
the text of specifications and configurations), input and output (downloads, HTTP, logging, the web console) and benchmark code have no protocol to check; verification
preferences are single records over the shared store, which is modelled once. In the modelled components the following is left out: creation and removal of
schedules and the calendar, cryptographic checks of a download, the next action and the coverage of specification and result in a brief, the recovery report of a project (`recoverProjectContext`), the retention of artifacts, a save of a review that fails, crashes inside the transaction of the MCP entries (it is `InstallerTransaction`'s), aggregation of usage and the session and task
IDs in its keys, the capture of provider resume identifiers, and the wording of everything.

## Running

```
tlc -workers 2 -config Workflow.cfg MCWorkflow
tlapm Services_proofs.tla
```

`workflow` is the largest run (5.6 million distinct states, about four minutes); the scene runs take one to four minutes, the others seconds. The proofs take about half an hour in all.
