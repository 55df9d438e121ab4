------------------------------- MODULE Updates -------------------------------
(***************************************************************************)
(* Updates of an installation that several console servers share:          *)
(* installation/updates/* (staging, the restart lease, the heartbeats, the *)
(* handoff to a replacement), the admission barrier of server.ts, and the  *)
(* activation primitives of installation/manager.ts.                       *)
(*                                                                         *)
(* A server may run several handoffs at once: the requests for one are     *)
(* exempt from the admission barrier, nothing orders them, and its own     *)
(* lease does not stop it.  It takes one other mutating request at a time. *)
(* A version stands for its archive, its checksum, its directory and the   *)
(* preview that named it.  What an installation lock protects is one step, *)
(* except for the lease, whose assessment reads files that nothing locks.  *)
(***************************************************************************)
EXTENDS Naturals, FiniteSets

CONSTANTS
  Servers,           \* console servers of the installation
  Candidates,        \* versions that can be downloaded
  InstalledVersion,  \* the version installed at first
  Nobody,
  Handoffs,          \* bound: requests to activate or to roll back, of any server
  MaxOthers          \* bound: downloads, activations by hand, other requests

Releases == Candidates \union {InstalledVersion}

ASSUME UpdatesAssumption ==
  /\ InstalledVersion \notin Candidates /\ Nobody \notin Servers \union Releases \union Handoffs
  /\ MaxOthers \in Nat

VARIABLES
  pointer,           \* current: the version a launch resolves to
  installed,         \* directories versions/<key>, verified and promoted
  staged,            \* the staged-update record, or Nobody
  staging,           \* a download under way, or Nobody
  lease,             \* update-lease.json: its owner, or Nobody when there is none or it expired
  locked,            \* the handoff that assesses quiescence under the installation lock
  mutation,          \* each server's mutating request: none, reading the lease, counted
  beat,              \* the request count of each server's heartbeat, as others read it
  job,               \* each handoff: its place, server, version, route, what was in flight
  replacement,       \* the process each handoff spawned
  serving,           \* servers that have not closed
  others,            \* history: used up bound
  doubled            \* history: the lease was cleared or expired while a handoff relied on it

updateVars == <<pointer, installed, staged, staging, lease, locked, mutation,
                beat, job, replacement, serving, others, doubled>>

UpdateKept     == <<pointer, installed, staged, staging>>
UpdateFiles    == <<UpdateKept, others>>
LeaseState    == <<lease, locked, doubled>>
RequestLoad     == <<mutation, beat>>

HandoffStages   == {"idle", "preflight", "assess", "lease", "spawn", "verify", "activate", "record",
                    "failing", "over", "drain", "closed"}
LeasingStages  == {"spawn", "verify", "activate", "record", "failing"}
HandoffJob == [at : HandoffStages, by : Servers \union {Nobody}, goal : Releases,
               how : {"activate", "rollback"}, seen : BOOLEAN]
IdleJob == [at |-> "idle", by |-> Nobody, goal |-> InstalledVersion, how |-> "activate",
            seen |-> FALSE]
StagedRecord == [version : Candidates, ready : BOOLEAN]

\* An update may have been staged.
UpdatesInit ==
  /\ pointer = InstalledVersion
  /\ \/ staged = Nobody /\ installed = {InstalledVersion}
     \/ \E v \in Candidates : /\ installed = {InstalledVersion, v}
                            /\ staged = [version |-> v, ready |-> TRUE]
  /\ staging = Nobody
  /\ lease = Nobody /\ locked = Nobody
  /\ mutation = [s \in Servers |-> "none"] /\ beat = [s \in Servers |-> FALSE]
  /\ job = [h \in Handoffs |-> IdleJob]
  /\ replacement = [h \in Handoffs |-> "none"]
  /\ serving = Servers
  /\ others = 0 /\ doubled = FALSE

LeaseHeld == lease # Nobody
MoveHandoff(h, there) == job' = [job EXCEPT ![h].at = there]
OtherOnce == others < MaxOthers /\ others' = others + 1

-----------------------------------------------------------------------------
(* Staging, and activation by hand *)

\* previewUpdate names a newer version only.
Previewed(v) == v \in Candidates

\* stageUpdate downloads it, for a counted request or for the command line.
BeginStage(v) ==
  /\ staging = Nobody /\ Previewed(v) /\ OtherOnce
  /\ staging' = [version |-> v, ready |-> FALSE]
  /\ UNCHANGED <<pointer, installed, staged, LeaseState, RequestLoad, job, replacement,
                 serving>>

\* stageBundle verifies, smokes and promotes the directory.
Promoted(v) == installed \union {v}

\* Checksum, extraction, stageBundle, and the record: ready, or failed.
FinishStage ==
  /\ staging # Nobody /\ locked = Nobody
  /\ staging' = Nobody
  /\ \E ok \in BOOLEAN :
       /\ installed' = IF ok THEN Promoted(staging.version) ELSE installed
       /\ staged' = [staging EXCEPT !.ready = ok]
  /\ UNCHANGED <<pointer, others, LeaseState, RequestLoad, job, replacement, serving>>

\* `self upgrade`, `self rollback` and `update rollback` of the command line.
ActivateByHand(v) ==
  /\ v \in installed /\ locked = Nobody /\ pointer # v /\ OtherOnce
  /\ pointer' = v
  /\ UNCHANGED <<installed, staged, staging, LeaseState, RequestLoad, job, replacement,
                 serving>>

-----------------------------------------------------------------------------
(* Requests of the servers, and heartbeats *)

\* A handoff of the server succeeded: the server stops taking requests.
Closing(s) == \E h \in Handoffs : job[h].by = s /\ job[h].at \in {"drain", "closed"}

\* isRestartAdmissionBlocked reads the lease ...
AskAdmission(s) ==
  /\ s \in serving /\ ~Closing(s) /\ mutation[s] = "none" /\ ~LeaseHeld
  /\ OtherOnce
  /\ mutation' = [mutation EXCEPT ![s] = "asked"]
  /\ UNCHANGED <<UpdateKept, LeaseState, beat, job, replacement, serving>>

\* ... and only then is the request counted, until it ends.
CountRequest(s) ==
  /\ s \in serving /\ mutation[s] = "asked"
  /\ mutation' = [mutation EXCEPT ![s] = "counted"]
  /\ UNCHANGED <<UpdateFiles, LeaseState, beat, job, replacement, serving>>

EndRequest(s) ==
  /\ mutation[s] = "counted"
  /\ mutation' = [mutation EXCEPT ![s] = "none"]
  /\ UNCHANGED <<UpdateFiles, LeaseState, beat, job, replacement, serving>>

\* The heartbeat file is written without being awaited.
FlushHeartbeat(s) ==
  /\ beat[s] # (mutation[s] = "counted")
  /\ beat' = [beat EXCEPT ![s] = mutation[s] = "counted"]
  /\ UNCHANGED <<UpdateFiles, LeaseState, mutation, job, replacement, serving>>

-----------------------------------------------------------------------------
(* performActivationHandoff *)

\* The routes /activate and /rollback, up to the capture of the own request count: whatever
\* other handoff of the server is under way.
BeginHandoff(h, s, v, how) ==
  /\ job[h].at = "idle" /\ s \in serving
  /\ how = "activate" => staged # Nobody /\ staged.ready /\ staged.version = v
  /\ v # InstalledVersion \/ how = "rollback"
  /\ job' = [job EXCEPT ![h] = [at |-> "preflight", by |-> s, goal |-> v, how |-> how,
                               seen |-> mutation[s] = "counted"]]
  /\ UNCHANGED <<UpdateFiles, LeaseState, RequestLoad, replacement, serving>>

\* checkPendingWorkCompatibility.
Preflight(h) ==
  /\ job[h].at = "preflight"
  /\ MoveHandoff(h, "assess") \/ MoveHandoff(h, "over")
  /\ UNCHANGED <<UpdateFiles, LeaseState, RequestLoad, replacement, serving>>

\* assessInstallationQuiescence, under the installation lock; a task, a workflow or a review
\* that runs somewhere stops it too.  The server's own lease does not.
NoOtherLease(h) == lease \in {job[h].by, Nobody}

Quiescent(h) == /\ NoOtherLease(h) /\ ~job[h].seen
                /\ \A t \in serving \ {job[h].by} : ~beat[t]

Assess(h) ==
  /\ job[h].at = "assess" /\ locked = Nobody
  /\ \/ Quiescent(h) /\ MoveHandoff(h, "lease") /\ locked' = h
     \/ MoveHandoff(h, "over") /\ UNCHANGED locked
  /\ UNCHANGED <<UpdateFiles, lease, doubled, RequestLoad, replacement, serving>>

AcquireLease(h) ==
  /\ job[h].at = "lease"
  /\ lease' = job[h].by /\ locked' = Nobody
  /\ MoveHandoff(h, "spawn")
  /\ UNCHANGED <<UpdateFiles, doubled, RequestLoad, replacement, serving>>

\* spawnReplacementServer: ready in time, or an error, an early exit, a timeout that kills it.
SpawnReplacement(h) ==
  /\ job[h].at = "spawn"
  /\ \/ /\ job[h].goal \in installed /\ MoveHandoff(h, "verify")
        /\ replacement' = [replacement EXCEPT ![h] = "ready"]
     \/ MoveHandoff(h, "failing") /\ UNCHANGED replacement
  /\ UNCHANGED <<UpdateFiles, LeaseState, RequestLoad, serving>>

\* killReplacement.  (The variant forgets it.)
LeavesRunning(h) == replacement
Killed(h) == [replacement EXCEPT ![h] = "none"]

VerifyReplacement(h) ==
  /\ job[h].at = "verify"
  /\ \/ replacement[h] = "ready" /\ MoveHandoff(h, "activate") /\ UNCHANGED replacement
     \/ MoveHandoff(h, "failing") /\ replacement' = Killed(h)
  /\ UNCHANGED <<UpdateFiles, LeaseState, RequestLoad, serving>>

\* activate(): activateStagedUpdate reads the staged record again; rollbackUpdate takes the
\* requested version.  Both are rollbackInstallation, which verifies and smokes it.
Activated(h) == IF job[h].how = "rollback" THEN job[h].goal ELSE staged.version
Activatable(h) == job[h].how = "activate" => staged # Nobody /\ staged.ready

ActivateRelease(h) ==
  /\ job[h].at = "activate" /\ locked = Nobody
  /\ \/ /\ Activatable(h) /\ (Activatable(h) => Activated(h) \in installed)
        /\ pointer' = Activated(h)
        /\ staged' = IF job[h].how = "activate" THEN Nobody ELSE staged
        /\ MoveHandoff(h, "record") /\ UNCHANGED replacement
     \/ MoveHandoff(h, "failing") /\ replacement' = Killed(h) /\ UNCHANGED <<pointer, staged>>
  /\ UNCHANGED <<installed, staging, others, LeaseState, RequestLoad, serving>>

\* The handoff record, and the lease, whoever owns it; either write may fail unnoticed.
Relies(h) == job[h].at \in LeasingStages

ClearLease(h) ==
  /\ lease' \in {Nobody, lease}
  /\ doubled' = (doubled \/ \E g \in Handoffs \ {h} : Relies(g))
  /\ UNCHANGED locked

FailHandoff(h) ==
  /\ job[h].at = "failing"
  /\ ClearLease(h) /\ MoveHandoff(h, "over")
  /\ UNCHANGED <<UpdateFiles, RequestLoad, replacement, serving>>

\* It answers, lets the replacement go and is to close its server.
Succeed(h) ==
  /\ job[h].at = "record"
  /\ ClearLease(h) /\ MoveHandoff(h, "drain")
  /\ replacement' = [replacement EXCEPT ![h] = IF @ = "ready" THEN "serving" ELSE @]
  /\ UNCHANGED <<UpdateFiles, RequestLoad, serving>>

\* onHandoffSucceeded: requests drain first, the heartbeat goes last.  Another handoff of the
\* server goes on: close waits for it and does not stop it.
CloseReplaced(h) ==
  /\ job[h].at = "drain" /\ mutation[job[h].by] = "none"
  /\ serving' = serving \ {job[h].by} /\ beat' = [beat EXCEPT ![job[h].by] = FALSE]
  /\ MoveHandoff(h, "closed")
  /\ UNCHANGED <<UpdateFiles, LeaseState, mutation, replacement>>

\* The lease expires after three minutes.
LeaseExpires ==
  /\ LeaseHeld
  /\ lease' = Nobody
  /\ doubled' = (doubled \/ \E h \in Handoffs : Relies(h))
  /\ UNCHANGED <<UpdateFiles, locked, RequestLoad, job, replacement, serving>>

\* The process of a server dies, and its handoffs with it; their replacements do not.
\* (Bound: not the last server.)
CutShort(h) == IF job[h].at \in {"drain", "closed"} THEN "closed" ELSE "over"

ServerCrash(s) ==
  /\ s \in serving => Cardinality(serving) > 1
  /\ s \in serving \/ \E h \in Handoffs : job[h].by = s /\ job[h].at \notin {"over", "closed"}
  /\ serving' = serving \ {s}
  /\ beat' = [beat EXCEPT ![s] = FALSE]
  /\ job' = [h \in Handoffs |-> IF job[h].by # s THEN job[h]
                               ELSE [job[h] EXCEPT !.at = CutShort(h)]]
  /\ mutation' = [mutation EXCEPT ![s] = "none"]
  /\ locked' = IF locked # Nobody /\ job[locked].by = s THEN Nobody ELSE locked
  /\ replacement' = [h \in Handoffs |-> IF job[h].by = s /\ replacement[h] = "ready" THEN "orphan"
                                       ELSE replacement[h]]
  /\ UNCHANGED <<UpdateFiles, lease, doubled>>

HandoffStep(h) ==
  \/ Preflight(h) \/ Assess(h) \/ AcquireLease(h) \/ SpawnReplacement(h) \/ VerifyReplacement(h)
  \/ ActivateRelease(h) \/ FailHandoff(h) \/ Succeed(h) \/ CloseReplaced(h)

UpdatesNext ==
  \/ FinishStage \/ LeaseExpires
  \/ \E v \in Releases : BeginStage(v) \/ ActivateByHand(v)
  \/ \E s \in Servers :
       \/ AskAdmission(s) \/ CountRequest(s) \/ EndRequest(s) \/ FlushHeartbeat(s) \/ ServerCrash(s)
  \/ \E h \in Handoffs :
       \/ HandoffStep(h)
       \/ \E s \in Servers, v \in Releases, how \in {"activate", "rollback"} :
            BeginHandoff(h, s, v, how)

\* Every wait of a handoff is bounded: 15 s, 20 s and five attempts of 5 s; requests have a
\* time limit of 30 s.
UpdatesFairness ==
  /\ \A h \in Handoffs : WF_updateVars(HandoffStep(h))
  /\ \A s \in Servers : WF_updateVars(CountRequest(s)) /\ WF_updateVars(EndRequest(s))

UpdatesSpec == UpdatesInit /\ [][UpdatesNext]_updateVars /\ UpdatesFairness

-----------------------------------------------------------------------------
UpdatesTypeOK ==
  /\ pointer \in Releases /\ installed \subseteq Releases
  /\ staged \in StagedRecord \union {Nobody} /\ staging \in StagedRecord \union {Nobody}
  /\ lease \in Servers \union {Nobody} /\ locked \in Handoffs \union {Nobody}
  /\ mutation \in [Servers -> {"none", "asked", "counted"}] /\ beat \in [Servers -> BOOLEAN]
  /\ job \in [Handoffs -> HandoffJob] /\ serving \subseteq Servers
  /\ replacement \in [Handoffs -> {"none", "ready", "serving", "orphan"}]

\* Two servers never restart the installation at the same time, unless the lease expired, or
\* the end of a handoff cleared it, while another one relied on it.  (Handoffs of one server
\* may overlap: its own lease stops none of them.)
OneRestart ==
  ~doubled => \A g, h \in Handoffs : Relies(g) /\ Relies(h) => job[g].by = job[h].by

\* A replacement runs only while its handoff does, and after it only when the handoff
\* succeeded: a failed attempt leaves no process, and a crash of the server an orphan.
RestartLeavesOne ==
  \A h \in Handoffs :
    /\ replacement[h] = "ready" => job[h].at \in {"verify", "activate", "record"}
    /\ replacement[h] = "serving" <=> job[h].at \in {"drain", "closed"}

\* Every handoff comes to an end: it failed, or its server is replaced and closed.
HandoffsEnd == \A h \in Handoffs : job[h].at # "idle" ~> job[h].at \in {"over", "closed"}

\* One server hands off at a time and every attempt leaves one process behind it, the server or
\* its replacement (the restart lease and the handoff of installation/updates).
UpdatesHold == OneRestart /\ RestartLeavesOne
=============================================================================
