----------------------------- MODULE ManagedTool -----------------------------
(***************************************************************************)
(* The managed proxy (src/managed-tools/): its installation in a fresh     *)
(* runtime directory, and the detached controller that owns its server.    *)
(*                                                                         *)
(* Operations exclude each other by a lock file that a crash leaves until  *)
(* a person removes it.  Records change by one registered transaction; a   *)
(* crash in it leaves a journal, and every operation but a recovery is     *)
(* refused until it is gone.  A controller is launched uncommitted, named  *)
(* by the ACTIVE record, and only then committed: one that loses its       *)
(* parent, or is not committed in time, shuts itself down.                 *)
(***************************************************************************)
EXTENDS Naturals

CONSTANTS MaxInstalls, MaxControllers, MaxToolCrashes,  \* bounds
          NoTool

ASSUME ManagedToolAssumption ==
  NoTool \notin Nat /\ MaxInstalls \in Nat /\ MaxControllers \in Nat

VARIABLES tool,         \* the operation: its kind, step and what it works on
          abandoned,    \* the lock file of a crashed operation is still there
          journal,      \* an interrupted transaction, of records or of sources
          records,      \* STATE, ACTIVE and LIFECYCLE
          runtime,      \* the runtime directory of each installation
          controllers,  \* each controller process
          made,         \* installations and controllers so far
          toolCrashes

toolVars == <<tool, abandoned, journal, records, runtime, controllers, made,
              toolCrashes>>

Installs == 1 .. MaxInstalls
ToolControllers == 1 .. MaxControllers
Resting == [kind |-> "none", step |-> "none", at |-> NoTool]
NoProcess == [at |-> "none", committed |-> FALSE, parent |-> FALSE, asked |-> FALSE]

ManagedToolInit ==
  /\ tool = Resting
  /\ abandoned = FALSE /\ journal = "none"
  /\ records = [state |-> NoTool, active |-> NoTool, phase |-> "none", building |-> NoTool]
  /\ runtime = [i \in Installs |-> "absent"]
  /\ controllers = [c \in ToolControllers |-> NoProcess]
  /\ made = [installs |-> 0, controllers |-> 0]
  /\ toolCrashes = 0

Lockable == tool = Resting /\ ~abandoned
Mutable == Lockable /\ journal = "none"
AtStep(kind, step) == tool.kind = kind /\ tool.step = step
ToolRunning(c) == controllers[c].at \in {"starting", "ready", "stopping", "asked", "stuck"}

(* controllerStatus: proven only while it is not stopping, and a slow answer
   proves nothing. *)
Provable(c) == controllers[c].at = "ready"
Proofs(c) == IF Provable(c) THEN BOOLEAN ELSE {FALSE}

-----------------------------------------------------------------------------
(* installFcc: intent, sources, the package, then one activation. *)
BeginInstall ==
  /\ Mutable
  /\ records.state = NoTool /\ records.phase \in {"none", "abandoned"}
  /\ made.installs < MaxInstalls
  /\ made' = [made EXCEPT !.installs = @ + 1]
  /\ records' = [records EXCEPT !.phase = "building", !.building = made.installs + 1]
  /\ tool' = [kind |-> "install", step |-> "sources", at |-> made.installs + 1]
  /\ UNCHANGED <<abandoned, journal, runtime, controllers, toolCrashes>>

Materialize ==
  /\ AtStep("install", "sources")
  /\ runtime' = [runtime EXCEPT ![tool.at] = "partial"]
  /\ tool' = [tool EXCEPT !.step = "package"]
  /\ UNCHANGED <<abandoned, journal, records, controllers, made, toolCrashes>>

SyncPackage ==
  /\ AtStep("install", "package")
  /\ runtime' = [runtime EXCEPT ![tool.at] = "complete"]
  /\ tool' = [tool EXCEPT !.step = "activate"]
  /\ UNCHANGED <<abandoned, journal, records, controllers, made, toolCrashes>>

Activate ==
  /\ AtStep("install", "activate")
  /\ records' = [records EXCEPT !.state = tool.at, !.phase = "none", !.building = NoTool]
  /\ tool' = Resting
  /\ UNCHANGED <<abandoned, journal, runtime, controllers, made, toolCrashes>>

InstallFails ==
  /\ tool.kind = "install"
  /\ records' = [records EXCEPT !.phase = "failed"]
  /\ tool' = Resting
  /\ UNCHANGED <<abandoned, journal, runtime, controllers, made, toolCrashes>>

-----------------------------------------------------------------------------
(* startFcc launches a controller over the verified runtime ... *)
Launch ==
  /\ Mutable
  /\ records.state # NoTool /\ records.active = NoTool
  /\ made.controllers < MaxControllers
  /\ made' = [made EXCEPT !.controllers = @ + 1]
  /\ controllers' = [controllers EXCEPT ![made.controllers + 1] =
                       [at |-> "starting", committed |-> FALSE, parent |-> TRUE, asked |-> FALSE]]
  /\ tool' = [kind |-> "start", step |-> "launching", at |-> made.controllers + 1]
  /\ UNCHANGED <<abandoned, journal, records, runtime, toolCrashes>>

(* ... which serves once authenticated, or ends: the port is taken, the
   server exits, an asset is missing, the time is over. *)
ToolReady(c) ==
  /\ controllers[c].at = "starting"
  /\ \E next \in {"ready", "stopping"} :
       controllers' = [controllers EXCEPT ![c].at = next]
  /\ UNCHANGED <<tool, abandoned, journal, records, runtime, made, toolCrashes>>

LaunchFails ==
  /\ AtStep("start", "launching")
  /\ controllers' = [controllers EXCEPT ![tool.at].parent = FALSE]
  /\ tool' = Resting
  /\ UNCHANGED <<abandoned, journal, records, runtime, made, toolCrashes>>

(* The record is written before the controller is committed. *)
RecordActive ==
  /\ AtStep("start", "launching") /\ controllers[tool.at].at = "ready"
  /\ records' = [records EXCEPT !.active = tool.at]
  /\ tool' = [tool EXCEPT !.step = "commit"]
  /\ UNCHANGED <<abandoned, journal, runtime, controllers, made, toolCrashes>>

(* The commitment is sent, and may find the controller shutting down. *)
SendCommit ==
  /\ AtStep("start", "commit")
  /\ controllers' = [controllers EXCEPT ![tool.at].asked = ToolRunning(tool.at)]
  /\ tool' = [tool EXCEPT !.step = "acknowledge"]
  /\ UNCHANGED <<abandoned, journal, records, runtime, made, toolCrashes>>

ControllerCommits(c) ==
  /\ ToolRunning(c) /\ controllers[c].asked
  /\ controllers' = [controllers EXCEPT ![c].committed = TRUE, ![c].asked = FALSE]
  /\ UNCHANGED <<tool, abandoned, journal, records, runtime, made, toolCrashes>>

Started ==
  /\ AtStep("start", "acknowledge")
  /\ controllers[tool.at].committed
  /\ controllers' = [controllers EXCEPT ![tool.at].parent = FALSE]
  /\ tool' = Resting
  /\ UNCHANGED <<abandoned, journal, records, runtime, made, toolCrashes>>

(* Three seconds without an answer: the channel is closed.  The record
   stays, and the answer may have been on its way. *)
AbortStart ==
  /\ tool.kind = "start" /\ tool.step \in {"commit", "acknowledge"}
  /\ controllers' = [controllers EXCEPT ![tool.at].parent = FALSE]
  /\ tool' = Resting
  /\ UNCHANGED <<abandoned, journal, records, runtime, made, toolCrashes>>

(* The closed channel, or the fifteen seconds, before a commitment, which
   end a refused stop too; the end of its server after it. *)
ShutsDown(c) ==
  /\ controllers[c].at \in {"ready", "asked", "stuck"}
  /\ controllers[c].committed => controllers[c].at = "ready"
  /\ controllers' = [controllers EXCEPT ![c].at = "stopping"]
  /\ UNCHANGED <<tool, abandoned, journal, records, runtime, made, toolCrashes>>

ControllerExits(c) ==
  /\ controllers[c].at = "stopping"
  /\ controllers' = [controllers EXCEPT ![c].at = "gone"]
  /\ UNCHANGED <<tool, abandoned, journal, records, runtime, made, toolCrashes>>

ControllerKilled(c) ==
  /\ toolCrashes < MaxToolCrashes
  /\ ToolRunning(c)
  /\ toolCrashes' = toolCrashes + 1
  /\ controllers' = [controllers EXCEPT ![c].at = "gone"]
  /\ UNCHANGED <<tool, abandoned, journal, records, runtime, made>>

-----------------------------------------------------------------------------
(* stopOwned, for stopFcc and removeFcc: a controller that proves itself is
   asked to stop; it answers when its server has ended, or that it cannot
   end it. *)
BeginStop(kind) ==
  /\ Mutable
  /\ records.state # NoTool
  /\ IF records.active = NoTool
       THEN kind = "remove" /\ tool' = [kind |-> kind, step |-> "deregister", at |-> NoTool]
                            /\ controllers' = controllers
       ELSE /\ TRUE \in Proofs(records.active)
            /\ controllers' = [controllers EXCEPT ![records.active].at = "asked"]
            /\ tool' = [kind |-> kind, step |-> "stopping", at |-> records.active]
  /\ UNCHANGED <<abandoned, journal, records, runtime, made, toolCrashes>>

AnswerStop(c) ==
  /\ controllers[c].at = "asked"
  /\ \E next \in {"gone", "stuck"} :
       controllers' = [controllers EXCEPT ![c].at = next]
  /\ UNCHANGED <<tool, abandoned, journal, records, runtime, made, toolCrashes>>

ToolStopped ==
  /\ tool.step = "stopping" /\ controllers[tool.at].at = "gone"
  /\ records' = [records EXCEPT !.active = NoTool]
  /\ tool' = IF tool.kind = "remove"
               THEN [kind |-> "remove", step |-> "deregister", at |-> NoTool] ELSE Resting
  /\ UNCHANGED <<abandoned, journal, runtime, controllers, made, toolCrashes>>

StopRefused ==
  /\ tool.step = "stopping"
  /\ tool' = Resting
  /\ UNCHANGED <<abandoned, journal, records, runtime, controllers, made, toolCrashes>>

(* removeFcc keeps the runtime and the profile. *)
Deregister ==
  /\ AtStep("remove", "deregister")
  /\ records' = [records EXCEPT !.state = NoTool]
  /\ tool' = Resting
  /\ UNCHANGED <<abandoned, journal, runtime, controllers, made, toolCrashes>>

-----------------------------------------------------------------------------
(* A crash, in a transaction or between two; the lock file stays. *)
CrashTool ==
  /\ toolCrashes < MaxToolCrashes
  /\ tool # Resting
  /\ toolCrashes' = toolCrashes + 1
  /\ abandoned' = TRUE
  /\ journal' \in IF tool.step = "sources" THEN {"none", "sources"} ELSE {"none", "records"}
  /\ controllers' = [c \in ToolControllers |-> [controllers[c] EXCEPT !.parent = FALSE]]
  /\ tool' = Resting
  /\ UNCHANGED <<records, runtime, made>>

RemoveOperationLock ==
  /\ abandoned
  /\ abandoned' = FALSE
  /\ UNCHANGED <<tool, journal, records, runtime, controllers, made, toolCrashes>>

(* recoverFcc settles the journal first; the sources' needs the identity
   that the lifecycle recorded. *)
RecoverJournal ==
  /\ Lockable
  /\ journal # "none"
  /\ journal = "sources" => records.building # NoTool
  /\ journal' = "none"
  /\ UNCHANGED <<tool, abandoned, records, runtime, controllers, made, toolCrashes>>

(* Mutant of Disproved: no proof is taken for no process. *)
IgnoresPid(c) == FALSE \in Proofs(c)

(* An ACTIVE record goes only when its process does not exist. *)
Disproved(c) == FALSE \in Proofs(c) /\ ~ToolRunning(c)

RecoverRecords ==
  /\ Mutable
  /\ records.active # NoTool => Disproved(records.active)
  /\ records' = [records EXCEPT
       !.active = NoTool,
       !.phase = IF records.phase = "none" THEN "none" ELSE "abandoned"]
  /\ UNCHANGED <<tool, abandoned, journal, runtime, controllers, made, toolCrashes>>

ManagedToolNext ==
  \/ BeginInstall \/ Materialize \/ SyncPackage \/ Activate \/ InstallFails
  \/ Launch \/ LaunchFails \/ RecordActive \/ SendCommit \/ Started \/ AbortStart
  \/ \E c \in ToolControllers : \/ ToolReady(c) \/ ControllerCommits(c) \/ ShutsDown(c)
                            \/ ControllerExits(c) \/ ControllerKilled(c) \/ AnswerStop(c)
  \/ \E kind \in {"stop", "remove"} : BeginStop(kind)
  \/ ToolStopped \/ StopRefused \/ Deregister
  \/ CrashTool \/ RemoveOperationLock \/ RecoverJournal \/ RecoverRecords

(* Timers and the events of a process occur. *)
ManagedToolFairness ==
  \A c \in ToolControllers :
    /\ WF_toolVars(ToolReady(c)) /\ WF_toolVars(ControllerExits(c))
    /\ WF_toolVars(~controllers[c].committed /\ ShutsDown(c))

ManagedToolSpec ==
  ManagedToolInit /\ [][ManagedToolNext]_toolVars /\ ManagedToolFairness

-----------------------------------------------------------------------------
ManagedToolTypeOK ==
  /\ journal \in {"none", "records", "sources"} /\ abandoned \in BOOLEAN
  /\ records.state \in Installs \union {NoTool}
  /\ records.active \in ToolControllers \union {NoTool}
  /\ runtime \in [Installs -> {"absent", "partial", "complete"}]

(* No server runs for ever unrecorded: a committed controller that is still
   there is the one the ACTIVE record names, so that it can be stopped; and
   what is registered as installed is complete. *)
ServedIsRecorded ==
  /\ \A c \in ToolControllers : ToolRunning(c) /\ controllers[c].committed => records.active = c
  /\ records.state # NoTool => runtime[records.state] = "complete"

(* A controller that nobody committed ends, whatever became of its parent. *)
UncommittedEnds ==
  \A c \in ToolControllers :
    (ToolRunning(c) /\ ~controllers[c].parent) ~> (controllers[c].committed \/ ~ToolRunning(c))
=============================================================================
