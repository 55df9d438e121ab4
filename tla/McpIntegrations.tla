--------------------------- MODULE McpIntegrations ---------------------------
(***************************************************************************)
(* Managed MCP servers (src/integrations/mcp).  Each provider has a        *)
(* configuration file that the user edits too, and a record of the entries *)
(* Latchkit wrote, with the definition and the runtime contract they were  *)
(* authorised for.  The console previews a complete set, and an apply      *)
(* writes it under the project lock if what was previewed is still there:  *)
(* it computes the new file from what it reads, a transaction notes what   *)
(* it finds and replaces it.  A session is launched after a check that the *)
(* record and the configuration agree.  The lock stops neither the user's  *)
(* editor nor a launch.                                                    *)
(*                                                                         *)
(* The steps of the transaction that InstallerTransaction models, and its  *)
(* crashes, are one step here; a snapshot is the number of the last change *)
(* of a provider's two files.                                              *)
(***************************************************************************)
EXTENDS Naturals, FiniteSets

CONSTANTS McpServers,    \* server ids
          Definitions,   \* what an integration may declare for an id
          ForeignEntry,  \* an entry the user wrote or edited
          Unlisted,      \* no entry
          MaxSets,       \* bound: previews
          MaxUserSteps   \* bound: user edits and runtime upgrades

Hosts == {"claude", "codex"}

ASSUME McpAssumption ==
  /\ {ForeignEntry, Unlisted} \intersect Definitions = {}
  /\ ForeignEntry # Unlisted
  /\ MaxSets \in Nat /\ MaxUserSteps \in Nat

VARIABLES mcpConfig,     \* the servers each provider's file lists
          ownedEntries,  \* the entries recorded as Latchkit's
          changed,       \* how often a provider's two files were changed
          runtime,       \* the runtime contract of each provider
          grants,        \* what the user authorised
          reviewed,      \* the preview the console holds, if any
          applying,      \* the apply under way
          session,       \* the provider session being launched
          mcpBounds

mcpVars ==
  <<mcpConfig, ownedEntries, changed, runtime, grants, reviewed, applying, session, mcpBounds>>

NotOwned == [definition |-> Unlisted, runtime |-> 0]
NoPreview ==
  [wanted |-> [s \in McpServers |-> Unlisted], provider |-> "none", snapshot |-> <<0, 0>>]
NotApplying == [at |-> "idle"]
NotLaunched == [at |-> "none"]

McpInit ==
  /\ mcpConfig = [p \in Hosts |-> [s \in McpServers |-> Unlisted]]
  /\ ownedEntries = [p \in Hosts |-> [s \in McpServers |-> NotOwned]]
  /\ changed = [p \in Hosts |-> 0]
  /\ runtime = [p \in Hosts |-> 1]
  /\ grants = {}
  /\ reviewed = NoPreview
  /\ applying = NotApplying
  /\ session = NotLaunched
  /\ mcpBounds = [previews |-> 0, user |-> 0]

Managed(p) == {s \in McpServers : ownedEntries[p][s] # NotOwned}
McpSnapshot == <<changed["claude"], changed["codex"]>>

-----------------------------------------------------------------------------
(* The user adds, edits or deletes an entry, or upgrades the provider. *)
EditMcpConfig(p, s) ==
  /\ mcpBounds.user < MaxUserSteps
  /\ \E entry \in {ForeignEntry, Unlisted} \ {mcpConfig[p][s]} :
       mcpConfig' = [mcpConfig EXCEPT ![p][s] = entry]
  /\ changed' = [changed EXCEPT ![p] = @ + 1]
  /\ mcpBounds' = [mcpBounds EXCEPT !.user = @ + 1]
  /\ UNCHANGED <<ownedEntries, runtime, grants, reviewed, applying, session>>

UpgradeRuntime(p) ==
  /\ mcpBounds.user < MaxUserSteps
  /\ runtime' = [runtime EXCEPT ![p] = @ + 1]
  /\ mcpBounds' = [mcpBounds EXCEPT !.user = @ + 1]
  /\ UNCHANGED <<mcpConfig, ownedEntries, changed, grants, reviewed, applying, session>>

(* buildPlan and build: an owned entry that the user edited and a wanted   *)
(* id that somebody else owns are conflicts, and a plan with a conflict is *)
(* refused as a whole.                                                     *)
Wanted(set) == {s \in McpServers : set[s] # Unlisted}
Untouched(p, s) == mcpConfig[p][s] = ownedEntries[p][s].definition
TakesUnowned(p, set) == \A s \in Managed(p) : Untouched(p, s)
NoConflict(p, set) ==
  /\ \A s \in Managed(p) : Untouched(p, s)
  /\ \A s \in Wanted(set) \ Managed(p) : mcpConfig[p][s] = Unlisted

(* An empty set goes to Codex as soon as Codex has an entry.  A preview     *)
(* with a conflict can be shown and never applied; the command line        *)
(* previews and applies in one go.                                         *)
Addressed(set, provider) ==
  IF Wanted(set) = {} /\ Managed("codex") # {} THEN "codex"
  ELSE IF Wanted(set) = {} THEN "claude" ELSE provider

Preview(set, provider) ==
  /\ mcpBounds.previews < MaxSets
  /\ NoConflict(Addressed(set, provider), set)
  /\ reviewed' = [wanted |-> set, provider |-> Addressed(set, provider), snapshot |-> McpSnapshot]
  /\ mcpBounds' = [mcpBounds EXCEPT !.previews = @ + 1]
  /\ UNCHANGED <<mcpConfig, ownedEntries, changed, runtime, grants, applying, session>>

(* An apply uses its preview up, authorises the set it reviewed, compares  *)
(* the snapshots and plans again.  A removal carries no grant, which Codex *)
(* demands of every apply.  While a journal is left it is refused.         *)
GrantsOf(set, p) ==
  {[provider |-> p, server |-> s, definition |-> set[s], runtime |-> runtime[p]] : s \in Wanted(set)}

StillReviewed == reviewed.snapshot = McpSnapshot

BeginApply ==
  /\ applying.at \in {"idle", "blocked"}
  /\ reviewed # NoPreview
  /\ reviewed' = NoPreview
  /\ grants' = grants \union GrantsOf(reviewed.wanted, reviewed.provider)
  /\ IF StillReviewed /\ applying.at = "idle"
     THEN applying' = [at |-> "planned", wanted |-> reviewed.wanted,
                       provider |-> reviewed.provider, snapshot |-> McpSnapshot,
                       authorized |-> Wanted(reviewed.wanted) # {},
                       granted |-> runtime[reviewed.provider]]
     ELSE applying' = applying
  /\ UNCHANGED <<mcpConfig, ownedEntries, changed, runtime, session, mcpBounds>>

(* applyManagedMcp, applyCodexManagedMcp: planned under the lock from what *)
(* is on disk now; the grant must be for the runtime of now.               *)
Accepts(call) ==
  /\ changed[call.provider] = call.snapshot[IF call.provider = "claude" THEN 1 ELSE 2]
  /\ NoConflict(call.provider, call.wanted)
  /\ call.provider = "codex" => call.authorized
  /\ Wanted(call.wanted) # {} => call.granted = runtime[call.provider]

Written(p, set) ==
  [s \in McpServers |-> IF set[s] # Unlisted THEN set[s]
                     ELSE IF s \in Managed(p) THEN Unlisted ELSE mcpConfig[p][s]]

Recorded(p, set) ==
  [s \in McpServers |-> IF set[s] = Unlisted THEN NotOwned
                     ELSE [definition |-> set[s], runtime |-> runtime[p]]]

\* The last reading of both files, the check, and the bytes to write.
Computed(p, set) ==
  [at |-> "computed", provider |-> p, read |-> mcpConfig[p], config |-> Written(p, set),
   records |-> Recorded(p, set)]

ComputeEntries ==
  /\ applying.at = "planned"
  /\ applying' = IF Accepts(applying) THEN Computed(applying.provider, applying.wanted)
                 ELSE NotApplying
  /\ UNCHANGED <<mcpConfig, ownedEntries, changed, runtime, grants, reviewed, session, mcpBounds>>

\* applyRegisteredTransaction notes in its journal what the files hold now, and does not
\* compare it with what was read.
NoteBefore ==
  /\ applying.at = "computed"
  /\ applying' = [at |-> "noted", provider |-> applying.provider, read |-> applying.read,
                  config |-> applying.config, records |-> applying.records,
                  before |-> mcpConfig[applying.provider],
                  owned |-> ownedEntries[applying.provider]]
  /\ UNCHANGED <<mcpConfig, ownedEntries, changed, runtime, grants, reviewed, session, mcpBounds>>

\* Each file that changes is compared with the journal and replaced; a file that differs stops
\* the transaction and the rollback, with the journal left and the record written or not.
AsNoted(call) == call.config = call.read \/ mcpConfig[call.provider] = call.before

Replaced(call) ==
  IF call.config = call.read THEN mcpConfig ELSE [mcpConfig EXCEPT ![call.provider] = call.config]

WriteEntries ==
  /\ applying.at = "noted"
  /\ LET recorded == [ownedEntries EXCEPT ![applying.provider] = applying.records]
     IN \/ /\ AsNoted(applying)
           /\ mcpConfig' = Replaced(applying) /\ ownedEntries' = recorded
           /\ applying' = NotApplying
        \/ /\ ~AsNoted(applying)
           /\ mcpConfig' = mcpConfig /\ ownedEntries' \in {recorded, ownedEntries}
           /\ applying' = [applying EXCEPT !.at = "blocked"]
  /\ changed' = [changed EXCEPT ![applying.provider] = @ + 1]
  /\ UNCHANGED <<runtime, grants, reviewed, session, mcpBounds>>

\* recoverManagedMcp, once the user put the file back: the manifest that the transaction writes
\* is the one it found, so the recovery always rolls back.
RecoverEntries ==
  /\ applying.at = "blocked"
  /\ mcpConfig[applying.provider] \in {applying.before, applying.config}
  /\ mcpConfig' = [mcpConfig EXCEPT ![applying.provider] = applying.before]
  /\ ownedEntries' = [ownedEntries EXCEPT ![applying.provider] = applying.owned]
  /\ changed' = [changed EXCEPT ![applying.provider] = @ + 1]
  /\ applying' = NotApplying
  /\ UNCHANGED <<runtime, grants, reviewed, session, mcpBounds>>

-----------------------------------------------------------------------------
(* assertManagedMcpRuntime, assertCodexManagedMcpRuntime, and the spawn:   *)
(* the record is read, then the configuration is compared with it for the  *)
(* contract that is about to run, and then the provider starts and reads   *)
(* its configuration itself.                                               *)
McpFacts(p) == <<changed[p], runtime[p]>>

ReadRecord(p) ==
  /\ session = NotLaunched
  /\ session' = [at |-> "recorded", provider |-> p, record |-> ownedEntries[p],
                 since |-> McpFacts(p)]
  /\ UNCHANGED <<mcpConfig, ownedEntries, changed, runtime, grants, reviewed, applying, mcpBounds>>

MayLaunch(call) ==
  \A s \in McpServers : call.record[s] # NotOwned =>
    /\ mcpConfig[call.provider][s] = call.record[s].definition
    /\ call.record[s].runtime = runtime[call.provider]

CheckConfigured ==
  /\ session.at = "recorded"
  /\ session' = IF MayLaunch(session) THEN [session EXCEPT !.at = "checked"] ELSE NotLaunched
  /\ UNCHANGED <<mcpConfig, ownedEntries, changed, runtime, grants, reviewed, applying, mcpBounds>>

ListedEntries(p) ==
  {[provider |-> p, server |-> s, definition |-> mcpConfig[p][s], runtime |-> runtime[p]] :
     s \in Managed(p)}

Launch ==
  /\ session.at = "checked"
  /\ session' = [at |-> "running", provider |-> session.provider, record |-> session.record,
                 since |-> session.since, now |-> McpFacts(session.provider),
                 entries |-> ListedEntries(session.provider)]
  /\ UNCHANGED <<mcpConfig, ownedEntries, changed, runtime, grants, reviewed, applying, mcpBounds>>

EndSession ==
  /\ session.at = "running"
  /\ session' = NotLaunched
  /\ UNCHANGED <<mcpConfig, ownedEntries, changed, runtime, grants, reviewed, applying, mcpBounds>>

McpNext ==
  \/ \E p \in Hosts : UpgradeRuntime(p) \/ ReadRecord(p) \/ \E s \in McpServers : EditMcpConfig(p, s)
  \/ \E set \in [McpServers -> Definitions \union {Unlisted}], p \in Hosts : Preview(set, p)
  \/ BeginApply \/ ComputeEntries \/ NoteBefore \/ WriteEntries \/ RecoverEntries
  \/ CheckConfigured \/ Launch \/ EndSession

McpSpec == McpInit /\ [][McpNext]_mcpVars

-----------------------------------------------------------------------------
McpTypeOK ==
  /\ mcpConfig \in [Hosts -> [McpServers -> Definitions \union {ForeignEntry, Unlisted}]]
  /\ \A p \in Hosts : Managed(p) \subseteq McpServers
  /\ applying.at \in {"idle", "planned", "computed", "noted", "blocked"}
  /\ session.at \in {"none", "recorded", "checked", "running"}
  /\ mcpBounds.previews \in 0..MaxSets /\ mcpBounds.user \in 0..MaxUserSteps

(* A session starts only after its managed servers were found as the user  *)
(* authorised them, each exact definition for the runtime that is to run   *)
(* it, whatever was edited, upgraded, previewed or applied since; and it   *)
(* runs with those, unless the provider's files or the runtime changed     *)
(* while the check was under way or before the provider started            *)
(* (assertMcpActivation, assertManagedMcpRuntime).                         *)
Admitted(call) ==
  {[provider |-> call.provider, server |-> s, definition |-> call.record[s].definition,
    runtime |-> call.record[s].runtime] : s \in {s \in McpServers : call.record[s] # NotOwned}}

LaunchedIsGranted ==
  session.at = "running" =>
    /\ Admitted(session) \subseteq grants
    /\ session.now = session.since => session.entries = Admitted(session)

(* What the user wrote or edited stays, and what the user deleted stays    *)
(* away: no step of Latchkit replaces, removes or brings back an entry     *)
(* that is not, byte for byte, the one recorded as Latchkit's, even when   *)
(* it was edited after the preview (MCP_EDIT_CONFLICT,                     *)
(* MCP_UNOWNED_CONFLICT), or while the transaction writes.  The exception  *)
(* is an edit between the reading that the new bytes are computed from and *)
(* the transaction's own note of the file.                                 *)
UserEntriesSurvive ==
  [][mcpBounds'.user = mcpBounds.user =>
       \A p \in Hosts, s \in McpServers :
         (mcpConfig[p][s] = ForeignEntry) # (mcpConfig'[p][s] = ForeignEntry)
           => applying.provider = p /\ applying.read[s] # applying.before[s]]_mcpVars

=============================================================================
