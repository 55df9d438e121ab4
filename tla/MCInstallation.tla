--------------------------- MODULE MCInstallation ---------------------------
(***************************************************************************)
(* What Latchkit puts on a machine and into a project, one part at a time  *)
(* for TLC: the installer's transactions, the launchers, the project lock, *)
(* updates, the wizard, and the integrations.  A scene picks the component *)
(* that moves; the others stay in one initial state.                       *)
(***************************************************************************)
EXTENDS InstallerTransaction, Launchers, ProjectLock, Updates, Onboarding, Codegraph,
        McpIntegrations, McpHealth

CONSTANTS f1, f2

OneBatch == [f \in {f1, f2} |-> 1]

VARIABLE scene   \* the component that moves

allVars == <<scene, vars, launcherVars, projectLockVars, updateVars, onboardingVars,
           codegraphVars, mcpVars, healthVars>>

MCInit ==
  /\ scene \in {"installer", "launchers", "lock", "updates", "onboarding", "codegraph", "mcp",
                 "health"}
  /\ Init /\ (scene # "installer" => manifest = Nothing /\ wanted = Nothing)
  /\ LaunchersInit
  /\ ProjectLockInit
  /\ UpdatesInit /\ (scene # "updates" => staged = Nobody)
  /\ OnboardingInit
  /\ CodegraphInit /\ (scene # "codegraph" => ~enabled)
  /\ McpInit
  /\ HealthInit

MCNext ==
  \/ /\ scene = "installer" /\ Next
     /\ UNCHANGED <<scene, launcherVars, projectLockVars, updateVars, onboardingVars,
                    codegraphVars, mcpVars, healthVars>>
  \/ /\ scene = "launchers" /\ LaunchersNext
     /\ UNCHANGED <<scene, vars, projectLockVars, updateVars, onboardingVars, codegraphVars,
                    mcpVars, healthVars>>
  \/ /\ scene = "lock" /\ ProjectLockNext
     /\ UNCHANGED <<scene, vars, launcherVars, updateVars, onboardingVars, codegraphVars,
                    mcpVars, healthVars>>
  \/ /\ scene = "updates" /\ UpdatesNext
     /\ UNCHANGED <<scene, vars, launcherVars, projectLockVars, onboardingVars, codegraphVars,
                    mcpVars, healthVars>>
  \/ /\ scene = "onboarding" /\ OnboardingNext
     /\ UNCHANGED <<scene, vars, launcherVars, projectLockVars, updateVars, codegraphVars,
                    mcpVars, healthVars>>
  \/ /\ scene = "codegraph" /\ CodegraphNext
     /\ UNCHANGED <<scene, vars, launcherVars, projectLockVars, updateVars, onboardingVars,
                    mcpVars, healthVars>>
  \/ /\ scene = "mcp" /\ McpNext
     /\ UNCHANGED <<scene, vars, launcherVars, projectLockVars, updateVars, onboardingVars,
                    codegraphVars, healthVars>>
  \/ /\ scene = "health" /\ HealthNext
     /\ UNCHANGED <<scene, vars, launcherVars, projectLockVars, updateVars, onboardingVars,
                    codegraphVars, mcpVars>>

MCSpec == MCInit /\ [][MCNext]_allVars

\* All that moves in a scene.
Moving ==
  <<scene,
    CASE scene = "installer" -> vars
      [] scene = "launchers" -> launcherVars
      [] scene = "lock" -> projectLockVars
      [] scene = "updates" -> updateVars
      [] scene = "onboarding" -> onboardingVars
      [] scene = "codegraph" -> codegraphVars
      [] scene = "mcp" -> mcpVars
      [] scene = "health" -> healthVars>>

-----------------------------------------------------------------------------
\* The state of every component has its type.
TypesOK ==
  /\ scene = "installer" => TypeOK
  /\ scene = "launchers" => LaunchersTypeOK
  /\ scene = "lock" => ProjectLockTypeOK
  /\ scene = "updates" => UpdatesTypeOK
  /\ scene = "onboarding" => OnboardingTypeOK
  /\ scene = "codegraph" => CodegraphTypeOK
  /\ scene = "mcp" => McpTypeOK
  /\ scene = "health" => HealthTypeOK

(* No integration is trusted beyond what was seen: a graph is returned     *)
(* only of the sources it was built from, a server is launched only as it  *)
(* was authorized for this runtime, the user's own entries survive every   *)
(* set and removal, and a health check lists all tools or none             *)
(* (src/integrations).                                                     *)
IntegrationsHold ==
  []GraphIsCurrent /\ []LaunchedIsGranted /\ UserEntriesSurvive /\ []DiscoveryIsWhole
=============================================================================
