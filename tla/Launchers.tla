------------------------------ MODULE Launchers ------------------------------
(***************************************************************************)
(* The installation root of src/installation/manager.ts: version           *)
(* directories that never change, the pointer `current', and the launchers *)
(* in bin/, which a person may have edited.  What the installation wrote   *)
(* is known by a hash in an ownership record; a write is announced by an   *)
(* intent first, so that a crash between the launcher and its hash can be  *)
(* told from an edit.                                                      *)
(*                                                                         *)
(* The operations exclude each other by the challenged lock, which a crash *)
(* frees.  A template is what one release of the manager writes into a     *)
(* launcher.                                                               *)
(***************************************************************************)
EXTENDS Naturals, Sequences

CONSTANTS Commands,                             \* launchers that an uninstallation removes
          Hooks,                                \* hook dispatchers, which stay
          Templates, RuntimeVersions,
          Edited, Missing, Nowhere,
          MaxOps, MaxLauncherEdits, MaxCrashes  \* bounds

Launcher == Commands \union Hooks

ASSUME LaunchersAssumption ==
  /\ Commands \intersect Hooks = {}
  /\ Edited \notin Templates /\ Missing \notin Templates /\ Edited # Missing
  /\ Nowhere \notin Templates \union RuntimeVersions \union {Edited, Missing}
  /\ {MaxOps, MaxLauncherEdits, MaxCrashes} \subseteq Nat

VARIABLES launcher,  \* what each launcher holds
          owned,     \* launchers.json: the hash the installation wrote
          intent,    \* the announced write
          current,   \* the activation pointer
          versions,  \* staged version directories
          op,        \* the operation under the lock
          counts     \* bounds

launcherVars == <<launcher, owned, intent, current, versions, op, counts>>

NoOp == [kind |-> "none"]
NoIntent == [at |-> Nowhere]

LaunchersInit ==
  /\ launcher = [l \in Launcher |-> Missing]
  /\ owned = [l \in Launcher |-> Nowhere]
  /\ intent = NoIntent
  /\ current = Nowhere
  /\ versions = {}
  /\ op = NoOp
  /\ counts = [ops |-> 0, edits |-> 0, crashes |-> 0]

Announced(l) == intent # NoIntent /\ intent.at = l /\ intent.next = launcher[l]

-----------------------------------------------------------------------------
(* stageVerifiedBundle: the directory appears whole, by one rename. *)
Install(v, t) ==
  /\ op.kind = "none" /\ counts.ops < MaxOps
  /\ counts' = [counts EXCEPT !.ops = @ + 1]
  /\ versions' = versions \union {v}
  /\ op' = [kind |-> "install", step |-> "recover", version |-> v,
            template |-> t, todo |-> Launcher,
            seen |-> Missing, at |-> Nowhere]
  /\ UNCHANGED <<launcher, owned, intent, current>>

(* rollbackInstallation writes the command launchers only. *)
Rollback(v, t) ==
  /\ op.kind = "none" /\ counts.ops < MaxOps
  /\ v \in versions
  /\ counts' = [counts EXCEPT !.ops = @ + 1]
  /\ op' = [kind |-> "rollback", step |-> "recover", version |-> v,
            template |-> t, todo |-> Commands,
            seen |-> Missing, at |-> Nowhere]
  /\ UNCHANGED <<launcher, owned, intent, current, versions>>

(* uninstallInstallation: the pointer goes first. *)
Uninstall ==
  /\ op.kind = "none" /\ counts.ops < MaxOps
  /\ counts' = [counts EXCEPT !.ops = @ + 1]
  /\ current' = Nowhere
  /\ op' = [kind |-> "uninstall", step |-> "recover", todo |-> Commands,
            seen |-> Missing, at |-> Nowhere]
  /\ UNCHANGED <<launcher, owned, intent, versions>>

Working == op.kind # "none"
Writing == op.kind \in {"install", "rollback"}
PhaseIs(step) == Working /\ op.step = step
Go(step) == op' = [op EXCEPT !.step = step]

(* recoverLauncherIntent, before every launcher: what the announced write
   left in place is the installation's own. *)
AdoptAnnounced ==
  /\ PhaseIs("recover") /\ op.todo # {}
  /\ intent # NoIntent
  /\ Announced(intent.at)
  /\ owned[intent.at] # intent.next
  /\ owned' = [owned EXCEPT ![intent.at] = intent.next]
  /\ UNCHANGED <<launcher, intent, current, versions, op, counts>>

(* Mutant of ClearIntent: an interrupted write is forgotten. *)
ForgetsWrite ==
  /\ PhaseIs("recover") /\ op.todo # {}
  /\ intent # NoIntent
  /\ intent' = NoIntent
  /\ UNCHANGED <<launcher, owned, current, versions, op, counts>>

ClearIntent ==
  /\ PhaseIs("recover") /\ op.todo # {}
  /\ intent # NoIntent
  /\ Announced(intent.at) => owned[intent.at] = intent.next
  /\ intent' = NoIntent
  /\ UNCHANGED <<launcher, owned, current, versions, op, counts>>

OwnedOrMissing(l) == launcher[l] = Missing \/ owned[l] = launcher[l]

(* writeOwnedLauncher looks at what is there ... *)
LookAt(l) ==
  /\ PhaseIs("recover") /\ Writing /\ intent = NoIntent /\ l \in op.todo
  /\ OwnedOrMissing(l)
  /\ op' = [op EXCEPT !.step = "announce", !.at = l, !.seen = launcher[l]]
  /\ UNCHANGED <<launcher, owned, intent, current, versions, counts>>

(* ... and refuses what somebody else put there.  The pointer and the
   launchers written before stay as they are. *)
RefuseEdited(l) ==
  /\ PhaseIs("recover") /\ intent = NoIntent /\ l \in op.todo
  /\ \/ Writing /\ ~OwnedOrMissing(l)
     \/ ~Writing /\ owned[l] # Nowhere /\ ~OwnedOrMissing(l)
  /\ op' = NoOp
  /\ UNCHANGED <<launcher, owned, intent, current, versions, counts>>

Announce ==
  /\ PhaseIs("announce")
  /\ intent' = [at |-> op.at, next |-> op.template]
  /\ Go("place")
  /\ UNCHANGED <<launcher, owned, current, versions, counts>>

Place ==
  /\ PhaseIs("place")
  /\ launcher' = [launcher EXCEPT ![op.at] = op.template]
  /\ Go("own")
  /\ UNCHANGED <<owned, intent, current, versions, counts>>

Own ==
  /\ PhaseIs("own")
  /\ owned' = [owned EXCEPT ![op.at] = op.template]
  /\ Go("clear")
  /\ UNCHANGED <<launcher, intent, current, versions, counts>>

Clear ==
  /\ PhaseIs("clear")
  /\ intent' = NoIntent
  /\ op' = [op EXCEPT !.step = "recover", !.todo = @ \ {op.at}]
  /\ UNCHANGED <<launcher, owned, current, versions, counts>>

(* activateStagedUnlocked ends with the pointer. *)
ActivateVersion ==
  /\ PhaseIs("recover") /\ Writing /\ op.todo = {}
  /\ current' = op.version
  /\ op' = NoOp
  /\ UNCHANGED <<launcher, owned, intent, versions, counts>>

(* removeOwnedLauncher: a look, the file, then its entry. *)
LookAtOwned(l) ==
  /\ PhaseIs("recover") /\ ~Writing /\ intent = NoIntent /\ l \in op.todo
  /\ owned[l] # Nowhere /\ OwnedOrMissing(l)
  /\ op' = [op EXCEPT !.step = "remove", !.at = l, !.seen = launcher[l]]
  /\ UNCHANGED <<launcher, owned, intent, current, versions, counts>>

Remove ==
  /\ PhaseIs("remove")
  /\ launcher' = [launcher EXCEPT ![op.at] = Missing]
  /\ Go("disown")
  /\ UNCHANGED <<owned, intent, current, versions, counts>>

SkipUnowned(l) ==
  /\ PhaseIs("recover") /\ ~Writing /\ intent = NoIntent /\ l \in op.todo
  /\ owned[l] = Nowhere
  /\ op' = [op EXCEPT !.todo = @ \ {l}]
  /\ UNCHANGED <<launcher, owned, intent, current, versions, counts>>

Disown ==
  /\ PhaseIs("disown")
  /\ owned' = [owned EXCEPT ![op.at] = Nowhere]
  /\ op' = [op EXCEPT !.step = "recover", !.todo = @ \ {op.at}]
  /\ UNCHANGED <<launcher, intent, current, versions, counts>>

Uninstalled ==
  /\ PhaseIs("recover") /\ ~Writing /\ op.todo = {}
  /\ op' = NoOp
  /\ UNCHANGED <<launcher, owned, intent, current, versions, counts>>

(* A person edits a launcher; the manager stops anywhere. *)
EditLauncher(l) ==
  /\ counts.edits < MaxLauncherEdits
  /\ counts' = [counts EXCEPT !.edits = @ + 1]
  /\ launcher[l] # Edited
  /\ launcher' = [launcher EXCEPT ![l] = Edited]
  /\ UNCHANGED <<owned, intent, current, versions, op>>

CrashManager ==
  /\ counts.crashes < MaxCrashes
  /\ counts' = [counts EXCEPT !.crashes = @ + 1]
  /\ Working
  /\ op' = NoOp
  /\ UNCHANGED <<launcher, owned, intent, current, versions>>

LaunchersNext ==
  \/ \E v \in RuntimeVersions, t \in Templates : Install(v, t) \/ Rollback(v, t)
  \/ Uninstall
  \/ AdoptAnnounced \/ ClearIntent
  \/ \E l \in Launcher : \/ LookAt(l) \/ RefuseEdited(l)
                         \/ LookAtOwned(l) \/ SkipUnowned(l)
  \/ Announce \/ Place \/ Own \/ Clear \/ ActivateVersion
  \/ Remove \/ Disown \/ Uninstalled
  \/ \E l \in Launcher : EditLauncher(l)
  \/ CrashManager

LaunchersSpec == LaunchersInit /\ [][LaunchersNext]_launcherVars

-----------------------------------------------------------------------------
LaunchersTypeOK ==
  /\ launcher \in [Launcher -> Templates \union {Edited, Missing}]
  /\ owned \in [Launcher -> Templates \union {Edited, Nowhere}]
  /\ current \in versions \union {Nowhere}
  /\ versions \subseteq RuntimeVersions

(* After any crash, whatever the installation wrote is recognised as its own
   by the next operation: no launcher it wrote is refused as unowned. *)
WrittenIsOwned ==
  \A l \in Launcher :
    launcher[l] \in Templates => owned[l] = launcher[l] \/ Announced(l)

(* A pointer that is set has its launchers: they are written before it and
   removed after it. *)
ActiveHasLaunchers ==
  current # Nowhere => \A l \in Commands : launcher[l] # Missing

(* An edit is lost only if it was made after the operation looked. *)
EditedIsKept ==
  [][\A l \in Launcher :
       launcher[l] = Edited /\ launcher'[l] # Edited => op.at = l /\ op.seen # Edited]_launcherVars

(* Killed anywhere, the installation owns what it wrote, keeps its pointer
   usable and leaves what the user edited (writeOwnedLauncher, uninstallInstallation). *)
LaunchersHold == [](WrittenIsOwned /\ ActiveHasLaunchers) /\ EditedIsKept
=============================================================================
