---------------------------- MODULE Updates_proofs ----------------------------
(***************************************************************************)
(* Updates, for any number of console servers, versions and handoffs, of   *)
(* which one server may run several at once: the server of a handoff that  *)
(* relies on the restart lease owns it (LeaseOwned), a handoff about to    *)
(* take it holds the installation lock since it found no other server's    *)
(* (LeaseAssessed), and the process that a handoff spawned runs while the  *)
(* handoff needs it (ReplacementRuns).                                     *)
(***************************************************************************)
EXTENDS Updates, TLAPS

HandoffTypes ==
  /\ job \in [Handoffs -> HandoffJob] /\ serving \subseteq Servers
  /\ \A h \in Handoffs : job[h].at # "idle" => job[h].by \in Servers
ReplacementTypes == replacement \in [Handoffs -> {"none", "ready", "serving", "orphan"}]

\* The server of a handoff that relies on the lease owns it, unless it was lost; a handoff about
\* to take it holds the installation lock since it found no other server's.
LeaseOwned == ~doubled => \A h \in Handoffs : Relies(h) => lease = job[h].by
LeaseAssessed ==
  \A h \in Handoffs :
    job[h].at = "lease" => locked = h /\ (~doubled => lease \in {job[h].by, Nobody})

\* The process a handoff spawned runs while the handoff needs it.
ReplacementRuns ==
  \A h \in Handoffs :
    /\ replacement[h] = "ready" <=> job[h].at \in {"verify", "activate", "record"}
    /\ replacement[h] = "serving" <=> job[h].at \in {"drain", "closed"}

FileTypes ==
  /\ pointer \in Releases /\ installed \subseteq Releases
  /\ staged \in StagedRecord \union {Nobody} /\ staging \in StagedRecord \union {Nobody}
LoadTypes ==
  /\ lease \in Servers \union {Nobody} /\ locked \in Handoffs \union {Nobody}
  /\ mutation \in [Servers -> {"none", "asked", "counted"}] /\ beat \in [Servers -> BOOLEAN]

UpdatesIInv ==
  /\ FileTypes /\ LoadTypes /\ HandoffTypes /\ ReplacementTypes
  /\ LeaseOwned /\ LeaseAssessed /\ ReplacementRuns

-----------------------------------------------------------------------------
USE UpdatesAssumption

LEMMA FilesKeepTypes ==
  ASSUME UpdatesIInv, UpdatesNext
  PROVE  FileTypes'
  <1>0. FileTypes
    BY DEF UpdatesIInv
  <1>1. CASE UNCHANGED UpdateKept
    BY <1>0, <1>1 DEF UpdateKept, FileTypes
  <1>2. ASSUME NEW v \in Releases, BeginStage(v) \/ ActivateByHand(v) PROVE FileTypes'
    <2>1. Previewed(v) => [version |-> v, ready |-> FALSE] \in StagedRecord
      BY DEF Previewed, StagedRecord
    <2>2. QED BY <1>0, <1>2, <2>1 DEF BeginStage, ActivateByHand, FileTypes
  <1>3. CASE FinishStage
    <2>1. staging \in StagedRecord
      BY <1>0, <1>3 DEF FinishStage, FileTypes
    <2>2. PICK ok \in BOOLEAN : /\ installed' = IF ok THEN Promoted(staging.version) ELSE installed
                                /\ staged' = [staging EXCEPT !.ready = ok]
      BY <1>3 DEF FinishStage
    <2>3. [staging EXCEPT !.ready = ok] \in StagedRecord /\ staging.version \in Releases
      BY <2>1 DEF StagedRecord, Releases
    <2>4. QED BY <1>0, <1>3, <2>2, <2>3 DEF FinishStage, FileTypes, Promoted
  <1>4. ASSUME NEW h \in Handoffs, ActivateRelease(h) PROVE FileTypes'
    BY <1>0, <1>4 DEF ActivateRelease, FileTypes
  <1>5. CASE LeaseExpires
    BY <1>1, <1>5 DEF LeaseExpires, UpdateFiles, UpdateKept
  <1>6. ASSUME NEW s \in Servers,
               \/ AskAdmission(s) \/ CountRequest(s) \/ EndRequest(s) \/ FlushHeartbeat(s)
               \/ ServerCrash(s)
               \/ \E h \in Handoffs, v \in Releases, how \in {"activate", "rollback"} :
                    BeginHandoff(h, s, v, how)
        PROVE  FileTypes'
    <2>1. UNCHANGED UpdateKept
      BY <1>6
      DEF AskAdmission, CountRequest, EndRequest, FlushHeartbeat, ServerCrash, BeginHandoff,
          UpdateFiles
    <2>2. QED BY <1>1, <2>1
  <1>8. ASSUME NEW h \in Handoffs,
               \/ Preflight(h) \/ Assess(h) \/ AcquireLease(h) \/ SpawnReplacement(h)
               \/ VerifyReplacement(h) \/ FailHandoff(h) \/ Succeed(h) \/ CloseReplaced(h)
        PROVE  FileTypes'
    <2>1. UNCHANGED UpdateKept
      BY <1>8
      DEF Preflight, Assess, AcquireLease, SpawnReplacement, VerifyReplacement, FailHandoff,
          Succeed, CloseReplaced, UpdateFiles
    <2>2. QED BY <1>1, <2>1
  <1>7. QED BY <1>2, <1>3, <1>4, <1>5, <1>6, <1>8 DEF UpdatesNext, HandoffStep

LEMMA LoadKeepsTypes ==
  ASSUME UpdatesIInv, UpdatesNext
  PROVE  LoadTypes'
  <1>0. LoadTypes /\ HandoffTypes
    BY DEF UpdatesIInv
  <1>1. ASSUME NEW s \in Servers, AskAdmission(s) \/ CountRequest(s) \/ EndRequest(s)
        PROVE  LoadTypes'
    BY <1>0, <1>1 DEF LoadTypes, AskAdmission, CountRequest, EndRequest, LeaseState
  <1>2. ASSUME NEW s \in Servers, FlushHeartbeat(s) \/ ServerCrash(s)
        PROVE  LoadTypes'
    <2>1. CASE FlushHeartbeat(s)
      <3>1. (mutation[s] = "counted") \in BOOLEAN
        OBVIOUS
      <3>2. PICK b \in BOOLEAN : beat' = [beat EXCEPT ![s] = b]
        BY <2>1, <3>1, Zenon DEF FlushHeartbeat
      <3>3. UNCHANGED <<lease, locked, mutation>>
        BY <2>1 DEF FlushHeartbeat, LeaseState
      <3>4. QED BY <1>0, <3>2, <3>3 DEF LoadTypes
    <2>2. CASE ServerCrash(s)
      BY <1>0, <2>2 DEF LoadTypes, ServerCrash
    <2>3. QED BY <1>2, <2>1, <2>2
  <1>3. ASSUME NEW h \in Handoffs, Assess(h) \/ FailHandoff(h) \/ Succeed(h)
        PROVE  LoadTypes'
    BY <1>0, <1>3 DEF LoadTypes, Assess, FailHandoff, Succeed, ClearLease, RequestLoad
  <1>4. ASSUME NEW h \in Handoffs, AcquireLease(h)
        PROVE  LoadTypes'
    <2>1. job[h].by \in Servers
      BY <1>0, <1>4 DEF AcquireLease, HandoffTypes
    <2>2. QED BY <1>0, <1>4, <2>1 DEF LoadTypes, AcquireLease, RequestLoad
  <1>5. ASSUME NEW h \in Handoffs, CloseReplaced(h)
        PROVE  LoadTypes'
    BY <1>0, <1>5 DEF LoadTypes, CloseReplaced, LeaseState
  <1>6. CASE LeaseExpires
    BY <1>0, <1>6 DEF LoadTypes, LeaseExpires, RequestLoad
  <1>7. CASE UNCHANGED <<LeaseState, RequestLoad>>
    BY <1>0, <1>7 DEF LoadTypes, LeaseState, RequestLoad
  <1>8. CASE \/ FinishStage \/ \E v \in Releases : BeginStage(v) \/ ActivateByHand(v)
             \/ \E h \in Handoffs : Preflight(h) \/ SpawnReplacement(h) \/ VerifyReplacement(h)
                                    \/ ActivateRelease(h)
             \/ \E h \in Handoffs, s \in Servers, v \in Releases, how \in {"activate", "rollback"} :
                  BeginHandoff(h, s, v, how)
    <2>1. UNCHANGED <<LeaseState, RequestLoad>>
      BY <1>8 DEF FinishStage, BeginStage, ActivateByHand, Preflight, SpawnReplacement,
         VerifyReplacement, ActivateRelease, BeginHandoff
    <2>2. QED BY <1>7, <2>1
  <1>9. QED BY <1>1, <1>2, <1>3, <1>4, <1>5, <1>6, <1>8 DEF UpdatesNext, HandoffStep

-----------------------------------------------------------------------------
\* Where a handoff has got.
HandoffPart ==
  HandoffTypes /\ ReplacementTypes /\ LeaseOwned /\ LeaseAssessed /\ ReplacementRuns

\* One handoff has got there, for its server; the others are where they were.
Went(h, there) ==
  \A g \in Handoffs : /\ job'[g].at = IF g = h THEN there ELSE job[g].at
                      /\ job'[g].by = job[g].by

LEMMA Moved ==
  ASSUME HandoffTypes, serving' \subseteq Servers, NEW h \in Handoffs, NEW there \in HandoffStages,
         job[h].at # "idle", MoveHandoff(h, there)
  PROVE  HandoffTypes' /\ Went(h, there)
  <1>1. job[h] \in HandoffJob /\ job[h].by \in Servers
    BY DEF HandoffTypes
  <1>2. PICK new \in HandoffJob : /\ new.at = there /\ new.by = job[h].by
                                 /\ job' = [job EXCEPT ![h] = new]
    <2>1. /\ [job[h] EXCEPT !.at = there] \in HandoffJob
          /\ [job[h] EXCEPT !.at = there].at = there /\ [job[h] EXCEPT !.at = there].by = job[h].by
      BY <1>1 DEF HandoffJob
    <2>2. job' = [job EXCEPT ![h] = [job[h] EXCEPT !.at = there]]
      BY DEF MoveHandoff
    <2>3. QED BY <2>1, <2>2
  <1>3. QED BY ONLY HandoffTypes, serving' \subseteq Servers, <1>1, <1>2, h \in Handoffs
            DEF HandoffTypes, Went

\* A step of one handoff, with the process that it leaves.
LEMMA ReplacementKeeps ==
  ASSUME HandoffPart, NEW h \in Handoffs, NEW there \in HandoffStages,
         NEW process \in {"none", "ready", "serving", "orphan"},
         Went(h, there),
         replacement' = [replacement EXCEPT ![h] = process],
         process = "ready" <=> there \in {"verify", "activate", "record"},
         process = "serving" <=> there \in {"drain", "closed"}
  PROVE  ReplacementTypes' /\ ReplacementRuns'
  BY DEF HandoffPart, ReplacementTypes, ReplacementRuns, Went

LEMMA ReplacementStays ==
  ASSUME HandoffPart, NEW h \in Handoffs, NEW there \in HandoffStages,
         Went(h, there),
         UNCHANGED replacement,
         job[h].at \in {"verify", "activate", "record"} <=> there \in {"verify", "activate", "record"},
         job[h].at \in {"drain", "closed"} <=> there \in {"drain", "closed"}
  PROVE  ReplacementTypes' /\ ReplacementRuns'
  BY DEF HandoffPart, ReplacementTypes, ReplacementRuns, Went

\* The lease stays as it was, and nobody comes to rely on it.
LEMMA LeaseKeeps ==
  ASSUME HandoffPart, NEW h \in Handoffs, NEW there \in HandoffStages,
         Went(h, there),
         UNCHANGED <<lease, locked, doubled>>,
         there \in LeasingStages => job[h].at \in LeasingStages, there # "lease"
  PROVE  LeaseOwned' /\ LeaseAssessed'
  BY DEF HandoffPart, LeaseOwned, LeaseAssessed, Relies, Went

LEMMA StagesMove ==
  ASSUME HandoffPart, NEW h \in Handoffs,
         \/ Preflight(h) \/ SpawnReplacement(h) \/ VerifyReplacement(h) \/ ActivateRelease(h)
  PROVE  HandoffPart'
  <1>0. HandoffTypes /\ serving' \subseteq Servers /\ UNCHANGED <<lease, locked, doubled>>
    BY DEF HandoffPart, HandoffTypes, Preflight, SpawnReplacement, VerifyReplacement,
           ActivateRelease,
       LeaseState
  <1>1. CASE Preflight(h)
    <2>1. PICK there \in {"assess", "over"} : MoveHandoff(h, there)
      BY <1>1 DEF Preflight
    <2>2. job[h].at = "preflight" /\ UNCHANGED replacement /\ there \in HandoffStages
          /\ there \notin LeasingStages
      BY <1>1 DEF Preflight, HandoffStages, LeasingStages
    <2>3. HandoffTypes' /\ Went(h, there)
      BY <1>0, <2>1, <2>2, Moved
    <2>4. ReplacementTypes' /\ ReplacementRuns'
      BY <2>2, <2>3, ReplacementStays
    <2>5. LeaseOwned' /\ LeaseAssessed'
      BY <1>0, <2>2, <2>3, LeaseKeeps
    <2>6. QED BY <2>3, <2>4, <2>5 DEF HandoffPart
  <1>2. CASE SpawnReplacement(h)
    <2>1. job[h].at = "spawn" /\ job[h].at \in LeasingStages
      BY <1>2 DEF SpawnReplacement, LeasingStages
    <2>2. CASE MoveHandoff(h, "verify") /\ replacement' = [replacement EXCEPT ![h] = "ready"]
      <3>1. "verify" \in HandoffStages
        BY DEF HandoffStages
      <3>2. HandoffTypes' /\ Went(h, "verify")
        BY <1>0, <2>1, <2>2, <3>1, Moved
      <3>3. ReplacementTypes' /\ ReplacementRuns'
        BY <2>2, <3>1, <3>2, ReplacementKeeps
      <3>4. LeaseOwned' /\ LeaseAssessed'
        BY <1>0, <2>1, <3>1, <3>2, LeaseKeeps
      <3>5. QED BY <3>2, <3>3, <3>4 DEF HandoffPart
    <2>3. CASE MoveHandoff(h, "failing") /\ UNCHANGED replacement
      <3>1. "failing" \in HandoffStages
        BY DEF HandoffStages
      <3>2. HandoffTypes' /\ Went(h, "failing")
        BY <1>0, <2>1, <2>3, <3>1, Moved
      <3>3. ReplacementTypes' /\ ReplacementRuns'
        BY <2>1, <2>3, <3>1, <3>2, ReplacementStays
      <3>4. LeaseOwned' /\ LeaseAssessed'
        BY <1>0, <2>1, <3>1, <3>2, LeaseKeeps
      <3>5. QED BY <3>2, <3>3, <3>4 DEF HandoffPart
    <2>4. QED BY <1>2, <2>2, <2>3 DEF SpawnReplacement
  <1>3. CASE VerifyReplacement(h) \/ ActivateRelease(h)
    <2>1. job[h].at \in {"verify", "activate"} /\ job[h].at \in LeasingStages
      BY <1>3 DEF VerifyReplacement, ActivateRelease, LeasingStages
    <2>2. CASE MoveHandoff(h, "failing") /\ replacement' = Killed(h)
      <3>1. "failing" \in HandoffStages
        BY DEF HandoffStages
      <3>2. HandoffTypes' /\ Went(h, "failing")
        BY <1>0, <2>1, <2>2, <3>1, Moved
      <3>3. ReplacementTypes' /\ ReplacementRuns'
        BY <2>2, <3>1, <3>2, ReplacementKeeps DEF Killed
      <3>4. LeaseOwned' /\ LeaseAssessed'
        BY <1>0, <2>1, <3>1, <3>2, LeaseKeeps
      <3>5. QED BY <3>2, <3>3, <3>4 DEF HandoffPart
    <2>3. CASE (MoveHandoff(h, "activate") \/ MoveHandoff(h, "record")) /\ UNCHANGED replacement
      <3>1. PICK there \in {"activate", "record"} : MoveHandoff(h, there)
        BY <2>3
      <3>2. there \in HandoffStages
        BY DEF HandoffStages
      <3>3. HandoffTypes' /\ Went(h, there)
        BY <1>0, <2>1, <3>1, <3>2, Moved
      <3>4. ReplacementTypes' /\ ReplacementRuns'
        BY <2>1, <2>3, <3>2, <3>3, ReplacementStays
      <3>5. LeaseOwned' /\ LeaseAssessed'
        BY <1>0, <2>1, <3>2, <3>3, LeaseKeeps
      <3>6. QED BY <3>3, <3>4, <3>5 DEF HandoffPart
    <2>4. QED BY <1>3, <2>2, <2>3 DEF VerifyReplacement, ActivateRelease
  <1>4. QED BY <1>1, <1>2, <1>3

LEMMA BeginHandoffKeeps ==
  ASSUME HandoffPart, NEW h \in Handoffs, NEW s \in Servers, NEW v \in Releases,
         NEW how \in {"activate", "rollback"}, BeginHandoff(h, s, v, how)
  PROVE  HandoffPart'
  <1>0. HandoffTypes /\ serving' \subseteq Servers /\ UNCHANGED <<lease, locked, doubled, replacement>>
        /\ job[h].at = "idle"
    BY DEF HandoffPart, HandoffTypes, BeginHandoff, LeaseState
  <1>1. (mutation[s] = "counted") \in BOOLEAN
    OBVIOUS
  <1>2. PICK seen \in BOOLEAN :
          job' = [job EXCEPT ![h] = [at |-> "preflight", by |-> s, goal |-> v, how |-> how,
                                     seen |-> seen]]
    BY <1>1, Zenon DEF BeginHandoff
  <1>3. [at |-> "preflight", by |-> s, goal |-> v, how |-> how, seen |-> seen] \in HandoffJob
    BY DEF HandoffJob, HandoffStages
  <1>4. /\ HandoffTypes' /\ job'[h].at = "preflight"
        /\ \A g \in Handoffs : g # h => job'[g] = job[g]
    BY <1>0, <1>2, <1>3 DEF HandoffTypes
  <1>5. ReplacementTypes' /\ ReplacementRuns'
    BY <1>0, <1>4 DEF HandoffPart, ReplacementTypes, ReplacementRuns
  <1>6. LeaseOwned' /\ LeaseAssessed'
    BY <1>0, <1>4 DEF HandoffPart, LeaseOwned, LeaseAssessed, Relies, LeasingStages
  <1>7. QED BY <1>4, <1>5, <1>6 DEF HandoffPart

LEMMA AssessKeeps ==
  ASSUME HandoffPart, NEW h \in Handoffs, Assess(h) \/ AcquireLease(h)
  PROVE  HandoffPart'
  <1>0. HandoffTypes /\ serving' \subseteq Servers /\ UNCHANGED <<replacement, doubled>>
    BY DEF HandoffPart, HandoffTypes, Assess, AcquireLease
  <1>1. CASE Assess(h)
    <2>1. job[h].at = "assess" /\ locked = Nobody /\ UNCHANGED lease
      BY <1>1 DEF Assess
    <2>2. CASE Quiescent(h) /\ MoveHandoff(h, "lease") /\ locked' = h
      <3>1. "lease" \in HandoffStages /\ "lease" \notin LeasingStages
        BY DEF HandoffStages, LeasingStages
      <3>2. HandoffTypes' /\ Went(h, "lease")
        BY <1>0, <2>1, <2>2, <3>1, Moved
      <3>3. ReplacementTypes' /\ ReplacementRuns'
        BY <1>0, <2>1, <3>1, <3>2, ReplacementStays
      <3>4. lease \in {job[h].by, Nobody}
        BY <2>2 DEF Quiescent, NoOtherLease
      <3>5. \A g \in Handoffs : job[g].at # "lease"
        BY <2>1 DEF HandoffPart, LeaseAssessed
      <3>6. LeaseOwned' /\ LeaseAssessed'
        BY <1>0, <2>1, <2>2, <3>1, <3>2, <3>4, <3>5 DEF HandoffPart, LeaseOwned, LeaseAssessed,
                                                        Relies, Went
      <3>7. QED BY <3>2, <3>3, <3>6 DEF HandoffPart
    <2>3. CASE MoveHandoff(h, "over") /\ UNCHANGED locked
      <3>1. "over" \in HandoffStages /\ "over" \notin LeasingStages
        BY DEF HandoffStages, LeasingStages
      <3>2. HandoffTypes' /\ Went(h, "over")
        BY <1>0, <2>1, <2>3, <3>1, Moved
      <3>3. ReplacementTypes' /\ ReplacementRuns'
        BY <1>0, <2>1, <3>1, <3>2, ReplacementStays
      <3>4. LeaseOwned' /\ LeaseAssessed'
        BY <1>0, <2>1, <2>3, <3>1, <3>2, LeaseKeeps
      <3>5. QED BY <3>2, <3>3, <3>4 DEF HandoffPart
    <2>4. QED BY <1>1, <2>2, <2>3 DEF Assess
  <1>2. CASE AcquireLease(h)
    <2>1. /\ job[h].at = "lease" /\ lease' = job[h].by /\ locked' = Nobody /\ MoveHandoff(h, "spawn")
      BY <1>2 DEF AcquireLease
    <2>2. "spawn" \in HandoffStages /\ "spawn" \in LeasingStages
      BY DEF HandoffStages, LeasingStages
    <2>3. HandoffTypes' /\ Went(h, "spawn")
      BY <1>0, <2>1, <2>2, Moved
    <2>4. ReplacementTypes' /\ ReplacementRuns'
      BY <1>0, <2>1, <2>2, <2>3, ReplacementStays
    <2>5. locked = h /\ (~doubled => lease \in {job[h].by, Nobody})
      BY <2>1 DEF HandoffPart, LeaseAssessed
    <2>6. \A g \in Handoffs : /\ g # h => job[g].at # "lease"
                              /\ ~doubled /\ Relies(g) => job[g].by = job[h].by
      <3>1. \A g \in Handoffs : Relies(g) => job[g].by # Nobody
        BY <1>0 DEF HandoffTypes, Relies, LeasingStages
      <3>2. QED BY <2>5, <3>1 DEF HandoffPart, LeaseAssessed, LeaseOwned
    <2>7. LeaseOwned' /\ LeaseAssessed'
      BY <1>0, <2>1, <2>2, <2>3, <2>6 DEF LeaseOwned, LeaseAssessed, Relies, Went
    <2>8. QED BY <2>3, <2>4, <2>7 DEF HandoffPart
  <1>3. QED BY <1>1, <1>2

LEMMA EndHandoffKeeps ==
  ASSUME HandoffPart, NEW h \in Handoffs, FailHandoff(h) \/ Succeed(h)
  PROVE  HandoffPart'
  <1> DEFINE there == IF job[h].at = "failing" THEN "over" ELSE "drain"
  <1>0. HandoffTypes /\ serving' \subseteq Servers /\ UNCHANGED locked
        /\ lease' \in {Nobody, lease} /\ doubled' = (doubled \/ \E g \in Handoffs \ {h} : Relies(g))
        /\ job[h].at \in {"failing", "record"}
    BY DEF HandoffPart, HandoffTypes, FailHandoff, Succeed, ClearLease
  <1>1. MoveHandoff(h, there) /\ there \in HandoffStages /\ there \notin LeasingStages /\ there # "lease"
    BY DEF FailHandoff, Succeed, HandoffStages, LeasingStages
  <1>2. HandoffTypes' /\ Went(h, there)
    BY <1>0, <1>1, Moved
  <1>3. ReplacementTypes' /\ ReplacementRuns'
    <2>1. CASE FailHandoff(h)
      <3>1. job[h].at = "failing" /\ UNCHANGED replacement
        BY <2>1 DEF FailHandoff
      <3>2. QED BY <1>1, <1>2, <3>1, ReplacementStays
    <2>2. CASE Succeed(h)
      <3>1. job[h].at = "record"
            /\ replacement' = [replacement EXCEPT ![h] = IF replacement[h] = "ready" THEN "serving"
                                                         ELSE replacement[h]]
        BY <2>2 DEF Succeed
      <3>2. replacement[h] = "ready"
        BY <3>1 DEF HandoffPart, ReplacementRuns
      <3>3. replacement' = [replacement EXCEPT ![h] = "serving"]
        BY <3>1, <3>2
      <3>4. QED BY <1>1, <1>2, <3>1, <3>3, ReplacementKeeps, ZenonT(40)
    <2>3. QED BY <2>1, <2>2
  <1> HIDE DEF there
  <1>4. LeaseOwned'
    <2>1. ~doubled' => \A g \in Handoffs : ~Relies(g)'
      BY <1>0, <1>1, <1>2 DEF Relies, Went
    <2>2. QED BY <2>1 DEF LeaseOwned
  <1>5. LeaseAssessed'
    BY <1>0, <1>1, <1>2 DEF HandoffPart, LeaseAssessed, Went
  <1>6. QED BY <1>2, <1>3, <1>4, <1>5 DEF HandoffPart

LEMMA CloseReplacedKeeps ==
  ASSUME HandoffPart, NEW h \in Handoffs, CloseReplaced(h)
  PROVE  HandoffPart'
  <1>0. /\ HandoffTypes /\ serving' \subseteq Servers
        /\ UNCHANGED <<lease, locked, doubled, replacement>>
        /\ job[h].at = "drain" /\ MoveHandoff(h, "closed")
    BY DEF HandoffPart, HandoffTypes, CloseReplaced, LeaseState
  <1>1. "closed" \in HandoffStages /\ "closed" \notin LeasingStages
    BY DEF HandoffStages, LeasingStages
  <1>2. HandoffTypes' /\ Went(h, "closed")
    BY <1>0, <1>1, Moved
  <1>3. ReplacementTypes' /\ ReplacementRuns'
    BY <1>0, <1>1, <1>2, ReplacementStays
  <1>4. LeaseOwned' /\ LeaseAssessed'
    BY <1>0, <1>1, <1>2, LeaseKeeps
  <1>5. QED BY <1>2, <1>3, <1>4 DEF HandoffPart

LEMMA CrashServerKeeps ==
  ASSUME HandoffPart, NEW s \in Servers, ServerCrash(s)
  PROVE  HandoffPart'
  <1>0. /\ HandoffTypes /\ serving' \subseteq Servers /\ UNCHANGED <<lease, doubled>>
        /\ locked' = IF locked # Nobody /\ job[locked].by = s THEN Nobody ELSE locked
    BY DEF HandoffPart, HandoffTypes, ServerCrash
  <1>1. \A h \in Handoffs :
          /\ CutShort(h) \in {"over", "closed"}
          /\ CutShort(h) = "closed" <=> job[h].at \in {"drain", "closed"}
    BY DEF CutShort
  <1>2. /\ HandoffTypes'
        /\ \A h \in Handoffs : /\ job'[h].by = job[h].by
                               /\ job'[h].at = IF job[h].by = s THEN CutShort(h) ELSE job[h].at
    <2>1. \A h \in Handoffs : [job[h] EXCEPT !.at = CutShort(h)] \in HandoffJob
      BY <1>0, <1>1 DEF HandoffTypes, HandoffJob, HandoffStages
    <2>2. job' = [h \in Handoffs |-> IF job[h].by # s THEN job[h]
                                     ELSE [job[h] EXCEPT !.at = CutShort(h)]]
      BY DEF ServerCrash
    <2>3. \A h \in Handoffs : job[h] \in HandoffJob
      BY <1>0 DEF HandoffTypes
    <2>4. \A h \in Handoffs : /\ job'[h] \in HandoffJob /\ job'[h].by = job[h].by
                              /\ job'[h].at = IF job[h].by = s THEN CutShort(h) ELSE job[h].at
      BY <2>1, <2>2, <2>3 DEF HandoffJob
    <2>5. job' \in [Handoffs -> HandoffJob]
      BY <2>2, <2>4
    <2>6. \A h \in Handoffs : job'[h].at # "idle" => job'[h].by \in Servers
      BY <1>0, <2>4 DEF HandoffTypes
    <2>7. QED BY <1>0, <2>4, <2>5, <2>6 DEF HandoffTypes
  <1>3. ReplacementTypes' /\ ReplacementRuns'
    <2>1. replacement' = [h \in Handoffs |-> IF job[h].by = s /\ replacement[h] = "ready"
                                             THEN "orphan" ELSE replacement[h]]
      BY DEF ServerCrash
    <2>2. ReplacementTypes'
      BY <2>1 DEF HandoffPart, ReplacementTypes
    <2>3. ReplacementRuns'
      BY <1>1, <1>2, <2>1 DEF HandoffPart, ReplacementRuns, ReplacementTypes
    <2>4. QED BY <2>2, <2>3
  <1>4. \A h \in Handoffs : job'[h].at \in LeasingStages \union {"lease"}
                           => job'[h].at = job[h].at /\ job[h].by # s
    BY <1>1, <1>2 DEF LeasingStages
  <1>5. LeaseOwned'
    BY <1>0, <1>2, <1>4 DEF HandoffPart, LeaseOwned, Relies
  <1>6. LeaseAssessed'
    BY <1>0, <1>2, <1>4 DEF HandoffPart, LeaseAssessed
  <1>7. QED BY <1>2, <1>3, <1>5, <1>6 DEF HandoffPart

\* Steps that move no handoff.
LEMMA OthersKeep ==
  ASSUME HandoffPart, UNCHANGED <<job, replacement>>, serving' \subseteq Servers,
         \/ UNCHANGED <<lease, locked, doubled>>
         \/ LeaseExpires
  PROVE  HandoffPart'
  <1>1. HandoffTypes' /\ ReplacementTypes' /\ ReplacementRuns'
    BY DEF HandoffPart, HandoffTypes, ReplacementTypes, ReplacementRuns
  <1>2. CASE UNCHANGED <<lease, locked, doubled>>
    BY <1>1, <1>2 DEF HandoffPart, LeaseOwned, LeaseAssessed, Relies
  <1>3. CASE LeaseExpires
    <2>1. /\ lease' = Nobody /\ UNCHANGED locked
          /\ doubled' = (doubled \/ \E h \in Handoffs : Relies(h))
      BY <1>3 DEF LeaseExpires
    <2>2. LeaseOwned' /\ LeaseAssessed'
      BY <2>1 DEF HandoffPart, LeaseOwned, LeaseAssessed, Relies
    <2>3. QED BY <1>1, <2>2 DEF HandoffPart
  <1>4. QED BY <1>2, <1>3

LEMMA HandoffKeeps ==
  ASSUME UpdatesIInv, UpdatesNext
  PROVE  HandoffPart'
  <1>0. HandoffPart /\ serving \subseteq Servers
    BY DEF UpdatesIInv, HandoffPart, HandoffTypes
  <1>1. CASE FinishStage \/ \E v \in Releases : BeginStage(v) \/ ActivateByHand(v)
    <2>1. UNCHANGED <<job, replacement, serving, lease, locked, doubled>>
      BY <1>1 DEF FinishStage, BeginStage, ActivateByHand, LeaseState
    <2>2. QED BY <1>0, <2>1, OthersKeep
  <1>2. CASE \E s \in Servers : AskAdmission(s) \/ CountRequest(s) \/ EndRequest(s)
                                \/ FlushHeartbeat(s)
    <2>1. UNCHANGED <<job, replacement, serving, lease, locked, doubled>>
      BY <1>2 DEF AskAdmission, CountRequest, EndRequest, FlushHeartbeat, LeaseState
    <2>2. QED BY <1>0, <2>1, OthersKeep
  <1>3. CASE LeaseExpires
    <2>1. UNCHANGED <<job, replacement, serving>>
      BY <1>3 DEF LeaseExpires
    <2>2. QED BY <1>0, <1>3, <2>1, OthersKeep
  <1>4. CASE \E s \in Servers : ServerCrash(s)
    BY <1>0, <1>4, CrashServerKeeps
  <1>5. CASE \E h \in Handoffs :
               \/ HandoffStep(h)
               \/ \E s \in Servers, v \in Releases, how \in {"activate", "rollback"} :
                    BeginHandoff(h, s, v, how)
    BY <1>0, <1>5, StagesMove, AssessKeeps, EndHandoffKeeps, CloseReplacedKeeps, BeginHandoffKeeps
    DEF HandoffStep
  <1>6. QED BY <1>1, <1>2, <1>3, <1>4, <1>5 DEF UpdatesNext

LEMMA UpdatesInitial == UpdatesInit => UpdatesIInv
  <1> SUFFICES ASSUME UpdatesInit PROVE UpdatesIInv
    OBVIOUS
  <1>1. FileTypes
    <2>1. pointer = InstalledVersion /\ staging = Nobody /\ InstalledVersion \in Releases
      BY DEF UpdatesInit, Releases
    <2>2. CASE staged = Nobody /\ installed = {InstalledVersion}
      BY <2>1, <2>2 DEF FileTypes
    <2>3. ASSUME NEW v \in Candidates, installed = {InstalledVersion, v},
                 staged = [version |-> v, ready |-> TRUE]
          PROVE  FileTypes
      <3>1. [version |-> v, ready |-> TRUE] \in StagedRecord /\ v \in Releases
        BY DEF StagedRecord, Releases
      <3>2. QED BY <2>1, <2>3, <3>1 DEF FileTypes
    <2>4. QED BY <2>2, <2>3 DEF UpdatesInit
  <1>2. LoadTypes /\ ReplacementTypes
    BY DEF UpdatesInit, LoadTypes, ReplacementTypes
  <1>3. IdleJob \in HandoffJob /\ IdleJob.at = "idle"
    BY DEF IdleJob, HandoffJob, HandoffStages, Releases
  <1>4. HandoffTypes
    BY <1>3 DEF UpdatesInit, HandoffTypes
  <1>5. LeaseOwned /\ LeaseAssessed /\ ReplacementRuns
    BY <1>3 DEF UpdatesInit, LeaseOwned, LeaseAssessed, ReplacementRuns, Relies, LeasingStages
  <1>6. QED BY <1>1, <1>2, <1>4, <1>5 DEF UpdatesIInv

LEMMA UpdatesStep == UpdatesIInv /\ [UpdatesNext]_updateVars => UpdatesIInv'
  <1> SUFFICES ASSUME UpdatesIInv, [UpdatesNext]_updateVars PROVE UpdatesIInv'
    OBVIOUS
  <1>1. CASE UNCHANGED updateVars
    <2>1. FileTypes' /\ LoadTypes' /\ HandoffTypes' /\ ReplacementTypes'
      BY <1>1 DEF updateVars, UpdatesIInv, FileTypes, LoadTypes, HandoffTypes, ReplacementTypes
    <2>2. LeaseOwned' /\ LeaseAssessed' /\ ReplacementRuns'
      BY <1>1 DEF updateVars, UpdatesIInv, LeaseOwned, LeaseAssessed, ReplacementRuns, Relies
    <2>3. QED BY <2>1, <2>2 DEF UpdatesIInv
  <1>2. CASE UpdatesNext
    BY <1>2, FilesKeepTypes, LoadKeepsTypes, HandoffKeeps DEF UpdatesIInv, HandoffPart
  <1>3. QED BY <1>1, <1>2

\* The inductive invariant, for any number of servers, versions and handoffs
\* (installation/updates).
THEOREM UpdatesInvariant == UpdatesSpec => []UpdatesIInv
  BY UpdatesInitial, UpdatesStep, PTL DEF UpdatesSpec

LEMMA UpdateTypesKept == UpdatesIInv => UpdatesTypeOK
  BY DEF UpdatesIInv, UpdatesTypeOK, FileTypes, LoadTypes, HandoffTypes, ReplacementTypes

\* The types of an installation that is updated.
THEOREM UpdateTypes == UpdatesSpec => []UpdatesTypeOK
  BY UpdateTypesKept, UpdatesInvariant, PTL

LEMMA OneRestartHolds == UpdatesIInv => OneRestart
  BY DEF UpdatesIInv, LeaseOwned, OneRestart

\* For any number of overlapping handoffs: one server at a time restarts the installation, until
\* the lease expires or is cleared while another handoff relies on it, and a handoff that fails
\* leaves no process behind (acquireRestartLease, performActivationHandoff).
THEOREM UpdatesHoldAlways == UpdatesSpec => []UpdatesHold
  <1>1. UpdatesIInv => RestartLeavesOne
    BY DEF UpdatesIInv, ReplacementRuns, RestartLeavesOne
  <1>2. UpdatesIInv => UpdatesHold
    BY <1>1, OneRestartHolds DEF UpdatesHold
  <1>3. QED BY <1>2, UpdatesInvariant, PTL

=============================================================================
