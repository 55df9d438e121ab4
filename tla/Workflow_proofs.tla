--------------------------- MODULE Workflow_proofs ---------------------------
(***************************************************************************)
(* For any number of processes, calls and upsets, and any route whose      *)
(* approval comes before its implementation: one effect at a time, no      *)
(* implementation without its approval, cancelled workflows left alone,    *)
(* and verified workflows of verified tasks only.                          *)
(*                                                                         *)
(* The inductive invariant says what a driver that has read the stored     *)
(* record may rely on until somebody writes it, and what the record can    *)
(* look like while an effect is under way.                                 *)
(***************************************************************************)
EXTENDS Workflow, TLAPS

Doing    == {"effect", "close", "commit"}
Ready    == {"prepare", "own", "journal"}
Knowing  == {"mark", "excuse"} \union Ready
Excuses  == {"blocked", "interrupted"}
Verdicts == Excuses \union {"awaiting-input", "awaiting-approval"}

\* A driver knows what it does or marks, and closes only a verified task.
Planning ==
  \A p \in Procs :
    /\ pc[p] \in Doing \union Ready => todo[p] \in Todo /\ todo[p].kind \in Effects
    /\ pc[p] = "mark" => todo[p] \in Todo /\ todo[p].kind \in Verdicts
    /\ pc[p] = "excuse" => todo[p] \in Todo /\ todo[p].kind \in Excuses
    /\ pc[p] = "commit" /\ todo[p].kind = "complete" => task.state = "verified"

\* The approval of the record covers the step.
Covered(r, step) ==
  step.phase = "implementation" /\ Approves(r)
    => /\ r.approval # None /\ r.requirements /\ r.plan
       /\ r.approval.intent = step.intent

\* What a driver has concluded holds as long as the record is the one it read.
Current ==
  \A p \in fresh :
    /\ pc[p] \in Knowing => record.status # "cancelled"
    /\ pc[p] \in Ready => record.pending = None /\ Covered(record, todo[p])
    /\ pc[p] \in {"mark", "excuse"} /\ record.pending # None => todo[p].kind = "interrupted"

\* Nobody takes the workflow on while an effect is under way.
Underway ==
  \A p \in Procs : pc[p] \in Doing => record.status \in {"running", "interrupted", "cancelled"}

\* What ends or waits leaves nothing behind.
Ending ==
  /\ \A p \in Procs : pc[p] \in {"settling", "leave"} => p \notin owns \union fresh \union taskFresh
  /\ \A p \in Procs : approving[p] # None => p \in up
  /\ task.intent <= upsets

IInv == /\ TypeOK /\ Planning /\ Current /\ Underway /\ Ending
        /\ OnlyOwnerRuns /\ ApprovedWork /\ VerifiedTogether

-----------------------------------------------------------------------------
USE WorkflowAssumption

\* The first phase of a route is a phase, and the record of a new workflow a record.
LEMMA InitIInv == Init => IInv
<1> SUFFICES ASSUME Init PROVE IInv
  OBVIOUS
<1> USE DEF Init
<1>1. TypeOK
  <2>1. record \in Record
    <3>1. Route[1] \in PhaseNames
      OBVIOUS
    <3>2. record.plan \in BOOLEAN
      OBVIOUS
    <3> QED BY <3>1, <3>2 DEF Record, Statuses, Outcomes
  <2>2. task \in Task
    BY DEF Task, Intents
  <2> QED BY <2>1, <2>2 DEF TypeOK, Phases, Outcomes, Drivers
<1>2. Planning /\ Underway
  BY DEF Planning, Underway, Doing, Ready
<1>3. Current /\ Ending
  BY DEF Current, Ending
<1>4. OnlyOwnerRuns /\ ApprovedWork /\ VerifiedTogether
  BY DEF OnlyOwnerRuns, ApprovedWork, VerifiedTogether
<1> QED BY <1>1, <1>2, <1>3, <1>4 DEF IInv

\* The policy returns a step of the route or a verdict, and no implementation
\* without the approval that the route demands.
LEMMA NextActionFacts ==
  ASSUME NEW r \in Record, NEW intent \in Intents
  PROVE  LET step == NextAction(r, intent) IN
         /\ step.kind \in Effects \union Verdicts
         /\ step.phase \in PhaseNames /\ step.repair \in BOOLEAN
         /\ step.kind \in Effects /\ step.phase = "implementation" /\ Approves(r)
              => ApprovalValid(r, intent)
PROOF
<1> DEFINE step == NextAction(r, intent)
           blocked == Approves(r) /\ ~ApprovalValid(r, intent)
<1>1. r.phase \in PhaseNames /\ r.outcome \in Outcomes
  BY DEF Record
<1>2. \A phase \in PhaseNames :
        /\ Start(phase).kind \in Effects
        /\ Start(phase).phase = phase /\ Start(phase).repair = FALSE
  BY DEF Start, Do, Effects
<1>3. \A phase \in Followers(r) : phase \in PhaseNames
  <2>1. CASE r.high
    BY <2>1 DEF Followers, Path, HighImpact, PhaseNames
  <2>2. CASE ~r.high
    BY <2>2 DEF Followers, Path
  <2> QED BY <2>1, <2>2
<1>4. ASSUME Approves(r), r.phase = "requirements" PROVE "implementation" \notin Followers(r)
  <2>1. CASE r.high
    BY <1>4, <2>1 DEF Followers, Path, HighImpact
  <2>2. CASE ~r.high
    BY <1>4, <2>2 DEF Followers, Path, Approves
  <2> QED BY <2>1, <2>2
<1>5. CASE r.outcome \in {"error", "needs-input"}
  BY <1>1, <1>5 DEF NextAction, Do, Verdicts, Excuses, Effects
<1>6. CASE r.outcome = "none"
  BY <1>1, <1>2, <1>6 DEF NextAction, Do, Verdicts, Excuses, Effects, PhaseNames
<1>7. CASE r.outcome = "failed"
  BY <1>1, <1>7 DEF NextAction, Do, Repairable, Verdicts, Excuses, Effects, PhaseNames
<1>8. CASE r.outcome = "passed"
  <2>1. CASE Followers(r) = {}
    BY <1>1, <1>8, <2>1 DEF NextAction, Do, Verdicts, Excuses, Effects, PhaseNames
  <2>2. CASE Followers(r) # {}
    <3> DEFINE phase == CHOOSE phase \in Followers(r) : TRUE
    <3>1. phase \in Followers(r)
      BY <2>2
    <3>2. CASE blocked /\ r.phase # "requirements"
      BY <1>8, <3>2 DEF NextAction, Do, Verdicts, Excuses, Effects, PhaseNames
    <3>3. CASE ~(blocked /\ r.phase # "requirements")
      <4>1. step = Start(phase)
        BY <1>8, <2>2, <3>3, Zenon DEF NextAction
      <4> HIDE DEF phase
      <4>2. QED BY <1>2, <1>3, <1>4, <3>1, <3>3, <4>1, ZenonT(40)
    <3> QED BY <3>2, <3>3
  <2> QED BY <2>1, <2>2
<1> QED BY <1>1, <1>5, <1>6, <1>7, <1>8 DEF Outcomes

-----------------------------------------------------------------------------
(* Steps of a driver that write nothing *)

\* A driver that reads knows the policy's step for the stored record.
LEMMA ReadStep == ASSUME IInv, NEW p \in Procs, Read(p), UNCHANGED people PROVE IInv'
<1> DEFINE step == IF record.pending # None THEN Do("interrupted", record.phase, FALSE)
                   ELSE NextAction(record, task.intent)
<1> USE DEF people
<1>1. /\ record \in Record /\ task \in Task /\ source \in Sources
      /\ task.intent \in Intents
  BY DEF IInv, TypeOK, Task
<1>2. /\ step.kind \in Effects \union Verdicts
      /\ step.phase \in PhaseNames /\ step.repair \in BOOLEAN
      /\ record.pending # None => step.kind = "interrupted"
      /\ step.kind \in Effects => record.pending = None
      /\ step.kind \in Effects /\ step.phase = "implementation" /\ Approves(record)
           => ApprovalValid(record, task.intent)
  BY <1>1, NextActionFacts DEF Do, Effects, Verdicts, Excuses, Record
<1> HIDE DEF step
<1>3. /\ Basis(step) \in Sources \union {None}
      /\ Planned(step) \in Todo
      /\ Planned(step).kind = step.kind /\ Planned(step).phase = step.phase
      /\ Planned(step).intent = task.intent
  <2>1. Basis(step) \in Sources \union {None}
    BY <1>1 DEF Basis, Record, Approval
  <2> QED BY <1>1, <1>2, <2>1 DEF Planned, Todo, Verdicts, Excuses, Statuses
<1>4. /\ pc[p] = "read" /\ UNCHANGED <<record, approving, task, source, result, owns, abort>>
      /\ \/ /\ Goto(p, "settle") /\ UNCHANGED <<todo, fresh, taskFresh>>
         \/ /\ record.status \notin Stops
            /\ fresh' = fresh \union {p} /\ taskFresh' = taskFresh \union {p}
            /\ todo' = [todo EXCEPT ![p] = Planned(step)]
            /\ \/ Goto(p, "mark") /\ step.kind \in Verdicts
               \/ Goto(p, "settle") \/ Goto(p, "failed")
               \/ Goto(p, "prepare") /\ step.kind \in Effects
  BY <1>2 DEF Read, step, Verdicts, Excuses, Statuses, Effects
<1> USE <1>1, <1>2, <1>3, <1>4 DEF Goto
<1>5. TypeOK'
  BY DEF IInv, TypeOK, Phases, Drivers
<1>6. Planning'
  BY DEF IInv, TypeOK, Planning, Doing, Ready
<1>7. Current'
  BY DEF IInv, TypeOK, Current, Covered, Knowing, Ready, ApprovalValid, Stops
<1>8. Underway' /\ Ending'
  BY DEF IInv, TypeOK, Underway, Ending, Doing
<1>9. OnlyOwnerRuns' /\ ApprovedWork' /\ VerifiedTogether'
  BY DEF IInv, TypeOK, OnlyOwnerRuns, ApprovedWork, VerifiedTogether, Approves, Owned
<1> QED BY <1>5, <1>6, <1>7, <1>8, <1>9 DEF IInv

\* Preparing an invocation or a review only moves the driver on.
LEMMA PrepareStep ==
  ASSUME IInv, NEW p \in Procs, PrepareInvoke(p) \/ PrepareReview(p), UNCHANGED people
  PROVE  IInv'
<1>1. /\ pc[p] = "prepare"
      /\ UNCHANGED <<record, fresh, approving, task, source, todo, result, taskFresh, owns, abort, people>>
      /\ \E next \in {"own", "journal", "failed"} : pc' = [pc EXCEPT ![p] = next]
  BY DEF PrepareInvoke, PrepareReview, Goto, Keep
<1> USE <1>1 DEF people
<1>2. TypeOK'
  BY DEF IInv, TypeOK, Phases, Drivers
<1>3. Planning'
  BY DEF IInv, TypeOK, Planning, Doing, Ready
<1>4. Current'
  BY DEF IInv, TypeOK, Current, Covered, Approves, Knowing, Ready
<1>5. Underway' /\ Ending'
  BY DEF IInv, TypeOK, Underway, Ending, Doing
<1>6. OnlyOwnerRuns' /\ ApprovedWork' /\ VerifiedTogether'
  BY DEF IInv, TypeOK, OnlyOwnerRuns, ApprovedWork, VerifiedTogether, Approves, Owned
<1> QED BY <1>2, <1>3, <1>4, <1>5, <1>6 DEF IInv

\* A driver that throws forgets what it knew.
LEMMA ThrowStep == ASSUME IInv, NEW p \in Procs, Throw(p), UNCHANGED people PROVE IInv'
<1>1. /\ pc[p] \notin {"off", "settling", "leave"}
      /\ pc' = [pc EXCEPT ![p] = "failed"]
      /\ todo' = [todo EXCEPT ![p] = None] /\ result' = [result EXCEPT ![p] = "none"]
      /\ fresh' = fresh \ {p} /\ taskFresh' = taskFresh \ {p}
      /\ UNCHANGED <<record, approving, task, source, owns, abort, people>>
  BY DEF Throw, Goto, Forget
<1> USE <1>1 DEF people
<1>2. TypeOK'
  BY DEF IInv, TypeOK, Phases, Drivers, Outcomes
<1>3. Planning'
  BY DEF IInv, TypeOK, Planning, Doing, Ready
<1>4. Current'
  BY DEF IInv, TypeOK, Current, Covered, Approves, Knowing, Ready
<1>5. Underway' /\ Ending'
  BY DEF IInv, TypeOK, Underway, Ending, Doing
<1>6. OnlyOwnerRuns' /\ ApprovedWork' /\ VerifiedTogether'
  BY DEF IInv, TypeOK, OnlyOwnerRuns, ApprovedWork, VerifiedTogether, Approves, Owned
<1> QED BY <1>2, <1>3, <1>4, <1>5, <1>6 DEF IInv

\* The error handling reads the record once more, unless it was cancelled.
LEMMA CaughtStep == ASSUME IInv, NEW p \in Procs, Caught(p), UNCHANGED people PROVE IInv'
<1> DEFINE step == Do(IF record.pending # None THEN "interrupted" ELSE "blocked",
                      record.phase, FALSE)
<1> USE DEF people
<1>1. /\ Planned(step) \in Todo
      /\ Planned(step).kind = IF record.pending # None THEN "interrupted" ELSE "blocked"
  BY DEF IInv, TypeOK, Planned, Basis, Do, Todo, Statuses, Record, Task
<1>2. /\ pc[p] = "failed"
      /\ UNCHANGED <<record, approving, task, source, result, taskFresh, owns, abort>>
      /\ \/ Goto(p, "settle") /\ UNCHANGED <<todo, fresh>>
         \/ /\ record.status # "cancelled"
            /\ todo' = [todo EXCEPT ![p] = Planned(step)]
            /\ fresh' = fresh \union {p} /\ Goto(p, "excuse")
  BY DEF Caught
<1> HIDE DEF step
<1> USE <1>1, <1>2 DEF Goto
<1>3. TypeOK'
  BY DEF IInv, TypeOK, Phases, Drivers
<1>4. Planning'
  BY DEF IInv, TypeOK, Planning, Doing, Ready, Excuses
<1>5. Current'
  BY DEF IInv, TypeOK, Current, Covered, Approves, Knowing, Ready
<1>6. Underway' /\ Ending'
  BY DEF IInv, TypeOK, Underway, Ending, Doing
<1>7. OnlyOwnerRuns' /\ ApprovedWork' /\ VerifiedTogether'
  BY DEF IInv, TypeOK, OnlyOwnerRuns, ApprovedWork, VerifiedTogether, Approves, Owned
<1> QED BY <1>3, <1>4, <1>5, <1>6, <1>7 DEF IInv

\* A driver that has settled owns nothing and knows nothing.
LEMMA SettleStep == ASSUME IInv, NEW p \in Procs, Settle(p), UNCHANGED people PROVE IInv'
<1>1. /\ pc[p] = "settle" /\ owns' = owns \ {p}
      /\ \E next \in {"settling", "leave"} : pc' = [pc EXCEPT ![p] = next]
      /\ todo' = [todo EXCEPT ![p] = None] /\ result' = [result EXCEPT ![p] = "none"]
      /\ fresh' = fresh \ {p} /\ taskFresh' = taskFresh \ {p}
      /\ UNCHANGED <<record, approving, task, source, abort, people>>
  BY DEF Settle, Goto, Forget
<1> USE <1>1 DEF people
<1>2. TypeOK'
  BY DEF IInv, TypeOK, Phases, Drivers, Outcomes
<1>3. Planning'
  BY DEF IInv, TypeOK, Planning, Doing, Ready
<1>4. Current'
  BY DEF IInv, TypeOK, Current, Covered, Approves, Knowing, Ready
<1>5. Underway' /\ Ending'
  BY DEF IInv, TypeOK, Underway, Ending, Doing
<1>6. OnlyOwnerRuns' /\ ApprovedWork' /\ VerifiedTogether'
  BY DEF IInv, TypeOK, OnlyOwnerRuns, ApprovedWork, VerifiedTogether, Approves, Owned
<1> QED BY <1>2, <1>3, <1>4, <1>5, <1>6 DEF IInv

-----------------------------------------------------------------------------
(* Steps of a driver that write the record *)

\* A mark changes nothing but the status, the outcome and the notice.
LEMMA MarkedFacts ==
  ASSUME NEW r \in Record, NEW status \in Verdicts
  PROVE  LET m == Marked(r, status) IN
         /\ m \in Record /\ m.status = status
         /\ m.requirements = r.requirements /\ m.plan = r.plan
         /\ m.approval = r.approval /\ m.high = r.high /\ m.pending = r.pending
PROOF
<1>1. PICK outcome \in Outcomes :
        Marked(r, status) = [r EXCEPT !.status = status, !.notice = FALSE, !.outcome = outcome]
  <2>1. CASE status = "awaiting-input"
    BY <2>1 DEF Marked, Outcomes
  <2>2. CASE status \in Excuses
    BY <2>2 DEF Marked, Outcomes, Excuses
  <2>3. CASE status = "awaiting-approval"
    BY <2>3 DEF Marked, Record
  <2> QED BY <2>1, <2>2, <2>3 DEF Verdicts
<1>2. status \in Statuses
  BY DEF Verdicts, Excuses, Statuses
<1> HIDE DEF Marked
<1> QED BY <1>1, <1>2 DEF Record

\* A mark under way says interrupted, and changes nothing but status and outcome.
LEMMA MarkStep ==
  ASSUME IInv, NEW p \in Procs, pc[p] \in {"mark", "excuse"}, p \in fresh,
         Put(Marked(record, todo[p].kind)), Goto(p, "settle"),
         UNCHANGED <<task, source, todo, result, taskFresh, owns, abort, people>>
  PROVE  IInv'
<1> USE DEF people, Goto
<1>1. /\ fresh' = {} /\ approving' = [q \in Procs |-> None]
      /\ record' = Marked(record, todo[p].kind)
  BY DEF Put
<1>2. /\ todo[p].kind \in Verdicts /\ record.status # "cancelled"
      /\ record.pending # None => todo[p].kind = "interrupted"
  BY DEF IInv, Planning, Current, Knowing, Ready, Excuses, Verdicts
<1>3. /\ record' \in Record
      /\ record'.status = todo[p].kind
      /\ record'.requirements = record.requirements /\ record'.plan = record.plan
      /\ record'.approval = record.approval /\ record'.high = record.high
      /\ record'.pending = record.pending
  <2>1. record \in Record
    BY DEF IInv, TypeOK
  <2> QED BY <1>1, <1>2, <2>1, MarkedFacts
<1>4. TypeOK'
  BY <1>1, <1>3 DEF IInv, TypeOK, Phases, Drivers
<1>5. Planning'
  BY DEF IInv, TypeOK, Planning, Doing, Ready
<1>6. Current' /\ Ending'
  BY <1>1 DEF IInv, TypeOK, Current, Ending
<1>7. Underway'
  BY <1>2, <1>3 DEF IInv, TypeOK, Underway, OnlyOwnerRuns, Owned, Doing
<1>8. OnlyOwnerRuns' /\ ApprovedWork' /\ VerifiedTogether'
  BY <1>2, <1>3 DEF IInv, TypeOK, OnlyOwnerRuns, ApprovedWork, VerifiedTogether, Approves, Owned,
                    Verdicts, Excuses
<1> QED BY <1>4, <1>5, <1>6, <1>7, <1>8 DEF IInv

\* The error handling marks the record, or fails to.
LEMMA ExcuseStep == ASSUME IInv, NEW p \in Procs, Excuse(p), UNCHANGED people PROVE IInv'
<1>1. CASE p \in fresh /\ Put(Marked(record, todo[p].kind))
  BY <1>1, MarkStep DEF Excuse
<1>2. CASE Keep
  <2>1. /\ pc[p] = "excuse" /\ pc' = [pc EXCEPT ![p] = "settle"]
        /\ UNCHANGED <<record, fresh, approving, task, source, todo, result, taskFresh, owns, abort, people>>
    BY <1>2 DEF Excuse, Keep, Goto
  <2> USE <2>1 DEF people
  <2>2. TypeOK'
    BY DEF IInv, TypeOK, Phases, Drivers
  <2>3. Planning'
    BY DEF IInv, TypeOK, Planning, Doing, Ready
  <2>4. Current'
    BY DEF IInv, TypeOK, Current, Covered, Approves, Knowing, Ready
  <2>5. Underway' /\ Ending'
    BY DEF IInv, TypeOK, Underway, Ending, Doing
  <2>6. OnlyOwnerRuns' /\ ApprovedWork' /\ VerifiedTogether'
    BY DEF IInv, TypeOK, OnlyOwnerRuns, ApprovedWork, VerifiedTogether, Approves, Owned
  <2> QED BY <2>2, <2>3, <2>4, <2>5, <2>6 DEF IInv
<1> QED BY <1>1, <1>2 DEF Excuse

\* No effect is under way while a driver that is ready knows the stored record.
LEMMA ReadyAlone ==
  ASSUME IInv, NEW p \in fresh, pc[p] \in Ready
  PROVE  /\ record.pending = None /\ record.status # "cancelled"
         /\ Covered(record, todo[p])
         /\ \A q \in Procs : pc[q] \notin Doing
  BY DEF IInv, TypeOK, Drivers, Current, OnlyOwnerRuns, Owned, Knowing, Ready, Doing

\* An escalation is recorded only while no effect is under way.
LEMMA PrepareVerifyStep ==
  ASSUME IInv, NEW p \in Procs, PrepareVerify(p), UNCHANGED people PROVE IInv'
<1> USE DEF people
<1>1. /\ pc[p] = "prepare"
      /\ \E next \in {"own", "failed"} : pc' = [pc EXCEPT ![p] = next]
      /\ UNCHANGED <<task, source, todo, result, taskFresh, owns, abort>>
  BY DEF PrepareVerify, Goto
<1>2. Planning'
  BY <1>1 DEF IInv, TypeOK, Planning, Doing, Ready
<1>3. CASE Keep
  <2> USE <1>1, <1>3 DEF Keep
  <2>1. TypeOK'
    BY DEF IInv, TypeOK, Phases, Drivers
  <2>2. Current'
    BY DEF IInv, TypeOK, Current, Covered, Approves, Knowing, Ready
  <2>3. Underway' /\ Ending'
    BY DEF IInv, TypeOK, Underway, Ending, Doing
  <2>4. OnlyOwnerRuns' /\ ApprovedWork' /\ VerifiedTogether'
    BY DEF IInv, TypeOK, OnlyOwnerRuns, ApprovedWork, VerifiedTogether, Approves, Owned
  <2> QED BY <1>2, <2>1, <2>2, <2>3, <2>4 DEF IInv
<1>4. CASE /\ p \in fresh /\ fresh' = {} /\ approving' = [q \in Procs |-> None]
           /\ record' = [record EXCEPT !.high = TRUE, !.status = "blocked",
                                       !.outcome = "error", !.notice = TRUE]
  <2> USE <1>1, <1>4
  <2>1. /\ record' \in Record /\ record'.status = "blocked"
        /\ \A q \in Procs : pc'[q] \notin Doing
    BY ReadyAlone DEF IInv, TypeOK, Record, Statuses, Outcomes, Ready, Doing
  <2>2. TypeOK'
    BY <2>1 DEF IInv, TypeOK, Phases, Drivers
  <2>3. Current' /\ Underway' /\ Ending'
    BY <2>1 DEF IInv, TypeOK, Current, Underway, Ending
  <2>4. OnlyOwnerRuns' /\ ApprovedWork' /\ VerifiedTogether'
    BY <2>1 DEF OnlyOwnerRuns, ApprovedWork, VerifiedTogether, Doing
  <2> QED BY <1>2, <2>2, <2>3, <2>4 DEF IInv
<1> QED BY <1>3, <1>4 DEF PrepareVerify, Put

\* Only a verified task makes a verified workflow, and no effect is under way.
LEMMA PrepareCompleteStep ==
  ASSUME IInv, NEW p \in Procs, PrepareComplete(p), UNCHANGED people PROVE IInv'
<1> USE DEF people
<1>1. /\ pc[p] = "prepare"
      /\ \E next \in {"read", "settle", "journal"} : pc' = [pc EXCEPT ![p] = next]
      /\ UNCHANGED <<task, source, todo, result, owns, abort>>
  BY DEF PrepareComplete, Goto
<1>2. Planning'
  BY <1>1 DEF IInv, TypeOK, Planning, Doing, Ready
<1>3. CASE Keep /\ Goto(p, "journal") /\ taskFresh' = taskFresh \union {p}
  <2> USE <1>1, <1>3 DEF Keep, Goto
  <2>1. TypeOK'
    BY DEF IInv, TypeOK, Phases, Drivers
  <2>2. Current'
    BY DEF IInv, TypeOK, Current, Covered, Approves, Knowing, Ready
  <2>3. Underway' /\ Ending'
    BY DEF IInv, TypeOK, Underway, Ending, Doing
  <2>4. OnlyOwnerRuns' /\ ApprovedWork' /\ VerifiedTogether'
    BY DEF IInv, TypeOK, OnlyOwnerRuns, ApprovedWork, VerifiedTogether, Approves, Owned
  <2> QED BY <1>2, <2>1, <2>2, <2>3, <2>4 DEF IInv
<1>4. CASE /\ p \in fresh /\ fresh' = {} /\ approving' = [q \in Procs |-> None]
           /\ UNCHANGED taskFresh
           /\ \/ record' = [record EXCEPT !.phase = "verification", !.status = "running",
                                          !.outcome = "failed", !.notice = FALSE]
              \/ /\ task.state = "verified"
                 /\ record' = [record EXCEPT !.status = "verified", !.outcome = "passed",
                                             !.notice = FALSE]
  <2> USE <1>1, <1>4
  <2>1. /\ record' \in Record
        /\ record'.status = "verified" => task.state = "verified"
        /\ \A q \in Procs : pc'[q] \notin Doing
    <3>1. record \in Record /\ pc \in [Procs -> Phases]
      BY DEF IInv, TypeOK
    <3>2. record' \in Record
      <4>1. CASE task.state = "verified" /\ record' = [record EXCEPT !.status = "verified",
                                               !.outcome = "passed", !.notice = FALSE]
        BY <3>1, <4>1 DEF Record, Statuses, Outcomes
      <4>2. CASE record' = [record EXCEPT !.phase = "verification", !.status = "running",
                                          !.outcome = "failed", !.notice = FALSE]
        BY <3>1, <4>2 DEF Record, Statuses, Outcomes, PhaseNames
      <4> QED BY <4>1, <4>2
    <3>3. record'.status = "verified" => task.state = "verified"
      BY <3>1 DEF Record
    <3>4. \A q \in Procs : pc'[q] \notin Doing
      BY <3>1, ReadyAlone DEF Ready, Doing
    <3> QED BY <3>2, <3>3, <3>4
  <2>2. TypeOK'
    BY <2>1 DEF IInv, TypeOK, Phases, Drivers
  <2>3. Current' /\ Underway' /\ Ending'
    BY <2>1 DEF IInv, TypeOK, Current, Underway, Ending
  <2>4. OnlyOwnerRuns' /\ ApprovedWork' /\ VerifiedTogether'
    BY <2>1 DEF OnlyOwnerRuns, ApprovedWork, VerifiedTogether, Doing
  <2> QED BY <1>2, <2>2, <2>3, <2>4 DEF IInv
<1> QED BY <1>3, <1>4 DEF PrepareComplete, Put, AlreadyVerified

-----------------------------------------------------------------------------
(* Effects *)

\* Taking the task over changes neither its intent nor a verified one.
LEMMA OwnStep == ASSUME IInv, NEW p \in Procs, Own(p), UNCHANGED people PROVE IInv'
<1>1. /\ pc[p] = "own" /\ pc' = [pc EXCEPT ![p] = "journal"]
      /\ task.state # "verified" /\ task' = [task EXCEPT !.state = "running"]
      /\ taskFresh' \in {taskFresh, {}}
      /\ UNCHANGED <<record, fresh, approving, source, todo, result, owns, abort, people>>
  BY DEF Own, Goto, Keep
<1> USE <1>1 DEF people
<1>2. /\ task' \in Task /\ task'.intent = task.intent
  BY DEF IInv, TypeOK, Task
<1>3. TypeOK'
  BY <1>2 DEF IInv, TypeOK, Phases, Drivers
<1>4. Planning'
  BY DEF IInv, TypeOK, Planning, Doing, Ready
<1>5. Current'
  BY DEF IInv, TypeOK, Current, Covered, Approves, Knowing, Ready
<1>6. Underway' /\ Ending'
  BY <1>2 DEF IInv, TypeOK, Underway, Ending, Doing
<1>7. OnlyOwnerRuns' /\ ApprovedWork' /\ VerifiedTogether'
  BY DEF IInv, TypeOK, OnlyOwnerRuns, ApprovedWork, VerifiedTogether, Approves, Owned
<1> QED BY <1>3, <1>4, <1>5, <1>6, <1>7 DEF IInv

\* The journal admits one effect, for the step the approval covers.
LEMMA JournalStep == ASSUME IInv, NEW p \in Procs, Journal(p), UNCHANGED people PROVE IInv'
<1> USE DEF people
<1>1. /\ pc[p] = "journal" /\ pc' = [pc EXCEPT ![p] = "effect"] /\ p \in fresh
      /\ fresh' = {} /\ approving' = [q \in Procs |-> None]
      /\ record' = Journalled(p) /\ Valid(record')
      /\ owns' = owns \union {p} /\ task' = [task EXCEPT !.ours = FALSE]
      /\ UNCHANGED <<source, todo, result, taskFresh, abort>>
  BY DEF Journal, Put, Goto
<1>2. /\ record \in Record /\ source \in Sources /\ task \in Task
      /\ todo[p] \in Todo /\ todo[p].kind \in Effects
      /\ pc \in [Procs -> Phases]
  BY <1>1 DEF IInv, TypeOK, Planning, Ready
<1>3. /\ Covered(record, todo[p]) /\ \A q \in Procs : pc[q] \notin Doing
  BY <1>1, ReadyAlone DEF Ready
<1>4. /\ task' \in Task /\ task'.intent = task.intent /\ task'.state = task.state
  BY <1>1, <1>2 DEF Task
<1> DEFINE action == [by |-> p, kind |-> todo[p].kind, phase |-> todo[p].phase,
                      repair |-> todo[p].repair, source |-> source]
<1>5. action \in Action /\ action.by = p
  BY <1>2 DEF Action, Todo
<1> HIDE DEF action
<1> DEFINE repairs == IF todo[p].repair THEN record.repairs + 1 ELSE record.repairs
<1>6. record' = [record EXCEPT !.pending = action, !.phase = todo[p].phase,
                               !.status = "running", !.outcome = "none",
                               !.notice = FALSE, !.repairs = repairs]
  BY <1>1 DEF Journalled, action
<1>7. /\ record' \in Record /\ record'.status = "running" /\ record'.pending = action
      /\ record'.requirements = record.requirements /\ record'.plan = record.plan
      /\ record'.approval = record.approval /\ record'.high = record.high
  <2>1. repairs \in Nat
    BY <1>2 DEF Record
  <2> HIDE DEF repairs
  <2>2. repairs \in 0..RepairLimit
    BY <1>1, <1>2, <1>6, <2>1 DEF Valid, Record
  <2> QED BY <1>2, <1>5, <1>6, <2>2 DEF Record, Statuses, Outcomes, Todo
<1>8. record'.pending # None /\ record'.pending.by = p
  BY <1>5, <1>7
<1> HIDE DEF repairs
<1>9. TypeOK'
  BY <1>1, <1>4, <1>7 DEF IInv, TypeOK, Phases, Drivers
<1>10. Planning'
  BY <1>1, <1>2, <1>4 DEF IInv, TypeOK, Planning, Doing, Ready
<1>11. Current' /\ Underway' /\ Ending'
  BY <1>1, <1>3, <1>4, <1>7 DEF IInv, TypeOK, Current, Underway, Ending
<1>12. OnlyOwnerRuns'
  BY <1>1, <1>2, <1>3, <1>8 DEF OnlyOwnerRuns, Owned, Doing
<1>13. ApprovedWork' /\ VerifiedTogether'
  BY <1>1, <1>2, <1>3, <1>7 DEF ApprovedWork, VerifiedTogether, Covered, Approves, Doing
<1> QED BY <1>9, <1>10, <1>11, <1>12, <1>13 DEF IInv

\* An effect that is carried out changes the source or the proof of the task, which
\* no part of the invariant is about.
LEMMA EffectStep ==
  ASSUME IInv, NEW p \in Procs, Invoke(p) \/ Review(p) \/ Verify(p), UNCHANGED people
  PROVE  IInv'
<1>1. /\ pc[p] = "effect" /\ todo[p].kind # "complete"
      /\ \E next \in {"commit", "failed"} : pc' = [pc EXCEPT ![p] = next]
      /\ \E outcome \in Outcomes : result' = [result EXCEPT ![p] = outcome]
      /\ UNCHANGED <<record, fresh, approving, todo, owns, abort, people>>
  <2>1. CASE Invoke(p)
    <3>1. UNCHANGED result \/ \E outcome \in Outcomes : result' = [result EXCEPT ![p] = outcome]
      BY <2>1 DEF Invoke, Ends
    <3>2. \E outcome \in Outcomes : result' = [result EXCEPT ![p] = outcome]
      BY <3>1 DEF IInv, TypeOK
    <3> QED BY <2>1, <3>2 DEF Invoke, Ends, Keep, Goto
  <2>2. CASE Review(p)
    BY <2>2 DEF Review, Keep, Goto, Outcomes
  <2>3. CASE Verify(p)
    BY <2>3 DEF Verify, Keep, Goto, Outcomes
  <2> QED BY <2>1, <2>2, <2>3
<1>2. /\ task' \in Task /\ task'.state = task.state /\ task'.intent = task.intent
      /\ source' \in Sources /\ taskFresh' \in {taskFresh, {}}
  <2>1. task \in Task /\ source \in Sources
    BY DEF IInv, TypeOK
  <2>2. CASE Invoke(p) \/ Review(p)
    BY <2>1, <2>2 DEF Invoke, Review
  <2>3. CASE Verify(p)
    <3>1. /\ source' = source /\ taskFresh' \in {taskFresh, {}}
          /\ \/ UNCHANGED task
             \/ \E outcome \in {"passed", "failed"} :
                  task' = [task EXCEPT !.proof = IF outcome = "passed" THEN source ELSE None,
                                       !.ours = (outcome = "passed")]
      BY <2>3 DEF Verify
    <3> QED BY <2>1, <3>1 DEF Task
  <2> QED BY <2>2, <2>3
<1> USE <1>1, <1>2 DEF people
<1>3. TypeOK'
  BY DEF IInv, TypeOK, Phases, Drivers
<1>4. Planning'
  BY DEF IInv, TypeOK, Planning, Doing, Ready
<1>5. Current'
  BY DEF IInv, TypeOK, Current, Covered, Approves, Knowing, Ready
<1>6. Underway' /\ Ending'
  BY DEF IInv, TypeOK, Underway, Ending, Doing
<1>7. OnlyOwnerRuns' /\ ApprovedWork' /\ VerifiedTogether'
  BY DEF IInv, TypeOK, OnlyOwnerRuns, ApprovedWork, VerifiedTogether, Approves, Owned
<1> QED BY <1>3, <1>4, <1>5, <1>6, <1>7 DEF IInv

\* Completing and verifying never leave a verified task.
LEMMA CloseStep ==
  ASSUME IInv, NEW p \in Procs, CompleteTask(p) \/ VerifyTask(p), UNCHANGED people
  PROVE  IInv'
<1>1. /\ pc[p] \in {"effect", "close"}
      /\ \E next \in {"close", "commit", "failed"} :
           /\ pc' = [pc EXCEPT ![p] = next]
           /\ next = "commit" => task'.state = "verified"
      /\ result' = [result EXCEPT ![p] = "passed"] \/ UNCHANGED result
      /\ UNCHANGED <<record, fresh, approving, source, todo, owns, abort, people>>
      /\ taskFresh' \subseteq taskFresh
      /\ \E state \in {"completed", "verified"} :
           /\ task.state = "verified" => state = "verified"
           /\ task' = task \/ task' = [task EXCEPT !.state = state]
  <2>1. CASE CompleteTask(p)
    BY <2>1 DEF CompleteTask, Keep, Goto
  <2>2. CASE VerifyTask(p)
    <3>1. task \in Task
      BY DEF IInv, TypeOK
    <3>2. task' = [task EXCEPT !.state = "verified"] /\ task'.state = "verified"
      BY <2>2, <3>1 DEF VerifyTask, Task
    <3> QED BY <2>2, <3>2 DEF VerifyTask, Keep, Goto
  <2> QED BY <2>1, <2>2
<1>2. /\ task' \in Task /\ task'.intent = task.intent
      /\ task.state = "verified" => task'.state = "verified"
  <2>1. task \in Task
    BY DEF IInv, TypeOK
  <2> QED BY <1>1, <2>1 DEF Task
<1> USE <1>1, <1>2 DEF people
<1>3. TypeOK'
  BY DEF IInv, TypeOK, Phases, Drivers, Outcomes
<1>4. Planning'
  BY DEF IInv, TypeOK, Planning, Doing, Ready
<1>5. Current'
  BY DEF IInv, TypeOK, Current, Covered, Approves, Knowing, Ready
<1>6. Underway' /\ Ending'
  BY DEF IInv, TypeOK, Underway, Ending, Doing
<1>7. OnlyOwnerRuns' /\ ApprovedWork' /\ VerifiedTogether'
  BY DEF IInv, TypeOK, OnlyOwnerRuns, ApprovedWork, VerifiedTogether, Approves, Owned
<1> QED BY <1>3, <1>4, <1>5, <1>6, <1>7 DEF IInv

-----------------------------------------------------------------------------
(* Results and endings *)

\* A record without its pending action is a record.
LEMMA AbandonedFacts ==
  ASSUME NEW r \in Record
  PROVE  /\ Abandoned(r) \in Record /\ Abandoned(r).pending = None
         /\ Abandoned(r).status = r.status
  BY DEF Abandoned, Record

\* What is committed is a record, verified only by a completion.
LEMMA CommittedFacts ==
  ASSUME record \in Record, source \in Sources, NEW kind \in Effects, NEW outcome \in Outcomes
  PROVE  /\ Committed(kind, outcome) \in Record
         /\ Committed(kind, outcome).status \in {"awaiting-input", "blocked", "verified", record.status}
         /\ Committed(kind, outcome).status = "verified" => kind = "complete" \/ record.status = "verified"
PROOF
<1> DEFINE r == Abandoned(record)
           status == CASE kind = "invoke" /\ outcome = "needs-input"         -> "awaiting-input"
                       [] kind = "invoke" /\ outcome \in {"failed", "error"} -> "blocked"
                       [] kind = "complete"                                  -> "verified"
                       [] OTHER                                              -> r.status
<1>1. r \in Record /\ r.status = record.status
  BY AbandonedFacts
<1>2. /\ status \in {"awaiting-input", "blocked", "verified", record.status}
      /\ status = "verified" => kind = "complete" \/ record.status = "verified"
  <2>1. CASE kind = "invoke" /\ outcome = "needs-input"
    BY <2>1
  <2>2. CASE kind = "invoke" /\ outcome \in {"failed", "error"}
    BY <2>2
  <2>3. CASE kind = "complete"
    BY <2>3
  <2>4. CASE kind # "complete" /\ ~(kind = "invoke" /\ outcome \in {"needs-input", "failed", "error"})
    BY <1>1, <2>4
  <2> QED BY <2>1, <2>2, <2>3, <2>4
<1> DEFINE made(name)   == kind = "invoke" /\ outcome = "passed" /\ record.phase = name
           requirements == r.requirements \/ made("requirements")
           plan         == r.plan \/ made("plan")
           approval     == IF made("plan") THEN None ELSE r.approval
           verified     == IF kind = "verify" /\ outcome = "passed" THEN source ELSE r.verified
<1>3. Committed(kind, outcome) =
        [r EXCEPT !.outcome = outcome, !.notice = FALSE, !.status = status,
                  !.requirements = requirements, !.plan = plan,
                  !.approval = approval, !.verified = verified]
  BY DEF Committed
<1>4. requirements \in BOOLEAN /\ plan \in BOOLEAN
  BY <1>1 DEF Record
<1>5. approval \in Approval \union {None} /\ verified \in Sources \union {None}
  BY <1>1 DEF Record
<1>6. status \in Statuses
  BY <1>2 DEF Statuses, Record
<1> DEFINE told == [r EXCEPT !.outcome = outcome, !.notice = FALSE, !.status = status]
<1> HIDE DEF r, status, requirements, plan, approval, verified
<1>7. told \in Record
  BY <1>1, <1>6 DEF Record
<1>8. Committed(kind, outcome) =
        [told EXCEPT !.requirements = requirements, !.plan = plan,
                     !.approval = approval, !.verified = verified]
  BY <1>3
<1>9. told.status = status
  BY <1>1 DEF Record
<1> HIDE DEF told
<1>10. Committed(kind, outcome).status = status
  BY <1>7, <1>8, <1>9 DEF Record
<1>11. Committed(kind, outcome) \in Record
  BY <1>4, <1>5, <1>7, <1>8 DEF Record
<1> QED BY <1>1, <1>2, <1>10, <1>11

\* The driver that carries out an effect is the only one.
LEMMA OneDoes ==
  ASSUME IInv, NEW p \in Procs, NEW q \in Procs, pc[p] \in Doing, pc[q] \in Doing
  PROVE  p = q
  BY DEF IInv, OnlyOwnerRuns, Owned, Doing

\* A committed result ends the effect, and a completion closes a verified task.
LEMMA CommitStep == ASSUME IInv, NEW p \in Procs, Commit(p), UNCHANGED people PROVE IInv'
<1> USE DEF people
<1>1. /\ pc[p] = "commit"
      /\ \E next \in {"settle", "failed", "read"} : pc' = [pc EXCEPT ![p] = next]
      /\ UNCHANGED <<task, source, todo, result, taskFresh, owns, abort>>
  BY DEF Commit, Goto
<1>2. \A q \in Procs : pc'[q] \notin Doing
  BY <1>1, OneDoes DEF IInv, TypeOK, Doing
<1>3. Planning'
  BY <1>1 DEF IInv, TypeOK, Planning, Doing, Ready
<1>4. Underway' /\ OnlyOwnerRuns' /\ ApprovedWork'
  BY <1>2 DEF Underway, OnlyOwnerRuns, ApprovedWork, Doing
<1>5. CASE Keep
  <2> USE <1>1, <1>5 DEF Keep
  <2>1. TypeOK'
    BY DEF IInv, TypeOK, Phases, Drivers
  <2>2. Current' /\ Ending' /\ VerifiedTogether'
    BY DEF IInv, TypeOK, Current, Covered, Approves, Knowing, Ready, Ending, VerifiedTogether
  <2> QED BY <1>3, <1>4, <2>1, <2>2 DEF IInv
<1>6. CASE \E outcome \in Outcomes : Put(Committed(todo[p].kind, outcome))
  <2>1. PICK outcome \in Outcomes :
          /\ fresh' = {} /\ approving' = [q \in Procs |-> None]
          /\ record' = Committed(todo[p].kind, outcome)
    BY <1>6 DEF Put
  <2>2. /\ todo[p].kind \in Effects
        /\ todo[p].kind = "complete" => task.state = "verified"
    BY <1>1 DEF IInv, Planning, Doing
  <2>3. record' \in Record /\ (record'.status = "verified" => task.state = "verified")
    BY <2>1, <2>2, CommittedFacts DEF IInv, TypeOK, VerifiedTogether
  <2>4. TypeOK'
    BY <1>1, <2>1, <2>3 DEF IInv, TypeOK, Phases, Drivers
  <2>5. Current' /\ Ending' /\ VerifiedTogether'
    BY <1>1, <2>1, <2>3 DEF IInv, TypeOK, Current, Ending, VerifiedTogether
  <2> QED BY <1>3, <1>4, <2>4, <2>5 DEF IInv
<1> QED BY <1>5, <1>6 DEF Commit

\* An ended driver gives up its action only when no effect is under way.
LEMMA LeaveStep == ASSUME IInv, NEW p \in Procs, Leave(p), UNCHANGED people PROVE IInv'
<1> USE DEF people
<1>1. /\ pc[p] \in {"settling", "leave"} /\ pc' = [pc EXCEPT ![p] = "off"]
      /\ abort' = abort \ {p} /\ p \notin owns \union fresh \union taskFresh
      /\ UNCHANGED <<task, source, todo, result, taskFresh, owns>>
  BY DEF Leave, Goto, IInv, Ending
<1>2. Planning'
  BY <1>1 DEF IInv, TypeOK, Planning, Doing, Ready
<1>3. CASE Keep
  <2> USE <1>1, <1>3 DEF Keep
  <2>1. TypeOK'
    BY DEF IInv, TypeOK, Phases, Drivers
  <2>2. Current'
    BY DEF IInv, TypeOK, Current, Covered, Approves, Knowing, Ready
  <2>3. Underway' /\ Ending'
    BY DEF IInv, TypeOK, Underway, Ending, Doing
  <2>4. OnlyOwnerRuns' /\ ApprovedWork' /\ VerifiedTogether'
    BY DEF IInv, TypeOK, OnlyOwnerRuns, ApprovedWork, VerifiedTogether, Approves, Owned
  <2> QED BY <1>2, <2>1, <2>2, <2>3, <2>4 DEF IInv
<1>4. CASE /\ record.pending # None /\ record.pending.by = p
           /\ Put(Abandoned(record))
  <2>1. /\ fresh' = {} /\ approving' = [q \in Procs |-> None]
        /\ record' = Abandoned(record)
    BY <1>4 DEF Put
  <2>2. record' \in Record /\ record'.status = record.status
    BY <2>1, AbandonedFacts DEF IInv, TypeOK
  <2>3. \A q \in Procs : pc'[q] \notin Doing
    BY <1>1, <1>4 DEF IInv, TypeOK, OnlyOwnerRuns, Owned, Doing
  <2>4. TypeOK'
    BY <1>1, <2>1, <2>2 DEF IInv, TypeOK, Phases, Drivers
  <2>5. Current' /\ Underway' /\ Ending'
    BY <1>1, <2>1, <2>3 DEF IInv, TypeOK, Current, Underway, Ending
  <2>6. OnlyOwnerRuns' /\ ApprovedWork' /\ VerifiedTogether'
    BY <1>1, <2>2, <2>3 DEF IInv, OnlyOwnerRuns, ApprovedWork, VerifiedTogether, Doing
  <2> QED BY <1>2, <2>4, <2>5, <2>6 DEF IInv
<1> QED BY <1>3, <1>4 DEF Leave

\* Every step of a driver keeps the invariant.
LEMMA DriveStep == ASSUME IInv, NEW p \in Procs, Drive(p) PROVE IInv'
<1>1. ASSUME Mark(p), UNCHANGED people PROVE IInv'
  BY <1>1, MarkStep DEF Mark
<1> QED
  BY <1>1, ReadStep, PrepareStep, PrepareVerifyStep, PrepareCompleteStep, OwnStep, JournalStep,
     EffectStep, CloseStep, CommitStep, ThrowStep, CaughtStep, ExcuseStep, SettleStep, LeaveStep
     DEF Drive

-----------------------------------------------------------------------------
(* Calls *)

\* While no effect is under way, a call may write any record that claims no more
\* than the task, and start a driver.
LEMMA RewriteStep ==
  ASSUME IInv, NEW p \in up, NEW r \in Record, Put(r), r.status # "verified",
         \A q \in Procs : pc[q] \notin Doing,
         Schedule(p) \/ UNCHANGED <<pc, todo, result>>,
         calls' \in 0..MaxCalls,
         UNCHANGED <<task, source, taskFresh, owns, abort, cancelling, up, upsets>>
  PROVE  IInv'
<1>1. /\ fresh' = {} /\ approving' = [q \in Procs |-> None] /\ record' = r
      /\ UNCHANGED <<todo, result>>
      /\ pc' = pc \/ (pc[p] = "off" /\ pc' = [pc EXCEPT ![p] = "read"])
  BY DEF Put, Schedule
<1>2. \A q \in Procs : pc'[q] \notin Doing
  BY <1>1 DEF IInv, TypeOK, Doing
<1>3. TypeOK'
  BY <1>1 DEF IInv, TypeOK, Phases, Drivers
<1>4. Planning'
  BY <1>1 DEF IInv, TypeOK, Planning, Doing, Ready
<1>5. Current' /\ Underway' /\ Ending'
  BY <1>1, <1>2 DEF IInv, TypeOK, Current, Underway, Ending
<1>6. OnlyOwnerRuns' /\ ApprovedWork' /\ VerifiedTogether'
  BY <1>1, <1>2 DEF OnlyOwnerRuns, ApprovedWork, VerifiedTogether, Doing
<1> QED BY <1>3, <1>4, <1>5, <1>6 DEF IInv

\* Nobody is approving, and nothing is resumed, while an effect is under way.
LEMMA NoEffect ==
  ASSUME IInv, \/ record.status = "awaiting-approval"
               \/ \E p \in up : Resumable(p)
  PROVE  \A q \in Procs : pc[q] \notin Doing
<1>1. CASE record.status = "awaiting-approval"
  BY <1>1 DEF IInv, Underway
<1>2. ASSUME NEW p \in up, Resumable(p) PROVE \A q \in Procs : pc[q] \notin Doing
  BY <1>2 DEF IInv, TypeOK, Drivers, OnlyOwnerRuns, Owned, Resumable, OwnerLive, Doing
<1> QED BY <1>1, <1>2

\* An approval is recorded while no effect is under way.
LEMMA FinishApproveStep == ASSUME IInv, NEW p \in Procs, FinishApprove(p) PROVE IInv'
<1> DEFINE r == [record EXCEPT !.approval = approving[p], !.status = "running",
                               !.outcome = "passed", !.notice = FALSE]
<1>1. p \in up /\ record \in Record /\ approving[p] \in Approval \union {None}
      /\ calls \in 0..MaxCalls
  BY DEF FinishApprove, IInv, TypeOK, Ending
<1>2. r \in Record /\ r.status # "verified"
  <2>1. {"running"} \subseteq Statuses /\ {"passed"} \subseteq Outcomes
    BY DEF Statuses, Outcomes
  <2> QED BY <1>1, <2>1 DEF Record
<1>3. \A q \in Procs : pc[q] \notin Doing
  BY NoEffect DEF FinishApprove
<1>4. /\ Put(r) /\ Schedule(p) /\ calls' = calls
      /\ UNCHANGED <<task, source, taskFresh, owns, abort, cancelling, up, upsets>>
  BY DEF FinishApprove
<1> HIDE DEF r
<1> QED BY <1>1, <1>2, <1>3, <1>4, RewriteStep

\* What resume makes of a record is a record.
LEMMA ResumptionsFacts == ASSUME IInv PROVE Resumptions \subseteq Record
<1>1. record \in Record /\ source \in Sources
  BY DEF IInv, TypeOK
<1>2. Retried(record) \in Record
  <2> DEFINE outcome == IF record.pending.kind = "complete" THEN "passed" ELSE "none"
             retry == record.pending.kind = "invoke" /\ record.pending.phase = "implementation"
  <2>1. outcome \in Outcomes /\ retry \in BOOLEAN
    BY DEF Outcomes
  <2>2. Retried(record) = [record EXCEPT !.pending = None, !.notice = FALSE,
                                         !.outcome = outcome, !.retry = retry]
    BY DEF Retried
  <2> HIDE DEF outcome, retry
  <2> QED BY <1>1, <2>1, <2>2 DEF Record
<1>3. GivenUp(record) \in Record
  BY <1>1, AbandonedFacts DEF GivenUp, Record, Outcomes
<1>4. Observed(record) \in Record
  BY <1>1, AbandonedFacts DEF Observed, Record, Outcomes
<1>5. Answered(record) \in Record /\ Replanned(record) \in Record
  BY <1>1 DEF Answered, Replanned, Record, Outcomes, PhaseNames
<1> QED BY <1>1, <1>2, <1>3, <1>4, <1>5 DEF Resumptions

\* Only the action of an owner that is gone is resolved.
LEMMA ResumeStep == ASSUME IInv, NEW p \in Procs, Resume(p) PROVE IInv'
<1>1. PICK r \in Resumptions :
        LET status == IF r.outcome = "error" THEN "blocked" ELSE "running"
        IN /\ Put([r EXCEPT !.status = status])
           /\ IF status = "running" THEN Schedule(p) ELSE UNCHANGED <<pc, todo, result>>
  BY DEF Resume
<1> DEFINE status == IF r.outcome = "error" THEN "blocked" ELSE "running"
           new == [r EXCEPT !.status = status]
<1>2. new \in Record /\ new.status # "verified"
  BY ResumptionsFacts DEF Record, Statuses
<1>3. p \in up /\ Resumable(p) /\ calls' \in 0..MaxCalls
  BY DEF Resume, Called, IInv, TypeOK
<1>4. \A q \in Procs : pc[q] \notin Doing
  BY <1>3, NoEffect
<1>5. /\ Put(new) /\ (Schedule(p) \/ UNCHANGED <<pc, todo, result>>)
      /\ UNCHANGED <<task, source, taskFresh, owns, abort, cancelling, up, upsets>>
  BY <1>1 DEF Resume
<1> HIDE DEF new
<1> QED BY <1>2, <1>3, <1>4, <1>5, RewriteStep

\* A run starts a driver and writes nothing.
LEMMA RunStep == ASSUME IInv, NEW p \in Procs, Run(p) PROVE IInv'
<1>1. /\ p \in up /\ calls' \in 0..MaxCalls
      /\ pc' = pc \/ (pc[p] = "off" /\ pc' = [pc EXCEPT ![p] = "read"])
      /\ UNCHANGED <<record, fresh, approving, task, source, todo, result, taskFresh, owns,
                     abort, cancelling, up, upsets>>
  BY DEF Run, Called, Schedule, Keep, IInv, TypeOK
<1> USE <1>1
<1>2. TypeOK'
  BY DEF IInv, TypeOK, Phases, Drivers
<1>3. Planning'
  BY DEF IInv, TypeOK, Planning, Doing, Ready
<1>4. Current'
  BY DEF IInv, TypeOK, Current, Covered, Approves, Knowing, Ready
<1>5. Underway' /\ Ending'
  BY DEF IInv, TypeOK, Underway, Ending, Doing
<1>6. OnlyOwnerRuns' /\ ApprovedWork' /\ VerifiedTogether'
  BY DEF IInv, TypeOK, OnlyOwnerRuns, ApprovedWork, VerifiedTogether, Approves, Owned
<1> QED BY <1>2, <1>3, <1>4, <1>5, <1>6 DEF IInv

\* An approval notes what it is for.
LEMMA BeginApproveStep == ASSUME IInv, NEW p \in Procs, BeginApprove(p) PROVE IInv'
<1>1. /\ p \in up /\ calls' \in 0..MaxCalls
      /\ approving' = [approving EXCEPT ![p] = [intent |-> task.intent, source |-> source]]
      /\ UNCHANGED <<record, task, source, pc, todo, result, fresh, taskFresh, owns, abort,
                     cancelling, up, upsets>>
  BY DEF BeginApprove, Called, IInv, TypeOK
<1>2. [intent |-> task.intent, source |-> source] \in Approval
  BY DEF IInv, TypeOK, Task, Approval
<1> USE <1>1, <1>2
<1>3. TypeOK'
  BY DEF IInv, TypeOK, Drivers
<1>4. Planning' /\ Current' /\ Underway' /\ Ending'
  BY DEF IInv, TypeOK, Planning, Current, Covered, Approves, Underway, Ending
<1>5. OnlyOwnerRuns' /\ ApprovedWork' /\ VerifiedTogether'
  BY DEF IInv, OnlyOwnerRuns, ApprovedWork, VerifiedTogether, Approves, Owned
<1> QED BY <1>3, <1>4, <1>5 DEF IInv

\* A cancellation leaves the action of a live owner in place.
LEMMA CancelStep == ASSUME IInv, NEW p \in Procs, Cancel(p) PROVE IInv'
<1> DEFINE dead == record.pending # None /\ ~OwnerLive(p)
           base == IF dead THEN Abandoned(record) ELSE record
<1>1. /\ p \in up /\ calls' \in 0..MaxCalls
      /\ fresh' = {} /\ approving' = [q \in Procs |-> None]
      /\ record' = [base EXCEPT !.status = "cancelled", !.outcome = "error", !.notice = FALSE]
      /\ abort' \subseteq abort \union {p} /\ abort' \subseteq {q \in Procs : pc[q] # "off"}
      /\ cancelling' = cancelling \union {p}
      /\ UNCHANGED <<task, source, pc, todo, result, taskFresh, owns, up, upsets>>
  BY DEF Cancel, Called, Put, Aborted, IInv, TypeOK, Drivers
<1>2. base \in Record
  BY AbandonedFacts DEF IInv, TypeOK
<1> HIDE DEF base
<1>3. record' \in Record /\ record'.status = "cancelled"
  BY <1>1, <1>2 DEF Record, Statuses, Outcomes
<1>4. ASSUME NEW q \in Procs, pc[q] \in Doing PROVE base = record
  <2>1. ~Resumable(p)
    BY <1>1, <1>4, NoEffect
  <2> QED BY <2>1 DEF Resumable, base
<1>5. ASSUME NEW q \in Procs, pc[q] \in Doing
      PROVE  /\ record'.pending = record.pending /\ record'.approval = record.approval
             /\ record'.requirements = record.requirements /\ record'.plan = record.plan
             /\ record'.high = record.high
  BY <1>1, <1>4, <1>5 DEF IInv, TypeOK, Record
<1>6. TypeOK'
  BY <1>1, <1>3 DEF IInv, TypeOK, Drivers
<1>7. Planning'
  BY <1>1 DEF IInv, TypeOK, Planning, Doing, Ready
<1>8. Current' /\ Underway' /\ Ending'
  BY <1>1, <1>3 DEF IInv, TypeOK, Current, Underway, Ending
<1>9. OnlyOwnerRuns' /\ ApprovedWork' /\ VerifiedTogether'
  BY <1>1, <1>3, <1>5
     DEF IInv, OnlyOwnerRuns, ApprovedWork, VerifiedTogether, Approves, Owned, Doing
<1> QED BY <1>6, <1>7, <1>8, <1>9 DEF IInv

\* The task of a cancelled workflow is cancelled, unless it was verified.
LEMMA FinishCancelStep == ASSUME IInv, NEW p \in Procs, FinishCancel(p) PROVE IInv'
<1>1. /\ cancelling' = cancelling \ {p}
      /\ \/ task.state # "verified" /\ task' = [task EXCEPT !.state = "cancelled"]
         \/ UNCHANGED task
      /\ taskFresh' \in {taskFresh, {}}
      /\ UNCHANGED <<record, fresh, approving, source, pc, todo, result, owns, abort, up, calls, upsets>>
  BY DEF FinishCancel, Keep
<1>2. /\ task' \in Task /\ task'.intent = task.intent
      /\ task.state = "verified" => task'.state = "verified"
  BY <1>1 DEF IInv, TypeOK, Task
<1> USE <1>1, <1>2
<1>3. TypeOK'
  BY DEF IInv, TypeOK, Drivers
<1>4. Planning' /\ Current' /\ Underway' /\ Ending'
  BY DEF IInv, TypeOK, Planning, Current, Covered, Approves, Underway, Ending
<1>5. OnlyOwnerRuns' /\ ApprovedWork' /\ VerifiedTogether'
  BY DEF IInv, OnlyOwnerRuns, ApprovedWork, VerifiedTogether, Approves, Owned
<1> QED BY <1>3, <1>4, <1>5 DEF IInv

-----------------------------------------------------------------------------
(* Upsets *)

\* A shutdown sets a signal.
LEMMA ShutdownStep == ASSUME IInv, NEW p \in Procs, Shutdown(p) PROVE IInv'
<1>1. /\ pc[p] # "off" /\ abort' = abort \union {p}
      /\ upsets < MaxUpsets /\ upsets' = upsets + 1
      /\ UNCHANGED <<record, fresh, approving, task, source, pc, todo, result, taskFresh, owns,
                     cancelling, up, calls>>
  BY DEF Shutdown, Upset, Keep
<1> USE <1>1
<1>2. TypeOK'
  BY DEF IInv, TypeOK, Drivers
<1>3. Planning' /\ Current' /\ Underway' /\ Ending'
  BY DEF IInv, TypeOK, Task, Intents, Planning, Current, Covered, Approves, Underway, Ending
<1>4. OnlyOwnerRuns' /\ ApprovedWork' /\ VerifiedTogether'
  BY DEF IInv, OnlyOwnerRuns, ApprovedWork, VerifiedTogether, Approves, Owned
<1> QED BY <1>2, <1>3, <1>4 DEF IInv

\* What dies with a process is only what was its own.
LEMMA CrashStep == ASSUME IInv, NEW p \in Procs, Crash(p) PROVE IInv'
<1>1. /\ upsets < MaxUpsets /\ upsets' = upsets + 1
      /\ up' = up \ {p} /\ pc' = [pc EXCEPT ![p] = "off"]
      /\ todo' = [todo EXCEPT ![p] = None] /\ result' = [result EXCEPT ![p] = "none"]
      /\ fresh' = fresh \ {p} /\ taskFresh' = taskFresh \ {p}
      /\ approving' = [approving EXCEPT ![p] = None]
      /\ owns' = owns \ {p} /\ abort' = abort \ {p} /\ cancelling' = cancelling \ {p}
      /\ UNCHANGED <<record, task, source, calls>>
  BY DEF Crash, Upset, Goto, Forget
<1> USE <1>1
<1>2. TypeOK'
  BY DEF IInv, TypeOK, Phases, Outcomes, Drivers
<1>3. Planning'
  BY DEF IInv, TypeOK, Planning, Doing, Ready
<1>4. Current'
  BY DEF IInv, TypeOK, Current, Covered, Approves, Knowing, Ready
<1>5. Underway' /\ Ending'
  BY DEF IInv, TypeOK, Task, Intents, Underway, Ending, Doing
<1>6. OnlyOwnerRuns' /\ ApprovedWork' /\ VerifiedTogether'
  BY DEF IInv, TypeOK, OnlyOwnerRuns, ApprovedWork, VerifiedTogether, Approves, Owned
<1> QED BY <1>2, <1>3, <1>4, <1>5, <1>6 DEF IInv

\* What others do to the source and the task spares verified tasks, and the
\* workflow is at most told.
LEMMA OthersStep ==
  ASSUME IInv, Edit \/ Revise \/ Reconcile \/ Halt
  PROVE  IInv'
<1>1. /\ upsets < MaxUpsets /\ upsets' = upsets + 1
      /\ UNCHANGED <<pc, todo, result, owns, abort, cancelling, up, calls>>
      /\ record' = record /\ source' \in Sources
      /\ fresh' \in {fresh, {}} /\ approving' \in {approving, [q \in Procs |-> None]}
      /\ taskFresh' \in {taskFresh, {}}
  BY DEF Edit, Revise, Reconcile, Halt, Others, Upset, Keep, Put, IInv, TypeOK
<1>2. /\ task' \in Task /\ task'.intent <= upsets'
      /\ task.state = "verified" => task'.state = "verified"
  <2>1. /\ task \in Task /\ task.intent \in Nat /\ task.intent <= upsets
        /\ upsets \in Nat /\ MaxUpsets \in Nat /\ task.intent + 1 \in Intents
    BY <1>1 DEF IInv, TypeOK, Ending, Task, Intents
  <2>2. CASE Edit
    BY <1>1, <2>1, <2>2 DEF Edit
  <2>3. CASE Revise
    <3> DEFINE state == IF task.state = "completed" THEN "idle" ELSE task.state
    <3>1. /\ task.state # "verified"
          /\ task' = [task EXCEPT !.intent = task.intent + 1, !.proof = None, !.ours = FALSE,
                                  !.state = state]
      BY <2>3 DEF Revise
    <3>2. state \in {"idle", "running", "completed", "verified", "cancelled"}
      BY <2>1 DEF Task
    <3> HIDE DEF state
    <3>3. task' \in Task /\ task'.intent = task.intent + 1
      BY <2>1, <3>1, <3>2 DEF Task
    <3> QED BY <1>1, <2>1, <3>1, <3>3
  <2>4. CASE Reconcile
    BY <1>1, <2>1, <2>4 DEF Reconcile, Task
  <2>5. CASE Halt
    BY <1>1, <2>1, <2>5 DEF Halt, Task
  <2> QED BY <2>2, <2>3, <2>4, <2>5
<1> USE <1>1, <1>2
<1>3. TypeOK'
  BY DEF IInv, TypeOK, Drivers
<1>4. Planning' /\ Current' /\ Underway' /\ Ending'
  BY DEF IInv, TypeOK, Planning, Current, Covered, Approves, Underway, Ending
<1>5. OnlyOwnerRuns' /\ ApprovedWork' /\ VerifiedTogether'
  BY DEF IInv, OnlyOwnerRuns, ApprovedWork, VerifiedTogether, Approves, Owned
<1> QED BY <1>3, <1>4, <1>5 DEF IInv

-----------------------------------------------------------------------------
(* Theorems *)

\* The invariant is about the variables only.
LEMMA StutterStep == ASSUME IInv, UNCHANGED vars PROVE IInv'
<1> USE DEF vars
<1>1. TypeOK' /\ Planning' /\ Current'
  BY DEF IInv, TypeOK, Drivers, Planning, Current, Covered, Approves
<1>2. Underway' /\ Ending'
  BY DEF IInv, Underway, Ending
<1>3. OnlyOwnerRuns' /\ ApprovedWork' /\ VerifiedTogether'
  BY DEF IInv, OnlyOwnerRuns, ApprovedWork, VerifiedTogether, Approves, Owned
<1> QED BY <1>1, <1>2, <1>3 DEF IInv

\* Every step keeps the invariant.
LEMMA NextStep == IInv /\ [Next]_vars => IInv'
  BY DriveStep, RunStep, BeginApproveStep, FinishApproveStep, ResumeStep, CancelStep,
     FinishCancelStep, ShutdownStep, CrashStep, OthersStep, StutterStep DEF Next

\* The whole invariant holds in every reachable state, whatever the constants.
THEOREM Invariance == Spec => []IInv
  BY InitIInv, NextStep, PTL DEF Spec

\* Every variable keeps its type, repairs stay within their budget, and what
\* drivers know, own and are told belongs to a driver of a process that is up.
THEOREM TypeCorrect == Spec => []TypeOK
  BY Invariance, PTL DEF IInv

\* Between its journal and its result an effect is the one the journal names, with
\* any number of processes that drive, resume, cancel and die: effects never overlap.
THEOREM OneEffectAtATime == Spec => []OnlyOwnerRuns
  BY Invariance, PTL DEF IInv

\* No implementation runs without the approval its route demands, for the intent
\* that the driver read.
THEOREM WorkIsApproved == Spec => []ApprovedWork
  BY Invariance, PTL DEF IInv

\* The workflow says verified only of a verified task.
THEOREM VerifiedIsVerified == Spec => []VerifiedTogether
  BY Invariance, PTL DEF IInv

\* Of a cancelled workflow a driver changes at most that its own action is over.
LEMMA CancelledStep ==
  ASSUME IInv, record.status = "cancelled", NEW p \in Procs, Drive(p)
  PROVE  record' \in {record, Abandoned(record)}
<1>1. p \in fresh => pc[p] \notin Knowing
  BY DEF IInv, Current
<1> QED
  BY <1>1 DEF Drive, Read, Mark, PrepareInvoke, PrepareReview, PrepareVerify, PrepareComplete,
              Own,
              Journal, Invoke, Verify, Review, CompleteTask, VerifyTask, Commit, Accepts, Throw,
              Caught, Excuse, Settle, Leave, Keep, Put, Knowing, Ready

\* A cancelled workflow is left alone by every driver, late results included.
THEOREM CancelledIsLeftAlone == Spec => CancelledIsInert
<1>1. IInv /\ [Next]_vars
        => [record.status = "cancelled" /\ (\E p \in Procs : Drive(p))
              => record' \in {record, Abandoned(record)}]_vars
  BY CancelledStep
<1> QED BY <1>1, Invariance, PTL DEF Spec, CancelledIsInert
=============================================================================
