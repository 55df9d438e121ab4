------------------------------ MODULE Decisions ------------------------------
(***************************************************************************)
(* The decision a user takes on a finished specification or on a result:   *)
(* spec-decision-service.ts and result-decision-service.ts, their          *)
(* contracts and stores.                                                   *)
(*                                                                         *)
(* A call is a locked read-modify-write (upsert...Decision).  Its caller   *)
(* read the record earlier, and does not always learn that its call was    *)
(* committed: it may call again with the same mutation ID, or, by mistake, *)
(* use the ID of an earlier call for another request.  A digest stands for *)
(* the plan or the reviewed snapshot, a text for the rest of what the user *)
(* is shown (summary, references, verification results, remaining gaps).   *)
(***************************************************************************)
EXTENDS Naturals

CONSTANTS
  Agent, User,  \* the caller that presents and builds, and the one that decides
  Digests, Statements,
  NoDecision,   \* nothing on record, nothing seen, no call
  MaxCalls      \* bound: mutation IDs

Unused == NoDecision   \* in place of the text of a request without one

DecisionRequests == [op : {"present", "build", "approve", "notes", "defer"}, id : Nat, digest : Digests,
             text : Statements \union {Unused}, expected : Nat]
DecisionRecords  == [revision : Nat, status : {"pending", "approved", "changes-requested"}, digest : Digests,
             text : Statements \union {Unused}, approval : Statements \union {NoDecision},
             started : BOOLEAN, events : SUBSET DecisionRequests]

ASSUME DecisionsAssumption == MaxCalls \in Nat /\ NoDecision \notin DecisionRecords

VARIABLES
  kind,         \* which of the two services
  decision,     \* the record of the task
  call,         \* each caller's request, and the record it had read
  issued,       \* mutation IDs in use: 1..issued
  accepted,     \* history: the requests that were answered without an error
  approvedView  \* history: what the user who approved had read

decisionVars == <<kind, decision, call, issued, accepted, approvedView>>

Askers     == {Agent, User}
Offered(c) == IF c = User THEN {"approve", "notes", "defer"}
              ELSE IF kind = "spec" THEN {"present", "build"} ELSE {"present"}
Statuses   == IF kind = "spec" THEN {"pending", "approved"}
              ELSE {"pending", "approved", "changes-requested"}

DecisionsInit ==
  /\ kind \in {"spec", "result"}
  /\ decision = NoDecision
  /\ call = [c \in Askers |-> NoDecision]
  /\ issued = 0 /\ accepted = {} /\ approvedView = NoDecision

-----------------------------------------------------------------------------
(* What the services do with a request *)

Exists == decision # NoDecision
HasEvent(q)  == Exists /\ q \in decision.events
Conflicts(q) == Exists /\ \E e \in decision.events : e.id = q.id /\ e # q

\* requireCurrentRevision.  (The variant compares the digest only.)
AnyRevision(q) == TRUE
CurrentRevision(q) == q.expected = decision.revision

\* recordSeenEvent: nothing changes, but the mutation ID is on the ledger.
SeenEvent(q) == [decision EXCEPT !.events = @ \union {q}]

\* A change has the next revision.
Changed(q) == [decision EXCEPT !.events = @ \union {q}, !.revision = @ + 1]

FirstPresented(q) ==
  [revision |-> 1, status |-> "pending", digest |-> q.digest, text |-> q.text, approval |-> NoDecision,
   started |-> FALSE, events |-> {q}]

Presented(q) ==
  IF ~Exists THEN FirstPresented(q)
  ELSE IF decision.digest # q.digest
  THEN [Changed(q) EXCEPT !.status = "pending", !.digest = q.digest, !.text = q.text,
                          !.approval = NoDecision, !.started = FALSE]
  ELSE IF decision.status = "approved" \/ decision.text = q.text THEN SeenEvent(q)
  ELSE [Changed(q) EXCEPT !.text = q.text]

Approvable(q) == Exists /\ CurrentRevision(q) /\ decision.digest = q.digest

Approved(q) ==
  IF decision.approval = q.text THEN SeenEvent(q)
  ELSE [Changed(q) EXCEPT !.status = "approved", !.approval = q.text, !.started = FALSE]

\* Notes on a plan come with the revised plan; notes on a result are about the one on record.
Notable(q) == Exists /\ CurrentRevision(q) /\ (kind = "result" => decision.digest = q.digest)

Noted(q) ==
  [Changed(q) EXCEPT !.status = IF kind = "spec" THEN "pending" ELSE "changes-requested",
                     !.approval = NoDecision, !.digest = q.digest, !.started = FALSE]

Deferrable(q) == Exists /\ CurrentRevision(q)

\* markSpecBuildStarted: a started build is answered before the revision is compared.
Startable(q) == Exists /\ decision.status = "approved" /\ (decision.started \/ CurrentRevision(q))
Started(q)   == IF decision.started THEN SeenEvent(q) ELSE [Changed(q) EXCEPT !.started = TRUE]

Permitted(q) ==
  \/ q.op = "present"
  \/ q.op = "approve" /\ Approvable(q)
  \/ q.op = "notes" /\ Notable(q)
  \/ q.op = "defer" /\ Deferrable(q)
  \/ q.op = "build" /\ Startable(q)

Decided(q) == CASE q.op = "present" -> Presented(q)
                [] q.op = "approve" -> Approved(q)
                [] q.op = "notes"   -> Noted(q)
                [] q.op = "defer"   -> Changed(q)
                [] q.op = "build"   -> Started(q)

\* assertSpecDecisionRecord, assertResultDecisionRecord.
ValidDecision(r) ==
  /\ r.status \in Statuses
  /\ (r.status = "approved") <=> (r.approval # NoDecision)
  /\ r.started => r.status = "approved"
  /\ \A e, f \in r.events : e.id = f.id => e = f

-----------------------------------------------------------------------------
(* The askers. *)

\* A caller reads the record and prepares a call; the ID is new, or one it has used before.
Prepare(c) ==
  /\ call[c] = NoDecision
  /\ \E op \in Offered(c), id \in 1..MaxCalls, digest \in Digests,
        text \in Statements \union {Unused} :
       /\ id <= issued + 1
       /\ issued' = IF id > issued THEN id ELSE issued
       /\ op \notin {"present", "notes"} => Exists /\ digest = decision.digest
       /\ op \in {"defer", "build", "notes"} <=> text = Unused
       /\ call' = [call EXCEPT ![c] =
            [request |-> [op |-> op, id |-> id, digest |-> digest, text |-> text,
                          expected |-> IF Exists /\ op # "present" THEN decision.revision ELSE 1],
             view |-> IF Exists THEN [digest |-> decision.digest, text |-> decision.text]
                      ELSE NoDecision]]
  /\ UNCHANGED <<kind, decision, accepted, approvedView>>

\* The call is processed; the caller keeps it, for it may not have had the answer.
Deliver(c) ==
  /\ call[c] # NoDecision
  /\ LET q == call[c].request IN
       /\ ~Conflicts(q)
       /\ HasEvent(q) \/ (Permitted(q) /\ ValidDecision(Decided(q)))
       /\ decision' = IF HasEvent(q) THEN decision ELSE Decided(q)
       /\ accepted' = accepted \union {q}
       /\ approvedView' = IF q.op = "approve" /\ ~HasEvent(q) THEN call[c].view ELSE approvedView
  /\ UNCHANGED <<kind, call, issued>>

GiveUp(c) ==
  /\ call[c] # NoDecision /\ call' = [call EXCEPT ![c] = NoDecision]
  /\ UNCHANGED <<kind, decision, issued, accepted, approvedView>>

DecisionsNext == \E c \in Askers : Prepare(c) \/ Deliver(c) \/ GiveUp(c)

DecisionsSpec == DecisionsInit /\ [][DecisionsNext]_decisionVars

-----------------------------------------------------------------------------
DecisionsTypeOK ==
  /\ Exists => decision.revision \in 1..(MaxCalls + 1) /\ ValidDecision(decision)
  /\ issued \in 0..MaxCalls

\* An approval in force was given by somebody who had read the very plan or result, with the
\* verification results and gaps, that is on record, although the agent keeps presenting.
ApprovedAsSeen ==
  Exists /\ decision.status = "approved"
    => approvedView = [digest |-> decision.digest, text |-> decision.text]

\* A mutation ID stands for one request: whatever was answered under it, also a call that changed
\* nothing, the same ID with another input is never answered.
OneRequestPerId == \A q, p \in accepted : q.id = p.id => q = p

\* What a reviewer decided stays bound to what he saw and to the one request he made of it
\* (approveResultDecision, the mutation IDs of a decision).
DecisionsStand == ApprovedAsSeen /\ OneRequestPerId
=============================================================================
