--------------------------- MODULE AcceptanceChecks ---------------------------
(***************************************************************************)
(* A check of the acceptance verifier, from its directory to its artifact: *)
(* executeOne of acceptance/service.ts with the fixture it starts, the     *)
(* request, browser or process that it runs, their timers, and the abort   *)
(* signal of the verification.                                             *)
(*                                                                         *)
(* An abort is an event: who starts to listen after it does not hear it.   *)
(* A fixture is gone when its run has settled (ProcessRunner).  What an    *)
(* application answers, and what the assertions make of it, is any choice; *)
(* a result is its outcome.                                                *)
(***************************************************************************)
EXTENDS Naturals

VARIABLES
  ordered,   \* the check under way, as declared
  stage,     \* where executeOne is
  aborted,   \* the signal of the verification
  fixture,   \* the process of the fixture
  halted,    \* it was told to stop
  port,      \* who listens on the port that was chosen for it
  overdue,   \* the time it has to get ready is over
  expired,   \* the timer of the check fired
  reason,    \* what cut the check short first
  result

checkVars ==
  <<ordered, stage, aborted, fixture, halted, port, overdue, expired, reason, result>>

\* Only what has a port has a fixture, and only a request follows redirects.
Declarations ==
  {d \in [type : {"cli", "http", "browser", "manual"}, fixture : BOOLEAN, follows : BOOLEAN] :
     (d.fixture => d.type \in {"http", "browser"}) /\ (d.follows => d.type = "http")}

Underway == {"launching", "checking", "capturing"}
Places   == {"idle", "made", "waiting", "asked", "leaving", "stopping", "ended"} \union Underway
Outcomes == {"none", "passed", "failed", "timed-out", "cancelled", "unsupported"}

ChecksInit ==
  /\ ordered = [type |-> "manual", fixture |-> FALSE, follows |-> FALSE]
  /\ stage = "idle" /\ aborted = FALSE
  /\ fixture = "absent" /\ halted = FALSE /\ port = "free" /\ overdue = FALSE
  /\ expired = FALSE /\ reason = "none" /\ result = "none"

-----------------------------------------------------------------------------
(* The fixture *)

\* verify goes on to a check only while it is not cancelled; executeOne makes its directory.
BeginCheck ==
  /\ stage = "idle" /\ stage' = "made"
  /\ ordered' \in Declarations /\ aborted' = FALSE
  /\ fixture' = "absent" /\ halted' = FALSE /\ port' = "free" /\ overdue' = FALSE
  /\ expired' = FALSE /\ reason' = "none" /\ result' = "none"

\* The check itself starts.  A process sees an abort of before; a request and a browser do not.
Launched ==
  /\ stage' = CASE ordered.type = "manual"  -> "stopping"
                [] ordered.type = "browser" -> "launching"
                [] OTHER                    -> "checking"
  /\ reason' = IF ordered.type = "cli" /\ aborted THEN "abort" ELSE "none"
  /\ result' = IF ordered.type = "manual" THEN "unsupported" ELSE "none"

StartPlain ==
  /\ stage = "made" /\ ~ordered.fixture
  /\ Launched
  /\ UNCHANGED <<ordered, aborted, fixture, halted, port, overdue, expired>>

\* startFixture, which looks for a free port first (availablePort).
PortConflict ==
  /\ stage = "made" /\ ordered.fixture
  /\ port' = "other" /\ result' = "failed" /\ stage' = "ended"
  /\ UNCHANGED <<ordered, aborted, fixture, halted, overdue, expired, reason>>

StartFixture ==
  /\ stage = "made" /\ ordered.fixture
  /\ fixture' = "starting" /\ stage' = "waiting"
  /\ UNCHANGED <<ordered, aborted, halted, port, overdue, expired, reason, result>>

\* The readiness of the fixture is asked for until its deadline or an abort.
AskReady ==
  /\ stage = "waiting" /\ ~overdue /\ ~aborted /\ stage' = "asked"
  /\ UNCHANGED <<ordered, aborted, fixture, halted, port, overdue, expired, reason, result>>

NotReady ==
  /\ stage = "asked" /\ stage' = "waiting"
  /\ UNCHANGED <<ordered, aborted, fixture, halted, port, overdue, expired, reason, result>>

\* Whoever has the port answers.
Ready ==
  /\ stage = "asked" /\ port # "free"
  /\ Launched
  /\ UNCHANGED <<ordered, aborted, fixture, halted, port, overdue, expired>>

DeadlinePasses ==
  /\ stage \in {"waiting", "asked"} /\ overdue' = TRUE
  /\ UNCHANGED <<ordered, stage, aborted, fixture, halted, port, expired, reason, result>>

FixtureLost ==
  /\ stage = "asked" /\ fixture = "gone"
  /\ halted' = TRUE /\ stage' = "ended"
  /\ result' = IF aborted THEN "cancelled" ELSE "failed"
  /\ UNCHANGED <<ordered, aborted, fixture, port, overdue, expired, reason>>

AbandonFixture ==
  /\ stage = "waiting" /\ (overdue \/ aborted)
  /\ halted' = TRUE /\ stage' = "leaving"
  /\ UNCHANGED <<ordered, aborted, fixture, port, overdue, expired, reason, result>>

FixtureAbandoned ==
  /\ stage = "leaving" /\ fixture = "gone"
  /\ result' = IF aborted THEN "cancelled" ELSE "timed-out"
  /\ stage' = "ended"
  /\ UNCHANGED <<ordered, aborted, fixture, halted, port, overdue, expired, reason>>

\* The process of the fixture, and another one on the same port.
FixtureMoves ==
  /\ \/ fixture = "starting" /\ port = "free" /\ fixture' = "serving" /\ port' = "fixture"
     \/ /\ fixture \in {"starting", "serving"} /\ fixture' = "exited"
        /\ port' = IF port = "fixture" THEN "free" ELSE port
     \/ fixture = "exited" /\ fixture' = "gone" /\ UNCHANGED port
     \/ fixture # "absent" /\ port = "free" /\ port' = "other" /\ UNCHANGED fixture
  /\ UNCHANGED <<ordered, stage, aborted, halted, overdue, expired, reason, result>>

-----------------------------------------------------------------------------
(* The check *)

CutBy(why) == IF reason = "none" THEN why ELSE reason

\* A browser that is still being launched is not there to be closed.
CutsShort(why) ==
  reason' = IF stage \in {"checking", "capturing"} THEN CutBy(why) ELSE reason

\* cancel of the verifier, or the signal of its caller.
Abort ==
  /\ stage # "idle" /\ ~aborted /\ aborted' = TRUE
  /\ halted' = (halted \/ (fixture # "absent" /\ stage # "ended"))
  /\ CutsShort("abort")
  /\ UNCHANGED <<ordered, stage, fixture, port, overdue, expired, result>>

Expire ==
  /\ stage \in Underway /\ ~expired /\ expired' = TRUE
  /\ CutsShort("timeout")
  /\ UNCHANGED <<ordered, stage, aborted, fixture, halted, port, overdue, result>>

\* The check has ended, and executeOne stops the fixture whatever it was.
Ends(type, with) ==
  /\ stage \in Underway /\ ordered.type = type
  /\ result' \in with
  /\ stage' = "stopping" /\ halted' = (halted \/ ordered.fixture)
  /\ UNCHANGED <<ordered, aborted, fixture, port, overdue, expired, reason>>

Answerable == ordered.fixture => port # "free"
CutOutcome == CASE reason = "timeout" -> "timed-out" [] reason = "abort" -> "cancelled"
                [] OTHER -> "failed"

\* processResult: refused, not spawned or over its output limit, cut short, or exited.
CliEnds ==
  Ends("cli", {"unsupported", "failed", CutOutcome}
                \union IF reason = "none" THEN {"passed"} ELSE {})

\* runHttp: an answer, which can be a redirect; no connection; or a response that is too large.
HttpEnds ==
  Ends("http", {"failed", CutOutcome}
                 \union IF reason = "none" /\ Answerable THEN {"passed"} ELSE {})

\* A redirect is followed once, with a time of its own.
FollowRedirect ==
  /\ stage = "checking" /\ ordered.follows /\ reason = "none" /\ Answerable
  /\ ordered' = [ordered EXCEPT !.follows = FALSE] /\ expired' = FALSE
  /\ UNCHANGED <<stage, aborted, fixture, halted, port, overdue, reason, result>>

\* runBrowser
BrowserOpens ==
  /\ stage = "launching" /\ stage' = "checking"
  /\ UNCHANGED <<ordered, aborted, fixture, halted, port, overdue, expired, reason, result>>

BrowserAsserts ==
  /\ stage = "checking" /\ ordered.type = "browser" /\ reason = "none" /\ Answerable
  /\ stage' = "capturing"
  /\ UNCHANGED <<ordered, aborted, fixture, halted, port, overdue, expired, reason, result>>

BrowserFails ==
  Ends("browser", IF aborted THEN {"cancelled"} ELSE IF expired THEN {"timed-out"}
                  ELSE {"failed", "unsupported"})

BrowserEnds == stage = "capturing" /\ Ends("browser", {"passed", "failed"})

\* The fixture has stopped.
FixtureStopped ==
  /\ stage = "stopping" /\ fixture \in {"absent", "gone"} /\ stage' = "ended"
  /\ UNCHANGED <<ordered, aborted, fixture, halted, port, overdue, expired, reason, result>>

\* The artifact is written, of a failure where the source has moved.
StoreResult ==
  /\ stage = "ended" /\ stage' = "idle"
  /\ result' \in {result} \union IF result = "passed" THEN {"failed"} ELSE {}
  /\ UNCHANGED <<ordered, aborted, fixture, halted, port, overdue, expired, reason>>

ChecksNext ==
  \/ BeginCheck \/ StartPlain \/ PortConflict \/ StartFixture \/ AskReady \/ NotReady \/ Ready
  \/ DeadlinePasses \/ FixtureLost \/ AbandonFixture \/ FixtureAbandoned \/ FixtureMoves
  \/ Abort \/ Expire \/ CliEnds \/ HttpEnds \/ FollowRedirect
  \/ BrowserOpens \/ BrowserAsserts \/ BrowserFails \/ BrowserEnds
  \/ FixtureStopped \/ StoreResult

ChecksSpec == ChecksInit /\ [][ChecksNext]_checkVars

-----------------------------------------------------------------------------
ChecksTypeOK ==
  /\ ordered \in Declarations /\ stage \in Places /\ result \in Outcomes
  /\ fixture \in {"absent", "starting", "serving", "exited", "gone"}
  /\ port \in {"free", "fixture", "other"} /\ reason \in {"none", "timeout", "abort"}
  /\ {aborted, halted, overdue, expired} \subseteq BOOLEAN

\* When its result is there nothing that a check launched is running any more, and until the
\* check has ended its fixture is stopped only by an abort (startFixture, executeOne).
FixtureKept ==
  /\ stage \in {"idle", "ended"} => fixture \in {"absent", "gone"}
  /\ stage \in Underway /\ halted => aborted

\* A result says how the check ended: cancelled, when it was aborted; timed out, when a time was
\* over; passed, within its time unless it is a browser's; and a process that was aborted while it
\* ran does not pass (processResult, runHttp, runBrowser).
EndedAsTold ==
  /\ result = "cancelled" => aborted
  /\ result = "timed-out" => overdue \/ expired
  /\ result = "passed" /\ ordered.type # "browser" => reason = "none" /\ ~expired
  /\ stage = "checking" /\ ordered.type = "cli" /\ aborted => reason # "none"

ChecksHold == FixtureKept /\ EndedAsTold
=============================================================================
