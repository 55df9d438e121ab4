------------------------------ MODULE McpHealth ------------------------------
(***************************************************************************)
(* The health check of a local MCP server (src/integrations/mcp/health.ts):*)
(* initialise, announce, then list the tools page by page.  The server     *)
(* answers what it likes, late or not at all; one deadline covers it all.  *)
(***************************************************************************)
EXTENDS Naturals, FiniteSets

CONSTANTS Tools,     \* tool names
          Cursors,   \* page cursors
          LastPage,  \* no next cursor
          MaxPages,  \* pages a check asks for
          MaxTools   \* tools a check accepts

ASSUME HealthAssumption ==
  /\ LastPage \notin Cursors /\ IsFiniteSet(Tools)
  /\ MaxPages \in Nat \ {0} /\ MaxTools \in Nat

VARIABLES check,   \* the request under way and what was learned
          expired  \* the deadline or the caller's signal has fired

healthVars == <<check, expired>>

HealthInit ==
  /\ check = [at |-> "initialize", connected |-> FALSE, session |-> "none", pages |-> 0,
              tools |-> {}, used |-> {}, cursor |-> LastPage, result |-> "none"]
  /\ expired = FALSE

Expire == ~expired /\ check.at # "released" /\ expired' = TRUE /\ UNCHANGED check

End(result) == [check EXCEPT !.at = "release", !.result = result]
Fail == check' = End("failed")

(* An aborted request fails; otherwise the answer is good, or it is one of *)
(* the refused ones: a redirect, a wrong type, too many bytes, malformed.  *)
Initialize ==
  /\ check.at = "initialize"
  /\ IF expired THEN Fail
     ELSE \/ Fail
          \/ \E session \in {"none", "open"} :
               check' = [check EXCEPT !.at = "announce", !.session = session]
  /\ UNCHANGED expired

AnnounceClient ==
  /\ check.at = "announce"
  /\ IF expired THEN Fail
     ELSE \/ Fail
          \/ check' = [check EXCEPT !.at = "list", !.connected = TRUE]
          \/ check' = [End("unsupported") EXCEPT !.connected = TRUE]
  /\ UNCHANGED expired

(* A page repeats no tool and its cursor is new; after MaxPages the check  *)
(* gives up although the server has more.                                  *)
NoRepeats(page, next) ==
  page \intersect check.tools = {} /\ next \notin check.used

PagesEnd(next) == next = LastPage

Listed(page, next) ==
  LET tools == check.tools \union page
  IN IF Cardinality(tools) > MaxTools THEN End("failed")
     ELSE IF PagesEnd(next)
     THEN [End("discovered") EXCEPT !.tools = tools, !.cursor = next]
     ELSE IF check.pages + 1 = MaxPages THEN [End("failed") EXCEPT !.tools = tools, !.cursor = next]
     ELSE [check EXCEPT !.pages = @ + 1, !.tools = tools, !.used = @ \union {next},
                        !.cursor = next]

ListTools ==
  /\ check.at = "list"
  /\ IF expired THEN Fail
     ELSE \/ Fail
          \/ \E page \in SUBSET Tools, next \in Cursors \union {LastPage} :
               check' = IF NoRepeats(page, next) THEN Listed(page, next) ELSE End("failed")
  /\ UNCHANGED expired

(* The session is released, best effort, unless the deadline has passed. *)
Release ==
  /\ check.at = "release"
  /\ check' = [check EXCEPT !.at = "released", !.session = IF expired THEN @ ELSE "none"]
  /\ UNCHANGED expired

HealthNext == Expire \/ Initialize \/ AnnounceClient \/ ListTools \/ Release

HealthFairness == WF_healthVars(Initialize \/ AnnounceClient \/ ListTools \/ Release)
HealthSpec == HealthInit /\ [][HealthNext]_healthVars /\ HealthFairness

-----------------------------------------------------------------------------
HealthTypeOK ==
  /\ check.tools \subseteq Tools /\ check.used \subseteq Cursors
  /\ check.pages \in 0..MaxPages
  /\ check.result \in {"none", "failed", "unsupported", "discovered"}

(* A check that reports discovered tools has followed every cursor the     *)
(* server handed out, within the limits, on an initialised connection; and *)
(* it never asks for more pages than its limit (checkLocalMcpHealth).      *)
DiscoveryIsWhole ==
  /\ check.pages < MaxPages
  /\ check.result = "discovered" => /\ check.connected
                                    /\ check.cursor = LastPage
                                    /\ Cardinality(check.tools) <= MaxTools

=============================================================================
