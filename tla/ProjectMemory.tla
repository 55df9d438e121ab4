---------------------------- MODULE ProjectMemory ----------------------------
(***************************************************************************)
(* Project memory: src/src/project-memory (service.ts, contracts.ts,       *)
(* store.ts), the links of task records to it (inspectTaskRecord in        *)
(* task-state/service.ts), and an export carried between projects.         *)
(*                                                                         *)
(* A mutation reads, changes, validates and writes the store of a project  *)
(* under the task-state lock: one step.  Everything else reads without it. *)
(* What a caller read, and what a record links to, is known later by the   *)
(* id and the revision alone.                                              *)
(*                                                                         *)
(* The text of a memory stands for its title, kind, tags and sources too,  *)
(* and the project where it was added or imported, for its provenance and  *)
(* times.                                                                  *)
(* What a search selects is any choice.                                    *)
(***************************************************************************)
EXTENDS Naturals, FiniteSets

CONSTANTS
  Projects,
  Wordings,
  Scrubbed,          \* the text of a deleted memory
  Nothing,           \* nothing read yet, no export
  MaxMemoryIds,      \* bound: memory ids ever drawn
  MaxMemoryRevision  \* bound: revisions by updates

ASSUME MemoryAssumption ==
  /\ {MaxMemoryIds, MaxMemoryRevision} \subseteq Nat
  /\ Scrubbed \notin Wordings

VARIABLES
  memories,  \* of each project
  drawn,     \* how many ids were drawn
  seen,      \* a memory of a project as a caller read it, or a record links to it
  export,    \* the memories in an export file
  unseen,    \* history: what was replaced in place of what had been read
  missed     \* history: what an import of an export left out

memoryVars == <<memories, drawn, seen, export, unseen, missed>>

MemoryInit ==
  /\ memories = [p \in Projects |-> {}] /\ drawn = 0
  /\ seen = Nothing /\ export = Nothing
  /\ unseen = {} /\ missed = {}

-----------------------------------------------------------------------------
ActiveMemories(p) == {m \in memories[p] : ~m.deleted}
IdsOf(S)  == {m.id : m \in S}

\* validateProjectMemory: no two memories have one id.
ValidMemory(S) == \A m, n \in S : m.id = n.id => m = n

\* mutate, writeProjectMemory.
Stores(p, S) == ValidMemory(S) /\ memories' = [memories EXCEPT ![p] = S]

\* addProjectMemory.
AddMemory(p) ==
  /\ drawn < MaxMemoryIds
  /\ \E t \in Wordings :
       Stores(p, memories[p] \union
                   {[id |-> drawn + 1, revision |-> 1, text |-> t, deleted |-> FALSE, from |-> p]})
  /\ drawn' = drawn + 1
  /\ UNCHANGED <<seen, export, unseen, missed>>

\* updateProjectMemory.
Revised(m, t) == [m EXCEPT !.text = t, !.revision = @ + 1]

\* deleteProjectMemory: the content is overwritten, the entry stays.
Deleted(m) == [m EXCEPT !.text = Scrubbed, !.deleted = TRUE, !.revision = @ + 1]

\* expectedRevision, of a caller that read the memory.
Expects(p, m) ==
  /\ seen # Nothing /\ seen.project = p
  /\ seen.memory.id = m.id /\ seen.memory.revision = m.revision

\* An active memory is replaced, with or without a revision that the caller expects.
Replaces(p, m, n) ==
  /\ Stores(p, (memories[p] \ {m}) \union {n})
  /\ \/ UNCHANGED unseen
     \/ Expects(p, m) /\ unseen' = unseen \union ({m} \ {seen.memory})
  /\ UNCHANGED <<drawn, seen, export, missed>>

UpdateMemory(p) ==
  \E m \in ActiveMemories(p), t \in Wordings :
    m.revision < MaxMemoryRevision /\ Replaces(p, m, Revised(m, t))
DeleteMemory(p) == \E m \in ActiveMemories(p) : Replaces(p, m, Deleted(m))

ReadsOne(p, S) ==
  /\ \E m \in S : seen' = [project |-> p, memory |-> m]
  /\ UNCHANGED <<memories, drawn, export, unseen, missed>>

\* listProjectMemory and inspectProjectMemory, also of a deleted memory; searchProjectMemory.
ReadMemory(p)   == ReadsOne(p, memories[p])
SearchMemory(p) == ReadsOne(p, ActiveMemories(p))

\* inspectTaskRecord: a link is current where the revision is.
LinkStatus(link) ==
  LET found == {m \in memories[link.project] : m.id = link.memory.id}
  IN  IF found = {} THEN "missing"
      ELSE IF \E m \in found : m.revision = link.memory.revision THEN "current" ELSE "stale"

ExportMemory(p) ==
  /\ export' = ActiveMemories(p)
  /\ UNCHANGED <<memories, drawn, seen, unseen, missed>>

\* importProjectMemory: what is there as it is in the export is skipped, and what has the id of
\* another memory gets a new one.
KnownIds(p)    == IdsOf(memories[p])
Brought(p)     == export \ memories[p]
Conflicting(p) == {m \in Brought(p) : m.id \in KnownIds(p)}
MissingFrom(S) == {m \in export : \A n \in S : n.text = m.text => n.deleted}
Imported(p, m, n) == [m EXCEPT !.id = n, !.revision = 1, !.deleted = FALSE, !.from = p]

ImportMemory(p) ==
  /\ export # Nothing
  /\ LET news == (drawn + 1)..(drawn + Cardinality(Conflicting(p)))
     IN  /\ drawn + Cardinality(Conflicting(p)) <= MaxMemoryIds
         /\ \E fresh \in [Conflicting(p) -> news] :
              LET given(m) == IF m \in Conflicting(p) THEN fresh[m] ELSE m.id
                  S == memories[p] \union {Imported(p, m, given(m)) : m \in Brought(p)}
              IN  /\ \A m, n \in Conflicting(p) : fresh[m] = fresh[n] => m = n
                  /\ IF ValidMemory(S) THEN Stores(p, S) ELSE UNCHANGED memories
                  /\ missed' = missed \union IF ValidMemory(S) THEN MissingFrom(S)
                                                             ELSE MissingFrom(memories[p])
  /\ drawn' = drawn + Cardinality(Conflicting(p))
  /\ UNCHANGED <<seen, export, unseen>>

MemoryNext ==
  \E p \in Projects :
    \/ AddMemory(p) \/ UpdateMemory(p) \/ DeleteMemory(p) \/ ReadMemory(p)
    \/ SearchMemory(p) \/ ExportMemory(p) \/ ImportMemory(p)

MemorySpec == MemoryInit /\ [][MemoryNext]_memoryVars

-----------------------------------------------------------------------------
Memories == [id : Nat, revision : Nat, text : Wordings \union {Scrubbed}, deleted : BOOLEAN,
             from : Projects]

MemoryTypeOK ==
  /\ memories \in [Projects -> SUBSET Memories] /\ drawn \in Nat
  /\ seen \in [project : Projects, memory : Memories] \union {Nothing}
  /\ export \in (SUBSET Memories) \union {Nothing}
  /\ unseen \subseteq Memories /\ missed \subseteq Memories

\* Who replaces a memory at the revision they read replaces what they read, and a link that is
\* shown as current is to the memory as it was linked (expectedRevision, memoryRevision).
SeenStands ==
  /\ unseen = {}
  /\ seen # Nothing /\ LinkStatus(seen) = "current" => seen.memory \in memories[seen.project]

\* What was deleted has no text left, and its id is never that of an active memory again, whatever
\* exports are imported later (deleteProjectMemory, importProjectMemory).
DeletionIsFinal ==
  [][\A p \in Projects : \A m \in memories[p] : m.deleted =>
        \A n \in memories'[p] : n.id = m.id => n.deleted /\ n.text = Scrubbed]_memoryVars

\* An import is not refused and leaves nothing out; neither it nor an addition changes or removes
\* what is there.
ImportsAdd ==
  /\ [](missed = {})
  /\ [][\A p \in Projects :
          /\ IdsOf(memories[p]) \subseteq IdsOf(memories'[p])
          /\ \/ IdsOf(memories'[p]) = IdsOf(memories[p])
             \/ memories[p] \subseteq memories'[p]]_memoryVars

MemoryHolds == []SeenStands /\ DeletionIsFinal /\ ImportsAdd
=============================================================================
