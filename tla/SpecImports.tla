----------------------------- MODULE SpecImports -----------------------------
(***************************************************************************)
(* Registration of previewed specification entries into task state         *)
(* (src/spec-imports/registration-service.ts).  A registration commits in  *)
(* two stores, one after the other: the task store receives a task and an  *)
(* imported record, then the association store receives which record       *)
(* stands for which entry.  The process may stop between the writes, an    *)
(* artifact may be edited at any time, and a person may supersede an       *)
(* imported record or detach an association.                               *)
(*                                                                         *)
(* `artifact' maps each entry to the digest of its primary artifact, or to *)
(* Absent.  A preview is the whole of `artifact': its manifest digest      *)
(* covers every entry.                                                     *)
(***************************************************************************)
EXTENDS Naturals, Sequences, FiniteSets

CONSTANTS Entries,           \* entries an adapter can find
          Unstorable,        \* those whose id the association store refuses
          Contents,          \* digests of a primary artifact
          Absent,            \* an entry that discovery does not find
          MaxRegistrations,  \* the limit of the association store
          MaxTasks,          \* bound: tasks the model creates
          MaxEvents          \* bound: edits, crashes and decisions of a person

ASSUME SpecImportsAssumption ==
  /\ Unstorable \subseteq Entries
  /\ Absent \notin Contents
  /\ MaxRegistrations \in Nat /\ MaxTasks \in Nat /\ MaxEvents \in Nat

VARIABLES artifact,      \* what the files hold now
          previewed,     \* what the caller has reviewed
          tasks,         \* tasks created by registrations
          imports,       \* imported records, oldest first
          associations,  \* registrations-v1.json
          registering,   \* the registration in progress, under the project lock
          events

specImportVars == <<artifact, previewed, tasks, imports, associations,
                    registering, events>>

NotRegistering == [step |-> "none"]

(* Mutant of LiveImports: only the association store is asked whether an
   entry is known. *)
IgnoresOrphans(e) == {}

(* findLiveImportRecord: the records of the entry nobody superseded. *)
LiveImports(e) ==
  {i \in DOMAIN imports : imports[i].entry = e /\ ~imports[i].superseded}

(* The association of the entry that is not detached. *)
Registered(e) ==
  {a \in DOMAIN associations :
     associations[a].entry = e /\ associations[a].status = "registered"}

(* validateRegistration: an id of more than 128 characters is refused, after
   the task store has committed. *)
Storable(registration) == registration.entry \notin Unstorable

SpecImportsInit ==
  /\ artifact \in [Entries -> Contents]
  /\ previewed = [e \in Entries |-> Absent]
  /\ tasks = 0
  /\ imports = <<>>
  /\ associations = <<>>
  /\ registering = NotRegistering
  /\ events = 0

-----------------------------------------------------------------------------
(* previewSpecImport reads everything and writes nothing. *)
PreviewSpecImport ==
  /\ registering.step = "none"
  /\ previewed # artifact
  /\ previewed' = artifact
  /\ UNCHANGED <<artifact, tasks, imports, associations, registering, events>>

(* The checks of registerSpecImport against a freshly built manifest, and
   the choice of what it has to do. *)
RegisterSpecImport(e) ==
  /\ registering.step = "none"
  /\ previewed = artifact
  /\ artifact[e] # Absent
  /\ \/ \E a \in Registered(e) :
          /\ associations[a].digest # artifact[e]
          /\ registering' = [step |-> "revise", entry |-> e,
                             digest |-> artifact[e], record |-> associations[a].record]
     \/ /\ Registered(e) = {}
        /\ Len(associations) < MaxRegistrations
        /\ registering' =
             IF LiveImports(e) = {}
             THEN [step |-> "create", entry |-> e, digest |-> artifact[e], record |-> 0]
             ELSE [step |-> "associate", entry |-> e, digest |-> artifact[e],
                   record |-> CHOOSE i \in LiveImports(e) :
                                \A j \in LiveImports(e) : i <= j]
  /\ UNCHANGED <<artifact, previewed, tasks, imports, associations, events>>

(* createTask commits a task of its own. *)
CreateImportTask ==
  /\ registering.step = "create"
  /\ tasks < MaxTasks
  /\ tasks' = tasks + 1
  /\ registering' = [registering EXCEPT !.step = "record"]
  /\ UNCHANGED <<artifact, previewed, imports, associations, events>>

(* recordTaskRecord of a new record; its source link needs the file. *)
RecordImport ==
  /\ registering.step = "record"
  /\ artifact[registering.entry] # Absent
  /\ imports' = Append(imports, [entry |-> registering.entry,
                                 digest |-> registering.digest, superseded |-> FALSE])
  /\ registering' = [registering EXCEPT !.step = "associate", !.record = Len(imports) + 1]
  /\ UNCHANGED <<artifact, previewed, tasks, associations, events>>

(* recordTaskRecord that supersedes the record of the association. *)
SupersedeImport ==
  /\ registering.step = "revise"
  /\ artifact[registering.entry] # Absent
  /\ ~imports[registering.record].superseded
  /\ imports' = Append([imports EXCEPT ![registering.record].superseded = TRUE],
                       [entry |-> registering.entry, digest |-> registering.digest,
                        superseded |-> FALSE])
  /\ registering' = [registering EXCEPT !.step = "rebind", !.record = Len(imports) + 1]
  /\ UNCHANGED <<artifact, previewed, tasks, associations, events>>

(* The task store refuses: a superseded record is terminal, a vanished file
   cannot be linked. *)
RefusedByTask ==
  /\ \/ registering.step = "revise" /\ imports[registering.record].superseded
     \/ registering.step \in {"record", "revise"} /\ artifact[registering.entry] = Absent
  /\ registering' = NotRegistering
  /\ UNCHANGED <<artifact, previewed, tasks, imports, associations, events>>

(* writeSpecImportRegistrationStore with a new association. *)
Associate ==
  /\ registering.step = "associate"
  /\ Storable(registering)
  /\ associations' = Append(associations,
       [entry |-> registering.entry, digest |-> registering.digest,
        record |-> registering.record, status |-> "registered"])
  /\ registering' = NotRegistering
  /\ UNCHANGED <<artifact, previewed, tasks, imports, events>>

RefusedByStore ==
  /\ registering.step = "associate"
  /\ ~Storable(registering)
  /\ registering' = NotRegistering
  /\ UNCHANGED <<artifact, previewed, tasks, imports, associations, events>>

(* The same write, of the association that was revised. *)
Rebind ==
  /\ registering.step = "rebind"
  /\ \E a \in Registered(registering.entry) :
       associations' = [associations EXCEPT
         ![a] = [@ EXCEPT !.digest = registering.digest, !.record = registering.record]]
  /\ registering' = NotRegistering
  /\ UNCHANGED <<artifact, previewed, tasks, imports, events>>

(* detachSpecImportRegistration leaves the task and its record alone. *)
DetachSpecImport(a) ==
  /\ registering.step = "none"
  /\ associations[a].status = "registered"
  /\ associations' = [associations EXCEPT ![a].status = "detached"]
  /\ UNCHANGED <<artifact, previewed, tasks, imports, registering, events>>

(* Bound: events *)
Event == events < MaxEvents /\ events' = events + 1

EditArtifact(e, c) ==
  /\ Event
  /\ c # artifact[e]
  /\ artifact' = [artifact EXCEPT ![e] = c]
  /\ UNCHANGED <<previewed, tasks, imports, associations, registering>>

(* The process stops; the project lock is released by its death. *)
StopRegistration ==
  /\ Event
  /\ registering.step # "none"
  /\ registering' = NotRegistering
  /\ UNCHANGED <<artifact, previewed, tasks, imports, associations>>

(* A person supersedes an imported record by one of their own. *)
SupersedeByPerson(i) ==
  /\ Event
  /\ ~imports[i].superseded
  /\ imports' = [imports EXCEPT ![i].superseded = TRUE]
  /\ UNCHANGED <<artifact, previewed, tasks, associations, registering>>

SpecImportsNext ==
  \/ PreviewSpecImport
  \/ \E e \in Entries : RegisterSpecImport(e)
  \/ CreateImportTask
  \/ RecordImport
  \/ SupersedeImport
  \/ RefusedByTask
  \/ Associate
  \/ RefusedByStore
  \/ Rebind
  \/ \E a \in DOMAIN associations : DetachSpecImport(a)
  \/ \E e \in Entries, c \in Contents \union {Absent} : EditArtifact(e, c)
  \/ StopRegistration
  \/ \E i \in DOMAIN imports : SupersedeByPerson(i)

SpecImportsSpec == SpecImportsInit /\ [][SpecImportsNext]_specImportVars

-----------------------------------------------------------------------------
SpecImportsTypeOK ==
  /\ artifact \in [Entries -> Contents \union {Absent}]
  /\ previewed \in [Entries -> Contents \union {Absent}]
  /\ tasks \in 0 .. MaxTasks
  /\ \A i \in DOMAIN imports :
       imports[i] \in [entry : Entries, digest : Contents, superseded : BOOLEAN]
  /\ \A a \in DOMAIN associations :
       associations[a] \in [entry : Entries, digest : Contents,
                            record : DOMAIN imports, status : {"registered", "detached"}]
  /\ events \in 0 .. MaxEvents

(* However a registration was interrupted and repeated, an entry has at most
   one record that stands and at most one association that is not detached,
   and an association names a record of its own entry. *)
OneImportPerEntry ==
  /\ \A i, j \in DOMAIN imports :
       imports[i].entry = imports[j].entry /\ i # j
         => imports[i].superseded \/ imports[j].superseded
  /\ \A e \in Entries : Cardinality(Registered(e)) <= 1
  /\ \A a \in DOMAIN associations :
       imports[associations[a].record].entry = associations[a].entry

=============================================================================
