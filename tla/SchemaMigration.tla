-------------------------- MODULE SchemaMigration ---------------------------
(***************************************************************************)
(* The chain of schema migrations of SqliteDb.  ensure_schema_vN first     *)
(* ensures version N-1, then reads the version of the database and, when   *)
(* it is below N, executes the statements of version N one after another,  *)
(* each committed by itself, the last of them recording N.  Processes that *)
(* open the same file may run the chain at the same time, and a process    *)
(* may go down between any two statements.                                 *)
(***************************************************************************)
EXTENDS Integers, Sequences

CONSTANTS Processes,  \* processes that open the database
          Targets     \* the versions they ask for

\* The tables and indices (columns, for version 8) each version adds, in
\* the order of its statements.
Objects == <<
  <<"schema_version", "atoms", "idx_atoms_verified", "opportunities",
    "requirements", "interactions", "audit_events", "idx_audit_events_trace">>,
  <<"resumes", "idx_resumes_hash", "resume_meta">>,
  <<"resume_token_ir", "idx_resume_token_ir_resume">>,
  <<"index_runs", "index_entries", "idx_index_entries_artifact">>,
  <<"decision_records", "idx_decision_records_trace">>,
  <<"id_counters">>,
  <<"runtime_snapshots">>,
  <<"audit_events.previous_hash", "audit_events.event_hash">> >>

Versions == DOMAIN Objects
Size(n) == Len(Objects[n])
ObjectsOf(n) == {Objects[n][k] : k \in DOMAIN Objects[n]}

ASSUME TargetsAssumption == Targets \subseteq Versions

\* CREATE ... IF NOT EXISTS repeats harmlessly, ALTER TABLE ADD COLUMN does
\* not.
Repeatable(n) == n # 8

VARIABLES schema,   \* the objects in the database
          stamped,  \* the rows of schema_version
          proc,     \* where each process is in the chain
          outcome   \* how the last run of the chain of each process ended

vars == <<schema, stamped, proc, outcome>>

Idle == [target |-> 0, level |-> 0, stmt |-> 0]

Init ==
  /\ schema = {}
  /\ stamped = {}
  /\ proc = [p \in Processes |-> Idle]
  /\ outcome = [p \in Processes |-> "None"]

-----------------------------------------------------------------------------
\* get_schema_version, 0 when there is no table or no row.
Version == IF stamped = {} THEN 0 ELSE CHOOSE n \in stamped : \A m \in stamped : m <= n

Running(p) == proc[p] # Idle
Checking(p) == Running(p) /\ proc[p].stmt = 0
Executing(p) == Running(p) /\ proc[p].stmt # 0

\* Another process may hold the lock of the file; no busy_timeout is set.
ForeignWrite(p) == \E q \in Processes \ {p} : Executing(q)

Return(p, how) ==
  /\ proc' = [proc EXCEPT ![p] = Idle]
  /\ outcome' = [outcome EXCEPT ![p] = how]

GoTo(p, level, stmt) ==
  proc' = [proc EXCEPT ![p] = [target |-> proc[p].target, level |-> level, stmt |-> stmt]]

\* The version of this level is in place: on to the next level's, or done.
LevelDone(p) ==
  IF proc[p].level = proc[p].target THEN Return(p, "Ok")
  ELSE /\ GoTo(p, proc[p].level + 1, 0)
       /\ UNCHANGED outcome

Open(p, target) ==
  /\ ~Running(p)
  /\ proc' = [proc EXCEPT ![p] = [target |-> target, level |-> 1, stmt |-> 0]]
  /\ outcome' = [outcome EXCEPT ![p] = "None"]
  /\ UNCHANGED <<schema, stamped>>

\* Mutation: any recorded version will do.
SkipIfAny(p) ==
  /\ Checking(p)
  /\ Version > 0
  /\ LevelDone(p)
  /\ UNCHANGED <<schema, stamped>>

Skip(p) ==
  /\ Checking(p)
  /\ Version >= proc[p].level
  /\ LevelDone(p)
  /\ UNCHANGED <<schema, stamped>>

\* The version is below this level; a version that cannot be read because
\* of a foreign lock is taken to be 0.
Migrate(p) ==
  /\ Checking(p)
  /\ Version < proc[p].level \/ ForeignWrite(p)
  /\ GoTo(p, proc[p].level, 1)
  /\ UNCHANGED <<schema, stamped, outcome>>

\* The object the next statement adds; none when it is the version's turn,
\* after the last of them (mutation: before it).
Pending(p) == Objects[proc[p].level][proc[p].stmt]
StampingEarly(p) == Executing(p) /\ proc[p].stmt = Size(proc[p].level)
Stamping(p) == Executing(p) /\ proc[p].stmt = Size(proc[p].level) + 1
Adding(p) == Executing(p) /\ ~Stamping(p)

\* CREATE, or ALTER TABLE ADD COLUMN.
Add(p) ==
  /\ Adding(p)
  /\ Repeatable(proc[p].level) \/ Pending(p) \notin schema
  /\ schema' = schema \cup {Pending(p)}
  /\ GoTo(p, proc[p].level, proc[p].stmt + 1)
  /\ UNCHANGED <<stamped, outcome>>

\* INSERT OR IGNORE INTO schema_version.
Stamp(p) ==
  /\ Stamping(p)
  /\ stamped' = stamped \cup {proc[p].level}
  /\ LevelDone(p)
  /\ UNCHANGED schema

\* The column is there already: the chain ends in an error.
AddFails(p) ==
  /\ Adding(p)
  /\ ~Repeatable(proc[p].level)
  /\ Pending(p) \in schema
  /\ Return(p, "DuplicateColumn")
  /\ UNCHANGED <<schema, stamped>>

\* A statement meets a foreign lock or the disk fails it.
StatementFails(p) ==
  /\ Executing(p)
  /\ Return(p, "Error")
  /\ UNCHANGED <<schema, stamped>>

Crash(p) ==
  /\ Running(p)
  /\ Return(p, "None")
  /\ UNCHANGED <<schema, stamped>>

Next ==
  \E p \in Processes :
    \/ \E target \in Targets : Open(p, target)
    \/ Skip(p)
    \/ Migrate(p)
    \/ Add(p)
    \/ Stamp(p)
    \/ AddFails(p)
    \/ StatementFails(p)
    \/ Crash(p)

Spec == Init /\ [][Next]_vars

-----------------------------------------------------------------------------
\* Type correctness of the database and of the processes in the chain.
Positions == [target : Targets \cup {0}, level : 0 .. 8, stmt : 0 .. 9]
TypeOK ==
  /\ schema \subseteq UNION {ObjectsOf(n) : n \in Versions}
  /\ stamped \subseteq Versions
  /\ proc \in [Processes -> Positions]
  /\ outcome \in [Processes -> {"None", "Ok", "Error", "DuplicateColumn"}]

\* A recorded version is the truth: whatever crashed or raced, every object
\* of that version and of those below it is in the database.
VersionIsTrue == \A n \in stamped : \A m \in 1 .. n : ObjectsOf(m) \subseteq schema

\* A process that opened the database finds what it asked for.
OpenedIsReady ==
  [][\A p \in Processes :
       (outcome'[p] = "Ok" /\ outcome[p] # "Ok")
       => \A m \in 1 .. proc[p].target : ObjectsOf(m) \subseteq schema']_vars

\* apps/mcp_server/main.cpp, "all schema migrations are idempotent": running
\* a migration over what an earlier run left never fails.
RerunsSucceed == \A p \in Processes : outcome[p] # "DuplicateColumn"
=============================================================================
