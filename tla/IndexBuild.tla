----------------------------- MODULE IndexBuild ------------------------------
(***************************************************************************)
(* run_index_build: embeds the artifacts whose text changed since the last *)
(* completed run, and records what it embedded.  The run and its entries   *)
(* are rows of the database, the vectors are in a store of their own, and  *)
(* the steps of a run are audited; no transaction spans the three.  Builds *)
(* are made by the server, which lives on, and by the command line tool,   *)
(* one process for each build; several may work on the same database.      *)
(***************************************************************************)
EXTENDS Integers

CONSTANTS Builders,   \* processes that build
          Servers,    \* those of them that are servers
          Artifacts,  \* atoms, resumes and opportunities
          KindOf,     \* the kind of each artifact
          Scopes,     \* scopes that builds are asked for
          Stores,     \* vector stores
          StoreOf,    \* the store each builder writes
          Durable,    \* the stores that outlive their process
          Reverts,    \* may an artifact get a text it had before?
          MaxText,    \* bound: texts of an artifact
          MaxRuns,    \* bound: runs
          MaxTime     \* bound: readings of the clock

Kinds == <<"atom", "resume", "opportunity">>

ASSUME IndexAssumption ==
  /\ Servers \subseteq Builders
  /\ "Nobody" \notin Builders
  /\ KindOf \in [Artifacts -> {Kinds[k] : k \in DOMAIN Kinds}]
  /\ StoreOf \in [Builders -> Stores]
  /\ Durable \subseteq Stores
  /\ \A b, q \in Builders : StoreOf[b] = StoreOf[q] => b = q \/ StoreOf[b] \in Durable
  /\ MaxText \in Nat /\ MaxRuns \in Nat /\ MaxTime \in Nat \ {0}

VARIABLES text,      \* the canonical text of each artifact, 0 before it is stored
          counter,   \* id_counters['index_run']
          lock,      \* who is inside BEGIN IMMEDIATE
          runs,      \* index_runs
          entries,   \* index_entries: the hash a run recorded, 0 for no row
          trail,     \* the audit events of each run
          evtTaken,  \* has a command line build stored its first event id?
          vectors,   \* the text each store has embedded, 0 for no vector
          build,     \* where each builder is
          disturbed  \* history: builds overlapped, or a vector was lost

vars == <<text, counter, lock, runs, entries, trail, evtTaken, vectors, build, disturbed>>

RunIds == 1..MaxRuns
Texts == 0..MaxText
Nobody == "Nobody"
Started == "Started"
Completed == "Completed"

Absent == [status |-> "none", at |-> 1]
Unlisted == [x \in Artifacts |-> 0]
Idle == [pc |-> "Idle", run |-> 0, scope |-> "none", section |-> 1,
         seen |-> Unlisted, todo |-> {}, item |-> {}]

Init ==
  /\ text \in [Artifacts -> Texts]
  /\ counter = 0
  /\ lock = Nobody
  /\ runs = [r \in RunIds |-> Absent]
  /\ entries = [r \in RunIds |-> Unlisted]
  /\ trail = [r \in RunIds |-> {}]
  /\ evtTaken = FALSE
  /\ vectors = [s \in Stores |-> Unlisted]
  /\ build = [b \in Builders |-> Idle]
  /\ disturbed = FALSE

-----------------------------------------------------------------------------
\* The kinds a scope reaches.  The server also accepts "opps", which the
\* pipeline does not know.
Covers(scope) ==
  CASE scope = "all"           -> {"atom", "resume", "opportunity"}
    [] scope = "atoms"         -> {"atom"}
    [] scope = "resumes"       -> {"resume"}
    [] scope = "opportunities" -> {"opportunity"}
    [] OTHER                   -> {}

\* get_last_source_hash: what the completed runs recorded of x last; several
\* answers when they completed in the same second, none when none did.
PriorHashes(x) ==
  LET done == {r \in RunIds : runs[r].status = "completed" /\ entries[r][x] # 0}
  IN  {entries[r][x] : r \in {q \in done : \A o \in done : runs[o].at <= runs[q].at}}

At(b, pc) == build[b].pc = pc
Goto(b, pc) == build' = [build EXCEPT ![b].pc = pc]

\* Another process is inside a transaction: writing to the database fails.
Shut(b) == lock \notin {b, Nobody}

\* A vector store that is not durable is gone with its process.
StoreGoes(b) ==
  vectors' = IF StoreOf[b] \in Durable THEN vectors
             ELSE [vectors EXCEPT ![StoreOf[b]] = Unlisted]

\* The end of a build is the end of the process, unless it is a server.
Leave(b) ==
  /\ build' = [build EXCEPT ![b] = Idle]
  /\ IF b \in Servers THEN UNCHANGED vectors ELSE StoreGoes(b)

\* The ids of audit events start over in every command line process, so
\* that an id is taken once such a process has stored its first.
IdTaken(b) == b \notin Servers /\ evtTaken /\ At(b, "Announce")

\* The append of one event; its own steps are those of AuditLog, and no two
\* builds share a trace.
Audit(b, what) ==
  /\ ~Shut(b)
  /\ ~IdTaken(b)
  /\ trail' = [trail EXCEPT ![build[b].run] = @ \union {what}]
  /\ evtTaken' = (evtTaken \/ b \notin Servers)

-----------------------------------------------------------------------------
\* Mutation: the transaction is not immediate, so that two may be open.
BeginDeferred(b, scope) ==
  /\ At(b, "Idle")
  /\ counter < MaxRuns
  /\ lock' = b
  /\ build' = [build EXCEPT ![b] = [Idle EXCEPT !.pc = "Allocating",
                                                !.run = counter + 1, !.scope = scope]]
  /\ disturbed' = (disturbed \/ \E q \in Builders \ {b} : ~At(q, "Idle"))
  /\ UNCHANGED <<text, counter, runs, entries, trail, evtTaken, vectors>>

\* next_index_run_id: BEGIN IMMEDIATE, increment, read.  A builder that finds
\* the lock taken fails before it has changed anything.
Begin(b, scope) ==
  /\ At(b, "Idle")
  /\ lock = Nobody
  /\ counter < MaxRuns
  /\ lock' = b
  /\ build' = [build EXCEPT ![b] = [Idle EXCEPT !.pc = "Allocating",
                                                !.run = counter + 1, !.scope = scope]]
  /\ disturbed' = (disturbed \/ \E q \in Builders \ {b} : ~At(q, "Idle"))
  /\ UNCHANGED <<text, counter, runs, entries, trail, evtTaken, vectors>>

\* Mutation: the id is read after the transaction was rolled back.
CommitRolledBack(b) ==
  /\ At(b, "Allocating")
  /\ lock' = Nobody
  /\ Goto(b, "Register")
  /\ UNCHANGED <<text, counter, runs, entries, trail, evtTaken, vectors, disturbed>>

\* COMMIT.
Commit(b) ==
  /\ At(b, "Allocating")
  /\ counter' = build[b].run
  /\ lock' = Nobody
  /\ Goto(b, "Register")
  /\ UNCHANGED <<text, runs, entries, trail, evtTaken, vectors, disturbed>>

\* COMMIT finds a reader in its way: next_index_run_id throws and leaves the
\* transaction open.
CommitFails(b) ==
  /\ At(b, "Allocating")
  /\ IF b \in Servers THEN /\ Goto(b, "Stuck")
                           /\ UNCHANGED <<lock, vectors>>
     ELSE Leave(b) /\ lock' = Nobody
  /\ UNCHANGED <<text, counter, runs, entries, trail, evtTaken, disturbed>>

\* The transaction left open ends with the COMMIT or the ROLLBACK of another
\* tool of the server, whose own BEGIN failed unnoticed.
Release(b) ==
  /\ At(b, "Stuck")
  /\ counter' \in {counter, build[b].run}
  /\ lock' = Nobody
  /\ build' = [build EXCEPT ![b] = Idle]
  /\ UNCHANGED <<text, runs, entries, trail, evtTaken, vectors, disturbed>>

\* upsert_run(kRunning); its failure goes unnoticed.
Register(b) ==
  /\ At(b, "Register")
  /\ \/ /\ ~Shut(b)
        /\ runs' = [runs EXCEPT ![build[b].run] = [status |-> "running", at |-> 1]]
     \/ UNCHANGED runs
  /\ Goto(b, "Announce")
  /\ UNCHANGED <<text, counter, lock, entries, trail, evtTaken, vectors, disturbed>>

\* The audit event IndexRunStarted.
Announce(b) ==
  /\ At(b, "Announce")
  /\ Audit(b, Started)
  /\ Goto(b, "Work")
  /\ UNCHANGED <<text, counter, lock, runs, entries, vectors, disturbed>>

\* The stored artifacts of the next kind, if the scope covers it.
Stored(b) ==
  LET kind == Kinds[build[b].section]
  IN  {x \in Artifacts : KindOf[x] = kind /\ kind \in Covers(build[b].scope) /\ text[x] # 0}

\* list_all of the next kind; a SELECT that meets a lock lists nothing.
List(b) ==
  /\ At(b, "Work") /\ build[b].todo = {} /\ build[b].section \in DOMAIN Kinds
  /\ \E listed \in {Stored(b), {}} :
       build' = [build EXCEPT ![b] =
         [build[b] EXCEPT !.section = build[b].section + 1,
                          !.todo = listed,
                          !.seen = [x \in Artifacts |-> IF x \in listed THEN text[x]
                                                        ELSE build[b].seen[x]]]]
  /\ UNCHANGED <<text, counter, lock, runs, entries, trail, evtTaken, vectors, disturbed>>

\* Mutation: any recorded hash will do.
SkipKnown(b, x) ==
  /\ At(b, "Work") /\ x \in build[b].todo
  /\ PriorHashes(x) # {}
  /\ build' = [build EXCEPT ![b].todo = @ \ {x}]
  /\ UNCHANGED <<text, counter, lock, runs, entries, trail, evtTaken, vectors, disturbed>>

\* The text is the one recorded last: nothing to do.
Skip(b, x) ==
  /\ At(b, "Work") /\ x \in build[b].todo
  /\ build[b].seen[x] \in PriorHashes(x)
  /\ build' = [build EXCEPT ![b].todo = @ \ {x}]
  /\ UNCHANGED <<text, counter, lock, runs, entries, trail, evtTaken, vectors, disturbed>>

\* The text is new, or has changed, or get_last_source_hash met a lock and
\* found no hash: it is embedded, which touches nothing.
Embed(b, x) ==
  /\ At(b, "Work") /\ x \in build[b].todo
  /\ build' = [build EXCEPT ![b] = [build[b] EXCEPT !.todo = build[b].todo \ {x},
                                                   !.item = {x}, !.pc = "Vector"]]
  /\ UNCHANGED <<text, counter, lock, runs, entries, trail, evtTaken, vectors, disturbed>>

\* vector_index.upsert; its failure goes unnoticed.
StoreVector(b) ==
  /\ At(b, "Vector")
  /\ \E x \in build[b].item :
       \/ /\ vectors' = [vectors EXCEPT ![StoreOf[b]][x] = build[b].seen[x]]
          /\ UNCHANGED disturbed
       \/ /\ StoreOf[b] \in Durable
          /\ disturbed' = TRUE
          /\ UNCHANGED vectors
  /\ Goto(b, "Entry")
  /\ UNCHANGED <<text, counter, lock, runs, entries, trail, evtTaken>>

\* upsert_entry, which the foreign key refuses when the run has no row; its
\* failure goes unnoticed.
StoreEntry(b) ==
  /\ At(b, "Entry")
  /\ \E x \in build[b].item :
       \/ /\ ~Shut(b)
          /\ runs[build[b].run] # Absent
          /\ entries' = [entries EXCEPT ![build[b].run][x] = build[b].seen[x]]
       \/ UNCHANGED entries
  /\ Goto(b, "Audit")
  /\ UNCHANGED <<text, counter, lock, runs, trail, evtTaken, vectors, disturbed>>

\* Mutation: a failing audit log is ignored.
AuditArtifactOrNot(b) ==
  /\ At(b, "Audit")
  /\ \/ \E x \in build[b].item : Audit(b, x)
     \/ UNCHANGED <<trail, evtTaken>>
  /\ build' = [build EXCEPT ![b] = [build[b] EXCEPT !.pc = "Work", !.item = {}]]
  /\ UNCHANGED <<text, counter, lock, runs, entries, vectors, disturbed>>

\* The audit event IndexedArtifact.
AuditArtifact(b) ==
  /\ At(b, "Audit")
  /\ \E x \in build[b].item : Audit(b, x)
  /\ build' = [build EXCEPT ![b] = [build[b] EXCEPT !.pc = "Work", !.item = {}]]
  /\ UNCHANGED <<text, counter, lock, runs, entries, vectors, disturbed>>

\* Mutation: completed_at is left empty.
CompleteUnstamped(b) ==
  /\ At(b, "Work") /\ build[b].todo = {} /\ build[b].section \notin DOMAIN Kinds
  /\ runs' = [runs EXCEPT ![build[b].run] = [status |-> "completed", at |-> 0]]
  /\ Goto(b, "Report")
  /\ UNCHANGED <<text, counter, lock, entries, trail, evtTaken, vectors, disturbed>>

\* upsert_run(kCompleted) with the reading of the clock, which may stand
\* still between two runs or be set back; its failure goes unnoticed.
Complete(b) ==
  /\ At(b, "Work") /\ build[b].todo = {} /\ build[b].section \notin DOMAIN Kinds
  /\ \/ /\ ~Shut(b)
        /\ \E now \in 1..MaxTime :
             runs' = [runs EXCEPT ![build[b].run] = [status |-> "completed", at |-> now]]
     \/ UNCHANGED runs
  /\ Goto(b, "Report")
  /\ UNCHANGED <<text, counter, lock, entries, trail, evtTaken, vectors, disturbed>>

\* The audit event IndexRunCompleted, and the answer.
Report(b) ==
  /\ At(b, "Report")
  /\ Audit(b, Completed)
  /\ Leave(b)
  /\ UNCHANGED <<text, counter, lock, runs, entries, disturbed>>

\* The audit log refuses an event: the exception ends the build where it is.
AuditFails(b) ==
  /\ build[b].pc \in {"Announce", "Audit", "Report"}
  /\ Leave(b)
  /\ UNCHANGED <<text, counter, lock, runs, entries, trail, evtTaken, disturbed>>

\* The process goes down, and with it the transaction it has open.
Crash(b) ==
  /\ ~At(b, "Idle") \/ b \in Servers
  /\ build' = [build EXCEPT ![b] = Idle]
  /\ lock' = IF lock = b THEN Nobody ELSE lock
  /\ StoreGoes(b)
  /\ UNCHANGED <<text, counter, runs, entries, trail, evtTaken, disturbed>>

\* A tool stores an artifact, new or changed.
Edit(x) ==
  /\ lock = Nobody
  /\ \E new \in 1..MaxText :
       /\ IF Reverts THEN new # text[x] ELSE new > text[x]
       /\ text' = [text EXCEPT ![x] = new]
  /\ UNCHANGED <<counter, lock, runs, entries, trail, evtTaken, vectors, build, disturbed>>

Step(b) ==
  \/ \E scope \in Scopes : Begin(b, scope)
  \/ Commit(b) \/ CommitFails(b) \/ Release(b) \/ Register(b) \/ Announce(b) \/ List(b)
  \/ \E x \in Artifacts : Skip(b, x) \/ Embed(b, x)
  \/ StoreVector(b) \/ StoreEntry(b) \/ AuditArtifact(b)
  \/ Complete(b) \/ Report(b) \/ AuditFails(b) \/ Crash(b)

Next == \/ \E b \in Builders : Step(b)
        \/ \E x \in Artifacts : Edit(x)

Spec == Init /\ [][Next]_vars

-----------------------------------------------------------------------------
Places == {"Idle", "Allocating", "Stuck", "Register", "Announce", "Work",
           "Vector", "Entry", "Audit", "Report"}
Build == [pc : Places, run : 0..MaxRuns, scope : Scopes \union {"none"}, section : 1..4,
          seen : [Artifacts -> Texts], todo : SUBSET Artifacts, item : SUBSET Artifacts]

TypeOK ==
  /\ text \in [Artifacts -> Texts]
  /\ counter \in 0..MaxRuns
  /\ lock \in Builders \union {Nobody}
  /\ runs \in [RunIds -> [status : {"none", "running", "completed"}, at : 1..MaxTime]]
  /\ entries \in [RunIds -> [Artifacts -> Texts]]
  /\ trail \in [RunIds -> SUBSET ({Started, Completed} \union Artifacts)]
  /\ evtTaken \in BOOLEAN
  /\ vectors \in [Stores -> [Artifacts -> Texts]]
  /\ build \in [Builders -> Build]
  /\ disturbed \in BOOLEAN

\* The builders that have been given an id.
Numbered(b) == build[b].pc \notin {"Idle", "Allocating", "Stuck"}

\* next_index_run_id never gives two builds the same id, whoever asks at the
\* same time and whoever goes down half-way: no builder works under the id
\* of another, nor under that of a run that is over.
RunIdsAreDistinct ==
  \A b \in Builders : Numbered(b) =>
    /\ \A q \in Builders : Numbered(q) /\ build[q].run = build[b].run => q = b
    /\ runs[build[b].run].status = "completed" => At(b, "Report")

\* What a completed run recorded is never written again, so that the next
\* comparison of hashes finds it (the failure that docs/INDEXING.md, section
\* 2b, says the persistent counter prevents).
HistoryStays ==
  [][\A r \in RunIds : runs[r].status = "completed" =>
       runs'[r] = runs[r] /\ entries'[r] = entries[r]]_vars

\* A completed run is told by the audit log, entry by entry, although rows
\* and events are written separately and each may fail.
CompletedRunsAreAudited ==
  \A r \in RunIds : runs[r].status = "completed" =>
    /\ Started \in trail[r]
    /\ \A x \in Artifacts : entries[r][x] # 0 => x \in trail[r]

\* A build that comes to its end leaves the vector of every artifact it
\* listed, embedded or skipped, at the text it listed, whatever builds went
\* down, failed to audit or lost their rows before it and whatever the clock
\* says; unless two builds overlapped or a vector was lost.  Holds of one
\* durable store and texts that never come back, see README.md.
FreshWhenDone ==
  ~disturbed =>
    \A b \in Builders : At(b, "Report") =>
      \A x \in Artifacts : build[b].seen[x] # 0 =>
        vectors[StoreOf[b]][x] = build[b].seen[x]

\* Of any store and any texts: where a build that comes to its end leaves the
\* vector of an artifact it listed at another text, an earlier run that
\* completed had recorded the very text that it listed; unless two builds
\* overlapped or a vector was lost.
StaleIsRecorded ==
  ~disturbed =>
    \A b \in Builders : At(b, "Report") =>
      \A x \in Artifacts : build[b].seen[x] # 0 =>
        \/ vectors[StoreOf[b]][x] = build[b].seen[x]
        \/ \E r \in RunIds \ {build[b].run} :
             runs[r].status = "completed" /\ entries[r][x] = build[b].seen[x]
=============================================================================
