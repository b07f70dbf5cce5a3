---------------------------- MODULE ResumeIngest ----------------------------
(***************************************************************************)
(* The server's ingest_resume, the commands ccmcp_cli ingest-resume and    *)
(* tokenize-resume, and the resume and token stores they share in one      *)
(* SQLite database.                                                        *)
(*                                                                         *)
(* The server keeps one connection.  A COMMIT that meets another process's *)
(* read lock fails, nobody looks at its result, and the transaction stays  *)
(* open: `mine' is then the database as the server's connection sees it,   *)
(* and everything the server writes, audit events of any tool included,    *)
(* is in that transaction until a later COMMIT, or gone with a ROLLBACK or *)
(* the process.  Other processes neither read nor write meanwhile.         *)
(*                                                                         *)
(* The server's ids are fresh; a command generates the same id each time.  *)
(* Runs are bounded by MaxRuns, what goes wrong by MaxFaults.              *)
(***************************************************************************)
EXTENDS ResumeText

CONSTANTS Files,      \* the files that are ingested
          MaxRuns,    \* bound: runs of tools and commands
          MaxFaults   \* bound: locks met, failing statements, stops of the server

ASSUME IngestAssumption ==
  /\ MaxRuns \in Nat /\ MaxFaults \in Nat
  /\ \A file \in Files : file.body \in Seq(Lines)

Numbers == 1 .. MaxRuns
CliId == 0
Ids == {CliId} \cup Numbers
NoResume == [id |-> MaxRuns + 1, hash |-> HashOf(<<>>)]

VARIABLES disk,    \* what is committed: resumes, their meta, token IRs, audit events
          mine,    \* the server's view while its transaction is open
          job,     \* the server's ingestion
          cli,     \* the tokenization of a command
          told,    \* what tools and commands have answered
          kept,    \* the resume hashes that have been on disk so far
          stuck,   \* whether a COMMIT of the server has failed so far
          begun, faults

vars == <<disk, mine, job, cli, told, kept, stuck, begun, faults>>

NoView == [resumes |-> "None"]
NoJob == [phase |-> "Idle"]

Init ==
  /\ disk = [resumes |-> <<>>, metas |-> <<>>, irs |-> <<>>, log |-> {}]
  /\ mine = NoView
  /\ job = NoJob /\ cli = NoJob
  /\ told = {} /\ kept = {}
  /\ stuck = FALSE
  /\ begun = 0 /\ faults = MaxFaults

Fault == faults > 0 /\ faults' = faults - 1
Run == begun < MaxRuns /\ begun' = begun + 1

Open == mine # NoView
View == IF Open THEN mine ELSE disk

\* What the server writes outside a transaction of its own.
Writes(db) ==
  IF Open THEN mine' = db /\ UNCHANGED disk ELSE disk' = db /\ UNCHANGED mine

Event(run, type, id) == [run |-> run, type |-> type, id |-> id]

Logs(event) ==
  Writes([resumes |-> View.resumes, metas |-> View.metas, irs |-> View.irs,
          log |-> View.log \cup {event}])

\* clean: nothing has gone wrong yet.
Answers(run, last, resume, persist, left) ==
  told' = told \cup {[run |-> run, last |-> last, id |-> resume.id, hash |-> resume.hash,
                      persist |-> persist, clean |-> left = MaxFaults]}

-----------------------------------------------------------------------------
\* INSERT .. ON CONFLICT DO UPDATE into a table with a primary key.
Upserted(table, key, row) ==
  [k \in DOMAIN table \cup {key} |-> IF k = key THEN row ELSE table[k]]

\* The two statements of an upsert, each an INSERT that updates the row of the
\* same id.  resume_hash is unique.
\* Mutation: the update leaves resume_hash as it was.
RowKeepsHash(db, resume) ==
  [md |-> resume.md,
   hash |-> IF resume.id \in DOMAIN db.resumes THEN db.resumes[resume.id].hash
            ELSE resume.hash]

Row(db, resume) == [md |-> resume.md, hash |-> resume.hash]

PutResume(db, resume) ==
  [resumes |-> Upserted(db.resumes, resume.id, Row(db, resume)),
   metas |-> db.metas, irs |-> db.irs, log |-> db.log]

PutMeta(db, resume) ==
  [resumes |-> db.resumes, metas |-> Upserted(db.metas, resume.id, resume.meta),
   irs |-> db.irs, log |-> db.log]

Put(db, resume) == PutMeta(PutResume(db, resume), resume)

\* Mutation: a plain INSERT.
ConflictsOrExists(db, resume) ==
  \/ resume.id \in DOMAIN db.resumes
  \/ \E id \in DOMAIN db.resumes : db.resumes[id].hash = resume.hash

Conflicts(db, resume) ==
  \E id \in DOMAIN db.resumes \ {resume.id} : db.resumes[id].hash = resume.hash

Hashes(db) == {db.resumes[id].hash : id \in DOMAIN db.resumes}

Commits(db) == disk' = db /\ mine' = NoView /\ kept' = kept \cup Hashes(db)

\* Mutations: the early return forgets the ROLLBACK; it commits instead.
ReturnsOnly == mine' = View /\ UNCHANGED <<disk, kept>>
CommitsWhatItHas ==
  /\ mine' = NoView
  /\ disk' = PutResume(View, job.resume)
  /\ kept' = kept \cup Hashes(disk')

\* ROLLBACK also undoes what an earlier COMMIT has left open.
RollsBack == mine' = NoView /\ UNCHANGED <<disk, kept>>

-----------------------------------------------------------------------------
\* The server.
Ingest(file, persist) ==
  /\ job.phase = "Idle"
  /\ Run
  /\ Logs(Event(begun + 1, "IngestStarted", NoResume.id))
  /\ job' = [phase |-> "Started", run |-> begun + 1, file |-> file, persist |-> persist]
  /\ UNCHANGED <<cli, told, kept, stuck, faults>>

ReadFile ==
  /\ job.phase = "Started"
  /\ ~IngestFails(job.file)
  /\ job' = [phase |-> IF job.persist THEN "Read" ELSE "Stored", run |-> job.run,
             persist |-> job.persist, resume |-> Ingested(job.file, job.run)]
  /\ UNCHANGED <<disk, mine, cli, told, kept, stuck, begun, faults>>

\* Nothing is appended for an ingestion that fails.
ReadFileFails ==
  /\ job.phase = "Started"
  /\ IngestFails(job.file)
  /\ job' = NoJob
  /\ UNCHANGED <<disk, mine, cli, told, kept, stuck, begun, faults>>

Stored == job' = [phase |-> "Stored", run |-> job.run, persist |-> job.persist,
                  resume |-> job.resume]

Store ==
  /\ job.phase = "Read"
  /\ ~Conflicts(View, job.resume)
  /\ Commits(Put(View, job.resume))
  /\ Stored
  /\ UNCHANGED <<cli, told, stuck, begun, faults>>

\* The first statement violates the unique hash.
StoreRefused ==
  /\ job.phase = "Read"
  /\ Conflicts(View, job.resume)
  /\ RollsBack
  /\ Stored
  /\ UNCHANGED <<cli, told, stuck, begun, faults>>

\* A statement meets a lock or fails, the second after the first was done.
StoreFails ==
  /\ job.phase = "Read"
  /\ Fault
  /\ RollsBack
  /\ Stored
  /\ UNCHANGED <<cli, told, stuck, begun>>

CommitFails ==
  /\ job.phase = "Read"
  /\ ~Conflicts(View, job.resume)
  /\ Fault
  /\ mine' = Put(View, job.resume)
  /\ stuck' = TRUE
  /\ Stored
  /\ UNCHANGED <<disk, cli, told, kept, begun>>

Complete ==
  /\ job.phase = "Stored"
  /\ Logs(Event(job.run, "IngestCompleted", job.resume.id))
  /\ Answers(job.run, "IngestCompleted", job.resume, job.persist, faults)
  /\ job' = NoJob
  /\ UNCHANGED <<cli, kept, stuck, begun, faults>>

\* The append throws and the answer is an error.
AppendFails ==
  /\ job.phase = "Stored"
  /\ ~Open
  /\ Fault
  /\ job' = NoJob
  /\ UNCHANGED <<disk, mine, cli, told, kept, stuck, begun>>

\* Another tool appends its event and answers.
OtherTool ==
  /\ job.phase = "Idle"
  /\ Run
  /\ Logs(Event(begun + 1, "Other", NoResume.id))
  /\ Answers(begun + 1, "Other", NoResume, FALSE, faults)
  /\ UNCHANGED <<job, cli, kept, stuck, faults>>

\* The process ends; SQLite undoes what was not committed.
ServerStops ==
  /\ Fault
  /\ mine' = NoView
  /\ job' = NoJob
  /\ UNCHANGED <<disk, cli, told, kept, stuck, begun>>

-----------------------------------------------------------------------------
\* The commands, each a process with a connection of its own.
CliIngest(file) ==
  LET resume == Ingested(file, CliId) IN
  /\ ~IngestFails(file)
  /\ Run
  /\ ~Open
  /\ ~Conflicts(disk, resume)
  /\ Commits(Put(disk, resume))
  /\ Answers(begun + 1, "None", resume, TRUE, faults)
  /\ UNCHANGED <<job, cli, stuck, faults>>

\* The upsert is rolled back, by the process's end at the latest; the command
\* reports success all the same.
CliIngestLost(file) ==
  LET resume == Ingested(file, CliId) IN
  /\ ~IngestFails(file)
  /\ Run
  /\ \/ (Open \/ Conflicts(disk, resume)) /\ UNCHANGED faults
     \/ Fault
  /\ Answers(begun + 1, "None", resume, TRUE, faults')
  /\ UNCHANGED <<disk, mine, job, cli, kept, stuck>>

\* A command that does not find or cannot read the resume ends.
TokenizeRead(id, mode) ==
  /\ cli.phase = "Idle"
  /\ Run
  /\ ~Open
  /\ id \in DOMAIN disk.resumes
  /\ cli' = [phase |-> "Read", id |-> id, mode |-> mode,
             ir |-> Tokenize(mode, disk.resumes[id].md, disk.resumes[id].hash)]
  /\ UNCHANGED <<disk, mine, job, told, kept, stuck, faults>>

\* The key is the resume's id and the tokenizer's type; an earlier IR is replaced.
TokenizeStore ==
  /\ cli.phase = "Read"
  /\ ~Open
  /\ disk' = [resumes |-> disk.resumes, metas |-> disk.metas,
              irs |-> Upserted(disk.irs, <<cli.id, cli.mode>>, cli.ir), log |-> disk.log]
  /\ cli' = NoJob
  /\ UNCHANGED <<mine, job, told, kept, stuck, begun, faults>>

\* The upsert meets a lock; this command too reports success.
TokenizeLost ==
  /\ cli.phase = "Read"
  /\ \/ Open /\ UNCHANGED faults
     \/ Fault
  /\ cli' = NoJob
  /\ UNCHANGED <<disk, mine, job, told, kept, stuck, begun>>

-----------------------------------------------------------------------------
Next ==
  \/ \E file \in Files : \/ \E persist \in BOOLEAN : Ingest(file, persist)
                         \/ CliIngest(file) \/ CliIngestLost(file)
  \/ ReadFile \/ ReadFileFails
  \/ Store \/ StoreRefused \/ StoreFails \/ CommitFails
  \/ Complete \/ AppendFails
  \/ OtherTool \/ ServerStops
  \/ \E id \in Ids, mode \in Modes : TokenizeRead(id, mode)
  \/ TokenizeStore \/ TokenizeLost

Spec == Init /\ [][Next]_vars

-----------------------------------------------------------------------------
(* Properties.                                                             *)

Readable == {file \in Files : ~IngestFails(file)}
Events == [run : Numbers, type : {"IngestStarted", "IngestCompleted", "Other"},
           id : Ids \cup {NoResume.id}]

IsDatabase(db) ==
  /\ DOMAIN db.resumes \subseteq Ids /\ DOMAIN db.metas \subseteq Ids
  /\ DOMAIN db.irs \subseteq Ids \X Modes
  /\ db.log \subseteq Events

\* The stores hold what their tables may hold, an open transaction is one a
\* failed COMMIT has left, and a token IR belongs to a stored resume (the
\* foreign key of resume_token_ir, sqlite_db.cpp:116).
TypeOK ==
  /\ IsDatabase(disk)
  /\ {key[1] : key \in DOMAIN disk.irs} \subseteq DOMAIN disk.resumes
  /\ Open => IsDatabase(mine) /\ stuck
  /\ job.phase \in {"Idle", "Started", "Read", "Stored"}
  /\ cli.phase \in {"Idle", "Read"}
  /\ \A a \in told : a.run \in 1 .. begun /\ a.id \in Ids \cup {NoResume.id}
  /\ begun \in 0 .. MaxRuns /\ faults \in 0 .. MaxFaults

\* Whatever failed in between, a stored resume, its hash and its meta row come
\* from one ingestion of one file, and no two resumes have one hash.  The two
\* statements of SqliteResumeStore::upsert are one transaction, also when it
\* joins one a failed COMMIT has left open (sqlite_resume_store.cpp:9-82).
RowsAreWhole ==
  \A db \in {disk, View} :
    /\ DOMAIN db.metas = DOMAIN db.resumes
    /\ \A id \in DOMAIN db.resumes : \E file \in Readable :
         LET r == Ingested(file, id) IN
           /\ db.resumes[id] = [md |-> r.md, hash |-> r.hash]
           /\ db.metas[id] = r.meta
    /\ \A i, j \in DOMAIN db.resumes : db.resumes[i].hash = db.resumes[j].hash => i = j

\* The stored markdown is canonical: ingesting it again as a Markdown file gives
\* the same text and so the same hash, whatever format it came from and however
\* its blank lines and trailing whitespace lay (hygiene.cpp:127-134; one pass of
\* the four normalizations is enough, in the order they are in).
CanonicalIsFixed ==
  \A id \in DOMAIN disk.resumes :
    LET again == [extension |-> "md", state |-> "Good", body |-> disk.resumes[id].md]
    IN  Ingested(again, id).hash = disk.resumes[id].hash

\* Who is told that a resume was persisted, by the tool or by the command, can
\* rely on its text having been stored if nothing went wrong so far: under the
\* id told, or, the upsert refused, under the id of another resume with the same
\* text.  (A later ingestion by the command may overwrite that one.)
AnsweredWasStored ==
  \A a \in told : a.clean /\ a.persist => a.hash \in kept

\* What a tool has told is in the audit log on disk, unless a COMMIT failed: no
\* refused or failed upsert takes other tools' events with it, and no stop of
\* the server does (sqlite_resume_store.cpp:36, :76, :81).
AnswersAreOnRecord ==
  ~stuck => \A a \in told :
    a.last # "None" => Event(a.run, a.last, a.id) \in disk.log

\* TOK-001 is enough to tell a token IR that was made from a text the resume no
\* longer has: an IR on disk that passes it for the stored resume breaks none of
\* the rules that FAIL, although the command overwrites resumes and stores its
\* IR after the resume was read (tokenize_resume_logic.cpp:15-41, tok_001.cpp:41).
TokensAreBound ==
  \A key \in DOMAIN disk.irs :
    LET resume == disk.resumes[key[1]]
        broken == Broken(disk.irs[key], resume.md, resume.hash)
    IN  "TOK-001" \in broken \/ broken \subseteq {"TOK-005"}
=============================================================================
