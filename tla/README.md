# Verification of career-coordination-mcp

TLA+ models of the parts of career-coordination-mcp that keep state under
concurrency and failure, TLC runs that check them on small instances, and
proofs that hold for every instance. Paths below are relative to the
repository.

## 1. The system

A C++ server speaks MCP over stdin/stdout (`apps/mcp_server`); a CLI
(`apps/ccmcp_cli`) runs one command per process on the same files. Both call
the pipelines of `src/app/app_service.cpp`, which work on interfaces with a
SQLite, Redis or in-memory implementation behind them.

    server (one thread) ----+                     +-- Redis: interactions
    CLI (process per call) -+-- app pipelines ----+-- SQLite: audit log, runs, resumes, decisions
    other servers ----------+                     +-- vectors.db, or vectors in memory

| Component | State | Operations | What is hard | What makes it correct |
|---|---|---|---|---|
| Interaction state machine (`domain/interaction`) | none | `can_transition`, `apply` | `apply` looks at the event alone | no way back to a state that was left |
| In-memory coordinator (`interaction/inmemory_*`) | two maps, one mutex | `apply_transition`, `create_interaction`, `get_state` | order of the checks; replays | at most one effect per key, replays answered from the receipt |
| Redis coordinator (`interaction/redis_*`) | Redis hashes per interaction and key, script cache | the same, in three or five round trips | checks and writes are apart; lost replies; restarts | the same promise but for two clauses, under races |
| Audit log (`sqlite_audit_log`, `audit_chain`) | table `audit_events`, per-process cache of next indices | `append`, `query`, `list_trace_ids`, verification at startup | append is not atomic; several processes; reads that fail silently | every trace verifies; tampering shows |
| Schema migrations (`sqlite_db`) | tables, `schema_version` | `ensure_schema_v1..v8` | each statement commits by itself; crashes; two openers | a recorded version is true; an interrupted migration can be repeated |
| Index build (`indexing`, run store, vector index) | runs, entries, id counter, vectors | `run_index_build` | crash between vector and entry; lost in-memory vectors; ties of timestamps | a skipped artifact has its vector; run ids are distinct |
| Pipelines (`app_service`) | none of their own | transition, match, validate, decide, ingest, index | an append fails before or after an effect | every effect was announced; reports are true |
| Matcher (`matching/matcher.cpp`) | none | `evaluate` | ties, repeated atoms, K places, unverified hits | each requirement gets the best eligible evidence |
| Validation engine, rules (`constitution`) | none | `validate`, override | order of findings; what an override lifts | status is the worst finding's; an override lifts the rule it names |
| Match pipeline, decisions (`app_service`, `decision_store`) | tables `opportunities`, `experience_atoms`, `decision_records` | match, validate, decide | reads that meet locks; writes that fail in silence | a decision can be told from its trace |
| Resume ingestion (`ingest`, `sqlite_resume_store`) | tables `resumes`, `resume_meta` | `ingest_resume` | silent rollback; a COMMIT nobody looks at | what was reported stored was stored; the text is canonical |
| Tokenization (`tokenization`, token store) | table `resume_token_ir` | `tokenize-resume` | the resume may be replaced in between | a token IR that outlived its text fails TOK-001 |
| MCP server (`apps/mcp_server`) | phase of the process, open request | start, loop, handlers | stops anywhere, refused appends, clients that ask again | what a client is told is on record; it is told something in the end |
| In-memory audit log, embedding, ids, hashing, JSON, configuration | none to speak of | functions | — | — |

How they interact: the pipelines call everything else synchronously, one
request at a time per process. Processes meet only in Redis and in the SQLite
file. `main.cpp` starts by migrating the schema, connecting to Redis (which
loads the script), saving a snapshot, and verifying all audit chains when
`--audit-chain-verify` asks for it. A caller may pass its own `trace_id` to
any tool, so that several requests, threads or processes can append to one
trace.

## 2. The modules

| Module | Models | Correspondence |
|---|---|---|
| `InteractionFSM` | `src/domain/interaction.cpp` | `CanTransition` and `Apply` are the two functions; `Rank` is the measure that shows there is no cycle |
| `CoordinatorTypes` | records, receipts, results | "no entry" of a map is a value of its own; `IsLife` says what a consistent set of receipts is |
| `CoordinatorContract` | abstract: what any coordinator promises | one atomic `Effect`; an answer that claims an effect is backed by a receipt; `Failed` and `Abandoned` say nothing about the effect. With `Racing` an event must have been accepted in some state the interaction has been in (`Past`), without it in the present one; with `ValidatesFirst` a key that was used may be refused, without it it is answered from its receipt |
| `InMemoryCoordinator` | `inmemory_interaction_coordinator.cpp` | one action per path through each function: the mutex makes a call one step |
| `RedisCoordinator` | `redis_interaction_coordinator.cpp` | one action per round trip and outcome: EXISTS, HGETALL with validation, EVALSHA, and the EXISTS and four HSETs of a creation; a round trip may fail, or take effect and lose its reply; processes and Redis restart |
| `AuditLog` | `sqlite_audit_log.cpp`, `audit_chain.cpp` | `append` in three steps: the index and then the hash under the mutex, the INSERT after it; `Stored` and `Before` are `query`, `Verifies` is `verify_audit_chain` |
| `SchemaMigration` | `sqlite_db.cpp` | one step per check of a version and per statement |
| `IndexBuild` | `index_build_pipeline.cpp`, `sqlite_index_run_store.cpp`, the stores of vectors | one action per statement with an effect: the two halves of `next_index_run_id`, `upsert_run`, the events, `list_all`, skipping, embedding, the vector, the entry, completion; a refused event ends the build, a refused row goes unnoticed, a read that meets a lock lists nothing or finds no hash; processes go down, artifacts change |
| `McpServer` | `main.cpp`, `server_loop.cpp`, `interaction_apply_event.cpp`, `run_interaction_transition` | `Launch`, `Connect`, `Verify` are the start, which a half-done migration (`LaunchBroken`) or a chain that does not verify may make impossible; `Receive`, `Announce`, `Transition`, `Report`, `Reply` one request, each with its failure; `Ask` and `Choose` are the client. Composed with `CoordinatorContract` with both flags, what Redis was found to promise: one atomic effect per call, of an event that may have been validated earlier |
| `Matcher` | `matcher.cpp` | operators: the candidates of both strategies, the choice of evidence, the statistics |
| `Constitution` | `validation_engine.cpp`, `override_request.cpp`, the rules of the default constitution | operators: what each rule finds, the order of findings, the status, what an override lifts |
| `MatchPipeline` | `run_match_pipeline`, `run_validation_pipeline`, `record_match_decision`, `ccmcp_cli match`, the atom, opportunity and decision tables | one action per read, append and write of three kinds of runner, on top of the two modules above |
| `ResumeText` | `format_adapter.cpp`, `hygiene.cpp`, `src/tokenization`, rules TOK-001 to TOK-005 | operators from a file to its canonical text, its tokens and the rules these break |
| `ResumeIngest` | `run_ingest_resume_pipeline`, both resume stores, `ccmcp_cli ingest-resume` and `tokenize-resume` | one action per statement of the server's ingestion with each way it fails; a command is one step, tokenizing is two: the resume is read before its tokens are stored |
| `InMemoryCoordinatorProofs`, `RedisCoordinatorProofs`, `AuditLogProofs`, `SchemaMigrationProofs`, `IndexBuildProofs`, `McpServerProofs`, `MatchPipelineProofs`, `ResumeIngestProofs` | | theorems about the module they are named after, and about the operators it is built from |
| `MC*` | | constants and symmetry for TLC |

What is abstracted. Interaction ids, keys, trace and event ids are members of
small sets. The keys of the in-memory receipts, `id + ":" + key`, are pairs:
ids are taken to be chosen so that the concatenation is unambiguous. Hashes do
not collide: the hash of an event is the sequence of events it covers.
`transition_index` and `idx` are natural numbers (64 and 32 bits in the code).
`get_state` has no action; what it would show is `Visible`. Redis executes a
command at the latest when its caller hears of it or gives up. After a restart
Redis has the data it had: loss of acknowledged writes is a matter of its
configuration. SQLite serialises statements of all processes; with no
`busy_timeout` set, a statement that meets a foreign lock fails at once, and
where the code does not look at the failure the model goes on with the value
the code goes on with (`ReadIndexBusy`, `ReadHashBusy`, `Migrate`).

In `IndexBuild` the hash of a text is the text, a number; texts are compared
only for equality by the code, and by age in the properties. Provider, model
and prompt version are the same for all builds, as in both programs. A builder
is a process: a server that outlives its builds, or the command line tool,
which is one process for each build, and a new one with the next. `StoreOf`
says which vector store a process writes, `Durable` which stores are files.
The kinds of artifacts are worked through in the order of the code, and the
artifacts of one kind in any order. An append to the audit log is one step,
since no two builds share a trace. The events the server adds around a build,
under the trace of its request, touch nothing a build reads, and are left
out, as is what a server writes into a transaction that it failed to commit.
Such a transaction locks other writers out until a tool of the same
server commits or rolls back on the same connection (`Release`) or the process
ends. A provider that embeds nothing (`NullEmbeddingProvider`, for which the
pipeline skips everything) is used by neither program for a build and is left
out.

In `McpServer` the log is the set of events appended: a client names its trace,
and asking again adds no new kind of event. `schema` keeps how many of the two
columns of version 8 there are, and `broken` whether some trace does not
verify: because its rows are older than version 8, or because an append of a
tool was linked to the wrong event, as `AuditLog` shows in detail. A strict
server does not start over such a trace, unless its own reads of the log meet a
lock (`VerifyUnread`). A configuration that is refused never starts. Lines that
are no request, unknown tools and unknown events are answered on the spot and
change nothing; they have no action. A server without `--db` is left out.

In `Matcher` a text is the set of its tokens; the scores of one requirement
share a denominator and compare as the sizes of overlaps; of the overall score
only the sign is kept, which is all SCORE-001 reads. What the vector index
returns is any of the given lists of at most `KEmbedding` keys. In
`Constitution` a finding is its rule and severity. In `MatchPipeline` the three
writes of the demo command are one step; that its COMMIT is not looked at
(`sqlite_opportunity_repository.cpp:79`), so that a lock may leave the
transaction open and all the command writes after it, its events included, be
lost when the command ends, is left out.

In `ResumeText` a text is a sequence of lines, a line its words and whether
anything about its whitespace is not canonical. The bytes inside a PDF or DOCX
file are left out; what comes out of them is a text, or a failure. At that
border the model is simpler than the code in three places: a PDF whose strings
are all empty or blank is refused in the model and accepted by the code
(`format_adapter.cpp:97`, `:159`), its `\n` escapes break lines in the code
only (`:77-79`), and a text of nothing but whitespace, which gives an empty
canonical text whose second ingestion is refused (`resume_ingestor.cpp:106`), is
not among the files of the run. The stored markdown is the canonical text; the
code cuts it at its first NUL byte (`sqlite_resume_store.cpp:30`) while the hash
covers all of it. In
`ResumeIngest` the server's connection sees its own open transaction (`mine`),
other processes see what is committed (`disk`). A COMMIT that meets a read lock
fails and leaves the transaction open, because its result is not looked at
(`CommitFails`); all later appends of that server, of any tool, are then part
of it (`OtherTool`).

## 3. What is checked

Every run checks deadlock except `mcp_server`, `match` and `ingest`: there
clients may have asked all they want, and runs and files are bounded by
`MaxRuns`, so that the system comes to rest.

| Run | Instance | Question | Result |
|---|---|---|---|
| `inmemory` | 2 threads, 1 interaction, 4 keys | does the in-memory coordinator keep its promise? | holds |
| `redis_race` | 2 processes, one of them the creator, 1 interaction, 3 keys | what survives racing processes, lost replies, restarts and half-done creations? does what was half created stay inert? do they implement the contract with both flags? | holds |
| `redis_replay` | 1 process, 1 interaction, 2 keys | is a call under a key that was used answered from its receipt? | violated |
| `redis_transition_race` | 2 processes, 2 keys | is an effect always an edge of the state machine? | violated |
| `audit` | 2 processes, one trace of one thread's own and one shared, 3 events | what verifies and what stays linked when processes race and reads fail? does verification see tampering? | holds |
| `audit_fork` | 2 threads of 1 process, 1 trace, 3 events | does every trace verify? | violated |
| `schema` | 2 processes, targets 6 and 8 | is a recorded version true, whatever crashes and races? | holds |
| `schema_rerun` | 1 process, targets 6 and 8 | can an interrupted migration be run again? | violated |
| `index_build` | a server and the command line, 1 lasting vector store, 1 artifact, 3 runs | are run ids distinct, completed runs stable and audited, vectors fresh? | holds |
| `mcp_server` | 2 servers, one that verifies strictly, 1 interaction, 2 keys of which one is used for two events, 2 faults | is every effect announced, every report true, every answer on record, and is a client told in the end, whatever start or step fails? | holds |
| `match` | the tool, the demo and a caller of validation, 2 atoms, 1 opportunity, 2 runs, 1 fault | does matching find the best evidence, is unverified evidence bounded, do overrides lift what they name, do decisions agree with traces? | holds |
| `ingest` | the server and 2 commands, 4 files, 4 runs, 2 faults | are rows whole, texts canonical, answers on record, stale tokens seen? | holds |

The bounds. An interaction takes at most four transitions in a row, and each
uses up a key; four keys let two threads go through a whole life, and
three let two racing processes interleave a race, a replay and a further
effect. One interaction is enough because no operation touches two. Two actors are enough
for every race the code has, all of which are between one reader and one
writer. Three events in a trace have a first, a middle and a last one, which
is what linking and tampering tell apart; `MaxIndex` bounds the indices failed
insertions use up, and is one below or equal to the number of events. The CLI asks for
versions 1 to 6 and the server for 8; 6 and 8 make two openers stop at
different levels. In `IndexBuild` one artifact is enough because rows and
vectors of different artifacts never meet; three runs (`MaxRuns`) let a build
follow one that completed and one that broke off; two texts (`MaxText`) are
the listed one and the one it changes to; two readings of the clock
(`MaxTime`) make runs complete in order, out of order, and in one second.

In `mcp_server` two faults let an append fail and the retry of it stop halfway,
one server stop while the other works, or a chain fork and a start be refused;
three transitions of which two share a key meet every outcome of a coordinator
(343,051 states). In `match` the opportunities include
one without requirements, one with an empty text, one that matches nothing and
two whose requirements the two atoms share or split; `KLexical = 1` makes the
atoms compete for one place; two runs let the runners interleave on one
database (816,137 states). `index_build`, the largest run, has 4,872,491. In `ingest` two of four files give the same markdown, one is refused,
one is rough; four runs let a text be ingested, tokenized, replaced and
tokenized again; two faults let a failing COMMIT be followed by a stop or a
failing statement.

Fairness. Only `mcp_server` has a liveness property, and only `McpServer`
states fairness: weak fairness of each server's start, of its service of the
request it has, and of its client's asking. The second is the code's own: one
thread that does one thing after the other. The first and the last are
assumptions about who starts the servers and who uses them. No fairness is
assumed of faults, and there are `MaxFaults` of them. `RetriesSettle` excepts
two things. A server may be `Unusable`, and asking again does not help: Redis
has lost the script, which is loaded at the start of a server and never again;
the migration to version 8 was broken off between its two statements, which
`schema_rerun` shows to be final; or some chain does not verify, for one of the
reasons `audit_fork` and `ReadHashBusy` show or because the database is old, and
the server is told to fail on it. And a client whose key took effect may be told
`InvalidTransition` (`RefusedReplay`), which `redis_replay` shows: it is told
something, and it is wrong. Everything else is safety.

What the violated runs show:

* `redis_transition_race`: the script trusts the state the client validated a
  round trip earlier. Two processes read `Draft`; one closes, the other
  prepares, and the closed interaction is `Ready` again. `kConflict` is never
  returned. What does hold is that index, receipts and state still agree on
  the order of the effects (`IndexCountsReceipts`, `StateIsLastReceipt`), that
  every event was accepted in some state the interaction has been in
  (`EventsWereAccepted`), and the rest of the contract (`RacingContractSpec`).
* `redis_replay`: the event is validated before the receipt is looked for. A
  client that asks for `Prepare` twice under one key is told `Applied`, then
  `InvalidTransition`, because `Ready` does not accept `Prepare`. The interface
  promises `kAlreadyApplied` (`interaction_coordinator.h:55-56`), and
  `test_redis_interaction_coordinator.cpp:50-55` expects it of exactly this
  sequence. The in-memory coordinator keeps the promise: it implements the
  contract without `ValidatesFirst`. That the second call does nothing is
  `IndexCountsReceipts`.
* `audit_fork`: the INSERT is outside the mutex.
* `schema_rerun`: version 8 is two `ALTER TABLE`s without a transaction.

Creation on Redis is not atomic either: it asks whether the id exists and
writes a round trip later (`redis_interaction_coordinator.cpp:241-246`). Of two
creators of one id both may find it absent, and the slower one then resets
state and index under the transitions the other's clients have already made.
`docs/ARCHITECTURE.md:195-196` says that the index "starts at 0 (creation) and
is strictly increasing". The runs have one creator for each interaction, and
the theorems about Redis assume it (`OneCreator`); with two in `Creators`,
`IndexCountsReceipts`, `StateIsLastReceipt` and `EventsWereAccepted` fail in the
instance of `redis_race`, and `AnswersAgree` alone still holds.

What `IndexBuild` excepts, and why. `FreshWhenDone` says nothing once
`disturbed`: when two builds overlapped, the vector of the one that listed an
older text may be written last; and a vector that a lasting store refused is
recorded all the same. It is checked with one durable store and texts that
never come back, and is false without either: a store in memory is empty after
a restart while the recorded hashes remain, and with `Reverts` a broken-off
build may have left the vector of a text in between, which the recorded hash of
the old text, or an older run that a tie or setback of `completed_at` makes
the last, hides. The code excludes none of these. What is true of every store
and of texts that come back is `StaleIsRecorded`, in section 4. The second `index-build` of the command line on one database
never gets past its first event, because the ids of its events start over
(`IdTaken`), and the scope "opps" of the server reaches no kind of artifact
(`Covers`).

A half-done creation deserves a remark: the id can then neither be created
nor moved, and `get_state` does not show it. That it at least never takes a
transition is `InvisibleIsInert`.

What the other modules except. `UnverifiedIsNamed` says where unverified atoms
can become evidence: only if the caller named them and the vector index found
them, since `verify()` is asked of the lexical candidates alone. The property
bounds a divergence, it does not excuse it: see below.
`MatcherMeetsRules` allows a report without matches to be accepted if there are
no requirements.
`DecisionsAreTraced` excepts decisions the store dropped in silence (`lost`).
`AnsweredWasStored` speaks of answers before anything went wrong (`clean`), and
`AnswersAreOnRecord` of the time before a COMMIT failed (`stuck`): after either
the code's answers may be untrue.

Where code and documents differ, without a run of their own:

* Two creators of one interaction reset its index, as said above, against
  `docs/ARCHITECTURE.md:195-196`.
* An atom that is not verified becomes evidence if the request names it among
  its atoms and the strategy is hybrid: `run_match_pipeline` loads named atoms as
  they are (`app_service.cpp:49-64`), and the hits of the vector index are
  merged without a look at `verify()` (`matcher.cpp:151-178`). The documents say
  "Only verified atoms (`atom.verified == true`) are used in matching"
  (`docs/ARCHITECTURE.md:77`), "Only verified atoms are considered" (`:116`, of
  the hybrid strategy too) and "Only verified atoms (`atom.verify() == true`)
  are considered" (`docs/DOMAIN_MODEL.md:76`). `UnverifiedIsNamed` holds of what
  the code does; the documents' property, no unverified evidence at all, fails
  in the instance of `match`.
* A validation that ends in `needs_review` is announced as `unknown`: the switch
  of `run_validation_pipeline` has no case for it (`app_service.cpp:130-143`),
  while the decision says `needs_review` (`:287`). `docs/DECISION_RECORDS.md:76`
  lists the status, and `:191` promises "full trace reconstruction": a
  `needs_review` decision whose row was lost cannot be told from its trace, which
  names no status. `DecisionsAreTraced` says that this status alone is lost.

Met while modelling:

* Whether an artifact is skipped by an index build is decided by the recorded
  hash alone. With vectors in memory, every build after a restart skips every
  unchanged artifact (`index_build_pipeline.cpp:94`).
* `k_lex` and `k_emb` of a request are parsed and never reach the matcher
  (`Matcher` has constants); no request of the server carries an override.
* The handler of `match_opportunity` calls the decision record non-fatal, but a
  refused append of its event answers an error: the match is then complete, the
  decision stored, and the answer an error.
* `IngestCompleted` and the answer say the resume was persisted also when the
  upsert was rolled back (`sqlite_resume_store.cpp:36`).

## 4. What is proved

`InMemoryCoordinatorProofs`, for all sets of interactions, keys and threads:

* `TypeCorrect`: `TypeOK`. Inductive as it stands.
* `IndexNeverOvertakesRank`: `IndexWithinRank`. Inductive with types: an
  accepted event raises the rank of the state by at least one
  (`AcceptedEventAdvances`), and the index by exactly one.
* `ReceiptsAlwaysTellTheLife`: `ReceiptsTellTheLife`. Inductive with types;
  `LifeBegins` and `LifeGoesOn` say what creation and an effect do to `IsLife`,
  so that each action needs only to be matched with one of them.
* `AnswersAlwaysAgree`: `AnswersAgree` compares the answers of two threads
  and is not inductive: nothing in it ties an answer to the maps. The
  strengthening says that an answer that claims an effect is backed by the
  receipt of its key, and that two threads were not both told `Applied` for
  one index; receipts never change once given.
* `ImplementsContract`: `ContractSpec`, with neither flag: effects where they are
  valid, and no refusal under a key that was used. Both have the same
  variables; each action is an action of the contract.
* `ImplementsRacingContract`: the contract with both flags, which `McpServer` is
  built on. A refusal under a fresh key is one the weaker contract allows, and
  an effect of the strict contract is one of the racing contract
  (`EffectMayRace`), because the state of an interaction is one it has been in:
  `ReceiptsTellTheLife`.
* `ReplaysAreAlwaysAnswered`: `ReplayIsAnswered`, an action property. The code
  looks for the interaction first and for the key next; that a key of an
  unknown interaction has no receipt is part of `ReceiptsTellTheLife`.

These proofs use no assumption about the constants.

`RedisCoordinatorProofs`, for all sets of interactions, keys and processes, if
each interaction is created by one process at most (`OneCreator`; two would
reset each other's index):

* `TypeCorrect`, `IndexAlwaysCountsReceipts`, `StateIsAlwaysLastReceipt`: one
  inductive invariant, `IInv`. `StateIsLastReceipt` alone is not inductive: a
  late HSET of a creation could overwrite a state. `CreationsUndisturbed` says
  that while a creation is under way nothing else moves its interaction, which
  the script's check of the index field and `OneCreator` give.
* `AnswersAlwaysAgree`: from `AnswersBacked` and `AppliedOnce` in `IInv`; the
  script answers `Applied` only where it finds no receipt.
* `InvisibleStaysInert`: `InvisibleIsInert`, an action property from `IInv`.
* `EventsAlwaysAccepted`: `EventsWereAccepted`. The strengthening (`RaceInv`)
  adds that an event on its way to the script was accepted in a state the
  interaction has been in (`ReadsWerePast`), which stays so because receipts
  stay (`PastStays`, `ReceiptIsScripts`); that a hash without index is in
  `Draft` or empty; and that a process has no answer while its call is under
  way. That the accepting state is an earlier one than the effect's is
  `IndexCountsReceipts`: all receipts there are have lower indices.
* `RacersImplementContract`: `RacingContractSpec`, for any number of processes,
  from `RaceInv`. A script, whether its reply arrives or not, is the contract's
  effect; a HSET that does not make the interaction visible is a stutter, the
  one that does is its creation.
* `AloneImplementsAllButReplays`: `AloneContractSpec`, the contract without
  `Racing` but with `ValidatesFirst`, if there is one process (`OneCaller`); with
  two it is false, as `redis_transition_race` shows, and without the second
  flag it is false even for one, as `redis_replay` shows. It follows from the
  theorem before it: nothing changes between the read and the script of a
  process that is alone (`ReadsStand`), so that each effect is one of the
  contract without `Racing` (`EffectIsValid`), and the two contracts differ in
  nothing else (`SameAlone`).
* `AloneTellsTheLife`: `ReceiptsTellTheLife`, under the same condition. The
  strengthening (`LifeInv`) says of every receipt that its event was accepted
  where the receipt before it led.

The steps are sorted once into the four shapes they give to the data (an
effect, one HSET, an answer, nothing), and the invariant is proved shape by
shape.

`AuditLogProofs`, for all sets of threads, processes, traces and events, and
all bounds `MaxIndex`:

* `TypeCorrect`, `LinksAlwaysPointBack`: with the strengthening that what a
  call is about to link to is a hash in the log (`LinksInv`). Rows are only
  added, so a link once good stays good.
* `PrivateTracesReadInOrder`, `PrivateTracesVerify`: from `PrivateInv`. A trace
  of one thread alone is in order and verifies; the thread's next index and the
  cached one are above every stored index, and what it is about to link to is
  the last hash. The last row of a finite set of rows is found by the
  well-foundedness of the natural numbers.
* `TamperingAlwaysShows`: `TamperingShows`, from types alone. In a trace that
  verifies every hash covers one event more than the hash before it, so that
  no two rows have the same predecessor (`PrevsDiffer`) and every row but the
  last has a row that is linked to it (`HasNext`). A replaced event no longer
  has its hash; of two exchanged events the earlier place no longer has its
  predecessor; after a removal the successor does not. That hashes grow along
  the order of reading is shown by a least counterexample instead of an
  induction, and `MovedLastHash` says once that moving rows keeps the last hash.

`SchemaMigrationProofs`, for all sets of processes:

* `TypeCorrect`, `VersionsAreTrue`, `OpenedDatabasesAreReady`: from `ChainInv`.
  A process that works on a level has all levels below it in place, and of its
  own the objects of the statements behind it. No step takes an object away.

`McpServerProofs`, for all sets of servers, interactions and keys, and any
number of faults; the fairness of `Spec` is not used:

* `TypeCorrect`: from `TypeInv`, which adds that a server at work has a client
  that waits.
* `EffectsAreAlwaysAnnounced`: a server that is about to call the coordinator
  has announced the request of its client, and the client keeps its request
  while it waits (`AnnouncedInv`).
* `WhatIsToldIsOnRecord`: inductive with types; the log only grows.
* `ReportsAreAlwaysTrue`: from `TruthInv`. Receipts never change, so a result
  that is backed when the coordinator returns is backed when it is reported and
  ever after. That no two reports claim one index rests on the indices: an
  effect takes an index above all that receipts name.

The coordinator behind these theorems is the contract with both flags. Redis
implements it by `RacersImplementContract`, the in-memory coordinator by
`ImplementsRacingContract`. What they say of reports and answers so holds for any
number of servers on one Redis, if each interaction has one creator.

`IndexBuildProofs`, for all sets of builders, artifacts and stores, from
`IndexAssumption`, which gives the constants their types:

* `TypeCorrect`: `TypeOK`. Inductive as it stands.
* `RunIdsStayDistinct`: `RunIdsAreDistinct` compares builders and is not
  inductive. The strengthening (`IdInv`) says that whoever is inside the
  transaction holds the lock and the number after the counter, that given
  numbers are at most the counter, and that the rows above it are blank.
* `CompletedRunsStay`: `HistoryStays`, an action property, from the same
  invariant: a builder writes under its own number only, and that run is not
  completed.
* `CompletedRunsAreTold`: `CompletedRunsAreAudited`. An entry is written one
  step before its event, so that the strengthening (`AuditKeepsUp`) allows the
  one entry whose event is due to the builder that is about to write it. A run
  completes only past that step.
* `StaleVectorsAreRecorded`: `StaleIsRecorded`. Where a build that ends leaves the
  vector of an artifact it listed at another text, or without one, an earlier
  run that completed had recorded the very text it listed. It is proved of
  stores in memory and on disk, of any number of them and of texts that come
  back, for builds that did not overlap and vectors that were not refused
  (`disturbed`). It says how far the comparison of hashes can be trusted where
  `FreshWhenDone` fails: a run that broke off, or one that never embedded the
  text, is never the reason for a stale vector. Stores that two builders share
  must be durable, which is an assumption of the module. The strengthening
  (`VouchInv`) says of a builder that works alone that what it is through with
  is settled, embedded or recorded (`Vouched`).

The step lemmas have one step for each action; `OthersStay` says once that a
builder changes no place but its own.

`MatchPipelineProofs`, for all sets of runners, atoms, opportunities, requests
and lists of hits, and all values of `KLexical`, `KEmbedding`, `MaxRuns` and
`MaxFaults`. The assumptions of `Matcher` and `MatchPipeline` say what the C++
types say: an atom's id is not the empty one, the tokens of an atom are
finitely many, vectors are sequences, `matched` is a bool. No assumption orders
a list, keeps it free of repetitions or bounds its length.

* About sorting: `Arranged` puts at place `i` the element that has `i - 1` others
  ahead of it: those that sort before it, and equal ones listed earlier.
  `ArrangedIs` proves that there is exactly one such element for each place, for
  every relation that orders them (`Orders`), so that a sorted list loses and
  repeats nothing. It counts what is ahead; no induction over the list is needed.
* About the matcher: `TopLexicalIs`, `CandidatesAre`, `BestAtomIs` and
  `EvaluateIs` follow `evaluate` function by function, up to `IsReport`, which
  says of a report what a reader needs: each requirement has its first best
  candidate, the counts are those of its matches.
* About the rules: `FindingsAre` and `ValidateIs` say which rules find something
  (`Blocks`, `Fails`, `Warns`) and that the status is that of the worst one.
* `MatchInv` is the inductive invariant. `Fits` says what is true of the data of
  a run at each phase, `Trail` which trace leads there, and `RunFits` that the
  log has exactly that trace. `DecisionsAreTraced` alone is not inductive: a
  decision is stored before the trace is whole, and is only true because the
  run that stores it has a trace that the earlier steps left. `NumbersAreOwn`
  keeps runners that interleave apart, `FutureIsEmpty` makes a run start with an
  empty trace.
* `TypeCorrect`, `ReportsStayBest`, `UnverifiedStaysNamed`,
  `MatcherAlwaysMeetsRules`, `OverridesStayEarned` and `DecisionsStayTraced`
  prove the six invariants of the run from it.

`ResumeIngestProofs`, for all sets of files and all vocabularies, and all values
of `MaxRuns`, `MaxFaults` and the token limits. What is assumed of a file is
that its body is a sequence of lines, each a sequence of words.

* About texts: the lines that are kept, of the paragraphs of a DOCX and of runs
  of blank lines, are picked up in one pass (`Keeping`), a recursive function
  that `PassExists` shows to be defined; `CollapseSpaced` says that no run of
  three blank lines is left, and `HygieneOnce` that what hygiene leaves, hygiene
  leaves alone. `IRsBreak` says which rules the tokens
  of a text can break.
* `IngestInv` is the inductive invariant. `StoresInv` asks the same of the
  committed database and of the server's open transaction, because either may
  be what a statement reads: rows of one ingestion, no two resumes with one
  hash, no token IR without its resume. `BoundsInv` ties an open transaction to
  a COMMIT that failed, `JobInv` and `CliInv` say what the ingestion and the
  tokenization under way are about to write, and `KeptInv` what was stored while
  nothing had gone wrong.
* `TypeCorrect`, `RowsStayWhole`, `CanonicalStaysFixed`,
  `AnsweredWasAlwaysStored`, `AnswersStayOnRecord` and `TokensStayBound` prove
  the six invariants of the run from it.

In these two components lists are sorted, filtered and flattened by definitions
that say which element is at which place, or by recursive functions; where the
proofs need a value of a recursive function for every argument, they take the
least argument for which the claim fails and refute it.

Checked by TLC only. `RetriesSettle` of `mcp_server`, a liveness property:
fairness and `ENABLED` are beyond the prover. `FreshWhenDone` of `index_build`,
which holds of one durable store and texts that never come back, not for every
value of the constants; `StaleIsRecorded` is what holds for all. The properties
of the four violated runs are false and have no theorem
(`ReplayIsAnswered` is false on Redis and proved of the in-memory coordinator);
every other invariant and action property of every run is a theorem. A few
theorems state what no run checks: some type invariants; of one process alone
on Redis, `AloneContractSpec` and `ReceiptsTellTheLife`; the weaker contract of
the in-memory coordinator; and `StaleIsRecorded`, which TLC finds to hold of
vectors in memory and texts that come back as well.

## 5. Not modelled, and left open

Not modelled, with the reason:

* the in-memory audit log and repositories: one process, no lock, one step per
  operation; they serve the server without `--db` and the tests;
* tools and commands that only read (`get_audit_trace`, `get_decision`,
  `list_decisions`, `redis-health`), and `validate_match_report`, which answers
  that it is not implemented: no state changes;
* parsing and formatting (JSON-RPC, JSON of records, the bytes of PDF and
  DOCX), the parsing of a Redis address, similarity arithmetic, SHA-256;
* the interaction repository, which no tool writes, and the runtime snapshot,
  which nothing reads back; its insertion is part of `Verify`.

Left open:

* a Redis command that is executed after its caller gave up *and* went on: the
  model executes a command at the latest when its caller gives up. A script
  that comes so late would be one more racing effect; a late HSET of a creation
  could meet a second attempt of the same creator;
* `McpServer` over `AuditLog` instead of a set of events. What a shared
  `trace_id` does to the order and the chain of a trace is shown by `audit` and
  `audit_fork` for any events, not for those of a transition;
* fresh vectors in more than one store: a recorded hash does not say which store
  has the vector, so that `FreshWhenDone` is false there, as it is for vectors
  in memory. `StaleVectorsAreRecorded` says how a vector can be stale then.
