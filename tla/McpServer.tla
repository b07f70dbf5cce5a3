----------------------------- MODULE McpServer ------------------------------
(***************************************************************************)
(* The MCP server around interaction_apply_event: the start of the process *)
(* (main), its loop over lines of stdin, the pipeline that announces a     *)
(* transition in the audit log, asks the coordinator for it and reports    *)
(* what came of it, and the client at the other end, which asks again      *)
(* under the same idempotency key until it is told an outcome.  Several    *)
(* servers work on one Redis and one database, each with a client of its   *)
(* own.                                                                    *)
(*                                                                         *)
(* The coordinator is what RedisCoordinator was found to promise to        *)
(* processes that race (RacingContractSpec), with the script it needs.     *)
(* The log is the set of events appended: a client names its trace, and    *)
(* repeated tries add no new kind of event.  Of the database the start of  *)
(* a server depends on two things more: how far the migration to schema    *)
(* version 8 got (SchemaMigration) and whether every chain of the log      *)
(* verifies (AuditLog).                                                    *)
(* Things that go wrong are bounded by MaxFaults; asking again is not.     *)
(***************************************************************************)
EXTENDS CoordinatorTypes

CONSTANTS Wants,      \* the transitions each server's client asks for
          ChainMode,  \* --audit-chain-verify of each server
          MaxFaults   \* bound: how often something goes wrong

\* Each server is a caller of the coordinator.
Servers == Callers

ASSUME ServerAssumption ==
  /\ Wants \in [Servers -> SUBSET [id : Interactions, event : Events, key : Keys]]
  /\ ChainMode \in [Servers -> {"off", "warn", "fail"}]
  /\ MaxFaults \in Nat

VARIABLES interactions, receipts, result,  \* the coordinator's
          scripts,  \* is the script in Redis' cache?
          schema,   \* the two columns of schema version 8: "None", "One" or "Both"
          broken,   \* is there a trace whose chain does not verify?
          log,      \* the audit events of transitions
          phase,    \* how far each server is
          client,   \* what each server's client wants, does and was told
          faults    \* how much may still go wrong

coordinator == <<interactions, receipts, result>>
database == <<schema, broken>>
vars == <<interactions, receipts, result, scripts, schema, broken, log, phase, client,
          faults>>

Coordinator == INSTANCE CoordinatorContract WITH Racing <- TRUE, ValidatesFirst <- TRUE

Phases == {"Down", "Opened", "Connected", "Listening", "Received", "Announced", "Applied",
           "Reported"}

\* Outcomes that end a request for its client; after any other it asks again.
Settling == {"Applied", "AlreadyApplied", "InvalidTransition", "NotFound"}
Success == {"Applied", "AlreadyApplied"}

AllWants == UNION {Wants[s] : s \in Servers}

Event(s, type, outcome, index) ==
  [by |-> s, want |-> client[s].want, type |-> type, outcome |-> outcome, index |-> index]

-----------------------------------------------------------------------------
\* The database is new, or one of an older version: then the rows of its log
\* have empty hashes, and their traces do not verify.
Init ==
  /\ Coordinator!Init
  /\ scripts = FALSE
  /\ schema = "None"
  /\ broken \in BOOLEAN
  /\ log = {}
  /\ phase = [s \in Servers |-> "Down"]
  /\ client \in [Servers -> [want : AllWants, state : {"Asking"}, told : {NoAnswer}]]
  /\ \A s \in Servers : client[s].want \in Wants[s]
  /\ faults = MaxFaults

Goes(s, p) == phase' = [phase EXCEPT ![s] = p]

\* The client of s goes into another state.
Becomes(s, state) ==
  client' = [client EXCEPT ![s] =
    [want |-> client[s].want, state |-> state, told |-> client[s].told]]

Fault == faults > 0 /\ faults' = faults - 1

\* No tool creates interactions: they come from elsewhere.
Create(i) ==
  /\ Coordinator!Create(i)
  /\ UNCHANGED <<scripts, database, log, phase, client, faults>>

-----------------------------------------------------------------------------
\* The start of the process, which has a configuration that
\* validate_mcp_server_config accepts (one it refuses never starts): the
\* database is opened and migrated.  A migration to version 8 that was broken
\* off between its two ALTER TABLEs fails on every later start.
Launch(s) ==
  /\ phase[s] = "Down"
  /\ schema # "One"
  /\ schema' = "Both"
  /\ Goes(s, "Opened")
  /\ UNCHANGED <<coordinator, scripts, broken, log, client, faults>>

\* Killed between the two ALTER TABLEs.
LaunchBroken(s) ==
  /\ phase[s] = "Down"
  /\ schema = "None"
  /\ Fault
  /\ schema' = "One"
  /\ UNCHANGED <<coordinator, scripts, broken, log, phase, client>>

\* The coordinator is constructed: a ping, and the script is loaded.
Connect(s) ==
  /\ phase[s] = "Opened"
  /\ scripts' = TRUE
  /\ Goes(s, "Connected")
  /\ UNCHANGED <<coordinator, database, log, client, faults>>

\* Mutation: a warning is taken for a refusal.
VerifyStrictly(s) ==
  /\ phase[s] = "Connected"
  /\ Goes(s, IF broken /\ ChainMode[s] # "off" THEN "Down" ELSE "Listening")
  /\ UNCHANGED <<coordinator, scripts, database, log, client, faults>>

\* The snapshot of the configuration is saved, and the chains are verified
\* when ChainMode asks for it.
Verify(s) ==
  /\ phase[s] = "Connected"
  /\ Goes(s, IF broken /\ ChainMode[s] = "fail" THEN "Down" ELSE "Listening")
  /\ UNCHANGED <<coordinator, scripts, database, log, client, faults>>

\* The chains are read while another process writes: a SELECT that meets its
\* lock ends early, and what it has not read verifies.
VerifyUnread(s) ==
  /\ phase[s] = "Connected"
  /\ broken
  /\ ChainMode[s] = "fail"
  /\ Fault
  /\ Goes(s, "Listening")
  /\ UNCHANGED <<coordinator, scripts, database, log, client>>

\* The client of a server that ends sees end of file, and asks again.
Hangup(s) == Becomes(s, IF client[s].state = "Idle" THEN "Idle" ELSE "Asking")

\* The database does not open, Redis does not answer, the snapshot is
\* refused; the process is killed; or a call of a tool whose params are no
\* object throws outside the handler's try and ends the loop.
Exit(s) ==
  /\ phase[s] \notin {"Down", "Announced"}
  /\ Fault
  /\ Goes(s, "Down")
  /\ Hangup(s)
  /\ result' = [result EXCEPT ![s] = NoAnswer]
  /\ UNCHANGED <<interactions, receipts, scripts, database, log>>

\* Killed while the coordinator is at work: the transition may happen.
ExitInCall(s) ==
  LET w == client[s].want
  IN  /\ phase[s] = "Announced"
      /\ Fault
      /\ Goes(s, "Down")
      /\ Hangup(s)
      /\ result' = [result EXCEPT ![s] = NoAnswer]
      /\ Coordinator!Effect(w.id, w.event, w.key) \/ UNCHANGED <<interactions, receipts>>
      /\ UNCHANGED <<scripts, database, log>>

\* Redis comes back with its data and an empty script cache.
RedisRestarts ==
  /\ scripts
  /\ Fault
  /\ scripts' = FALSE
  /\ UNCHANGED <<coordinator, database, log, phase, client>>

-----------------------------------------------------------------------------
\* The client writes its request, once there is a pipe to write it to.
Ask(s) ==
  /\ client[s].state = "Asking"
  /\ phase[s] # "Down"
  /\ Becomes(s, "Waiting")
  /\ UNCHANGED <<coordinator, scripts, database, log, phase, faults>>

\* A client that was told an outcome goes on to something it has not asked
\* for yet.
Choose(s, w) ==
  /\ client[s].state = "Idle"
  /\ \A ev \in log : ev.by = s => ev.want # w
  /\ client' = [client EXCEPT ![s] = [want |-> w, state |-> "Asking", told |-> NoAnswer]]
  /\ UNCHANGED <<coordinator, scripts, database, log, phase, faults>>

\* The loop reads the line and dispatches it to the handler.  Lines that are
\* no JSON, unknown methods and tools and unknown events are answered with an
\* error on the spot and change nothing.
Receive(s) ==
  /\ phase[s] = "Listening"
  /\ client[s].state = "Waiting"
  /\ Goes(s, "Received")
  /\ UNCHANGED <<coordinator, scripts, database, log, client, faults>>

\* The loop writes a response; the client hears it and stops or asks again.
Respond(s, answer) ==
  /\ Goes(s, "Listening")
  /\ client' = [client EXCEPT ![s] =
       IF answer.outcome \in Settling
       THEN [want |-> client[s].want, state |-> "Idle", told |-> answer]
       ELSE [want |-> client[s].want, state |-> "Asking", told |-> NoAnswer]]
  /\ result' = [result EXCEPT ![s] = NoAnswer]

RespondError(s) == Respond(s, NoAnswer)

\* An event is appended.  Where another process appends to its trace, or a
\* read of the trace meets its lock, it is linked to the wrong event, and the
\* chain does not verify from then on (AllChainsVerify of AuditLog; a trace
\* that no other process touches stays whole: PrivateChainsVerify).
Append(ev) ==
  /\ log' = log \cup {ev}
  /\ \/ UNCHANGED <<broken, faults>>
     \/ ~broken /\ Fault /\ broken' = TRUE
  /\ UNCHANGED schema

\* InteractionTransitionAttempted is appended.
Announce(s) ==
  /\ phase[s] = "Received"
  /\ Append(Event(s, "Attempted", "None", 0))
  /\ Goes(s, "Announced")
  /\ UNCHANGED <<coordinator, scripts, client>>

\* Mutation: the transition goes ahead although it could not be announced.
AnnounceOrNot(s) ==
  /\ phase[s] = "Received"
  /\ Fault
  /\ Goes(s, "Announced")
  /\ UNCHANGED <<coordinator, scripts, database, log, client>>

\* append throws: the handler answers with an error.
AnnounceFails(s) ==
  /\ phase[s] = "Received"
  /\ Fault
  /\ RespondError(s)
  /\ UNCHANGED <<interactions, receipts, scripts, database, log>>

\* The script is called for an event that the state accepted when it was read.
NeedsScript(w) ==
  /\ interactions[w.id] # NoRecord
  /\ Coordinator!Accepted(w.id, w.event)

\* coordinator.apply_transition returns.
Transition(s) ==
  LET w == client[s].want
  IN  /\ phase[s] = "Announced"
      /\ \/ /\ scripts
            /\ \/ Coordinator!Applied(s, w.id, w.event, w.key)
               \/ Coordinator!AlreadyApplied(s, w.id, w.event, w.key)
         \/ Coordinator!Refused(s, w.id, w.event, w.key)
         \/ Coordinator!NotFound(s, w.id, w.event, w.key)
      /\ Goes(s, "Applied")
      /\ UNCHANGED <<scripts, database, log, client, faults>>

\* EVALSHA finds no script: BackendError, whenever and however often.
TransitionNoScript(s) ==
  LET w == client[s].want
  IN  /\ phase[s] = "Announced"
      /\ NeedsScript(w)
      /\ ~scripts
      /\ result' = [result EXCEPT ![s] =
           Answer(w.id, w.event, w.key, "BackendError", "Draft", "Draft", 0)]
      /\ Goes(s, "Applied")
      /\ UNCHANGED <<interactions, receipts, scripts, database, log, client, faults>>

\* A round trip breaks off: BackendError, and the transition may have happened.
TransitionFails(s) ==
  LET w == client[s].want
  IN  /\ phase[s] = "Announced"
      /\ Fault
      /\ Coordinator!Failed(s, w.id, w.event, w.key)
      /\ Goes(s, "Applied")
      /\ UNCHANGED <<scripts, database, log, client>>

\* Mutation: whatever is no refusal counts as a success.
ReportTypeUnlessRefused(outcome) ==
  IF outcome \in {"InvalidTransition", "NotFound", "Conflict"} THEN "Rejected" ELSE "Completed"

\* The type of the second event.
ReportType(outcome) == IF outcome \in Success THEN "Completed" ELSE "Rejected"

\* InteractionTransitionCompleted or -Rejected is appended.
Report(s) ==
  LET r == result[s]
  IN  /\ phase[s] = "Applied"
      /\ Append(Event(s, ReportType(r.outcome), r.outcome, r.index))
      /\ Goes(s, "Reported")
      /\ UNCHANGED <<coordinator, scripts, client>>

\* The handler returns, and the loop writes its answer.
Reply(s) ==
  /\ phase[s] = "Reported"
  /\ Respond(s, result[s])
  /\ UNCHANGED <<interactions, receipts, scripts, database, log, faults>>

\* Mutation: the client is answered although nothing was reported.
ReportFailsQuietly(s) ==
  /\ phase[s] = "Applied"
  /\ Fault
  /\ Goes(s, "Reported")
  /\ UNCHANGED <<coordinator, scripts, database, log, client>>

\* append throws after the effect: the handler answers with an error.
ReportFails(s) ==
  /\ phase[s] = "Applied"
  /\ Fault
  /\ RespondError(s)
  /\ UNCHANGED <<interactions, receipts, scripts, database, log>>

-----------------------------------------------------------------------------
Start(s) == Launch(s) \/ Connect(s) \/ Verify(s) \/ VerifyUnread(s)

Serve(s) ==
  \/ Receive(s)
  \/ Announce(s)
  \/ AnnounceFails(s)
  \/ Transition(s)
  \/ TransitionNoScript(s)
  \/ TransitionFails(s)
  \/ Report(s)
  \/ ReportFails(s)
  \/ Reply(s)

Next ==
  \/ \E i \in Interactions : Create(i)
  \/ RedisRestarts
  \/ \E s \in Servers :
       \/ Start(s)
       \/ Serve(s)
       \/ Ask(s)
       \/ LaunchBroken(s)
       \/ Exit(s)
       \/ ExitInCall(s)
       \/ \E w \in Wants[s] : Choose(s, w)

\* The server is one thread that does one thing after the other.  Of others
\* it is assumed that a server that is down is started again, and that a
\* client that was told no outcome asks again.
Fairness ==
  \A s \in Servers : WF_vars(Start(s)) /\ WF_vars(Serve(s)) /\ WF_vars(Ask(s))

Spec == Init /\ [][Next]_vars /\ Fairness

-----------------------------------------------------------------------------
\* Type correctness of the server's own state.
LogEvents ==
  [by : Servers, want : AllWants, type : {"Attempted", "Completed", "Rejected"},
   outcome : Outcomes \cup {"None"}, index : Nat]
Clients == [want : AllWants, state : {"Idle", "Asking", "Waiting"},
            told : Answers \cup {NoAnswer}]
TypeOK ==
  /\ interactions \in [Interactions -> Record \cup {NoRecord}]
  /\ receipts \in [Interactions -> [Keys -> Receipt \cup {NoReceipt}]]
  /\ result \in [Servers -> Answers \cup {NoAnswer}]
  /\ scripts \in BOOLEAN /\ broken \in BOOLEAN /\ schema \in {"None", "One", "Both"}
  /\ log \subseteq LogEvents
  /\ phase \in [Servers -> Phases]
  /\ client \in [Servers -> Clients]
  /\ faults \in 0 .. MaxFaults

\* run_interaction_transition appends Attempted before it calls the
\* coordinator: whatever broke off when, every effect there is was announced
\* under its id, event and key.
EffectsAreAnnounced ==
  \A i \in Interactions, k \in Keys :
    receipts[i][k] # NoReceipt =>
      \E ev \in log :
        /\ ev.type = "Attempted"
        /\ ev.want = [id |-> i, event |-> receipts[i][k].event, key |-> k]

\* A Completed event tells the truth, now and later: the key it was asked
\* under has a receipt with the index it names, and no two traces claim to
\* have been the first to apply one index.
ReportsAreTrue ==
  \A ev \in {e \in log : e.type = "Completed"} :
    /\ receipts[ev.want.id][ev.want.key] # NoReceipt
    /\ receipts[ev.want.id][ev.want.key].index = ev.index
    /\ \A other \in log :
         /\ other.type = "Completed" /\ other.want.id = ev.want.id
         /\ other.outcome = "Applied" /\ ev.outcome = "Applied"
         /\ other.index = ev.index
         => other = ev

\* What a client is told can be found in the trace it named: the outcome is
\* appended before it is sent, a failing append withholds it, and a server
\* that stops between the two tells nothing.
ToldIsReported ==
  \A s \in Servers :
    client[s].told # NoAnswer =>
      \E ev \in log :
        /\ ev.by = s /\ ev.want = client[s].want
        /\ ev.type # "Attempted"
        /\ ev.outcome = client[s].told.outcome
        /\ ev.index = client[s].told.index

\* A client that asks again is told in the end that its key has taken effect,
\* or that it has not: no failure of an append, of a round trip or of a process
\* wedges server or client.  That is so but for two things.  An operator is
\* needed where no start can help: Redis lost the script, which is loaded at
\* the start of a server and never again; the migration to version 8 was
\* broken off half way; or a chain does not verify and the server must not
\* start over it.  And a client whose key has taken effect may be refused
\* instead of being told so: the event is validated before the key is looked
\* up (redis_interaction_coordinator.cpp:144).
Refused(s) == client[s].state = "Idle" /\ client[s].told.outcome = "InvalidTransition"
KeyIsUsed(s) == receipts[client[s].want.id][client[s].want.key] # NoReceipt

Told(s) ==
  \/ client[s].state = "Idle" /\ client[s].told.outcome \in Success \cup {"NotFound"}
  \/ Refused(s) /\ ~KeyIsUsed(s)

RefusedReplay(s) == Refused(s) /\ KeyIsUsed(s)

Unusable(s) == ~scripts \/ schema = "One" \/ (broken /\ ChainMode[s] = "fail")

RetriesSettle ==
  \A s \in Servers :
    client[s].state # "Idle" ~> Told(s) \/ RefusedReplay(s) \/ Unusable(s)
=============================================================================
