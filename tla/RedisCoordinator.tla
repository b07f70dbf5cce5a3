-------------------------- MODULE RedisCoordinator --------------------------
(***************************************************************************)
(* RedisInteractionCoordinator: processes that share one Redis server.     *)
(* apply_transition is three round trips: EXISTS, HGETALL with validation  *)
(* in the client, EVALSHA of a script that trusts the state the client     *)
(* validated.  create_interaction is five: EXISTS and four HSETs.  Any     *)
(* round trip may fail, or take effect and lose its reply; a process may   *)
(* stop between two of them; Redis may restart with its data and without   *)
(* its script cache.                                                       *)
(***************************************************************************)
EXTENDS CoordinatorTypes, Integers

CONSTANT Creators  \* the processes that may create each interaction

ASSUME CreatorsAssumption == Creators \in [Interactions -> SUBSET Callers]

VARIABLES hash,          \* the hash ccmcp:interaction:<id>:state of each id
          receipts,      \* the hashes ccmcp:interaction:<id>:idem:<key>
          scriptLoaded,  \* Redis has the script in its cache
          proc,          \* where each process is in its call
          result         \* the answer of the last call of each process

vars == <<hash, receipts, scriptLoaded, proc, result>>

\* A field an HSET has not written yet; -1 for the index, so that both
\* fields keep one kind of value.
NoState == "Absent"
NoIndex == -1
Fields == {"contact_id", "opportunity_id"}
NoHash == [state |-> NoState, index |-> NoIndex, fields |-> {}]
Hash == [state : States \cup {NoState}, index : Nat \cup {NoIndex},
         fields : SUBSET Fields]

Idle == [pc |-> "idle"]
ApplyProc == [pc : {"read", "eval"}, id : Interactions, event : Events, key : Keys]
HsetSteps == {"hset_state", "hset_index", "hset_contact", "hset_opportunity"}
CreateProc == [pc : HsetSteps, id : Interactions]
CreateAnswers == [outcome : {"Created", "NotCreated"}, id : Interactions]

Exists(i) == hash[i] # NoHash

Init ==
  /\ hash = [i \in Interactions |-> NoHash]
  /\ receipts = [i \in Interactions |-> [k \in Keys |-> NoReceipt]]
  /\ scriptLoaded = TRUE
  /\ proc = [c \in Callers |-> Idle]
  /\ result = [c \in Callers |-> NoAnswer]

Goto(c, p) ==
  /\ proc' = [proc EXCEPT ![c] = p]
  /\ result' = [result EXCEPT ![c] = NoAnswer]

Return(c, answer) ==
  /\ proc' = [proc EXCEPT ![c] = Idle]
  /\ result' = [result EXCEPT ![c] = answer]

\* The catch block of apply_transition.
BackendError(i, e, k) == Answer(i, e, k, "BackendError", "Draft", "Draft", 0)

NoRedisEffect == UNCHANGED <<hash, receipts, scriptLoaded>>

-----------------------------------------------------------------------------
(***************************************************************************)
(* apply_transition.                                                       *)
(***************************************************************************)

\* EXISTS state_key, answered 0.
ApplyNotFound(c, i, e, k) ==
  /\ proc[c] = Idle
  /\ ~Exists(i)
  /\ Return(c, Answer(i, e, k, "NotFound", "Draft", "Draft", 0))
  /\ NoRedisEffect

\* EXISTS state_key, answered 1.
ApplyBegin(c, i, e, k) ==
  /\ proc[c] = Idle
  /\ Exists(i)
  /\ Goto(c, [pc |-> "read", id |-> i, event |-> e, key |-> k])
  /\ NoRedisEffect

\* EXISTS state_key, failed.
ApplyUnreachable(c, i, e, k) ==
  /\ proc[c] = Idle
  /\ Return(c, BackendError(i, e, k))
  /\ NoRedisEffect

\* Mutation: the client leaves the validation to the script.
ReadUnvalidated(c) ==
  LET p == proc[c]
  IN  /\ p.pc = "read"
      /\ Goto(c, [pc |-> "eval", id |-> p.id, event |-> p.event, key |-> p.key])
      /\ NoRedisEffect

\* HGETALL, and the event is accepted in the state it shows: the event, and
\* with it the state it leads to, is all the script will be told.
ReadAccepted(c) ==
  LET p == proc[c]
  IN  /\ p.pc = "read"
      /\ CanTransition(hash[p.id].state, p.event)
      /\ Goto(c, [pc |-> "eval", id |-> p.id, event |-> p.event, key |-> p.key])
      /\ NoRedisEffect

\* HGETALL, and the event is refused; the refusal reads transition_index,
\* and map::at throws when the hash has none.
ReadRefused(c) ==
  LET p == proc[c]
      h == hash[p.id]
  IN  /\ p.pc = "read"
      /\ ~CanTransition(h.state, p.event)
      /\ Return(c, IF h.index = NoIndex
                   THEN BackendError(p.id, p.event, p.key)
                   ELSE Answer(p.id, p.event, p.key, "InvalidTransition",
                               h.state, h.state, h.index))
      /\ NoRedisEffect

\* The script's writes: the state the client computed from the state it saw,
\* the next index, the receipt.
NewReceipt(p) ==
  [after |-> Target[p.event], index |-> hash[p.id].index + 1, event |-> p.event]

\* Mutation: the script forgets one of its HSETs.
ScriptForgetsState(p) ==
  /\ hash' = [hash EXCEPT ![p.id].index = @ + 1]
  /\ receipts' = [receipts EXCEPT ![p.id][p.key] = NewReceipt(p)]

ScriptWrites(p) ==
  /\ hash' = [hash EXCEPT ![p.id] =
       [state |-> Target[p.event], index |-> hash[p.id].index + 1,
        fields |-> hash[p.id].fields]]
  /\ receipts' = [receipts EXCEPT ![p.id][p.key] = NewReceipt(p)]

\* Mutation: the script forgets to look for the receipt.
ScriptRunsAnyKey(p) == hash[p.id].index # NoIndex

\* Mutation: a hash without transition_index counts as index 0.
ScriptRunsWithoutIndex(p) == receipts[p.id][p.key] = NoReceipt

\* The script gets to its writes: the key is fresh, and current_index + 1 is
\* not an arithmetic error on a missing field.
ScriptRuns(p) ==
  /\ receipts[p.id][p.key] = NoReceipt
  /\ hash[p.id].index # NoIndex

\* EVALSHA that applies, its reply received.
EvalApplied(c) ==
  LET p == proc[c]
  IN  /\ p.pc = "eval"
      /\ scriptLoaded
      /\ ScriptRuns(p)
      /\ ScriptWrites(p)
      /\ Return(c, Answer(p.id, p.event, p.key, "Applied", hash[p.id].state,
                          Target[p.event], hash[p.id].index + 1))
      /\ UNCHANGED scriptLoaded

\* EVALSHA that applies, its reply lost.
EvalAppliedReplyLost(c) ==
  LET p == proc[c]
  IN  /\ p.pc = "eval"
      /\ scriptLoaded
      /\ ScriptRuns(p)
      /\ ScriptWrites(p)
      /\ Return(c, BackendError(p.id, p.event, p.key))
      /\ UNCHANGED scriptLoaded

\* Mutation: a replay is answered with the interaction's present state.
EvalReplayCurrent(c) ==
  LET p == proc[c]
      h == hash[p.id]
  IN  /\ p.pc = "eval"
      /\ scriptLoaded
      /\ receipts[p.id][p.key] # NoReceipt
      /\ Return(c, Answer(p.id, p.event, p.key, "AlreadyApplied", h.state, h.state, h.index))
      /\ NoRedisEffect

\* EVALSHA that finds the receipt of its key.  (Its own EXISTS state_key
\* always answers 1 by now: nothing deletes an interaction.)
EvalReplay(c) ==
  LET p == proc[c]
      r == receipts[p.id][p.key]
  IN  /\ p.pc = "eval"
      /\ scriptLoaded
      /\ r # NoReceipt
      /\ Return(c, Answer(p.id, p.event, p.key, "AlreadyApplied", r.after, r.after, r.index))
      /\ NoRedisEffect

\* A round trip of apply_transition that fails: the connection, NOSCRIPT
\* after a restart of Redis, or the script's error on a missing index.
ApplyFails(c) ==
  LET p == proc[c]
  IN  /\ p.pc \in {"read", "eval"}
      /\ Return(c, BackendError(p.id, p.event, p.key))
      /\ NoRedisEffect

-----------------------------------------------------------------------------
(***************************************************************************)
(* create_interaction.                                                     *)
(***************************************************************************)

\* EXISTS state_key, answered 1, or failed.
CreateRefused(c, i) ==
  /\ proc[c] = Idle
  /\ c \in Creators[i]
  /\ Return(c, [outcome |-> "NotCreated", id |-> i])
  /\ NoRedisEffect

\* EXISTS state_key, answered 0.
CreateBegin(c, i) ==
  /\ proc[c] = Idle
  /\ c \in Creators[i]
  /\ ~Exists(i)
  /\ Goto(c, [pc |-> "hset_state", id |-> i])
  /\ NoRedisEffect

\* The fields, in the order the HSETs write them.
AfterHset(step) ==
  CASE step = "hset_state" -> "hset_index"
    [] step = "hset_index" -> "hset_contact"
    [] step = "hset_contact" -> "hset_opportunity"

FieldsOf(step) ==
  CASE step = "hset_contact" -> {"contact_id"}
    [] step = "hset_opportunity" -> {"opportunity_id"}
    [] OTHER -> {}

Hset(p) ==
  /\ hash' = [hash EXCEPT ![p.id] =
       [state |-> IF p.pc = "hset_state" THEN "Draft" ELSE hash[p.id].state,
        index |-> IF p.pc = "hset_index" THEN 0 ELSE hash[p.id].index,
        fields |-> hash[p.id].fields \cup FieldsOf(p.pc)]]
  /\ UNCHANGED <<receipts, scriptLoaded>>

\* An HSET and its reply.
HsetDone(c) ==
  LET p == proc[c]
  IN  /\ p.pc \in HsetSteps
      /\ Hset(p)
      /\ IF p.pc = "hset_opportunity"
         THEN Return(c, [outcome |-> "Created", id |-> p.id])
         ELSE Goto(c, [pc |-> AfterHset(p.pc), id |-> p.id])

\* An HSET whose reply is lost.
HsetReplyLost(c) ==
  LET p == proc[c]
  IN  /\ p.pc \in HsetSteps
      /\ Hset(p)
      /\ Return(c, [outcome |-> "NotCreated", id |-> p.id])

\* An HSET that fails: the catch block returns false, and what was written
\* stays written.
HsetFails(c) ==
  LET p == proc[c]
  IN  /\ p.pc \in HsetSteps
      /\ Return(c, [outcome |-> "NotCreated", id |-> p.id])
      /\ NoRedisEffect

-----------------------------------------------------------------------------
(***************************************************************************)
(* Processes and Redis come and go.                                        *)
(***************************************************************************)

\* A process stops wherever it is, and starts again: the constructor pings
\* Redis and loads the script.
ProcessRestarts(c) ==
  /\ Goto(c, Idle)
  /\ scriptLoaded' = TRUE
  /\ UNCHANGED <<hash, receipts>>

\* Redis restarts from its persisted data; the script cache is not part of it.
RedisRestarts ==
  /\ scriptLoaded' = FALSE
  /\ UNCHANGED <<hash, receipts, proc, result>>

ApplyStep(c) ==
  \/ ReadAccepted(c)
  \/ ReadRefused(c)
  \/ EvalApplied(c)
  \/ EvalAppliedReplyLost(c)
  \/ EvalReplay(c)
  \/ ApplyFails(c)

CreateStep(c) ==
  \/ HsetDone(c)
  \/ HsetReplyLost(c)
  \/ HsetFails(c)

Next ==
  \/ \E c \in Callers, i \in Interactions, e \in Events, k \in Keys :
       \/ ApplyNotFound(c, i, e, k)
       \/ ApplyBegin(c, i, e, k)
       \/ ApplyUnreachable(c, i, e, k)
  \/ \E c \in Callers, i \in Interactions :
       \/ CreateRefused(c, i)
       \/ CreateBegin(c, i)
  \/ \E c \in Callers :
       \/ ApplyStep(c)
       \/ CreateStep(c)
       \/ ProcessRestarts(c)
  \/ RedisRestarts

Spec == Init /\ [][Next]_vars

-----------------------------------------------------------------------------
(***************************************************************************)
(* What holds however the processes interleave, when each interaction is   *)
(* created by one process only.                                            *)
(***************************************************************************)
OneCreator == \A i \in Interactions : \A c, d \in Creators[i] : c = d

\* Type correctness.
TypeOK ==
  /\ hash \in [Interactions -> Hash]
  /\ receipts \in [Interactions -> [Keys -> Receipt \cup {NoReceipt}]]
  /\ scriptLoaded \in BOOLEAN
  /\ proc \in [Callers -> {Idle} \cup ApplyProc \cup CreateProc]
  /\ result \in [Callers -> {NoAnswer} \cup Answers \cup CreateAnswers]

\* transition_index counts the effects: the receipts of an interaction are
\* numbered 1 to transition_index, each number once.  So no key takes effect
\* twice and no effect goes without a receipt, whatever replies are lost and
\* whatever calls are retried.
IndexCountsReceipts ==
  \A i \in Interactions :
    LET rs == receipts[i]
        n == hash[i].index
    IN  /\ n = NoIndex => Used(rs) = {}
        /\ n # NoIndex => {rs[k].index : k \in Used(rs)} = 1 .. n
        /\ \A j, k \in Used(rs) : rs[j].index = rs[k].index => j = k

\* The state is the one the last effect wrote: racing processes may write
\* over each other, but state, index and receipts never disagree about who
\* wrote last.
StateIsLastReceipt ==
  \A i \in Interactions :
    hash[i].index # NoIndex => hash[i].state \in StateAt(receipts[i], hash[i].index)

\* Racing clients may take an interaction along edges that do not meet, but no
\* event takes effect that no earlier state accepted.
EventsWereAccepted ==
  \A i \in Interactions : \A k \in Used(receipts[i]) :
    \E n \in 0 .. receipts[i][k].index - 1 : \E s \in StateAt(receipts[i], n) :
      CanTransition(s, receipts[i][k].event)

\* Two processes told of an effect of the same key are told of the same
\* effect, and only one of them that it was the first.
Effective(x) == x.outcome \in {"Applied", "AlreadyApplied"}

AnswersAgree ==
  \A c, d \in Callers :
    (/\ c # d
     /\ Effective(result[c]) /\ Effective(result[d])
     /\ result[c].id = result[d].id /\ result[c].key = result[d].key)
    => /\ result[c].after = result[d].after /\ result[c].index = result[d].index
       /\ ~(result[c].outcome = "Applied" /\ result[d].outcome = "Applied")

\* An interaction that get_state does not show, its creation under way or
\* broken off, takes no transition.
InvisibleIsInert ==
  [][\A i \in Interactions :
       hash[i].index = NoIndex => receipts'[i] = receipts[i]]_vars

-----------------------------------------------------------------------------
(***************************************************************************)
(* The contract of the interface, for the interactions get_state shows.    *)
(***************************************************************************)
Visible ==
  [i \in Interactions |->
     IF hash[i].index = NoIndex THEN NoRecord
     ELSE [state |-> hash[i].state, index |-> hash[i].index]]

TransitionAnswers ==
  [c \in Callers |->
     IF result[c].outcome \in {"Created", "NotCreated"} THEN NoAnswer ELSE result[c]]

\* What any number of processes get is the contract but for two clauses:
\* effects under fresh keys, one index each, and answers that are backed; but
\* an event accepted in some state the interaction has been in may take
\* effect in a later one, and a key that was used may be refused, because
\* HGETALL and validation come before the script looks for the receipt.
Race == INSTANCE CoordinatorContract
          WITH interactions <- Visible, result <- TransitionAnswers,
               Racing <- TRUE, ValidatesFirst <- TRUE
RacingContractSpec == Race!Spec

\* What one process gets: the contract but for the second of these clauses,
\* and with it a life of every interaction along edges that do meet.
Alone == INSTANCE CoordinatorContract
           WITH interactions <- Visible, result <- TransitionAnswers,
                Racing <- FALSE, ValidatesFirst <- TRUE
AloneContractSpec == Alone!Spec

\* That life, told by the receipts alone: in the order of their index each
\* event was accepted where the previous one led.
ReceiptsTellTheLife == \A i \in Interactions : IsLife(Visible[i], receipts[i])

-----------------------------------------------------------------------------
(***************************************************************************)
(* What the documentation says and the code does not do.                   *)
(***************************************************************************)

\* Transitions are validated by the domain: one is applied only in a state
\* that accepts its event, however many workers race
\* (include/ccmcp/interaction/interaction_coordinator.h, "Responsibilities";
\* docs/ARCHITECTURE.md, "Lua atomicity": of two workers that observe the
\* same transition_index one wins and the other gets kConflict).
AppliesWhereValid ==
  [][\A c \in Callers :
       LET p == proc[c]
       IN  (p.pc = "eval" /\ proc'[c] # p /\ receipts' # receipts)
           => CanTransition(hash[p.id].state, p.event)]_vars

\* A call under a key that was used is answered from its receipt, never
\* refused (include/ccmcp/interaction/interaction_coordinator.h, "Subsequent
\* calls with same K: returns kAlreadyApplied";
\* tests/test_redis_interaction_coordinator.cpp asks for the same transition
\* twice and expects kAlreadyApplied).
ReplayIsAnswered ==
  [][\A c \in Callers :
       LET p == proc[c]
       IN  (/\ p.pc \in {"read", "eval"}
            /\ receipts[p.id][p.key] # NoReceipt
            /\ result'[c] # NoAnswer)
           => result'[c].outcome \in {"AlreadyApplied", "BackendError"}]_vars
=============================================================================
