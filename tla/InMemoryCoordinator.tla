------------------------ MODULE InMemoryCoordinator -------------------------
(***************************************************************************)
(* InMemoryInteractionCoordinator: two maps behind one mutex, so that each *)
(* call of a thread is one step.  apply_transition checks, in this order,  *)
(* that the interaction exists, that the key is fresh and that the event   *)
(* is accepted; the order is what makes a replay answer AlreadyApplied     *)
(* even when the event is no longer accepted.                              *)
(***************************************************************************)
EXTENDS CoordinatorTypes

VARIABLES interactions,  \* interactions_: state and transition_index by id
          receipts,      \* idempotency_receipts_: by id and key
          result         \* the last answer each calling thread got

vars == <<interactions, receipts, result>>

Exists(i) == interactions[i] # NoRecord

Init ==
  /\ interactions = [i \in Interactions |-> NoRecord]
  /\ receipts = [i \in Interactions |-> [k \in Keys |-> NoReceipt]]
  /\ result = [c \in Callers |-> NoAnswer]

Reply(c, answer) == result' = [result EXCEPT ![c] = answer]

-----------------------------------------------------------------------------
\* create_interaction, when the id is new (otherwise it returns false and
\* changes nothing).
CreateInteraction(i) ==
  /\ ~Exists(i)
  /\ interactions' = [interactions EXCEPT ![i] = [state |-> "Draft", index |-> 0]]
  /\ UNCHANGED <<receipts, result>>

\* apply_transition on an unknown id.
ApplyNotFound(c, i, e, k) ==
  /\ ~Exists(i)
  /\ Reply(c, Answer(i, e, k, "NotFound", "Draft", "Draft", 0))
  /\ UNCHANGED <<interactions, receipts>>

\* Mutation: the replay answers with the interaction's present state.
ApplyReplayCurrent(c, i, e, k) ==
  /\ Exists(i)
  /\ receipts[i][k] # NoReceipt
  /\ LET rec == interactions[i]
     IN  Reply(c, Answer(i, e, k, "AlreadyApplied", rec.state, rec.state, rec.index))
  /\ UNCHANGED <<interactions, receipts>>

\* apply_transition under a key that has a receipt: the receipt is the
\* answer, whatever the event.
ApplyReplay(c, i, e, k) ==
  /\ Exists(i)
  /\ receipts[i][k] # NoReceipt
  /\ LET r == receipts[i][k]
     IN  Reply(c, Answer(i, e, k, "AlreadyApplied", r.after, r.after, r.index))
  /\ UNCHANGED <<interactions, receipts>>

\* Mutation: the event is validated before the key is looked up.
ApplyInvalidFirst(c, i, e, k) ==
  /\ Exists(i)
  /\ LET rec == interactions[i]
     IN  /\ ~CanTransition(rec.state, e)
         /\ Reply(c, Answer(i, e, k, "InvalidTransition", rec.state, rec.state, rec.index))
  /\ UNCHANGED <<interactions, receipts>>

\* apply_transition of an event the domain refuses.
ApplyInvalid(c, i, e, k) ==
  /\ Exists(i)
  /\ receipts[i][k] = NoReceipt
  /\ LET rec == interactions[i]
     IN  /\ ~CanTransition(rec.state, e)
         /\ Reply(c, Answer(i, e, k, "InvalidTransition", rec.state, rec.state, rec.index))
  /\ UNCHANGED <<interactions, receipts>>

\* Mutation: the receipt of an earlier use of the key is overwritten.
ApplyAgain(c, i, e, k) ==
  LET rec == interactions[i]
      after == Apply(rec.state, e)
      next == rec.index + 1
  IN  /\ Exists(i)
      /\ CanTransition(rec.state, e)
      /\ interactions' = [interactions EXCEPT ![i] = [state |-> after, index |-> next]]
      /\ receipts' = [receipts EXCEPT
           ![i][k] = [after |-> after, index |-> next, event |-> e]]
      /\ Reply(c, Answer(i, e, k, "Applied", rec.state, after, next))

\* Mutation: the receipt records the index before the transition.
ApplyOldIndex(c, i, e, k) ==
  LET rec == interactions[i]
      after == Apply(rec.state, e)
      next == rec.index + 1
  IN  /\ Exists(i)
      /\ receipts[i][k] = NoReceipt
      /\ CanTransition(rec.state, e)
      /\ interactions' = [interactions EXCEPT ![i] = [state |-> after, index |-> next]]
      /\ receipts' = [receipts EXCEPT
           ![i][k] = [after |-> after, index |-> rec.index, event |-> e]]
      /\ Reply(c, Answer(i, e, k, "Applied", rec.state, after, next))

\* Mutation: the receipt records the state before the transition.
ApplyStaleReceipt(c, i, e, k) ==
  LET rec == interactions[i]
      after == Apply(rec.state, e)
      next == rec.index + 1
  IN  /\ Exists(i)
      /\ receipts[i][k] = NoReceipt
      /\ CanTransition(rec.state, e)
      /\ interactions' = [interactions EXCEPT ![i] = [state |-> after, index |-> next]]
      /\ receipts' = [receipts EXCEPT
           ![i][k] = [after |-> rec.state, index |-> next, event |-> e]]
      /\ Reply(c, Answer(i, e, k, "Applied", rec.state, after, next))

\* apply_transition that applies: state, index and receipt together.
ApplyFirst(c, i, e, k) ==
  LET rec == interactions[i]
      after == Apply(rec.state, e)
      next == rec.index + 1
  IN  /\ Exists(i)
      /\ receipts[i][k] = NoReceipt
      /\ CanTransition(rec.state, e)
      /\ interactions' = [interactions EXCEPT ![i] = [state |-> after, index |-> next]]
      /\ receipts' = [receipts EXCEPT
           ![i][k] = [after |-> after, index |-> next, event |-> e]]
      /\ Reply(c, Answer(i, e, k, "Applied", rec.state, after, next))

Next ==
  \/ \E i \in Interactions : CreateInteraction(i)
  \/ \E c \in Callers, i \in Interactions, e \in Events, k \in Keys :
       \/ ApplyNotFound(c, i, e, k)
       \/ ApplyReplay(c, i, e, k)
       \/ ApplyInvalid(c, i, e, k)
       \/ ApplyFirst(c, i, e, k)

Spec == Init /\ [][Next]_vars

-----------------------------------------------------------------------------
\* Type correctness of the two maps and of the answers.
TypeOK ==
  /\ interactions \in [Interactions -> Record \cup {NoRecord}]
  /\ receipts \in [Interactions -> [Keys -> Receipt \cup {NoReceipt}]]
  /\ result \in [Callers -> Answers \cup {NoAnswer}]

\* The receipts of an interaction tell its life, although
\* inmemory_interaction_coordinator.cpp updates state, index and receipt
\* separately: they never drift apart, whatever keys callers choose.
ReceiptsTellTheLife ==
  \A i \in Interactions : IsLife(interactions[i], receipts[i])

\* Answers agree: two callers told of an effect of the same key are told of
\* the same effect (state and index), and not both that theirs was the first.
AnswersAgree ==
  \A c, d \in Callers :
    LET x == result[c]
        y == result[d]
    IN  (/\ c # d
         /\ x # NoAnswer /\ y # NoAnswer
         /\ x.outcome \in {"Applied", "AlreadyApplied"}
         /\ y.outcome \in {"Applied", "AlreadyApplied"}
         /\ x.id = y.id /\ x.key = y.key)
        => /\ x.after = y.after /\ x.index = y.index
           /\ ~(x.outcome = "Applied" /\ y.outcome = "Applied")

\* An interaction is transitioned at most four times: the index never
\* overtakes the state's place in the life of an interaction, so that no
\* sequence of calls brings an interaction back to a state it left.
IndexWithinRank ==
  \A i \in Interactions :
    Exists(i) => interactions[i].index <= Rank[interactions[i].state]

\* A replay is recognised before it is validated: a caller that uses a key
\* again is answered AlreadyApplied, never refused
\* (include/ccmcp/interaction/interaction_coordinator.h, "Subsequent calls
\* with same K").
ReplayIsAnswered ==
  [][\A c \in Callers, i \in Interactions, k \in Keys :
       (/\ result'[c] # result[c]
        /\ result'[c] # NoAnswer
        /\ result'[c].id = i /\ result'[c].key = k
        /\ receipts[i][k] # NoReceipt)
       => /\ result'[c].outcome = "AlreadyApplied"
          /\ result'[c].after = receipts[i][k].after]_vars

\* The in-memory coordinator implements the contract of its interface, the
\* strict one: InMemoryInteractionCoordinator::apply_transition validates in
\* the state it writes to and looks the key up first.
Contract == INSTANCE CoordinatorContract WITH Racing <- FALSE, ValidatesFirst <- FALSE
ContractSpec == Contract!Spec

\* And with it the weaker one McpServer is built on, of a coordinator whose
\* callers may race and that may validate first.
Race == INSTANCE CoordinatorContract WITH Racing <- TRUE, ValidatesFirst <- TRUE
RacingContractSpec == Race!Spec
=============================================================================
