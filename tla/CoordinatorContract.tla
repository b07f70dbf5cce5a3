------------------------ MODULE CoordinatorContract -------------------------
(***************************************************************************)
(* What IInteractionCoordinator promises its callers, whichever backend    *)
(* is behind it: transitions take effect one at a time along edges of the  *)
(* state machine, each under a fresh idempotency key whose receipt it      *)
(* leaves; an answer that claims an effect is backed by a receipt; an      *)
(* answer that claims none is truthful, except BackendError, which says    *)
(* nothing about whether the transition happened.                          *)
(*                                                                         *)
(* A backend may promise less, in two ways.  Racing says that a transition *)
(* may take effect in another state than the one it was validated in, so   *)
(* that the edges it follows need not meet.  ValidatesFirst says that an   *)
(* event is validated before its key is looked up, so that a key that was  *)
(* used may be refused where the interface promises AlreadyApplied         *)
(* (interaction_coordinator.h, "Subsequent calls with same K").            *)
(***************************************************************************)
EXTENDS CoordinatorTypes

CONSTANTS Racing,         \* may the state change between validation and effect?
          ValidatesFirst  \* may a key that was used be refused?

VARIABLES interactions,  \* [Interactions -> Record \cup {NoRecord}]
          receipts,      \* [Interactions -> [Keys -> Receipt \cup {NoReceipt}]]
          result         \* [Callers -> Answers \cup {NoAnswer}]

vars == <<interactions, receipts, result>>

Init ==
  /\ interactions = [i \in Interactions |-> NoRecord]
  /\ receipts = [i \in Interactions |-> [k \in Keys |-> NoReceipt]]
  /\ result = [c \in Callers |-> NoAnswer]

\* An interaction comes into being once, in Draft with index 0.
Create(i) ==
  /\ interactions[i] = NoRecord
  /\ interactions' = [interactions EXCEPT ![i] = [state |-> "Draft", index |-> 0]]
  /\ UNCHANGED <<receipts, result>>

\* The event was validated: in the present state, or, where callers race, in
\* some state the interaction has been in.
Accepted(i, e) ==
  IF Racing THEN \E s \in Past(receipts[i]) : CanTransition(s, e)
  ELSE CanTransition(interactions[i].state, e)

\* The one way an interaction changes: an accepted event, the next index and
\* the receipt of a key that had none, all at once.
Effect(i, e, k) ==
  LET rec == interactions[i]
  IN  /\ rec # NoRecord
      /\ receipts[i][k] = NoReceipt
      /\ Accepted(i, e)
      /\ interactions' = [interactions EXCEPT
           ![i] = [state |-> Target[e], index |-> rec.index + 1]]
      /\ receipts' = [receipts EXCEPT
           ![i][k] = [after |-> Target[e], index |-> rec.index + 1, event |-> e]]

Applied(c, i, e, k) ==
  /\ Effect(i, e, k)
  /\ result' = [result EXCEPT ![c] =
       Answer(i, e, k, "Applied", interactions[i].state, Target[e],
              interactions[i].index + 1)]

AlreadyApplied(c, i, e, k) ==
  LET r == receipts[i][k]
  IN  /\ r # NoReceipt
      /\ result' = [result EXCEPT ![c] =
           Answer(i, e, k, "AlreadyApplied", r.after, r.after, r.index)]
      /\ UNCHANGED <<interactions, receipts>>

\* The event is not accepted, and its key is fresh: a key that was used is
\* answered from its receipt, unless the backend validates first.
Refused(c, i, e, k) ==
  LET rec == interactions[i]
  IN  /\ rec # NoRecord
      /\ ValidatesFirst \/ receipts[i][k] = NoReceipt
      /\ ~CanTransition(rec.state, e)
      /\ result' = [result EXCEPT ![c] =
           Answer(i, e, k, "InvalidTransition", rec.state, rec.state, rec.index)]
      /\ UNCHANGED <<interactions, receipts>>

NotFound(c, i, e, k) ==
  /\ interactions[i] = NoRecord
  /\ result' = [result EXCEPT ![c] =
       Answer(i, e, k, "NotFound", "Draft", "Draft", 0)]
  /\ UNCHANGED <<interactions, receipts>>

\* The call failed: its transition may or may not have happened.
Failed(c, i, e, k) ==
  /\ result' = [result EXCEPT ![c] =
       Answer(i, e, k, "BackendError", "Draft", "Draft", 0)]
  /\ Effect(i, e, k) \/ UNCHANGED <<interactions, receipts>>

\* The caller goes away before it hears: again, the transition may have
\* happened.
Abandoned(c) ==
  /\ result' = [result EXCEPT ![c] = NoAnswer]
  /\ \/ UNCHANGED <<interactions, receipts>>
     \/ \E i \in Interactions, e \in Events, k \in Keys : Effect(i, e, k)

Next ==
  \/ \E i \in Interactions : Create(i)
  \/ \E c \in Callers : Abandoned(c)
  \/ \E c \in Callers, i \in Interactions, e \in Events, k \in Keys : Failed(c, i, e, k)
  \/ \E c \in Callers, i \in Interactions, e \in Events, k \in Keys :
       \/ Applied(c, i, e, k)
       \/ AlreadyApplied(c, i, e, k)
       \/ Refused(c, i, e, k)
       \/ NotFound(c, i, e, k)

Spec == Init /\ [][Next]_vars
=============================================================================
