-------------------------- MODULE CoordinatorTypes --------------------------
(***************************************************************************)
(* The values the interaction coordinators keep and return.  A map of the  *)
(* code from a key to a value is a function on all keys; "no entry" is a   *)
(* value of its own (NoRecord, NoReceipt, NoAnswer).                       *)
(***************************************************************************)
EXTENDS InteractionFSM

CONSTANTS Interactions,  \* interaction ids
          Keys,          \* idempotency keys callers choose
          Callers        \* threads or processes that call a coordinator

\* The current state and transition_index of one interaction.
NoRecord == [state |-> "Absent", index |-> 0]
Record == [state : States, index : Nat]

\* IdempotencyReceipt: what is remembered of the first use of a key.
NoReceipt == [after |-> "Absent", index |-> 0, event |-> "None"]
Receipt == [after : States, index : Nat \ {0}, event : Events]

\* TransitionOutcome.
Outcomes == {"Applied", "AlreadyApplied", "Conflict", "NotFound",
             "InvalidTransition", "BackendError"}

\* TransitionResult, with the call it answers.
Answer(i, e, k, outcome, before, after, index) ==
  [id |-> i, event |-> e, key |-> k, outcome |-> outcome,
   before |-> before, after |-> after, index |-> index]
Answers == [id : Interactions, event : Events, key : Keys, outcome : Outcomes,
            before : States, after : States, index : Nat]
NoAnswer == [outcome |-> "None"]

-----------------------------------------------------------------------------
(***************************************************************************)
(* The life of an interaction with record rec, as its receipts rs tell it: *)
(* put in the order of their index they are numbered 1 to transition_index *)
(* without gap or repetition, each event was accepted where the previous   *)
(* one led, and the last one led to the present state.                     *)
(***************************************************************************)
Used(rs) == {k \in Keys : rs[k] # NoReceipt}

\* The state the receipt with index n led to (none or several when the
\* receipts do not tell a life), and Draft before the first.
StateAt(rs, n) ==
  IF n = 0 THEN {"Draft"}
  ELSE {rs[k].after : k \in {j \in Used(rs) : rs[j].index = n}}

\* The states an interaction that exists is or has been in.
Past(rs) == {"Draft"} \cup {rs[k].after : k \in Used(rs)}

IsLife(rec, rs) ==
  /\ rec = NoRecord => Used(rs) = {}
  /\ rec # NoRecord => rec.state \in StateAt(rs, rec.index)
  /\ \A j, k \in Used(rs) : rs[j].index = rs[k].index => j = k
  /\ \A k \in Used(rs) :
       /\ rs[k].index \in 1 .. rec.index
       /\ rs[k].after = Target[rs[k].event]
       /\ \E s \in StateAt(rs, rs[k].index - 1) : CanTransition(s, rs[k].event)
=============================================================================
