--------------------------- MODULE InteractionFSM ---------------------------
(***************************************************************************)
(* The outreach state machine of the domain layer: the states and events   *)
(* of an Interaction, which event each state accepts, and where an         *)
(* accepted event leads.  Pure: both coordinators are built from it.       *)
(***************************************************************************)
EXTENDS Naturals

States == {"Draft", "Ready", "Sent", "Responded", "Closed"}

Events == {"Prepare", "Send", "ReceiveReply", "Close"}

\* Mutation: the terminal state forgets that it is terminal.
CanTransitionFromClosed(s, e) ==
  \/ s = "Draft" /\ e \in {"Prepare", "Close"}
  \/ s = "Ready" /\ e \in {"Send", "Close"}
  \/ s = "Sent" /\ e \in {"ReceiveReply", "Close"}
  \/ s = "Responded" /\ e = "Close"
  \/ s = "Closed" /\ e \in {"Prepare", "Close"}

\* Interaction::can_transition: the events each state accepts.
CanTransition(s, e) ==
  \/ s = "Draft" /\ e \in {"Prepare", "Close"}
  \/ s = "Ready" /\ e \in {"Send", "Close"}
  \/ s = "Sent" /\ e \in {"ReceiveReply", "Close"}
  \/ s = "Responded" /\ e = "Close"

\* The switch of Interaction::apply: the state an accepted event leads to
\* depends on the event alone.
Target == [Prepare |-> "Ready", Send |-> "Sent",
           ReceiveReply |-> "Responded", Close |-> "Closed"]

\* Interaction::apply: a refused event leaves the state as it is.
Apply(s, e) == IF CanTransition(s, e) THEN Target[e] ELSE s

\* How far along its life an interaction is.  Not in the code: the measure
\* that shows the machine has no cycle.
Rank == [Draft |-> 0, Ready |-> 1, Sent |-> 2, Responded |-> 3, Closed |-> 4]
=============================================================================
