--------------------------- MODULE McpServerProofs --------------------------
(***************************************************************************)
(* What the audit log of the MCP servers is worth, for any number of       *)
(* servers, requests and failures: effects are announced, reports are      *)
(* true and what a client was told is on record.                           *)
(***************************************************************************)
EXTENDS McpServer, TLAPS

(***************************************************************************)
(* Facts about the values.                                                 *)
(***************************************************************************)
LEMMA WantType ==
  ASSUME NEW w \in AllWants
  PROVE  /\ w \in [id : Interactions, event : Events, key : Keys]
         /\ w.id \in Interactions /\ w.event \in Events /\ w.key \in Keys
         /\ w = [id |-> w.id, event |-> w.event, key |-> w.key]
<1>1. w \in [id : Interactions, event : Events, key : Keys]
  BY ServerAssumption DEF AllWants
<1> QED BY <1>1

LEMMA SameTypes ==
  /\ Coordinator!NoRecord = NoRecord
  /\ Coordinator!NoReceipt = NoReceipt
  /\ Coordinator!NoAnswer = NoAnswer
  /\ Coordinator!Target = Target
  /\ \A t, e : Coordinator!CanTransition(t, e) <=> CanTransition(t, e)
  /\ \A i, e, k, o, b, a, n :
       Coordinator!Answer(i, e, k, o, b, a, n) = Answer(i, e, k, o, b, a, n)
BY DEF Coordinator!NoRecord, NoRecord, Coordinator!NoReceipt, NoReceipt,
       Coordinator!NoAnswer, NoAnswer, Coordinator!Target, Target,
       Coordinator!CanTransition, CanTransition, Coordinator!Answer, Answer

LEMMA TargetType == ASSUME NEW e \in Events PROVE Target[e] \in States
BY DEF Events, Target, States

LEMMA Sentinels ==
  /\ NoReceipt \notin Receipt /\ NoRecord \notin Record
  /\ \A x \in Answers : x # NoAnswer
  /\ NoAnswer.outcome \notin Settling
<1>1. NoReceipt \notin Receipt
  BY DEF NoReceipt, Receipt, States
<1>2. NoRecord \notin Record
  BY DEF NoRecord, Record, States
<1>3. \A x \in Answers : x # NoAnswer
  BY DEF NoAnswer, Answers, Outcomes
<1>4. NoAnswer.outcome \notin Settling
  BY DEF NoAnswer, Settling
<1> QED BY <1>1, <1>2, <1>3, <1>4

LEMMA AnswerType ==
  ASSUME NEW i \in Interactions, NEW e \in Events, NEW k \in Keys,
         NEW o \in Outcomes, NEW b \in States, NEW a \in States, NEW n \in Nat
  PROVE  /\ Answer(i, e, k, o, b, a, n) \in Answers
         /\ Answer(i, e, k, o, b, a, n).outcome = o
         /\ Answer(i, e, k, o, b, a, n).index = n
BY DEF Answer, Answers

-----------------------------------------------------------------------------
(***************************************************************************)
(* What an effect in the coordinator does: it gives a key its receipt,     *)
(* takes the index one further and touches nothing else.                   *)
(***************************************************************************)
LEMMA EffectGives ==
  ASSUME interactions \in [Interactions -> Record \cup {NoRecord}],
         receipts \in [Interactions -> [Keys -> Receipt \cup {NoReceipt}]],
         NEW i \in Interactions, NEW e \in Events, NEW k \in Keys,
         Coordinator!Effect(i, e, k)
  PROVE  /\ interactions' \in [Interactions -> Record \cup {NoRecord}]
         /\ receipts' \in [Interactions -> [Keys -> Receipt \cup {NoReceipt}]]
         /\ interactions[i] \in Record
         /\ receipts[i][k] = NoReceipt
         /\ interactions'[i].index = interactions[i].index + 1
         /\ receipts'[i][k].index = interactions[i].index + 1
         /\ receipts'[i][k].event = e
         /\ receipts'[i][k] # NoReceipt
         /\ \A j \in Interactions : j # i => interactions'[j] = interactions[j]
         /\ \A j \in Interactions, l \in Keys :
              j # i \/ l # k => receipts'[j][l] = receipts[j][l]
<1>1. /\ interactions[i] \in Record
      /\ receipts[i][k] = NoReceipt
      /\ interactions' = [interactions EXCEPT
           ![i] = [state |-> Target[e], index |-> interactions[i].index + 1]]
      /\ receipts' = [receipts EXCEPT ![i][k] =
           [after |-> Target[e], index |-> interactions[i].index + 1, event |-> e]]
  BY SameTypes DEF Coordinator!Effect
<1>2. interactions[i].index \in Nat /\ Target[e] \in States
  BY <1>1, TargetType DEF Record
<1>3. [state |-> Target[e], index |-> interactions[i].index + 1] \in Record
  BY <1>2 DEF Record
<1>4. [after |-> Target[e], index |-> interactions[i].index + 1, event |-> e] \in Receipt
  BY <1>2 DEF Receipt
<1>5. /\ receipts'[i][k] =
           [after |-> Target[e], index |-> interactions[i].index + 1, event |-> e]
      /\ \A j \in Interactions, l \in Keys :
           j # i \/ l # k => receipts'[j][l] = receipts[j][l]
      /\ receipts' \in [Interactions -> [Keys -> Receipt \cup {NoReceipt}]]
  BY <1>1, <1>4
<1>6. /\ interactions'[i] = [state |-> Target[e], index |-> interactions[i].index + 1]
      /\ \A j \in Interactions : j # i => interactions'[j] = interactions[j]
      /\ interactions' \in [Interactions -> Record \cup {NoRecord}]
  BY <1>1, <1>3
<1> QED BY <1>1, <1>4, <1>5, <1>6, Sentinels

-----------------------------------------------------------------------------
(***************************************************************************)
(* Types, with what goes with a phase: a server at work has a client that  *)
(* waits, and one that has its result has an answer.                       *)
(***************************************************************************)
AtWork ==
  \A s \in Servers :
    phase[s] \in {"Received", "Announced", "Applied", "Reported"} =>
      client[s].state = "Waiting"

HasAnswer ==
  \A s \in Servers : phase[s] \in {"Applied", "Reported"} => result[s] \in Answers

TypeInv == TypeOK /\ AtWork /\ HasAnswer

(***************************************************************************)
(* The servers' clients and what they want.                                *)
(***************************************************************************)
LEMMA ClientType ==
  ASSUME TypeOK, NEW s \in Servers
  PROVE  /\ client[s] \in Clients /\ client[s].want \in AllWants
         /\ client[s].told \in Answers \cup {NoAnswer}
         /\ client[s].want.id \in Interactions /\ client[s].want.event \in Events
         /\ client[s].want.key \in Keys
<1>1. client[s] \in Clients
  BY DEF TypeOK
<1>2. client[s].want \in AllWants /\ client[s].told \in Answers \cup {NoAnswer}
  BY <1>1 DEF Clients
<1> QED BY <1>1, <1>2, WantType

LEMMA BecomesType ==
  ASSUME TypeOK, NEW s \in Servers, NEW st \in {"Idle", "Asking", "Waiting"},
         Becomes(s, st)
  PROVE  /\ client' \in [Servers -> Clients]
         /\ client'[s].state = st
         /\ client'[s].want = client[s].want /\ client'[s].told = client[s].told
         /\ \A t \in Servers \ {s} : client'[t] = client[t]
<1>1. client' = [client EXCEPT ![s] =
        [want |-> client[s].want, state |-> st, told |-> client[s].told]]
  BY DEF Becomes
<1>2. [want |-> client[s].want, state |-> st, told |-> client[s].told] \in Clients
  BY ClientType DEF Clients
<1>3. client \in [Servers -> Clients]
  BY DEF TypeOK
<1> QED BY <1>1, <1>2, <1>3

(***************************************************************************)
(* A response ends the server's work on the request and tells the client   *)
(* either an outcome that settles it or nothing.                           *)
(***************************************************************************)
LEMMA RespondGives ==
  ASSUME TypeInv, NEW s \in Servers, NEW a \in Answers \cup {NoAnswer}, Respond(s, a)
  PROVE  /\ phase' \in [Servers -> Phases] /\ phase'[s] = "Listening"
         /\ result' \in [Servers -> Answers \cup {NoAnswer}]
         /\ client' \in [Servers -> Clients]
         /\ client'[s].want = client[s].want
         /\ client'[s].told = NoAnswer
              \/ (client'[s].told = a /\ client'[s].state = "Idle" /\ a \in Answers)
         /\ \A t \in Servers \ {s} :
              /\ phase'[t] = phase[t] /\ result'[t] = result[t]
              /\ client'[t] = client[t]
<1>1. /\ phase \in [Servers -> Phases] /\ client \in [Servers -> Clients]
      /\ result \in [Servers -> Answers \cup {NoAnswer}]
  BY DEF TypeInv, TypeOK
<1>2. client[s].want \in AllWants
  BY ClientType DEF TypeInv
<1>3. /\ phase' = [phase EXCEPT ![s] = "Listening"]
      /\ result' = [result EXCEPT ![s] = NoAnswer]
  BY DEF Respond, Goes
<1>4. CASE a.outcome \in Settling
  <2>1. a \in Answers
    BY <1>4, Sentinels
  <2>2. client' = [client EXCEPT ![s] =
          [want |-> client[s].want, state |-> "Idle", told |-> a]]
    BY <1>4 DEF Respond
  <2>3. [want |-> client[s].want, state |-> "Idle", told |-> a] \in Clients
    BY <1>2, <2>1 DEF Clients
  <2> QED BY <1>1, <1>3, <2>1, <2>2, <2>3 DEF Phases
<1>5. CASE a.outcome \notin Settling
  <2>2. client' = [client EXCEPT ![s] =
          [want |-> client[s].want, state |-> "Asking", told |-> NoAnswer]]
    BY <1>5 DEF Respond
  <2>3. [want |-> client[s].want, state |-> "Asking", told |-> NoAnswer] \in Clients
    BY <1>2 DEF Clients
  <2> QED BY <1>1, <1>3, <2>2, <2>3 DEF Phases
<1> QED BY <1>4, <1>5

(***************************************************************************)
(* The coordinator's call, whichever way it ends: at most the effect that  *)
(* was asked for, and an answer whose claim of an effect has its receipt.  *)
(***************************************************************************)
Call(s) == Transition(s) \/ TransitionNoScript(s) \/ TransitionFails(s)

AtMostEffect(s) ==
  \/ Coordinator!Effect(client[s].want.id, client[s].want.event, client[s].want.key)
  \/ UNCHANGED <<interactions, receipts>>

Backed(s, r) ==
  /\ r \in Answers
  /\ result' = [result EXCEPT ![s] = r]
  /\ r.outcome \in Success =>
       /\ receipts'[client[s].want.id][client[s].want.key] # NoReceipt
       /\ receipts'[client[s].want.id][client[s].want.key].index = r.index
  /\ r.outcome = "Applied" => r.index = interactions[client[s].want.id].index + 1

LEMMA CallGives ==
  ASSUME TypeInv, NEW s \in Servers, Call(s)
  PROVE  /\ phase[s] = "Announced"
         /\ phase' = [phase EXCEPT ![s] = "Applied"]
         /\ UNCHANGED <<scripts, database, log, client>>
         /\ faults' \in 0 .. MaxFaults
         /\ AtMostEffect(s)
         /\ \E r \in Answers : Backed(s, r)
<1> DEFINE w == client[s].want
           rec == interactions[w.id]
           rcpt == receipts[w.id][w.key]
<1>1. /\ w.id \in Interactions /\ w.event \in Events /\ w.key \in Keys
      /\ interactions \in [Interactions -> Record \cup {NoRecord}]
      /\ receipts \in [Interactions -> [Keys -> Receipt \cup {NoReceipt}]]
      /\ faults \in 0 .. MaxFaults /\ MaxFaults \in Nat
  <2>1. w.id \in Interactions /\ w.event \in Events /\ w.key \in Keys
    BY ClientType DEF TypeInv
  <2>2. /\ interactions \in [Interactions -> Record \cup {NoRecord}]
        /\ receipts \in [Interactions -> [Keys -> Receipt \cup {NoReceipt}]]
        /\ faults \in 0 .. MaxFaults
    BY Zenon DEF TypeInv, TypeOK
  <2> QED BY <2>1, <2>2, ServerAssumption, Zenon
<1>2. ASSUME faults' = faults \/ Fault PROVE faults' \in 0 .. MaxFaults
  <2>1. faults \in 0 .. MaxFaults /\ MaxFaults \in Nat
    BY <1>1, Zenon
  <2>2. faults' = faults \/ (faults > 0 /\ faults' = faults - 1)
    BY <1>2, Zenon DEF Fault
  <2> QED BY <2>1, <2>2
<1>o. /\ "Applied" \in Outcomes /\ "AlreadyApplied" \in Outcomes
      /\ "InvalidTransition" \in Outcomes /\ "BackendError" \in Outcomes
      /\ "NotFound" \in Outcomes /\ "Draft" \in States /\ 0 \in Nat
  BY DEF Outcomes, States
<1>3. ASSUME Coordinator!Applied(s, w.id, w.event, w.key)
      PROVE  AtMostEffect(s) /\ \E r \in Answers : Backed(s, r)
  <2>1. Coordinator!Effect(w.id, w.event, w.key)
    BY <1>3 DEF Coordinator!Applied
  <2>2. result' = [result EXCEPT ![s] = Answer(w.id, w.event, w.key, "Applied",
                     rec.state, Target[w.event], rec.index + 1)]
    BY <1>3, SameTypes DEF Coordinator!Applied
  <2>3. rec \in Record /\ receipts'[w.id][w.key].index = rec.index + 1
        /\ receipts'[w.id][w.key] # NoReceipt
    BY <1>1, <2>1, EffectGives
  <2>4. rec.state \in States /\ rec.index + 1 \in Nat /\ Target[w.event] \in States
    <3>1. Target[w.event] \in States
      BY <1>1, TargetType
    <3> HIDE DEF rec
    <3> QED BY <2>3, <3>1 DEF Record
  <2> DEFINE r == Answer(w.id, w.event, w.key, "Applied",
                         rec.state, Target[w.event], rec.index + 1)
  <2>5. r \in Answers /\ r.outcome = "Applied" /\ r.index = rec.index + 1
    <3> DEFINE before == rec.state
               after == Target[w.event]
               n == rec.index + 1
    <3>1. before \in States /\ after \in States /\ n \in Nat
      BY <2>4, Zenon
    <3> HIDE DEF w, rec, before, after, n
    <3>2. /\ Answer(w.id, w.event, w.key, "Applied", before, after, n) \in Answers
          /\ Answer(w.id, w.event, w.key, "Applied", before, after, n).outcome = "Applied"
          /\ Answer(w.id, w.event, w.key, "Applied", before, after, n).index = n
      BY <1>1, <1>o, <3>1, AnswerType
    <3> QED BY <3>2, Zenon DEF before, after, n
  <2>6. result' = [result EXCEPT ![s] = r]
    BY <2>2
  <2> HIDE DEF r
  <2>7. Backed(s, r)
    <3>1. receipts'[w.id][w.key].index = r.index
      BY ONLY <2>3, <2>5
    <3> QED BY <2>3, <2>5, <2>6, <3>1, Zenon DEF Backed
  <2>8. AtMostEffect(s)
    BY <2>1, Zenon DEF AtMostEffect
  <2> QED BY <2>5, <2>7, <2>8, Zenon
<1>4. ASSUME Coordinator!AlreadyApplied(s, w.id, w.event, w.key)
      PROVE  AtMostEffect(s) /\ \E r \in Answers : Backed(s, r)
  <2>1. /\ rcpt # NoReceipt /\ UNCHANGED <<interactions, receipts>>
        /\ result' = [result EXCEPT ![s] = Answer(w.id, w.event, w.key,
                        "AlreadyApplied", rcpt.after, rcpt.after, rcpt.index)]
    BY <1>4, SameTypes DEF Coordinator!AlreadyApplied
  <2>2. rcpt \in Receipt
    BY <1>1, <2>1
  <2>3. rcpt.after \in States /\ rcpt.index \in Nat
    <3> HIDE DEF rcpt
    <3> QED BY <2>2 DEF Receipt
  <2> DEFINE r == Answer(w.id, w.event, w.key,
                         "AlreadyApplied", rcpt.after, rcpt.after, rcpt.index)
  <2>4. r \in Answers /\ r.outcome = "AlreadyApplied" /\ r.index = rcpt.index
    <3> HIDE DEF w, rcpt
    <3> QED BY <1>1, <1>o, <2>3, AnswerType
  <2>5. result' = [result EXCEPT ![s] = r] /\ receipts' = receipts /\ rcpt # NoReceipt
    BY <2>1
  <2> HIDE DEF r
  <2>6. Backed(s, r)
    BY <2>4, <2>5 DEF Backed
  <2>7. AtMostEffect(s)
    BY <2>1 DEF AtMostEffect
  <2> QED BY <2>4, <2>6, <2>7, Zenon
<1>5. ASSUME Coordinator!Refused(s, w.id, w.event, w.key)
      PROVE  AtMostEffect(s) /\ \E r \in Answers : Backed(s, r)
  <2>1. /\ rec # NoRecord /\ UNCHANGED <<interactions, receipts>>
        /\ result' = [result EXCEPT ![s] = Answer(w.id, w.event, w.key,
                        "InvalidTransition", rec.state, rec.state, rec.index)]
    BY <1>5, SameTypes DEF Coordinator!Refused
  <2>2. rec.state \in States /\ rec.index \in Nat
    <3>1. rec \in Record
      BY <1>1, <2>1
    <3> HIDE DEF rec
    <3> QED BY <3>1 DEF Record
  <2> DEFINE r == Answer(w.id, w.event, w.key,
                         "InvalidTransition", rec.state, rec.state, rec.index)
  <2>3. r \in Answers /\ r.outcome = "InvalidTransition"
    <3> HIDE DEF w, rec
    <3> QED BY <1>1, <1>o, <2>2, AnswerType
  <2>4. result' = [result EXCEPT ![s] = r]
    BY <2>1
  <2> HIDE DEF r
  <2>5. Backed(s, r)
    BY <2>3, <2>4 DEF Backed, Success
  <2>6. AtMostEffect(s)
    BY <2>1 DEF AtMostEffect
  <2> QED BY <2>3, <2>5, <2>6, Zenon
<1>6. Answer(w.id, w.event, w.key, "BackendError", "Draft", "Draft", 0) \in Answers
      /\ Answer(w.id, w.event, w.key, "NotFound", "Draft", "Draft", 0) \in Answers
      /\ Answer(w.id, w.event, w.key, "BackendError", "Draft", "Draft", 0).outcome
           = "BackendError"
      /\ Answer(w.id, w.event, w.key, "NotFound", "Draft", "Draft", 0).outcome
           = "NotFound"
  <2> HIDE DEF w
  <2> QED BY <1>1, <1>o, AnswerType
<1>7. ASSUME Coordinator!NotFound(s, w.id, w.event, w.key)
      PROVE  AtMostEffect(s) /\ \E r \in Answers : Backed(s, r)
  <2>1. Backed(s, Answer(w.id, w.event, w.key, "NotFound", "Draft", "Draft", 0))
    BY <1>6, <1>7, SameTypes DEF Coordinator!NotFound, Backed, Success
  <2> QED BY <1>6, <1>7, <2>1 DEF Coordinator!NotFound, AtMostEffect
<1>8. ASSUME Coordinator!Failed(s, w.id, w.event, w.key)
      PROVE  AtMostEffect(s) /\ \E r \in Answers : Backed(s, r)
  <2>1. Backed(s, Answer(w.id, w.event, w.key, "BackendError", "Draft", "Draft", 0))
    BY <1>6, <1>8, SameTypes DEF Coordinator!Failed, Backed, Success
  <2> QED BY <1>6, <1>8, <2>1 DEF Coordinator!Failed, AtMostEffect
<1>9. CASE Transition(s)
  BY <1>2, <1>3, <1>4, <1>5, <1>7, <1>9 DEF Transition, Goes
<1>10. CASE TransitionNoScript(s)
  <2>1. Backed(s, Answer(w.id, w.event, w.key, "BackendError", "Draft", "Draft", 0))
    BY <1>6, <1>10 DEF TransitionNoScript, Backed, Success
  <2> QED BY <1>2, <1>6, <1>10, <2>1 DEF TransitionNoScript, AtMostEffect, Goes
<1>11. CASE TransitionFails(s)
  BY <1>2, <1>8, <1>11 DEF TransitionFails, Goes
<1> QED BY <1>9, <1>10, <1>11 DEF Call

(***************************************************************************)
(* What a step of the process, the loop or the log may leave out of        *)
(* account: everything of the other servers.                               *)
(***************************************************************************)
LEMMA EventType ==
  ASSUME TypeInv, NEW s \in Servers, NEW type \in {"Attempted", "Completed", "Rejected"},
         NEW o \in Outcomes \cup {"None"}, NEW n \in Nat
  PROVE  Event(s, type, o, n) \in LogEvents
BY ClientType DEF TypeInv, Event, LogEvents

LEMMA ReportEventType ==
  ASSUME TypeInv, NEW s \in Servers, phase[s] = "Applied"
  PROVE  /\ result[s] \in Answers
         /\ result[s].outcome \in Outcomes /\ result[s].index \in Nat
         /\ ReportType(result[s].outcome) \in {"Completed", "Rejected"}
         /\ Event(s, ReportType(result[s].outcome), result[s].outcome, result[s].index)
              \in LogEvents
<1>1. result[s] \in Answers
  BY DEF TypeInv, HasAnswer
<1>2. result[s].outcome \in Outcomes /\ result[s].index \in Nat
  BY <1>1 DEF Answers
<1>3. ReportType(result[s].outcome) \in {"Completed", "Rejected"}
  BY DEF ReportType
<1> QED BY <1>1, <1>2, <1>3, EventType

LEMMA FaultType == ASSUME TypeInv, Fault PROVE faults' \in 0 .. MaxFaults
BY ServerAssumption DEF TypeInv, TypeOK, Fault

\* Whatever an append does to the chains, it adds its event.
LEMMA AppendGives ==
  ASSUME TypeInv, NEW ev, Append(ev)
  PROVE  /\ log' = log \cup {ev}
         /\ schema' = schema /\ broken' \in BOOLEAN /\ faults' \in 0 .. MaxFaults
<1>1. broken \in BOOLEAN /\ faults \in 0 .. MaxFaults
  BY DEF TypeInv, TypeOK
<1> QED BY <1>1, FaultType DEF Append

LEMMA InitTypeInv == Init => TypeInv
<1> SUFFICES ASSUME Init PROVE TypeInv
  OBVIOUS
<1>1. /\ interactions = [i \in Interactions |-> NoRecord]
      /\ receipts = [i \in Interactions |-> [k \in Keys |-> NoReceipt]]
      /\ result = [s \in Servers |-> NoAnswer]
  BY SameTypes DEF Init, Coordinator!Init, Servers
<1>2. client \in [Servers -> Clients]
  BY DEF Init, Clients
<1>3. /\ interactions \in [Interactions -> Record \cup {NoRecord}]
      /\ receipts \in [Interactions -> [Keys -> Receipt \cup {NoReceipt}]]
      /\ result \in [Servers -> Answers \cup {NoAnswer}]
  BY <1>1
<1>4. scripts \in BOOLEAN /\ broken \in BOOLEAN /\ schema \in {"None", "One", "Both"} /\ log \subseteq LogEvents
  BY DEF Init
<1>5. phase \in [Servers -> Phases] /\ faults \in 0 .. MaxFaults
  BY ServerAssumption DEF Init, Phases
<1>6. TypeOK
  BY <1>2, <1>3, <1>4, <1>5 DEF TypeOK
<1> QED BY <1>6 DEF Init, TypeInv, AtWork, HasAnswer

LEMMA NextTypeInv == TypeInv /\ [Next]_vars => TypeInv'
<1> SUFFICES ASSUME TypeInv, [Next]_vars PROVE TypeInv'
  OBVIOUS
<1>t. /\ interactions \in [Interactions -> Record \cup {NoRecord}]
      /\ receipts \in [Interactions -> [Keys -> Receipt \cup {NoReceipt}]]
      /\ result \in [Servers -> Answers \cup {NoAnswer}]
      /\ scripts \in BOOLEAN /\ broken \in BOOLEAN /\ schema \in {"None", "One", "Both"}
      /\ log \subseteq LogEvents
      /\ phase \in [Servers -> Phases]
      /\ client \in [Servers -> Clients]
      /\ faults \in 0 .. MaxFaults
  BY DEF TypeInv, TypeOK
<1>1. ASSUME NEW i \in Interactions, Create(i) PROVE TypeInv'
  <2>1. [state |-> "Draft", index |-> 0] \in Record
    BY DEF Record, States
  <2>2. TypeOK'
    BY <1>1, <1>t, <2>1 DEF Create, Coordinator!Create, database, TypeOK
  <2> QED BY <1>1, <2>2 DEF Create, Coordinator!Create, database, TypeInv, AtWork, HasAnswer
<1>2. CASE RedisRestarts
  BY <1>2, <1>t, FaultType DEF RedisRestarts, coordinator, database, TypeInv, TypeOK, AtWork, HasAnswer
<1>3. ASSUME NEW s \in Servers, Start(s) PROVE TypeInv'
  <2>1. /\ phase' = [phase EXCEPT ![s] = phase'[s]]
        /\ phase'[s] \in {"Opened", "Connected", "Down", "Listening"}
        /\ scripts' \in BOOLEAN /\ schema' \in {"None", "One", "Both"}
        /\ faults' \in 0 .. MaxFaults
        /\ UNCHANGED <<interactions, receipts, result, broken, log, client>>
    BY <1>3, <1>t, FaultType
       DEF Start, Launch, Connect, Verify, VerifyUnread, Goes, coordinator, database
  <2> QED BY <2>1, <1>t DEF TypeInv, TypeOK, AtWork, HasAnswer, Phases
<1>4. ASSUME NEW s \in Servers, Receive(s) PROVE TypeInv'
  BY <1>4, <1>t DEF Receive, Goes, coordinator, database, TypeInv, TypeOK, AtWork, HasAnswer, Phases
<1>5. ASSUME NEW s \in Servers, Announce(s) PROVE TypeInv'
  <2>1. Event(s, "Attempted", "None", 0) \in LogEvents
    BY EventType
  <2>2. /\ log' = log \cup {Event(s, "Attempted", "None", 0)}
        /\ schema' = schema /\ broken' \in BOOLEAN /\ faults' \in 0 .. MaxFaults
    BY <1>5, AppendGives DEF Announce
  <2> QED BY <1>5, <2>1, <2>2, <1>t
       DEF Announce, Goes, coordinator, TypeInv, TypeOK, AtWork, HasAnswer, Phases
<1>6. ASSUME NEW s \in Servers, AnnounceFails(s) \/ ReportFails(s) PROVE TypeInv'
  <2>1. /\ Respond(s, NoAnswer) /\ Fault
        /\ UNCHANGED <<interactions, receipts, scripts, database, log>>
    BY <1>6 DEF AnnounceFails, ReportFails, RespondError
  <2> QED BY <2>1, <1>t, RespondGives, FaultType DEF database, TypeInv, TypeOK, AtWork, HasAnswer
<1>7. ASSUME NEW s \in Servers, Call(s) PROVE TypeInv'
  <2>1. /\ phase[s] = "Announced" /\ phase' = [phase EXCEPT ![s] = "Applied"]
        /\ UNCHANGED <<scripts, database, log, client>> /\ faults' \in 0 .. MaxFaults
        /\ AtMostEffect(s)
    BY <1>7, CallGives
  <2>2. PICK r \in Answers : Backed(s, r)
    BY <1>7, CallGives
  <2>3. /\ interactions' \in [Interactions -> Record \cup {NoRecord}]
        /\ receipts' \in [Interactions -> [Keys -> Receipt \cup {NoReceipt}]]
    BY <2>1, <1>t, ClientType, EffectGives DEF AtMostEffect, TypeInv
  <2>4. result' = [result EXCEPT ![s] = r]
    BY <2>2 DEF Backed
  <2> QED BY <2>1, <2>3, <2>4, <1>t DEF database, TypeInv, TypeOK, AtWork, HasAnswer, Phases
<1>8. ASSUME NEW s \in Servers, Report(s) PROVE TypeInv'
  <2>1. /\ phase[s] = "Applied" /\ phase' = [phase EXCEPT ![s] = "Reported"]
        /\ log' = log \cup {Event(s, ReportType(result[s].outcome),
                                  result[s].outcome, result[s].index)}
        /\ schema' = schema /\ broken' \in BOOLEAN /\ faults' \in 0 .. MaxFaults
        /\ UNCHANGED <<interactions, receipts, result, scripts, client>>
    BY <1>8, AppendGives DEF Report, Goes, coordinator
  <2> QED BY <2>1, <1>t, ReportEventType DEF TypeInv, TypeOK, AtWork, HasAnswer, Phases
<1>13. ASSUME NEW s \in Servers, Reply(s) PROVE TypeInv'
  <2>1. /\ result[s] \in Answers /\ Respond(s, result[s])
        /\ UNCHANGED <<interactions, receipts, scripts, database, log, faults>>
    BY <1>13 DEF Reply, TypeInv, HasAnswer
  <2> QED BY <2>1, <1>t, RespondGives DEF TypeInv, TypeOK, AtWork, HasAnswer, database
<1>14. ASSUME NEW s \in Servers, LaunchBroken(s) PROVE TypeInv'
  <2>1. faults' \in 0 .. MaxFaults
    BY <1>14, FaultType DEF LaunchBroken
  <2> QED BY <1>14, <2>1, <1>t
       DEF LaunchBroken, coordinator, TypeInv, TypeOK, AtWork, HasAnswer
<1>9. ASSUME NEW s \in Servers, Ask(s) PROVE TypeInv'
  <2>1. /\ Becomes(s, "Waiting")
        /\ UNCHANGED <<interactions, receipts, result, scripts, database, log, phase, faults>>
    BY <1>9 DEF Ask, coordinator
  <2> QED BY <2>1, <1>t, BecomesType DEF database, TypeInv, TypeOK, AtWork, HasAnswer
<1>10. ASSUME NEW s \in Servers, Exit(s) \/ ExitInCall(s) PROVE TypeInv'
  <2>1. /\ phase' = [phase EXCEPT ![s] = "Down"] /\ Hangup(s) /\ Fault
        /\ result' = [result EXCEPT ![s] = NoAnswer]
        /\ UNCHANGED <<scripts, database, log>>
        /\ AtMostEffect(s)
    BY <1>10 DEF Exit, ExitInCall, Goes, AtMostEffect
  <2>2. /\ interactions' \in [Interactions -> Record \cup {NoRecord}]
        /\ receipts' \in [Interactions -> [Keys -> Receipt \cup {NoReceipt}]]
    BY <2>1, <1>t, ClientType, EffectGives DEF AtMostEffect, TypeInv
  <2>3. client' \in [Servers -> Clients] /\ \A t \in Servers \ {s} : client'[t] = client[t]
    BY <2>1, BecomesType DEF Hangup, TypeInv
  <2> QED BY <2>1, <2>2, <2>3, <1>t, FaultType
       DEF database, TypeInv, TypeOK, AtWork, HasAnswer, Phases
<1>11. ASSUME NEW s \in Servers, NEW w \in Wants[s], Choose(s, w) PROVE TypeInv'
  <2>1. [want |-> w, state |-> "Asking", told |-> NoAnswer] \in Clients
    BY DEF Clients, AllWants
  <2> QED BY <1>11, <2>1, <1>t DEF Choose, coordinator, database, TypeInv, TypeOK, AtWork, HasAnswer
<1>12. CASE UNCHANGED vars
  BY <1>12, <1>t DEF vars, TypeInv, TypeOK, AtWork, HasAnswer
<1> QED BY <1>1, <1>2, <1>3, <1>4, <1>5, <1>6, <1>7, <1>8, <1>9, <1>10, <1>11, <1>12, <1>13,
           <1>14 DEF Next, Serve, Call

LEMMA TypeInvHolds == Spec => []TypeInv
BY InitTypeInv, NextTypeInv, PTL DEF Spec

(***************************************************************************)
(* Servers, clients, log and coordinator keep their types.                 *)
(***************************************************************************)
THEOREM TypeCorrect == Spec => []TypeOK
<1>1. TypeInv => TypeOK
  BY DEF TypeInv
<1> QED BY <1>1, TypeInvHolds, PTL

-----------------------------------------------------------------------------
(***************************************************************************)
(* Every effect is announced: a server that calls the coordinator has the  *)
(* announcement of its request in the log.                                 *)
(***************************************************************************)
CallsAreAnnounced ==
  \A s \in Servers :
    phase[s] = "Announced" => Event(s, "Attempted", "None", 0) \in log

AnnouncedInv == CallsAreAnnounced /\ EffectsAreAnnounced

(***************************************************************************)
(* A step without an effect that adds to the log keeps what is announced;  *)
(* an effect finds its announcement.                                       *)
(***************************************************************************)
LEMMA EffectsStayAnnounced ==
  ASSUME TypeInv, AnnouncedInv, log \subseteq log',
         \/ UNCHANGED receipts
         \/ \E s \in Servers : phase[s] = "Announced" /\ AtMostEffect(s)
  PROVE  EffectsAreAnnounced'
<1>1. CASE UNCHANGED receipts
  BY <1>1 DEF AnnouncedInv, EffectsAreAnnounced
<1>2. ASSUME NEW s \in Servers, phase[s] = "Announced", AtMostEffect(s)
      PROVE  EffectsAreAnnounced'
  <2> DEFINE w == client[s].want
  <2>1. CASE UNCHANGED <<interactions, receipts>>
    BY <1>1, <2>1
  <2>2. CASE Coordinator!Effect(w.id, w.event, w.key)
    <3>1. /\ w \in AllWants /\ w.id \in Interactions /\ w.event \in Events /\ w.key \in Keys
          /\ w = [id |-> w.id, event |-> w.event, key |-> w.key]
      BY ClientType, WantType DEF TypeInv
    <3>2. /\ receipts'[w.id][w.key].event = w.event
          /\ \A j \in Interactions, l \in Keys :
               j # w.id \/ l # w.key => receipts'[j][l] = receipts[j][l]
      <4>1. /\ interactions \in [Interactions -> Record \cup {NoRecord}]
            /\ receipts \in [Interactions -> [Keys -> Receipt \cup {NoReceipt}]]
        BY Zenon DEF TypeInv, TypeOK
      <4> HIDE DEF w
      <4> QED BY <2>2, <3>1, <4>1, EffectGives
    <3>3. Event(s, "Attempted", "None", 0) \in log'
      BY <1>2 DEF AnnouncedInv, CallsAreAnnounced
    <3>4. /\ Event(s, "Attempted", "None", 0).type = "Attempted"
          /\ Event(s, "Attempted", "None", 0).want = w
      BY DEF Event
    <3> SUFFICES ASSUME NEW i \in Interactions, NEW k \in Keys, receipts'[i][k] # NoReceipt
                 PROVE  \E ev \in log' :
                          /\ ev.type = "Attempted"
                          /\ ev.want = [id |-> i, event |-> receipts'[i][k].event, key |-> k]
      BY Zenon DEF EffectsAreAnnounced
    <3>5. CASE i = w.id /\ k = w.key
      BY <3>1, <3>2, <3>3, <3>4, <3>5
    <3>6. CASE i # w.id \/ k # w.key
      BY <3>2, <3>6 DEF AnnouncedInv, EffectsAreAnnounced
    <3> QED BY <3>5, <3>6
  <2> QED BY <1>2, <2>1, <2>2 DEF AtMostEffect
<1> QED BY <1>1, <1>2

LEMMA NextAnnouncedInv == TypeInv /\ AnnouncedInv /\ [Next]_vars => AnnouncedInv'
<1> SUFFICES ASSUME TypeInv, AnnouncedInv, [Next]_vars PROVE AnnouncedInv'
  OBVIOUS
<1>t. /\ phase \in [Servers -> Phases] /\ client \in [Servers -> Clients]
  BY DEF TypeInv, TypeOK
<1>0. ASSUME UNCHANGED receipts, log \subseteq log', CallsAreAnnounced' PROVE AnnouncedInv'
  BY <1>0, EffectsStayAnnounced DEF AnnouncedInv
<1>1. ASSUME NEW i \in Interactions, Create(i) PROVE AnnouncedInv'
  BY <1>0, <1>1 DEF Create, Coordinator!Create, AnnouncedInv, CallsAreAnnounced, Event
<1>2. CASE RedisRestarts
  BY <1>0, <1>2 DEF RedisRestarts, coordinator, AnnouncedInv, CallsAreAnnounced, Event
<1>3. ASSUME NEW s \in Servers, Start(s) \/ Receive(s) PROVE AnnouncedInv'
  <2>1. /\ phase' = [phase EXCEPT ![s] = phase'[s]]
        /\ phase'[s] # "Announced"
        /\ UNCHANGED <<receipts, log, client>>
    BY <1>3, <1>t DEF Start, Launch, Connect, Verify, VerifyUnread, Receive, Goes, coordinator
  <2> QED BY <1>0, <2>1, <1>t DEF AnnouncedInv, CallsAreAnnounced, Event
<1>4. ASSUME NEW s \in Servers, Announce(s) PROVE AnnouncedInv'
  <2>1. /\ log' = log \cup {Event(s, "Attempted", "None", 0)}
        /\ phase' = [phase EXCEPT ![s] = "Announced"]
        /\ UNCHANGED <<receipts, client>>
    BY <1>4 DEF Announce, Append, Goes, coordinator
  <2> QED BY <1>0, <2>1, <1>t DEF AnnouncedInv, CallsAreAnnounced, Event
<1>5. ASSUME NEW s \in Servers, NEW a \in Answers \cup {NoAnswer}, Respond(s, a),
             UNCHANGED receipts, log \subseteq log'
      PROVE  AnnouncedInv'
  <2>1. /\ phase'[s] = "Listening"
        /\ \A t \in Servers \ {s} : phase'[t] = phase[t] /\ client'[t] = client[t]
    BY <1>5, RespondGives
  <2> QED BY <1>0, <1>5, <2>1 DEF AnnouncedInv, CallsAreAnnounced, Event
<1>6. ASSUME NEW s \in Servers, AnnounceFails(s) \/ ReportFails(s) PROVE AnnouncedInv'
  BY <1>5, <1>6 DEF AnnounceFails, ReportFails, RespondError
<1>7. ASSUME NEW s \in Servers, Call(s) PROVE AnnouncedInv'
  <2>1. /\ phase[s] = "Announced" /\ phase' = [phase EXCEPT ![s] = "Applied"]
        /\ UNCHANGED <<log, client>> /\ AtMostEffect(s)
    BY <1>7, CallGives
  <2>2. CallsAreAnnounced'
    BY <2>1, <1>t DEF AnnouncedInv, CallsAreAnnounced, Event
  <2> QED BY <2>1, <2>2, EffectsStayAnnounced DEF AnnouncedInv
<1>8. ASSUME NEW s \in Servers, Report(s) PROVE AnnouncedInv'
  <2>1. /\ phase' = [phase EXCEPT ![s] = "Reported"] /\ log \subseteq log'
        /\ UNCHANGED <<receipts, client>>
    BY <1>8 DEF Report, Append, Goes, coordinator
  <2> QED BY <1>0, <2>1, <1>t DEF AnnouncedInv, CallsAreAnnounced, Event
<1>13. ASSUME NEW s \in Servers, Reply(s) PROVE AnnouncedInv'
  <2>1. result[s] \in Answers /\ Respond(s, result[s]) /\ UNCHANGED <<receipts, log>>
    BY <1>13 DEF Reply, TypeInv, HasAnswer
  <2> QED BY <2>1, <1>5
<1>14. ASSUME NEW s \in Servers, LaunchBroken(s) PROVE AnnouncedInv'
  BY <1>0, <1>14 DEF LaunchBroken, coordinator, AnnouncedInv, CallsAreAnnounced, Event
<1>9. ASSUME NEW s \in Servers, Ask(s) PROVE AnnouncedInv'
  <2>1. Becomes(s, "Waiting") /\ UNCHANGED <<receipts, log, phase>>
    BY <1>9 DEF Ask, coordinator
  <2>2. \A t \in Servers : client'[t].want = client[t].want
    BY <2>1, BecomesType DEF TypeInv
  <2> QED BY <1>0, <2>1, <2>2 DEF AnnouncedInv, CallsAreAnnounced, Event
<1>10. ASSUME NEW s \in Servers, Exit(s) \/ ExitInCall(s) PROVE AnnouncedInv'
  <2>1. /\ phase' = [phase EXCEPT ![s] = "Down"] /\ Hangup(s) /\ UNCHANGED log
        /\ UNCHANGED receipts \/ (phase[s] = "Announced" /\ AtMostEffect(s))
    BY <1>10 DEF Exit, ExitInCall, Goes, AtMostEffect
  <2>2. \A t \in Servers : client'[t].want = client[t].want
    BY <2>1, BecomesType DEF Hangup, TypeInv
  <2>3. CallsAreAnnounced'
    BY <2>1, <2>2, <1>t DEF AnnouncedInv, CallsAreAnnounced, Event
  <2> QED BY <2>1, <2>3, EffectsStayAnnounced DEF AnnouncedInv
<1>11. ASSUME NEW s \in Servers, NEW w \in Wants[s], Choose(s, w) PROVE AnnouncedInv'
  <2>1. /\ client[s].state = "Idle"
        /\ client' = [client EXCEPT ![s] = [want |-> w, state |-> "Asking", told |-> NoAnswer]]
        /\ UNCHANGED <<receipts, log, phase>>
    BY <1>11 DEF Choose, coordinator
  <2>2. phase[s] # "Announced"
    BY <2>1 DEF TypeInv, AtWork
  <2> QED BY <1>0, <2>1, <2>2, <1>t DEF AnnouncedInv, CallsAreAnnounced, Event
<1>12. CASE UNCHANGED vars
  BY <1>12 DEF vars, AnnouncedInv, CallsAreAnnounced, EffectsAreAnnounced, Event
<1> QED BY <1>1, <1>2, <1>3, <1>4, <1>6, <1>7, <1>8, <1>9, <1>10, <1>11, <1>12, <1>13, <1>14
     DEF Next, Serve, Call

(***************************************************************************)
(* Every receipt in the coordinator has its InteractionTransitionAttempted *)
(* in the log, under the id, event and key it was asked for, whatever      *)
(* failed or stopped since.                                                *)
(***************************************************************************)
THEOREM EffectsAreAlwaysAnnounced == Spec => []EffectsAreAnnounced
<1>1. Init => AnnouncedInv
  BY SameTypes DEF Init, Coordinator!Init, AnnouncedInv, CallsAreAnnounced,
                   EffectsAreAnnounced
<1>2. AnnouncedInv => EffectsAreAnnounced
  BY DEF AnnouncedInv
<1> QED BY <1>1, <1>2, TypeInvHolds, NextAnnouncedInv, PTL DEF Spec

-----------------------------------------------------------------------------
(***************************************************************************)
(* Nothing but the answer to its own request tells a client an outcome,    *)
(* nothing is answered before it is reported, and a client forgets what it *)
(* was told before it wants something else.                                *)
(***************************************************************************)
Reports(s, a) ==
  \E ev \in log :
    /\ ev.by = s /\ ev.want = client[s].want
    /\ ev.type # "Attempted"
    /\ ev.outcome = a.outcome /\ ev.index = a.index

AnswersAreReported == \A s \in Servers : phase[s] = "Reported" => Reports(s, result[s])

ToldInv == ToldIsReported /\ AnswersAreReported

LEMMA NextToldInv == TypeInv /\ ToldInv /\ [Next]_vars => ToldInv'
<1> SUFFICES ASSUME TypeInv, ToldInv, [Next]_vars PROVE ToldInv'
  OBVIOUS
<1>t. /\ client \in [Servers -> Clients] /\ phase \in [Servers -> Phases]
      /\ result \in [Servers -> Answers \cup {NoAnswer}]
  BY DEF TypeInv, TypeOK
<1>0. ASSUME log \subseteq log',
             \A s \in Servers :
               /\ client'[s].want = client[s].want /\ client'[s].told = client[s].told
               /\ phase'[s] = "Reported" => phase[s] = "Reported" /\ result'[s] = result[s]
      PROVE  ToldInv'
  <2>1. ASSUME NEW s \in Servers, NEW a, Reports(s, a) PROVE Reports(s, a)'
    BY <1>0, <2>1 DEF Reports
  <2> QED BY <1>0, <2>1 DEF ToldInv, ToldIsReported, AnswersAreReported, Reports
<1>1. ASSUME NEW i \in Interactions, Create(i) PROVE ToldInv'
  BY <1>0, <1>1 DEF Create, Coordinator!Create
<1>2. CASE RedisRestarts
  BY <1>0, <1>2 DEF RedisRestarts, coordinator
<1>3. ASSUME NEW s \in Servers, Start(s) \/ Receive(s) \/ Announce(s) PROVE ToldInv'
  <2>1. /\ phase' = [phase EXCEPT ![s] = phase'[s]] /\ phase'[s] # "Reported"
        /\ log \subseteq log' /\ UNCHANGED <<client, result>>
    BY <1>3, <1>t DEF Start, Launch, Connect, Verify, VerifyUnread, Receive, Announce, Append,
                      Goes, coordinator
  <2> QED BY <1>0, <2>1, <1>t
<1>4. ASSUME NEW s \in Servers, NEW a \in Answers \cup {NoAnswer}, Respond(s, a),
             UNCHANGED log, a # NoAnswer => Reports(s, a)
      PROVE  ToldInv'
  <2>1. /\ phase'[s] = "Listening" /\ client'[s].want = client[s].want
        /\ client'[s].told \in {NoAnswer, a}
        /\ \A t \in Servers \ {s} :
             client'[t] = client[t] /\ phase'[t] = phase[t] /\ result'[t] = result[t]
    BY <1>4, RespondGives
  <2>2. ToldIsReported'
    BY <1>4, <2>1 DEF ToldInv, ToldIsReported, Reports
  <2>3. AnswersAreReported'
    BY <1>4, <2>1 DEF ToldInv, AnswersAreReported, Reports
  <2> QED BY <2>2, <2>3 DEF ToldInv
<1>5. ASSUME NEW s \in Servers, AnnounceFails(s) \/ ReportFails(s) PROVE ToldInv'
  BY <1>4, <1>5 DEF AnnounceFails, ReportFails, RespondError
<1>6. ASSUME NEW s \in Servers, Call(s) PROVE ToldInv'
  <2>1. phase' = [phase EXCEPT ![s] = "Applied"] /\ UNCHANGED <<log, client>>
    BY <1>6, CallGives
  <2>2. PICK r : result' = [result EXCEPT ![s] = r]
    BY <1>6, CallGives DEF Backed
  <2> QED BY <1>0, <2>1, <2>2, <1>t
<1>7. ASSUME NEW s \in Servers, Report(s) PROVE ToldInv'
  <2> DEFINE r == result[s]
             ev == Event(s, ReportType(r.outcome), r.outcome, r.index)
  <2>1. /\ log' = log \cup {ev} /\ phase' = [phase EXCEPT ![s] = "Reported"]
        /\ UNCHANGED <<client, result>>
    BY <1>7 DEF Report, Append, Goes, coordinator
  <2>2. /\ ev.by = s /\ ev.want = client[s].want /\ ev.type # "Attempted"
        /\ ev.outcome = r.outcome /\ ev.index = r.index
    BY DEF Event, ReportType
  <2> HIDE DEF ev
  <2>3. Reports(s, result[s])'
    BY <2>1, <2>2 DEF Reports
  <2>4. ToldIsReported'
    BY <2>1 DEF ToldInv, ToldIsReported
  <2>5. AnswersAreReported'
    BY <2>1, <2>3, <1>t DEF ToldInv, AnswersAreReported, Reports
  <2> QED BY <2>4, <2>5 DEF ToldInv
<1>8. ASSUME NEW s \in Servers, Reply(s) PROVE ToldInv'
  <2>1. /\ result[s] \in Answers /\ Respond(s, result[s]) /\ UNCHANGED log
        /\ Reports(s, result[s])
    BY <1>8 DEF Reply, TypeInv, HasAnswer, ToldInv, AnswersAreReported
  <2> QED BY <2>1, <1>4
<1>9. ASSUME NEW s \in Servers, Ask(s) PROVE ToldInv'
  <2>1. Becomes(s, "Waiting") /\ UNCHANGED <<log, phase, result>>
    BY <1>9 DEF Ask, coordinator
  <2> QED BY <1>0, <2>1, BecomesType DEF TypeInv
<1>10. ASSUME NEW s \in Servers, Exit(s) \/ ExitInCall(s) PROVE ToldInv'
  <2>1. /\ Hangup(s) /\ UNCHANGED log /\ phase' = [phase EXCEPT ![s] = "Down"]
        /\ result' = [result EXCEPT ![s] = NoAnswer]
    BY <1>10 DEF Exit, ExitInCall, Goes
  <2>2. \A t \in Servers : client'[t].want = client[t].want /\ client'[t].told = client[t].told
    BY <2>1, BecomesType DEF Hangup, TypeInv
  <2> QED BY <1>0, <2>1, <2>2, <1>t
<1>11. ASSUME NEW s \in Servers, NEW w \in Wants[s], Choose(s, w) PROVE ToldInv'
  <2>1. /\ client[s].state = "Idle"
        /\ client' = [client EXCEPT ![s] = [want |-> w, state |-> "Asking", told |-> NoAnswer]]
        /\ UNCHANGED <<result, log, phase>>
    BY <1>11 DEF Choose, coordinator
  <2>2. phase[s] # "Reported"
    BY <2>1 DEF TypeInv, AtWork
  <2>3. /\ client'[s].told = NoAnswer /\ \A t \in Servers \ {s} : client'[t] = client[t]
    BY <2>1, <1>t
  <2> QED BY <2>1, <2>2, <2>3 DEF ToldInv, ToldIsReported, AnswersAreReported, Reports
<1>12. ASSUME NEW s \in Servers, LaunchBroken(s) PROVE ToldInv'
  BY <1>0, <1>12 DEF LaunchBroken, coordinator
<1>13. CASE UNCHANGED vars
  BY <1>0, <1>13 DEF vars
<1> QED BY <1>1, <1>2, <1>3, <1>5, <1>6, <1>7, <1>8, <1>9, <1>10, <1>11, <1>12, <1>13
     DEF Next, Serve, Call

(***************************************************************************)
(* What a client was told of its request is in the audit log, under its    *)
(* own trace.                                                              *)
(***************************************************************************)
THEOREM WhatIsToldIsOnRecord == Spec => []ToldIsReported
<1>1. Init => ToldInv
  BY DEF Init, ToldInv, ToldIsReported, AnswersAreReported
<1>2. ToldInv => ToldIsReported
  BY DEF ToldInv
<1> QED BY <1>1, <1>2, TypeInvHolds, NextToldInv, PTL DEF Spec

-----------------------------------------------------------------------------
(***************************************************************************)
(* The truth of reports.  Receipts never change once they are given, so a  *)
(* result that is backed when the coordinator returns is still backed when *)
(* it is reported and ever after.  That only one report claims to be the   *)
(* first to apply an index rests on the indices: an effect takes an index  *)
(* above all that any receipt, and so any earlier claim, names.            *)
(***************************************************************************)
ReceiptsBounded ==
  \A i \in Interactions, k \in Keys :
    receipts[i][k] # NoReceipt =>
      interactions[i] # NoRecord /\ receipts[i][k].index <= interactions[i].index

HasReceipt(want, index) ==
  receipts[want.id][want.key] # NoReceipt /\ receipts[want.id][want.key].index = index

ReportedHaveReceipts ==
  \A ev \in log : ev.type = "Completed" => HasReceipt(ev.want, ev.index)

ResultsHaveReceipts ==
  \A s \in Servers :
    phase[s] = "Applied" /\ result[s].outcome \in Success =>
      HasReceipt(client[s].want, result[s].index)

\* A claim to be the first to apply an index: a result on its way, or a report.
Claims(s) == phase[s] = "Applied" /\ result[s].outcome = "Applied"
Claimed(ev) == ev.type = "Completed" /\ ev.outcome = "Applied"

ClaimsDiffer ==
  \A s, t \in Servers :
    Claims(s) /\ Claims(t) /\ s # t /\ client[s].want.id = client[t].want.id =>
      result[s].index # result[t].index

ClaimsAreNew ==
  \A s \in Servers, ev \in log :
    Claims(s) /\ Claimed(ev) /\ ev.want.id = client[s].want.id =>
      ev.index # result[s].index

ClaimedDiffer ==
  \A ev, other \in log :
    Claimed(ev) /\ Claimed(other) /\ ev.want.id = other.want.id /\ ev.index = other.index =>
      other = ev

TruthInv ==
  /\ ReceiptsBounded /\ ReportedHaveReceipts /\ ResultsHaveReceipts
  /\ ClaimsDiffer /\ ClaimsAreNew /\ ClaimedDiffer

LEMMA LogType ==
  ASSUME TypeInv, NEW ev \in log
  PROVE  ev.want \in AllWants /\ ev.index \in Nat
BY DEF TypeInv, TypeOK, LogEvents

(***************************************************************************)
(* No index that a receipt names is above the interaction's own.           *)
(***************************************************************************)
LEMMA ReceiptIsBounded ==
  ASSUME TypeInv, TruthInv, NEW w \in AllWants, NEW n, HasReceipt(w, n)
  PROVE  /\ n \in Nat /\ interactions[w.id] \in Record
         /\ interactions[w.id].index \in Nat /\ n <= interactions[w.id].index
<1>1. w.id \in Interactions /\ w.key \in Keys
  BY WantType
<1>2. /\ receipts[w.id][w.key] # NoReceipt /\ receipts[w.id][w.key].index = n
      /\ receipts[w.id][w.key] \in Receipt
  BY <1>1 DEF HasReceipt, TypeInv, TypeOK
<1>3. /\ interactions[w.id] # NoRecord /\ n <= interactions[w.id].index
      /\ interactions[w.id] \in Record
  BY <1>1, <1>2 DEF TruthInv, ReceiptsBounded, TypeInv, TypeOK
<1> QED BY <1>2, <1>3 DEF Record, Receipt

(***************************************************************************)
(* Receipts are never withdrawn or changed.                                *)
(***************************************************************************)
LEMMA EffectKeepsReceipts ==
  ASSUME TypeInv, TruthInv, NEW s \in Servers, AtMostEffect(s)
  PROVE  /\ ReceiptsBounded'
         /\ \A w \in AllWants : \A n : HasReceipt(w, n) => HasReceipt(w, n)'
<1> DEFINE v == client[s].want
<1>1. v.id \in Interactions /\ v.event \in Events /\ v.key \in Keys
  BY ClientType DEF TypeInv
<1>2. CASE UNCHANGED <<interactions, receipts>>
  BY <1>2 DEF TruthInv, ReceiptsBounded, HasReceipt
<1>3. CASE Coordinator!Effect(v.id, v.event, v.key)
  <2>1. /\ interactions[v.id] \in Record /\ receipts[v.id][v.key] = NoReceipt
        /\ interactions' \in [Interactions -> Record \cup {NoRecord}]
        /\ interactions'[v.id].index = interactions[v.id].index + 1
        /\ receipts'[v.id][v.key].index = interactions[v.id].index + 1
        /\ \A j \in Interactions : j # v.id => interactions'[j] = interactions[j]
        /\ \A j \in Interactions, l \in Keys :
             j # v.id \/ l # v.key => receipts'[j][l] = receipts[j][l]
    BY <1>1, <1>3, EffectGives DEF TypeInv, TypeOK
  <2>2. interactions[v.id].index \in Nat
    BY <2>1 DEF Record
  <2>3. interactions'[v.id] # NoRecord
    BY <2>1, <2>2 DEF NoRecord
  <2>4. ASSUME NEW i \in Interactions, NEW k \in Keys, receipts'[i][k] # NoReceipt
        PROVE  interactions'[i] # NoRecord /\ receipts'[i][k].index <= interactions'[i].index
    <3>1. CASE i = v.id /\ k = v.key
      BY <2>1, <2>2, <2>3, <3>1
    <3>2. CASE i = v.id /\ k # v.key
      <4>1. receipts[i][k] # NoReceipt /\ receipts'[i][k] = receipts[i][k]
        BY <2>1, <2>4, <3>2
      <4>2. receipts[i][k] \in Receipt
        BY <4>1 DEF TypeInv, TypeOK
      <4>3. receipts[i][k].index \in Nat /\ receipts[i][k].index <= interactions[i].index
        BY <4>1, <4>2 DEF TruthInv, ReceiptsBounded, Receipt
      <4> QED BY <2>1, <2>2, <2>3, <3>2, <4>1, <4>3
    <3>3. CASE i # v.id
      BY <2>1, <2>4, <3>3 DEF TruthInv, ReceiptsBounded
    <3> QED BY <3>1, <3>2, <3>3
  <2>5. ASSUME NEW w \in AllWants, NEW n, HasReceipt(w, n) PROVE HasReceipt(w, n)'
    <3>1. w.id \in Interactions /\ w.key \in Keys
      BY WantType
    <3>2. w.id # v.id \/ w.key # v.key
      BY <2>1, <2>5 DEF HasReceipt
    <3> QED BY <2>1, <2>5, <3>1, <3>2 DEF HasReceipt
  <2> QED BY <2>4, <2>5 DEF ReceiptsBounded
<1> QED BY <1>2, <1>3 DEF AtMostEffect

(***************************************************************************)
(* A step that reports nothing keeps the truth as long as results that are *)
(* on their way stay what they are.                                        *)
(***************************************************************************)
LEMMA TruthKept ==
  ASSUME TypeInv, TruthInv, ReceiptsBounded',
         \A w \in AllWants : \A n : HasReceipt(w, n) => HasReceipt(w, n)',
         \A ev \in log' : ev \in log \/ ev.type = "Attempted",
         \A s \in Servers : phase'[s] = "Applied" =>
           /\ phase[s] = "Applied" /\ result'[s] = result[s]
           /\ client'[s].want = client[s].want
  PROVE  TruthInv'
<1>1. ReportedHaveReceipts'
  BY LogType DEF TruthInv, ReportedHaveReceipts
<1>2. ResultsHaveReceipts'
  <2> SUFFICES ASSUME NEW s \in Servers, phase'[s] = "Applied", result'[s].outcome \in Success
               PROVE  HasReceipt(client[s].want, result[s].index)'
    BY DEF ResultsHaveReceipts
  <2>1. HasReceipt(client[s].want, result[s].index)
    BY DEF TruthInv, ResultsHaveReceipts
  <2>2. client[s].want \in AllWants
    BY ClientType DEF TypeInv
  <2>3. /\ receipts'[client[s].want.id][client[s].want.key] # NoReceipt
        /\ receipts'[client[s].want.id][client[s].want.key].index = result[s].index
    BY <2>1, <2>2 DEF HasReceipt
  <2> QED BY <2>3 DEF HasReceipt
<1>3. \A s \in Servers : Claims(s)' => Claims(s)
  BY DEF Claims
<1>4. \A ev \in log' : Claimed(ev) => ev \in log
  BY DEF Claimed
<1>5. ClaimsDiffer'
  BY <1>3 DEF TruthInv, ClaimsDiffer, Claims
<1>6. ClaimsAreNew'
  BY <1>3, <1>4 DEF TruthInv, ClaimsAreNew, Claims
<1>7. ClaimedDiffer'
  BY <1>4 DEF TruthInv, ClaimedDiffer
<1> QED BY <1>1, <1>2, <1>5, <1>6, <1>7 DEF TruthInv

LEMMA CallKeepsTruth ==
  ASSUME TypeInv, TruthInv, NEW s \in Servers, Call(s)
  PROVE  TruthInv'
<1> DEFINE w == client[s].want
<1>1. /\ phase' = [phase EXCEPT ![s] = "Applied"] /\ phase[s] = "Announced"
      /\ UNCHANGED <<log, client>> /\ AtMostEffect(s)
  BY CallGives
<1>2. PICK r \in Answers : Backed(s, r)
  BY CallGives
<1>3. /\ phase \in [Servers -> Phases]
      /\ result \in [Servers -> Answers \cup {NoAnswer}]
      /\ result' = [result EXCEPT ![s] = r]
  BY <1>2 DEF Backed, TypeInv, TypeOK
<1>4. /\ result'[s] = r /\ phase'[s] = "Applied"
      /\ \A t \in Servers \ {s} : result'[t] = result[t] /\ phase'[t] = phase[t]
  BY <1>1, <1>3
<1>5. /\ ReceiptsBounded'
      /\ \A v \in AllWants : \A n : HasReceipt(v, n) => HasReceipt(v, n)'
  BY <1>1, EffectKeepsReceipts
<1>6. ReportedHaveReceipts'
  BY <1>1, <1>5, LogType DEF TruthInv, ReportedHaveReceipts
<1>7. ResultsHaveReceipts'
  <2> SUFFICES ASSUME NEW t \in Servers, phase'[t] = "Applied", result'[t].outcome \in Success
               PROVE  HasReceipt(client[t].want, result[t].index)'
    BY DEF ResultsHaveReceipts
  <2>1. CASE t = s
    BY <1>1, <1>2, <1>4, <2>1 DEF Backed, HasReceipt
  <2>2. CASE t # s
    <3>1. HasReceipt(client[t].want, result[t].index)
      BY <1>4, <2>2 DEF TruthInv, ResultsHaveReceipts
    <3>2. client[t].want \in AllWants
      BY ClientType DEF TypeInv
    <3>3. /\ receipts'[client[t].want.id][client[t].want.key] # NoReceipt
          /\ receipts'[client[t].want.id][client[t].want.key].index = result[t].index
      BY <1>5, <3>1, <3>2 DEF HasReceipt
    <3> QED BY <1>1, <1>4, <2>2, <3>3 DEF HasReceipt
  <2> QED BY <2>1, <2>2
<1>8. ASSUME NEW v \in AllWants, NEW n, HasReceipt(v, n), v.id = w.id, Claims(s)'
      PROVE  n # result'[s].index
  <2>1. n \in Nat /\ interactions[w.id].index \in Nat /\ n <= interactions[w.id].index
    BY <1>8, ReceiptIsBounded
  <2>2. result'[s].index = interactions[w.id].index + 1
    BY <1>2, <1>4, <1>8 DEF Backed, Claims
  <2> QED BY <2>1, <2>2
<1>9. \A t \in Servers \ {s} : Claims(t)' =>
        /\ Claims(t) /\ HasReceipt(client[t].want, result[t].index)
        /\ client[t].want \in AllWants /\ result'[t] = result[t]
  BY <1>4, ClientType DEF TypeInv, TruthInv, ResultsHaveReceipts, Claims, Success
<1>10. ClaimsDiffer'
  <2> SUFFICES ASSUME NEW t \in Servers, NEW u \in Servers, Claims(t)', Claims(u)', t # u,
                      client'[t].want.id = client'[u].want.id
               PROVE  result'[t].index # result'[u].index
    BY DEF ClaimsDiffer
  <2>1. CASE t = s
    BY <1>1, <1>8, <1>9, <2>1
  <2>2. CASE u = s
    BY <1>1, <1>8, <1>9, <2>2
  <2>3. CASE t # s /\ u # s
    BY <1>1, <1>9, <2>3 DEF TruthInv, ClaimsDiffer
  <2> QED BY <2>1, <2>2, <2>3
<1>11. ClaimsAreNew'
  <2> SUFFICES ASSUME NEW t \in Servers, NEW ev \in log', Claims(t)', Claimed(ev),
                      ev.want.id = client'[t].want.id
               PROVE  ev.index # result'[t].index
    BY DEF ClaimsAreNew
  <2>1. ev \in log /\ HasReceipt(ev.want, ev.index) /\ ev.want \in AllWants
    BY <1>1, LogType DEF TruthInv, ReportedHaveReceipts, Claimed
  <2>2. CASE t = s
    BY <1>1, <1>8, <2>1, <2>2
  <2>3. CASE t # s
    BY <1>1, <1>9, <2>1, <2>3 DEF TruthInv, ClaimsAreNew
  <2> QED BY <2>2, <2>3
<1>12. ClaimedDiffer'
  BY <1>1 DEF TruthInv, ClaimedDiffer
<1> QED BY <1>5, <1>6, <1>7, <1>10, <1>11, <1>12 DEF TruthInv

LEMMA ReportKeepsTruth ==
  ASSUME TypeInv, TruthInv, NEW s \in Servers, Report(s)
  PROVE  TruthInv'
<1> DEFINE r == result[s]
           e == Event(s, ReportType(r.outcome), r.outcome, r.index)
<1>1. /\ phase[s] = "Applied" /\ log' = log \cup {e}
      /\ phase' = [phase EXCEPT ![s] = "Reported"]
      /\ UNCHANGED <<interactions, receipts, result, client>>
  BY DEF Report, Append, Goes, coordinator
<1>2. /\ phase'[s] = "Reported"
      /\ \A t \in Servers \ {s} :
           phase'[t] = phase[t] /\ result'[t] = result[t] /\ client'[t] = client[t]
  BY <1>1 DEF TypeInv, TypeOK
<1>3. /\ e.want = client[s].want /\ e.index = r.index /\ e.outcome = r.outcome
      /\ e.type = "Completed" <=> r.outcome \in Success
  BY DEF Event, ReportType
<1> HIDE DEF e
<1>4. Claimed(e) => Claims(s)
  BY <1>1, <1>3 DEF Claimed, Claims
<1>5. ReceiptsBounded'
  BY <1>1 DEF TruthInv, ReceiptsBounded
<1>6. ReportedHaveReceipts'
  BY <1>1, <1>3 DEF TruthInv, ReportedHaveReceipts, ResultsHaveReceipts, HasReceipt
<1>7. ResultsHaveReceipts'
  BY <1>1, <1>2 DEF TruthInv, ResultsHaveReceipts, HasReceipt
<1>8. \A t \in Servers : Claims(t)' =>
        /\ t # s /\ Claims(t) /\ result'[t] = result[t] /\ client'[t] = client[t]
  BY <1>2 DEF Claims
<1>9. ClaimsDiffer'
  BY <1>8 DEF TruthInv, ClaimsDiffer
<1>10. ClaimsAreNew'
  <2> SUFFICES ASSUME NEW t \in Servers, NEW ev \in log', Claims(t)', Claimed(ev),
                      ev.want.id = client'[t].want.id
               PROVE  ev.index # result'[t].index
    BY DEF ClaimsAreNew
  <2>1. CASE ev \in log
    BY <1>8, <2>1 DEF TruthInv, ClaimsAreNew
  <2>2. CASE ev = e
    BY <1>3, <1>4, <1>8, <2>2 DEF TruthInv, ClaimsDiffer
  <2> QED BY <1>1, <2>1, <2>2
<1>11. ClaimedDiffer'
  <2> SUFFICES ASSUME NEW ev \in log', NEW other \in log', Claimed(ev), Claimed(other),
                      ev.want.id = other.want.id, ev.index = other.index
               PROVE  other = ev
    BY DEF ClaimedDiffer
  <2>1. CASE ev \in log /\ other \in log
    BY <2>1 DEF TruthInv, ClaimedDiffer
  <2>2. ASSUME NEW old \in log, Claimed(old), Claimed(e), old.want.id = e.want.id,
               old.index = e.index
        PROVE  FALSE
    BY <1>3, <1>4, <2>2 DEF TruthInv, ClaimsAreNew
  <2> QED BY <1>1, <2>1, <2>2
<1> QED BY <1>5, <1>6, <1>7, <1>9, <1>10, <1>11 DEF TruthInv

LEMMA NextTruthInv == TypeInv /\ TruthInv /\ [Next]_vars => TruthInv'
<1> SUFFICES ASSUME TypeInv, TruthInv, [Next]_vars PROVE TruthInv'
  OBVIOUS
<1>t. /\ phase \in [Servers -> Phases] /\ client \in [Servers -> Clients]
      /\ result \in [Servers -> Answers \cup {NoAnswer}]
  BY DEF TypeInv, TypeOK
<1>0. ASSUME UNCHANGED <<interactions, receipts>>,
             \A ev \in log' : ev \in log \/ ev.type = "Attempted",
             \A s \in Servers : phase'[s] = "Applied" =>
               /\ phase[s] = "Applied" /\ result'[s] = result[s]
               /\ client'[s].want = client[s].want
      PROVE  TruthInv'
  <2>1. ReceiptsBounded' /\ \A w \in AllWants : \A n : HasReceipt(w, n) => HasReceipt(w, n)'
    BY <1>0 DEF TruthInv, ReceiptsBounded, HasReceipt
  <2> QED BY <1>0, <2>1, TruthKept
<1>1. ASSUME NEW i \in Interactions, Create(i) PROVE TruthInv'
  <2>1. /\ interactions[i] = NoRecord /\ UNCHANGED <<receipts, result, phase, client, log>>
        /\ interactions' = [interactions EXCEPT ![i] = [state |-> "Draft", index |-> 0]]
    BY <1>1, SameTypes DEF Create, Coordinator!Create
  <2>2. ReceiptsBounded'
    BY <2>1 DEF TruthInv, ReceiptsBounded, TypeInv, TypeOK
  <2>3. \A w \in AllWants : \A n : HasReceipt(w, n) => HasReceipt(w, n)'
    BY <2>1 DEF HasReceipt
  <2> QED BY <2>1, <2>2, <2>3, TruthKept
<1>2. CASE RedisRestarts
  BY <1>0, <1>2 DEF RedisRestarts, coordinator
<1>3. ASSUME NEW s \in Servers, Start(s) \/ Receive(s) PROVE TruthInv'
  <2>1. /\ phase' = [phase EXCEPT ![s] = phase'[s]] /\ phase'[s] # "Applied"
        /\ UNCHANGED <<interactions, receipts, result, log, client>>
    BY <1>3, <1>t DEF Start, Launch, Connect, Verify, VerifyUnread, Receive, Goes, coordinator
  <2> QED BY <1>0, <2>1, <1>t
<1>4. ASSUME NEW s \in Servers, Announce(s) PROVE TruthInv'
  <2>1. /\ log' = log \cup {Event(s, "Attempted", "None", 0)}
        /\ phase' = [phase EXCEPT ![s] = "Announced"]
        /\ UNCHANGED <<interactions, receipts, result, client>>
        /\ Event(s, "Attempted", "None", 0).type = "Attempted"
    BY <1>4 DEF Announce, Append, Goes, coordinator, Event
  <2> QED BY <1>0, <2>1, <1>t
<1>5. ASSUME NEW s \in Servers, AnnounceFails(s) \/ ReportFails(s) PROVE TruthInv'
  <2>1. Respond(s, NoAnswer) /\ UNCHANGED <<interactions, receipts, log>>
    BY <1>5 DEF AnnounceFails, ReportFails, RespondError
  <2> QED BY <1>0, <2>1, RespondGives
<1>6. ASSUME NEW s \in Servers, Call(s) PROVE TruthInv'
  BY <1>6, CallKeepsTruth
<1>7. ASSUME NEW s \in Servers, Report(s) PROVE TruthInv'
  BY <1>7, ReportKeepsTruth
<1>12. ASSUME NEW s \in Servers, Reply(s) PROVE TruthInv'
  <2>1. /\ result[s] \in Answers /\ Respond(s, result[s])
        /\ UNCHANGED <<interactions, receipts, log>>
    BY <1>12 DEF Reply, TypeInv, HasAnswer
  <2> QED BY <1>0, <2>1, RespondGives
<1>13. ASSUME NEW s \in Servers, LaunchBroken(s) PROVE TruthInv'
  BY <1>0, <1>13 DEF LaunchBroken, coordinator
<1>8. ASSUME NEW s \in Servers, Ask(s) PROVE TruthInv'
  <2>1. Becomes(s, "Waiting") /\ UNCHANGED <<interactions, receipts, result, log, phase>>
    BY <1>8 DEF Ask, coordinator
  <2> QED BY <1>0, <2>1, BecomesType DEF TypeInv
<1>9. ASSUME NEW s \in Servers, Exit(s) \/ ExitInCall(s) PROVE TruthInv'
  <2>1. /\ phase' = [phase EXCEPT ![s] = "Down"] /\ Hangup(s) /\ UNCHANGED log
        /\ result' = [result EXCEPT ![s] = NoAnswer] /\ AtMostEffect(s)
    BY <1>9 DEF Exit, ExitInCall, Goes, AtMostEffect
  <2>2. \A t \in Servers : client'[t].want = client[t].want
    BY <2>1, BecomesType DEF Hangup, TypeInv
  <2> QED BY <2>1, <2>2, <1>t, EffectKeepsReceipts, TruthKept
<1>10. ASSUME NEW s \in Servers, NEW w \in Wants[s], Choose(s, w) PROVE TruthInv'
  <2>1. /\ client[s].state = "Idle"
        /\ client' = [client EXCEPT ![s] = [want |-> w, state |-> "Asking", told |-> NoAnswer]]
        /\ UNCHANGED <<interactions, receipts, result, log, phase>>
    BY <1>10 DEF Choose, coordinator
  <2>2. phase[s] # "Applied"
    BY <2>1 DEF TypeInv, AtWork
  <2> QED BY <1>0, <2>1, <2>2, <1>t
<1>11. CASE UNCHANGED vars
  BY <1>0, <1>11 DEF vars
<1> QED BY <1>1, <1>2, <1>3, <1>4, <1>5, <1>6, <1>7, <1>8, <1>9, <1>10, <1>11, <1>12, <1>13
     DEF Next, Serve, Call

(***************************************************************************)
(* A Completed event in the audit log tells the truth for good: its key    *)
(* has a receipt with the index it names, and no other event claims to be  *)
(* the first to have applied that index.                                   *)
(***************************************************************************)
THEOREM ReportsAreAlwaysTrue == Spec => []ReportsAreTrue
<1>1. Init => TruthInv
  BY SameTypes DEF Init, Coordinator!Init, TruthInv, ReceiptsBounded, ReportedHaveReceipts,
                   ResultsHaveReceipts, ClaimsDiffer, ClaimsAreNew, ClaimedDiffer, Claims
<1>2. TruthInv => ReportsAreTrue
  BY DEF TruthInv, ReportedHaveReceipts, ClaimedDiffer, HasReceipt, Claimed, ReportsAreTrue
<1> QED BY <1>1, <1>2, TypeInvHolds, NextTruthInv, PTL DEF Spec
=============================================================================
