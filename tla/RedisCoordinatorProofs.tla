----------------------- MODULE RedisCoordinatorProofs -----------------------
(***************************************************************************)
(* What any number of processes that share one Redis can rely on, whatever *)
(* interleaves, fails or restarts, as long as each interaction has one     *)
(* process that creates it; and what one process alone can.                *)
(***************************************************************************)
EXTENDS RedisCoordinator, TLAPS

LEMMA TargetType == ASSUME NEW e \in Events PROVE Target[e] \in States
BY DEF Events, Target, States

LEMMA Sentinels ==
  /\ NoReceipt \notin Receipt /\ NoHash \in Hash
  /\ \A s \in States : s # NoState
  /\ \A n \in Nat : n # NoIndex
<1>1. NoReceipt \notin Receipt
  BY DEF NoReceipt, Receipt, States
<1>2. NoHash \in Hash
  BY DEF NoHash, Hash, NoState, NoIndex
<1>3. \A s \in States : s # NoState
  BY DEF States, NoState
<1>4. \A n \in Nat : n # NoIndex
  BY DEF NoIndex
<1> QED BY <1>1, <1>2, <1>3, <1>4

LEMMA AnswerType ==
  ASSUME NEW i \in Interactions, NEW e \in Events, NEW k \in Keys,
         NEW o \in Outcomes, NEW b \in States, NEW a \in States, NEW n \in Nat
  PROVE  /\ Answer(i, e, k, o, b, a, n) \in Answers
         /\ Answer(i, e, k, o, b, a, n).outcome = o
         /\ Answer(i, e, k, o, b, a, n).id = i /\ Answer(i, e, k, o, b, a, n).key = k
         /\ Answer(i, e, k, o, b, a, n).after = a /\ Answer(i, e, k, o, b, a, n).index = n
BY DEF Answer, Answers

LEMMA BackendErrorType ==
  ASSUME NEW i \in Interactions, NEW e \in Events, NEW k \in Keys
  PROVE  BackendError(i, e, k) \in Answers /\ ~Effective(BackendError(i, e, k))
BY AnswerType DEF BackendError, Outcomes, States, Effective

-----------------------------------------------------------------------------
(***************************************************************************)
(* The steps seen from the data.  A process in a call has the call's       *)
(* arguments; the data change by an HSET or by the script, by nothing else.*)
(***************************************************************************)
Calls == ApplyProc \cup CreateProc
Results == {NoAnswer} \cup Answers \cup CreateAnswers

\* A step that touches no data and answers no effect, or one it replays.
Quiet(c) ==
  /\ UNCHANGED <<hash, receipts>>
  /\ proc' = [proc EXCEPT ![c] = proc'[c]]
  /\ proc'[c] \in {Idle} \cup ApplyProc
  /\ result' = [result EXCEPT ![c] = result'[c]]
  /\ result'[c] \in Results
  /\ Effective(result'[c]) =>
       LET r == receipts[result'[c].id][result'[c].key]
       IN  /\ result'[c].outcome # "Applied"
           /\ result'[c] \in Answers
           /\ r # NoReceipt /\ result'[c].after = r.after /\ result'[c].index = r.index

\* The first step of a creation.
Begins(c, i) ==
  /\ c \in Creators[i] /\ hash[i] = NoHash
  /\ proc' = [proc EXCEPT ![c] = [pc |-> "hset_state", id |-> i]]
  /\ result' = [result EXCEPT ![c] = NoAnswer]
  /\ UNCHANGED <<hash, receipts>>

\* An HSET.
Sets(c) ==
  /\ proc[c].pc \in HsetSteps
  /\ Hset(proc[c])
  /\ proc' = [proc EXCEPT ![c] = proc'[c]]
  /\ \/ proc'[c] = Idle
     \/ /\ proc[c].pc # "hset_opportunity"
        /\ proc'[c] = [pc |-> AfterHset(proc[c].pc), id |-> proc[c].id]
  /\ result' = [result EXCEPT ![c] = result'[c]]
  /\ result'[c] \in {NoAnswer} \cup CreateAnswers

\* The script.
Runs(c) ==
  /\ proc[c].pc = "eval" /\ ScriptRuns(proc[c]) /\ ScriptWrites(proc[c])
  /\ proc' = [proc EXCEPT ![c] = Idle]
  /\ result' = [result EXCEPT ![c] = result'[c]]
  /\ result'[c] \in Answers
  /\ Effective(result'[c]) =>
       /\ result'[c].id = proc[c].id /\ result'[c].key = proc[c].key
       /\ result'[c].after = Target[proc[c].event]
       /\ result'[c].index = hash[proc[c].id].index + 1

-----------------------------------------------------------------------------
(***************************************************************************)
(* The inductive invariant.  A creation that has not written the index yet *)
(* still finds the hash as it was; an interaction that has an index has a  *)
(* state; and an answer that claims an effect has its receipt.             *)
(***************************************************************************)
CreationsUndisturbed ==
  \A c \in Callers : proc[c].pc \in HsetSteps =>
    /\ c \in Creators[proc[c].id]
    /\ proc[c].pc = "hset_state" => hash[proc[c].id] = NoHash
    /\ proc[c].pc = "hset_index" =>
         hash[proc[c].id].index = NoIndex /\ hash[proc[c].id].state = "Draft"

VisibleHasState ==
  \A i \in Interactions : hash[i].index # NoIndex => hash[i].state \in States

AnswersBacked ==
  \A c \in Callers : Effective(result[c]) =>
    /\ result[c] \in Answers
    /\ receipts[result[c].id][result[c].key] # NoReceipt
    /\ result[c].after = receipts[result[c].id][result[c].key].after
    /\ result[c].index = receipts[result[c].id][result[c].key].index

AppliedOnce ==
  \A c, d \in Callers :
    (/\ result[c].outcome = "Applied" /\ result[d].outcome = "Applied"
     /\ result[c].id = result[d].id /\ result[c].key = result[d].key) => c = d

IInv ==
  /\ TypeOK /\ CreationsUndisturbed /\ VisibleHasState
  /\ IndexCountsReceipts /\ StateIsLastReceipt /\ AnswersBacked /\ AppliedOnce

LEMMA ProcType ==
  ASSUME TypeOK, NEW c \in Callers
  PROVE  /\ proc[c].pc \in {"read", "eval"} =>
              /\ proc[c] \in ApplyProc /\ proc[c].id \in Interactions
              /\ proc[c].event \in Events /\ proc[c].key \in Keys
         /\ proc[c].pc \in HsetSteps =>
              proc[c] \in CreateProc /\ proc[c].id \in Interactions
<1>1. proc[c] \in {Idle} \cup ApplyProc \cup CreateProc
  BY DEF TypeOK
<1> QED BY <1>1 DEF Idle, ApplyProc, CreateProc, HsetSteps

(***************************************************************************)
(* Every step has one of the four shapes, or leaves the data alone.        *)
(***************************************************************************)
Shape == \E c \in Callers :
           Quiet(c) \/ (\E i \in Interactions : Begins(c, i)) \/ Sets(c) \/ Runs(c)

LEMMA ReturnsQuietly ==
  ASSUME TypeOK, NEW c \in Callers, NEW a \in Results, ~Effective(a), Return(c, a),
         UNCHANGED <<hash, receipts>>
  PROVE  Quiet(c)
<1>1. proc'[c] = Idle /\ result'[c] = a
  BY DEF Return, TypeOK
<1> QED BY <1>1 DEF Return, Quiet

LEMMA GoesQuietly ==
  ASSUME TypeOK, NEW c \in Callers, NEW p \in {Idle} \cup ApplyProc, Goto(c, p),
         UNCHANGED <<hash, receipts>>
  PROVE  Quiet(c)
<1>1. proc'[c] = p /\ result'[c] = NoAnswer
  BY DEF Goto, TypeOK
<1>2. NoAnswer \in Results /\ ~Effective(NoAnswer)
  BY DEF Results, Effective, NoAnswer
<1> QED BY <1>1, <1>2 DEF Goto, Quiet

LEMMA StepHasShape ==
  ASSUME IInv, [Next]_vars
  PROVE  Shape \/ UNCHANGED <<hash, receipts, proc, result>>
<1>t. /\ hash \in [Interactions -> Hash]
      /\ receipts \in [Interactions -> [Keys -> Receipt \cup {NoReceipt}]]
      /\ proc \in [Callers -> {Idle} \cup ApplyProc \cup CreateProc]
      /\ result \in [Callers -> Results] /\ TypeOK
  BY DEF IInv, TypeOK, Results
<1>n. \A i \in Interactions :
        /\ [outcome |-> "NotCreated", id |-> i] \in CreateAnswers
        /\ [outcome |-> "Created", id |-> i] \in CreateAnswers
        /\ ~Effective([outcome |-> "NotCreated", id |-> i])
        /\ ~Effective([outcome |-> "Created", id |-> i])
  BY DEF CreateAnswers, Effective
<1>1. ASSUME NEW c \in Callers, NEW i \in Interactions, NEW e \in Events, NEW k \in Keys,
             \/ ApplyNotFound(c, i, e, k) \/ ApplyBegin(c, i, e, k)
             \/ ApplyUnreachable(c, i, e, k)
      PROVE  Quiet(c)
  <2>1. CASE ApplyNotFound(c, i, e, k)
    <3> DEFINE a == Answer(i, e, k, "NotFound", "Draft", "Draft", 0)
    <3>1. a \in Answers /\ ~Effective(a)
      BY AnswerType DEF Outcomes, States, Effective
    <3>2. Return(c, a) /\ UNCHANGED <<hash, receipts>>
      BY <2>1 DEF ApplyNotFound, NoRedisEffect
    <3> HIDE DEF a
    <3> QED BY <3>1, <3>2, <1>t, ReturnsQuietly DEF Results
  <2>2. CASE ApplyUnreachable(c, i, e, k)
    BY <2>2, <1>t, BackendErrorType, ReturnsQuietly DEF ApplyUnreachable, NoRedisEffect, Results
  <2>3. CASE ApplyBegin(c, i, e, k)
    <3>1. [pc |-> "read", id |-> i, event |-> e, key |-> k] \in ApplyProc
      BY DEF ApplyProc
    <3> QED BY <2>3, <3>1, <1>t, GoesQuietly DEF ApplyBegin, NoRedisEffect
  <2> QED BY <1>1, <2>1, <2>2, <2>3
<1>2. ASSUME NEW c \in Callers, NEW i \in Interactions,
             CreateRefused(c, i) \/ CreateBegin(c, i)
      PROVE  Shape
  <2>1. CASE CreateRefused(c, i)
    <3>1. Quiet(c)
      BY <2>1, <1>t, <1>n, ReturnsQuietly DEF CreateRefused, NoRedisEffect, Results
    <3> QED BY <3>1 DEF Shape
  <2>2. CASE CreateBegin(c, i)
    BY <2>2 DEF CreateBegin, Goto, NoRedisEffect, Exists, Begins, Shape
  <2> QED BY <1>2, <2>1, <2>2
<1>3. ASSUME NEW c \in Callers, CreateStep(c) PROVE Quiet(c) \/ Sets(c)
  <2>1. proc[c].pc \in HsetSteps /\ proc[c].id \in Interactions
    BY <1>3, <1>t, ProcType DEF CreateStep, HsetDone, HsetReplyLost, HsetFails
  <2>2. CASE HsetFails(c)
    BY <2>1, <2>2, <1>t, <1>n, ReturnsQuietly DEF HsetFails, NoRedisEffect, Results
  <2>3. CASE HsetReplyLost(c)
    <3>1. Hset(proc[c]) /\ Return(c, [outcome |-> "NotCreated", id |-> proc[c].id])
      BY <2>3 DEF HsetReplyLost
    <3> QED BY <2>1, <3>1, <1>t, <1>n DEF Return, Sets
  <2>4. CASE HsetDone(c) /\ proc[c].pc = "hset_opportunity"
    <3>1. Hset(proc[c]) /\ Return(c, [outcome |-> "Created", id |-> proc[c].id])
      BY <2>4 DEF HsetDone
    <3> QED BY <2>1, <3>1, <1>t, <1>n DEF Return, Sets
  <2>5. CASE HsetDone(c) /\ proc[c].pc # "hset_opportunity"
    <3>1. Hset(proc[c]) /\ Goto(c, [pc |-> AfterHset(proc[c].pc), id |-> proc[c].id])
      BY <2>5 DEF HsetDone
    <3> QED BY <2>1, <2>5, <3>1, <1>t DEF Goto, Sets
  <2> QED BY <1>3, <2>2, <2>3, <2>4, <2>5 DEF CreateStep
<1>4. ASSUME NEW c \in Callers, ApplyStep(c) PROVE Quiet(c) \/ Runs(c)
  <2> DEFINE p == proc[c]
             h == hash[p.id]
             r == receipts[p.id][p.key]
  <2>1. /\ p.pc \in {"read", "eval"} /\ p.id \in Interactions /\ p.event \in Events
        /\ p.key \in Keys /\ h \in Hash /\ r \in Receipt \cup {NoReceipt}
        /\ h.index # NoIndex => h.state \in States /\ h.index \in Nat
    <3>1. /\ p.pc \in {"read", "eval"} /\ p.id \in Interactions /\ p.event \in Events
          /\ p.key \in Keys
      BY <1>4, <1>t, ProcType DEF ApplyStep, ReadAccepted, ReadRefused, EvalApplied,
                                  EvalAppliedReplyLost, EvalReplay, ApplyFails
    <3>2. h \in Hash /\ r \in Receipt \cup {NoReceipt}
      BY <3>1, <1>t
    <3> QED BY <3>1, <3>2 DEF IInv, VisibleHasState, Hash
  <2>2. BackendError(p.id, p.event, p.key) \in Results
        /\ BackendError(p.id, p.event, p.key) \in Answers
        /\ ~Effective(BackendError(p.id, p.event, p.key))
    BY <2>1, BackendErrorType DEF Results
  <2>3. CASE ReadAccepted(c)
    <3>1. [pc |-> "eval", id |-> p.id, event |-> p.event, key |-> p.key] \in ApplyProc
      BY <2>1 DEF ApplyProc
    <3> QED BY <2>3, <3>1, <1>t, GoesQuietly DEF ReadAccepted, NoRedisEffect
  <2>4. CASE ReadRefused(c) /\ h.index = NoIndex
    BY <2>2, <2>4, <1>t, ReturnsQuietly DEF ReadRefused, NoRedisEffect
  <2>5. CASE ReadRefused(c) /\ h.index # NoIndex
    <3> DEFINE a == Answer(p.id, p.event, p.key, "InvalidTransition", h.state, h.state, h.index)
    <3>1. a \in Answers /\ ~Effective(a)
      BY <2>1, <2>5, AnswerType DEF Outcomes, Effective
    <3>2. Return(c, a) /\ UNCHANGED <<hash, receipts>>
      BY <2>5 DEF ReadRefused, NoRedisEffect
    <3> HIDE DEF a
    <3> QED BY <3>1, <3>2, <1>t, ReturnsQuietly DEF Results
  <2>6. CASE ApplyFails(c)
    BY <2>2, <2>6, <1>t, ReturnsQuietly DEF ApplyFails, NoRedisEffect
  <2>7. CASE EvalReplay(c)
    <3> DEFINE a == Answer(p.id, p.event, p.key, "AlreadyApplied", r.after, r.after, r.index)
    <3>1. r # NoReceipt /\ Return(c, a) /\ UNCHANGED <<hash, receipts>>
      BY <2>7, Zenon DEF EvalReplay, NoRedisEffect
    <3>2. r.after \in States /\ r.index \in Nat
      <4>1. r \in Receipt
        BY <2>1, <3>1, Zenon
      <4> HIDE DEF r
      <4> QED BY <4>1 DEF Receipt
    <3>3. /\ a \in Answers /\ a.outcome = "AlreadyApplied" /\ a.id = p.id /\ a.key = p.key
          /\ a.after = r.after /\ a.index = r.index
      <4>1. "AlreadyApplied" \in Outcomes
        BY DEF Outcomes
      <4> HIDE DEF p, r
      <4> QED BY <2>1, <3>2, <4>1, AnswerType
    <3> HIDE DEF a
    <3>4. result'[c] = a /\ proc'[c] = Idle
      BY <3>1, <1>t DEF Return
    <3>5. a \in Results /\ a.outcome # "Applied" /\ r = receipts[a.id][a.key]
      BY <3>3 DEF Results
    <3> HIDE DEF r, p
    <3> QED BY <3>1, <3>3, <3>4, <3>5 DEF Return, Quiet
  <2>8. CASE EvalAppliedReplyLost(c)
    <3>1. /\ p.pc = "eval" /\ ScriptRuns(p) /\ ScriptWrites(p)
          /\ Return(c, BackendError(p.id, p.event, p.key))
      BY <2>8 DEF EvalAppliedReplyLost
    <3>2. result'[c] = BackendError(p.id, p.event, p.key)
      BY <3>1, <1>t DEF Return
    <3> QED BY <2>2, <3>1, <3>2 DEF Return, Runs
  <2>9. CASE EvalApplied(c)
    <3> DEFINE a == Answer(p.id, p.event, p.key, "Applied", h.state, Target[p.event],
                           h.index + 1)
    <3>1. p.pc = "eval" /\ ScriptRuns(p) /\ ScriptWrites(p) /\ Return(c, a)
      BY <2>9 DEF EvalApplied
    <3>2. h.state \in States /\ h.index + 1 \in Nat /\ Target[p.event] \in States
      BY <2>1, <3>1, TargetType DEF ScriptRuns
    <3>3. /\ a \in Answers /\ a.id = p.id /\ a.key = p.key
          /\ a.after = Target[p.event] /\ a.index = h.index + 1
      <4>1. "Applied" \in Outcomes
        BY DEF Outcomes
      <4> HIDE DEF p, h
      <4> QED BY <2>1, <3>2, <4>1, AnswerType
    <3> HIDE DEF a
    <3>4. result'[c] = a
      BY <3>1, <1>t DEF Return
    <3> QED BY <3>1, <3>3, <3>4 DEF Return, Runs
  <2> QED BY <1>4, <2>3, <2>4, <2>5, <2>6, <2>7, <2>8, <2>9 DEF ApplyStep
<1>5. ASSUME NEW c \in Callers, ProcessRestarts(c) PROVE Quiet(c)
  BY <1>5, <1>t, GoesQuietly DEF ProcessRestarts
<1>6. CASE RedisRestarts \/ UNCHANGED vars
  BY <1>6 DEF RedisRestarts, vars
<1> QED BY <1>1, <1>2, <1>3, <1>4, <1>5, <1>6 DEF Next, Shape

-----------------------------------------------------------------------------
(***************************************************************************)
(* Each shape keeps the invariant.                                         *)
(***************************************************************************)
LEMMA QuietKeeps ==
  ASSUME IInv, NEW c \in Callers, Quiet(c), scriptLoaded' \in BOOLEAN
  PROVE  IInv'
<1>1. /\ \A d \in Callers \ {c} : proc'[d] = proc[d] /\ result'[d] = result[d]
      /\ proc' \in [Callers -> {Idle} \cup ApplyProc \cup CreateProc]
      /\ result' \in [Callers -> Results]
      /\ UNCHANGED <<hash, receipts>>
  BY DEF Quiet, IInv, TypeOK, Results
<1>2. TypeOK'
  BY <1>1 DEF IInv, TypeOK, Results
<1>3. proc'[c].pc \notin HsetSteps
  BY DEF Quiet, Idle, ApplyProc, HsetSteps
<1>4. CreationsUndisturbed'
  BY <1>1, <1>3 DEF IInv, CreationsUndisturbed
<1>5. VisibleHasState' /\ IndexCountsReceipts' /\ StateIsLastReceipt'
  BY <1>1 DEF IInv, VisibleHasState, IndexCountsReceipts, StateIsLastReceipt
<1>6. AnswersBacked'
  BY <1>1 DEF Quiet, IInv, AnswersBacked
<1>7. result'[c].outcome # "Applied"
  BY DEF Quiet, Effective
<1>8. AppliedOnce'
  BY <1>1, <1>7 DEF IInv, AppliedOnce
<1> QED BY <1>2, <1>4, <1>5, <1>6, <1>8 DEF IInv

LEMMA BeginsKeeps ==
  ASSUME IInv, NEW c \in Callers, NEW i \in Interactions, Begins(c, i),
         scriptLoaded' \in BOOLEAN
  PROVE  IInv'
<1>1. [pc |-> "hset_state", id |-> i] \in CreateProc
  BY DEF CreateProc, HsetSteps
<1>2. /\ \A d \in Callers \ {c} : proc'[d] = proc[d] /\ result'[d] = result[d]
      /\ proc' \in [Callers -> {Idle} \cup ApplyProc \cup CreateProc]
      /\ result' \in [Callers -> Results]
      /\ proc'[c] = [pc |-> "hset_state", id |-> i] /\ result'[c] = NoAnswer
      /\ UNCHANGED <<hash, receipts>>
  BY <1>1 DEF Begins, IInv, TypeOK, Results
<1>3. TypeOK'
  BY <1>2 DEF IInv, TypeOK, Results
<1>4. CreationsUndisturbed'
  BY <1>2 DEF Begins, IInv, CreationsUndisturbed
<1>5. VisibleHasState' /\ IndexCountsReceipts' /\ StateIsLastReceipt'
  <2>1. hash' = hash /\ receipts' = receipts
    BY <1>2
  <2>2. VisibleHasState'
    BY <2>1 DEF IInv, VisibleHasState
  <2>3. IndexCountsReceipts'
    BY <2>1 DEF IInv, IndexCountsReceipts
  <2>4. StateIsLastReceipt'
    BY <2>1 DEF IInv, StateIsLastReceipt
  <2> QED BY <2>2, <2>3, <2>4
<1>6. ~Effective(NoAnswer) /\ NoAnswer.outcome # "Applied"
  BY DEF Effective, NoAnswer
<1>7. AnswersBacked'
  BY <1>2, <1>6 DEF IInv, AnswersBacked
<1>8. AppliedOnce'
  BY <1>2, <1>6 DEF IInv, AppliedOnce
<1> QED BY <1>3, <1>4, <1>5, <1>7, <1>8 DEF IInv

LEMMA SetsKeeps ==
  ASSUME OneCreator, IInv, NEW c \in Callers, Sets(c), scriptLoaded' \in BOOLEAN
  PROVE  IInv'
<1> DEFINE i == proc[c].id
           h == hash[i]
<1>t. /\ hash \in [Interactions -> Hash]
      /\ proc \in [Callers -> {Idle} \cup ApplyProc \cup CreateProc]
      /\ result \in [Callers -> Results]
  BY DEF IInv, TypeOK, Results
<1>1. /\ i \in Interactions /\ proc[c].pc \in HsetSteps /\ h \in Hash /\ UNCHANGED receipts
      /\ h.state \in States \cup {NoState} /\ h.index \in Nat \cup {NoIndex}
      /\ h.fields \subseteq Fields
  BY <1>t, ProcType DEF Sets, Hset, IInv, Hash
<1>2. /\ c \in Creators[i]
      /\ proc[c].pc = "hset_state" => h = NoHash
      /\ proc[c].pc = "hset_index" => h.index = NoIndex /\ h.state = "Draft"
  BY <1>1 DEF IInv, CreationsUndisturbed
<1> DEFINE new == [state |-> IF proc[c].pc = "hset_state" THEN "Draft" ELSE h.state,
                   index |-> IF proc[c].pc = "hset_index" THEN 0 ELSE h.index,
                   fields |-> h.fields \cup FieldsOf(proc[c].pc)]
<1>3. hash' = [hash EXCEPT ![i] = new]
  BY DEF Sets, Hset
<1>4. FieldsOf(proc[c].pc) \subseteq Fields
  BY <1>1 DEF FieldsOf, Fields, HsetSteps
<1>5. /\ new.state \in States \cup {NoState} /\ new.index \in Nat \cup {NoIndex}
      /\ new.fields \subseteq Fields
  BY <1>1, <1>4 DEF States
<1>6. new \in Hash
  BY <1>5 DEF Hash
<1>7. /\ hash' \in [Interactions -> Hash] /\ hash'[i] = new
      /\ \A j \in Interactions : j # i => hash'[j] = hash[j]
  BY <1>1, <1>3, <1>6, <1>t
<1>8. /\ proc'[c] = Idle \/
           (/\ proc[c].pc \in {"hset_state", "hset_index", "hset_contact"}
            /\ proc'[c] = [pc |-> AfterHset(proc[c].pc), id |-> i])
      /\ \A d \in Callers \ {c} : proc'[d] = proc[d] /\ result'[d] = result[d]
      /\ result'[c] \in {NoAnswer} \cup CreateAnswers
  BY <1>1, <1>t DEF Sets, HsetSteps
<1>9. proc[c].pc \in {"hset_state", "hset_index", "hset_contact"} =>
        [pc |-> AfterHset(proc[c].pc), id |-> i] \in CreateProc
  BY <1>1 DEF AfterHset, CreateProc, HsetSteps
<1>10. TypeOK'
  <2>1. proc' \in [Callers -> {Idle} \cup ApplyProc \cup CreateProc]
    BY <1>8, <1>9, <1>t DEF Sets
  <2>2. result' \in [Callers -> Results]
    BY <1>8, <1>t DEF Sets, Results
  <2> QED BY <1>1, <1>7, <2>1, <2>2 DEF IInv, TypeOK, Results
\* Others that create are at other interactions: there is one creator.
<1>11. \A d \in Callers \ {c} : proc[d].pc \in HsetSteps => proc[d].id # i
  BY <1>1, <1>2 DEF OneCreator, IInv, CreationsUndisturbed
<1>12. CreationsUndisturbed'
  <2> SUFFICES ASSUME NEW d \in Callers, proc'[d].pc \in HsetSteps
               PROVE  /\ d \in Creators[proc'[d].id]
                      /\ proc'[d].pc = "hset_state" => hash'[proc'[d].id] = NoHash
                      /\ proc'[d].pc = "hset_index" =>
                           /\ hash'[proc'[d].id].index = NoIndex
                           /\ hash'[proc'[d].id].state = "Draft"
    BY DEF CreationsUndisturbed
  <2>1. CASE d # c
    <3>1. proc[d].id \in Interactions /\ proc[d].id # i /\ proc'[d] = proc[d]
      BY <1>8, <1>11, <2>1, ProcType DEF IInv
    <3> QED BY <1>7, <2>1, <3>1 DEF IInv, CreationsUndisturbed
  <2>2. CASE d = c
    <3>1. /\ proc[c].pc \in {"hset_state", "hset_index", "hset_contact"}
          /\ proc'[c].pc = AfterHset(proc[c].pc) /\ proc'[c].id = i
      BY <1>8, <2>2 DEF Idle, HsetSteps
    <3>2. proc'[c].pc # "hset_state"
      BY <3>1 DEF AfterHset
    <3>3. proc'[c].pc = "hset_index" => proc[c].pc = "hset_state"
      BY <3>1 DEF AfterHset
    <3>4. proc[c].pc = "hset_state" => new.index = NoIndex /\ new.state = "Draft"
      BY <1>2 DEF NoHash
    <3> HIDE DEF new
    <3> QED BY <1>2, <1>7, <2>2, <3>1, <3>2, <3>3, <3>4
  <2> QED BY <2>1, <2>2
<1>13. VisibleHasState'
  <2>1. new.index # NoIndex => new.state \in States
    BY <1>1, <1>2 DEF IInv, VisibleHasState, States
  <2> HIDE DEF new
  <2> QED BY <1>7, <2>1 DEF IInv, VisibleHasState
<1>14. ASSUME proc[c].pc # "hset_index"
       PROVE  new.index = h.index /\ (h.index # NoIndex => new.state = h.state)
  BY <1>2, <1>14 DEF NoHash
<1>15. ASSUME proc[c].pc = "hset_index"
       PROVE  h.index = NoIndex /\ new.index = 0 /\ new.state = "Draft" /\ Used(receipts[i]) = {}
  BY <1>1, <1>2, <1>15 DEF IInv, IndexCountsReceipts
<1> HIDE DEF new
<1>16. IndexCountsReceipts'
  <2>1. \A j \in Interactions : hash'[j].index = hash[j].index \/
          (hash'[j].index = 0 /\ Used(receipts[j]) = {})
    BY <1>7, <1>14, <1>15
  <2>2. 1 .. 0 = {} /\ 0 # NoIndex
    BY DEF NoIndex
  <2> DEFINE Counts(rs, m) == /\ m = NoIndex => Used(rs) = {}
                              /\ m # NoIndex => {rs[k].index : k \in Used(rs)} = 1 .. m
                              /\ \A j, k \in Used(rs) : rs[j].index = rs[k].index => j = k
  <2> SUFFICES ASSUME NEW j \in Interactions PROVE Counts(receipts[j], hash'[j].index)
    BY <1>1 DEF IndexCountsReceipts
  <2>3. Counts(receipts[j], hash[j].index)
    BY DEF IInv, IndexCountsReceipts
  <2>4. CASE hash'[j].index = hash[j].index
    <3> HIDE DEF Counts
    <3> QED BY <2>3, <2>4
  <2>5. CASE hash'[j].index = 0 /\ Used(receipts[j]) = {}
    BY <2>2, <2>5
  <2> QED BY <2>1, <2>4, <2>5
<1>17. StateIsLastReceipt'
  <2> SUFFICES ASSUME NEW j \in Interactions, hash'[j].index # NoIndex
               PROVE  hash'[j].state \in StateAt(receipts[j], hash'[j].index)
    BY <1>1 DEF StateIsLastReceipt
  <2>1. CASE j = i /\ proc[c].pc = "hset_index"
    BY <1>7, <1>15, <2>1 DEF StateAt
  <2>2. CASE j # i \/ proc[c].pc # "hset_index"
    <3>1. hash'[j].index = hash[j].index /\ hash'[j].state = hash[j].state
      BY <1>7, <1>14, <2>2
    <3> QED BY <3>1 DEF IInv, StateIsLastReceipt
  <2> QED BY <2>1, <2>2
<1>18. ~Effective(result'[c]) /\ result'[c].outcome # "Applied"
  BY <1>8 DEF NoAnswer, CreateAnswers, Effective
<1>19. AnswersBacked'
  BY <1>1, <1>8, <1>18 DEF IInv, AnswersBacked
<1>20. AppliedOnce'
  BY <1>8, <1>18 DEF IInv, AppliedOnce
<1> QED BY <1>10, <1>12, <1>13, <1>16, <1>17, <1>19, <1>20 DEF IInv

LEMMA RunsKeeps ==
  ASSUME IInv, NEW c \in Callers, Runs(c), scriptLoaded' \in BOOLEAN
  PROVE  IInv'
<1> DEFINE i == proc[c].id
           k == proc[c].key
           n == hash[i].index
           to == Target[proc[c].event]
           rcpt == [after |-> to, index |-> n + 1, event |-> proc[c].event]
           new == [state |-> to, index |-> n + 1, fields |-> hash[i].fields]
<1>t. /\ hash \in [Interactions -> Hash]
      /\ receipts \in [Interactions -> [Keys -> Receipt \cup {NoReceipt}]]
      /\ proc \in [Callers -> {Idle} \cup ApplyProc \cup CreateProc]
      /\ result \in [Callers -> Results]
  BY DEF IInv, TypeOK, Results
<1>1. /\ i \in Interactions /\ k \in Keys /\ proc[c].event \in Events /\ to \in States
      /\ receipts[i][k] = NoReceipt /\ n # NoIndex
      /\ hash' = [hash EXCEPT ![i] = new]
      /\ receipts' = [receipts EXCEPT ![i][k] = rcpt]
  BY ProcType, TargetType DEF Runs, IInv, ScriptRuns, ScriptWrites, NewReceipt
<1>2. n \in Nat /\ hash[i].fields \subseteq Fields
  BY <1>1, <1>t DEF Hash
<1>3. new \in Hash /\ rcpt \in Receipt /\ rcpt # NoReceipt
  <2>1. new \in Hash
    BY <1>1, <1>2 DEF Hash
  <2>2. rcpt \in Receipt
    BY <1>1, <1>2 DEF Receipt
  <2> QED BY <2>1, <2>2, Sentinels
<1>4. /\ new.state = to /\ new.index = n + 1 /\ rcpt.after = to /\ rcpt.index = n + 1
  OBVIOUS
<1> HIDE DEF new, rcpt, to
<1>5. /\ hash' \in [Interactions -> Hash] /\ hash'[i] = new
      /\ \A j \in Interactions : j # i => hash'[j] = hash[j]
  BY <1>1, <1>3, <1>t
<1>6. /\ receipts' \in [Interactions -> [Keys -> Receipt \cup {NoReceipt}]]
      /\ receipts'[i][k] = rcpt
      /\ \A j \in Interactions, l \in Keys : j # i \/ l # k => receipts'[j][l] = receipts[j][l]
      /\ \A j \in Interactions : j # i => receipts'[j] = receipts[j]
  BY <1>1, <1>3, <1>t
<1>7. /\ proc'[c] = Idle /\ proc' \in [Callers -> {Idle} \cup ApplyProc \cup CreateProc]
      /\ result' \in [Callers -> Results] /\ result'[c] \in Answers
      /\ \A d \in Callers \ {c} : proc'[d] = proc[d] /\ result'[d] = result[d]
  BY <1>t DEF Runs, Results
<1>8. TypeOK'
  BY <1>5, <1>6, <1>7 DEF TypeOK, Results
<1>9. CreationsUndisturbed'
  <2> SUFFICES ASSUME NEW d \in Callers, proc'[d].pc \in HsetSteps
               PROVE  /\ d \in Creators[proc'[d].id]
                      /\ proc'[d].pc = "hset_state" => hash'[proc'[d].id] = NoHash
                      /\ proc'[d].pc = "hset_index" =>
                           /\ hash'[proc'[d].id].index = NoIndex
                           /\ hash'[proc'[d].id].state = "Draft"
    BY DEF CreationsUndisturbed
  <2>1. d # c /\ proc'[d] = proc[d] /\ proc[d].id \in Interactions
    BY <1>7, ProcType DEF Idle, HsetSteps, IInv
  <2>2. CASE proc[d].id # i
    BY <1>5, <2>1, <2>2 DEF IInv, CreationsUndisturbed
  <2>3. CASE proc[d].id = i
    <3>1. proc[d].pc # "hset_state" /\ proc[d].pc # "hset_index"
      BY <1>1, <2>1, <2>3 DEF IInv, CreationsUndisturbed, NoHash
    <3> QED BY <2>1, <3>1 DEF IInv, CreationsUndisturbed
  <2> QED BY <2>2, <2>3
<1>10. VisibleHasState'
  BY <1>1, <1>4, <1>5 DEF IInv, VisibleHasState
<1>11. Used(receipts'[i]) = Used(receipts[i]) \cup {k} /\ k \notin Used(receipts[i])
       /\ \A l \in Used(receipts[i]) : receipts'[i][l] = receipts[i][l]
  BY <1>1, <1>3, <1>6 DEF Used
<1>12. IndexCountsReceipts'
  <2> SUFFICES ASSUME NEW j \in Interactions
               PROVE  /\ hash'[j].index = NoIndex => Used(receipts'[j]) = {}
                      /\ hash'[j].index # NoIndex =>
                           {receipts'[j][l].index : l \in Used(receipts'[j])} = 1 .. hash'[j].index
                      /\ \A l, m \in Used(receipts'[j]) :
                           receipts'[j][l].index = receipts'[j][m].index => l = m
    BY DEF IndexCountsReceipts
  <2>1. CASE j # i
    <3>1. hash'[j] = hash[j] /\ receipts'[j] = receipts[j]
      BY <1>5, <1>6, <2>1
    <3>2. /\ hash[j].index = NoIndex => Used(receipts[j]) = {}
          /\ hash[j].index # NoIndex =>
               {receipts[j][l].index : l \in Used(receipts[j])} = 1 .. hash[j].index
          /\ \A l, m \in Used(receipts[j]) :
               receipts[j][l].index = receipts[j][m].index => l = m
      BY DEF IInv, IndexCountsReceipts
    <3> QED BY <3>1, <3>2
  <2>2. CASE j = i
    <3> DEFINE old == {receipts[i][l].index : l \in Used(receipts[i])}
               now == {receipts'[i][l].index : l \in Used(receipts'[i])}
    <3>1. old = 1 .. n /\ \A l, m \in Used(receipts[i]) :
                            receipts[i][l].index = receipts[i][m].index => l = m
      BY <1>1 DEF IInv, IndexCountsReceipts
    <3>2. now = old \cup {n + 1}
      BY <1>4, <1>6, <1>11
    <3>3. now = 1 .. n + 1
      BY <1>2, <3>1, <3>2
    <3>4. \A l \in Used(receipts[i]) : receipts'[i][l].index # n + 1
      <4>1. \A l \in Used(receipts[i]) : receipts'[i][l].index \in 1 .. n
        BY <1>11, <3>1
      <4> QED BY <1>2, <4>1
    <3>5. \A l, m \in Used(receipts'[i]) :
            receipts'[i][l].index = receipts'[i][m].index => l = m
      BY <1>4, <1>6, <1>11, <3>1, <3>4
    <3>6. hash'[i].index = n + 1 /\ n + 1 # NoIndex
      BY <1>2, <1>4, <1>5 DEF NoIndex
    <3> QED BY <2>2, <3>3, <3>5, <3>6
  <2> QED BY <2>1, <2>2
<1>13. StateIsLastReceipt'
  <2> SUFFICES ASSUME NEW j \in Interactions, hash'[j].index # NoIndex
               PROVE  hash'[j].state \in StateAt(receipts'[j], hash'[j].index)
    BY DEF StateIsLastReceipt
  <2>1. CASE j # i
    BY <1>5, <1>6, <2>1 DEF IInv, StateIsLastReceipt
  <2>2. CASE j = i
    <3>1. k \in Used(receipts'[i]) /\ receipts'[i][k].index = n + 1 /\ receipts'[i][k].after = to
      BY <1>4, <1>6, <1>11
    <3>2. n + 1 # 0 /\ hash'[i].state = to /\ hash'[i].index = n + 1
      BY <1>2, <1>4, <1>5
    <3> QED BY <2>2, <3>1, <3>2 DEF StateAt
  <2> QED BY <2>1, <2>2
<1>14. Effective(result'[c]) =>
         /\ result'[c].id = i /\ result'[c].key = k
         /\ result'[c].after = to /\ result'[c].index = n + 1
  BY DEF Runs, to
<1>15. \A d \in Callers \ {c} : Effective(result[d]) =>
         /\ result[d] \in Answers /\ result[d].id \in Interactions /\ result[d].key \in Keys
         /\ receipts[result[d].id][result[d].key] # NoReceipt
         /\ result[d].id # i \/ result[d].key # k
  BY <1>1 DEF IInv, AnswersBacked, Answers
<1>16. AnswersBacked'
  <2> SUFFICES ASSUME NEW d \in Callers, Effective(result'[d])
               PROVE  /\ result'[d] \in Answers
                      /\ receipts'[result'[d].id][result'[d].key] # NoReceipt
                      /\ result'[d].after = receipts'[result'[d].id][result'[d].key].after
                      /\ result'[d].index = receipts'[result'[d].id][result'[d].key].index
    BY DEF AnswersBacked, Effective
  <2>1. CASE d = c
    BY <1>3, <1>4, <1>6, <1>7, <1>14, <2>1
  <2>2. CASE d # c
    <3>1. result'[d] = result[d] /\ Effective(result[d])
      BY <1>7, <2>2
    <3>2. receipts'[result[d].id][result[d].key] = receipts[result[d].id][result[d].key]
      BY <1>6, <1>15, <2>2, <3>1
    <3> QED BY <3>1, <3>2 DEF IInv, AnswersBacked
  <2> QED BY <2>1, <2>2
<1>17. AppliedOnce'
  <2>1. \A d \in Callers \ {c} :
          ~(/\ result'[c].outcome = "Applied" /\ result'[d].outcome = "Applied"
            /\ result'[c].id = result'[d].id /\ result'[c].key = result'[d].key)
    BY <1>7, <1>14, <1>15 DEF Effective
  <2> QED BY <1>7, <2>1 DEF IInv, AppliedOnce
<1> QED BY <1>8, <1>9, <1>10, <1>12, <1>13, <1>16, <1>17 DEF IInv

-----------------------------------------------------------------------------
LEMMA InitIInv == Init => IInv
<1> SUFFICES ASSUME Init PROVE IInv
  OBVIOUS
<1>1. TypeOK
  BY Sentinels DEF Init, TypeOK
<1>2. \A i \in Interactions : hash[i].index = NoIndex /\ Used(receipts[i]) = {}
  BY DEF Init, NoHash, Used
<1>3. \A c \in Callers :
        /\ proc[c].pc \notin HsetSteps /\ ~Effective(result[c])
        /\ result[c].outcome # "Applied"
  <2>1. /\ Idle.pc \notin HsetSteps /\ ~Effective(NoAnswer)
        /\ NoAnswer.outcome # "Applied"
    BY DEF Idle, HsetSteps, NoAnswer, Effective
  <2>2. \A c \in Callers : proc[c] = Idle /\ result[c] = NoAnswer
    BY DEF Init
  <2> QED BY <2>1, <2>2
<1>4. CreationsUndisturbed
  BY <1>3 DEF CreationsUndisturbed
<1>5. VisibleHasState /\ StateIsLastReceipt
  BY <1>2 DEF VisibleHasState, StateIsLastReceipt
<1>6. IndexCountsReceipts
  BY <1>2 DEF IndexCountsReceipts
<1>7. AnswersBacked /\ AppliedOnce
  BY <1>3 DEF AnswersBacked, AppliedOnce
<1> QED BY <1>1, <1>4, <1>5, <1>6, <1>7 DEF IInv

LEMMA NextIInv == ASSUME OneCreator, IInv, [Next]_vars PROVE IInv'
<1>1. scriptLoaded' \in BOOLEAN
  <2>1. ASSUME NEW c \in Callers, ApplyStep(c)
        PROVE  scriptLoaded' = scriptLoaded
    BY <2>1, Zenon DEF ApplyStep, ReadAccepted, ReadRefused, EvalApplied, EvalAppliedReplyLost,
         EvalReplay, ApplyFails, ScriptWrites, NoRedisEffect
  <2>2. ASSUME NEW c \in Callers, CreateStep(c)
        PROVE  scriptLoaded' = scriptLoaded
    BY <2>2, Zenon DEF CreateStep, HsetDone, HsetReplyLost, HsetFails, Hset, NoRedisEffect
  <2>3. scriptLoaded' = scriptLoaded \/ scriptLoaded' \in {TRUE, FALSE}
    BY <2>1, <2>2, Zenon DEF Next, vars, ApplyNotFound, ApplyBegin, ApplyUnreachable,
         CreateRefused, CreateBegin, ProcessRestarts, RedisRestarts, NoRedisEffect
  <2>4. scriptLoaded \in BOOLEAN
    BY DEF IInv, TypeOK
  <2> QED BY <2>3, <2>4
<1>2. CASE Shape
  BY <1>1, <1>2, QuietKeeps, BeginsKeeps, SetsKeeps, RunsKeeps DEF Shape
<1>3. CASE UNCHANGED <<hash, receipts, proc, result>>
  <2>1. TypeOK'
    BY <1>1, <1>3 DEF IInv, TypeOK
  <2>2. CreationsUndisturbed' /\ VisibleHasState'
    BY <1>3 DEF IInv, CreationsUndisturbed, VisibleHasState
  <2>3. IndexCountsReceipts'
    BY <1>3, Zenon DEF IInv, IndexCountsReceipts
  <2>4. StateIsLastReceipt'
    BY <1>3, Zenon DEF IInv, StateIsLastReceipt
  <2>5. AnswersBacked' /\ AppliedOnce'
    BY <1>3 DEF IInv, AnswersBacked, AppliedOnce
  <2> QED BY <2>1, <2>2, <2>3, <2>4, <2>5 DEF IInv
<1> QED BY <1>2, <1>3, StepHasShape, Zenon

LEMMA IInvHolds == ASSUME OneCreator PROVE Spec => []IInv
<1>1. IInv /\ [Next]_vars => IInv'
  BY NextIInv
<1> QED BY <1>1, InitIInv, PTL DEF Spec

(***************************************************************************)
(* The hashes in Redis and the processes' calls keep their types.          *)
(***************************************************************************)
THEOREM TypeCorrect == ASSUME OneCreator PROVE Spec => []TypeOK
<1>1. IInv => TypeOK
  BY DEF IInv
<1> QED BY <1>1, IInvHolds, PTL

(***************************************************************************)
(* No key takes effect twice and no effect goes without a receipt: the     *)
(* receipts of an interaction are numbered 1 to its transition_index.      *)
(***************************************************************************)
THEOREM IndexAlwaysCountsReceipts == ASSUME OneCreator PROVE Spec => []IndexCountsReceipts
<1>1. IInv => IndexCountsReceipts
  BY DEF IInv
<1> QED BY <1>1, IInvHolds, PTL

(***************************************************************************)
(* The state of an interaction is the one its last receipt records, also   *)
(* when racing processes have written over each other.                     *)
(***************************************************************************)
THEOREM StateIsAlwaysLastReceipt == ASSUME OneCreator PROVE Spec => []StateIsLastReceipt
<1>1. IInv => StateIsLastReceipt
  BY DEF IInv
<1> QED BY <1>1, IInvHolds, PTL

(***************************************************************************)
(* Processes that are told of an effect of one key are told of the same    *)
(* one, and only one of them that it was the first.                        *)
(***************************************************************************)
THEOREM AnswersAlwaysAgree == ASSUME OneCreator PROVE Spec => []AnswersAgree
<1>1. IInv => AnswersAgree
  BY DEF IInv, AnswersBacked, AppliedOnce, AnswersAgree
<1> QED BY <1>1, IInvHolds, PTL

(***************************************************************************)
(* An interaction that get_state does not show takes no transition.        *)
(***************************************************************************)
THEOREM InvisibleStaysInert == ASSUME OneCreator PROVE Spec => InvisibleIsInert
<1> DEFINE Inert == \A i \in Interactions :
                      hash[i].index = NoIndex => receipts'[i] = receipts[i]
<1>1. ASSUME IInv, [Next]_vars PROVE Inert
  <2>1. ASSUME NEW c \in Callers, Runs(c) PROVE Inert
    <3>1. receipts' = [receipts EXCEPT ![proc[c].id][proc[c].key] = NewReceipt(proc[c])]
          /\ hash[proc[c].id].index # NoIndex
      BY <2>1 DEF Runs, ScriptRuns, ScriptWrites
    <3> QED BY <1>1, <3>1 DEF IInv, TypeOK
  <2> QED BY <1>1, <2>1, StepHasShape DEF Shape, Quiet, Begins, Sets, Hset
<1>2. Spec => [][Inert]_vars
  BY <1>1, IInvHolds, PTL DEF Spec
<1> QED BY <1>2 DEF InvisibleIsInert

-----------------------------------------------------------------------------
(***************************************************************************)
(* Processes that race.  What a client validated may be out of date when   *)
(* its script runs, but it was true: the state it read is one the          *)
(* interaction has been in, and what has been stays.                       *)
(***************************************************************************)
HalfMadeIsDraft ==
  \A i \in Interactions : hash[i].index = NoIndex => hash[i].state \in {NoState, "Draft"}

ReadsWerePast ==
  \A c \in Callers : proc[c].pc = "eval" =>
    \E s \in Past(receipts[proc[c].id]) : CanTransition(s, proc[c].event)

CallsUnanswered == \A c \in Callers : proc[c] # Idle => result[c] = NoAnswer

RaceInv == IInv /\ HalfMadeIsDraft /\ ReadsWerePast /\ CallsUnanswered

LEMMA StepFrame ==
  ASSUME IInv, NEW c \in Callers, NEW p, NEW a,
         proc' = [proc EXCEPT ![c] = p], result' = [result EXCEPT ![c] = a]
  PROVE  /\ proc'[c] = p /\ result'[c] = a
         /\ \A d \in Callers \ {c} : proc'[d] = proc[d] /\ result'[d] = result[d]
BY DEF IInv, TypeOK

LEMMA GoesTo ==
  ASSUME IInv, NEW c \in Callers, NEW p, Goto(c, p)
  PROVE  /\ proc'[c] = p /\ result'[c] = NoAnswer
         /\ \A d \in Callers \ {c} : proc'[d] = proc[d] /\ result'[d] = result[d]
BY DEF IInv, TypeOK, Goto

\* The steps seen from the processes: a call goes on or returns, and it gets
\* to its script by an event that was accepted.
Moves(c) ==
  \/ \E a : Return(c, a)
  \/ \E p : Goto(c, p) /\ p.pc # "eval"
  \/ ReadAccepted(c)

LEMMA StepMoves ==
  ASSUME [Next]_vars
  PROVE  (\E c \in Callers : Moves(c)) \/ UNCHANGED <<hash, receipts, proc, result>>
<1>1. ASSUME NEW c \in Callers, NEW i \in Interactions, NEW e \in Events, NEW k \in Keys,
             \/ ApplyNotFound(c, i, e, k) \/ ApplyBegin(c, i, e, k)
             \/ ApplyUnreachable(c, i, e, k)
      PROVE  Moves(c)
  BY <1>1 DEF Moves, ApplyNotFound, ApplyBegin, ApplyUnreachable
<1>2. ASSUME NEW c \in Callers, NEW i \in Interactions, CreateRefused(c, i) \/ CreateBegin(c, i)
      PROVE  Moves(c)
  BY <1>2 DEF Moves, CreateRefused, CreateBegin
<1>3. ASSUME NEW c \in Callers, ApplyStep(c) PROVE Moves(c)
  BY <1>3 DEF Moves, ApplyStep, ReadRefused, EvalApplied, EvalAppliedReplyLost, EvalReplay,
              ApplyFails
<1>4. ASSUME NEW c \in Callers, CreateStep(c) PROVE Moves(c)
  <2>1. CASE HsetDone(c) /\ proc[c].pc # "hset_opportunity"
    <3>1. Goto(c, [pc |-> AfterHset(proc[c].pc), id |-> proc[c].id]) /\ proc[c].pc \in HsetSteps
      BY <2>1 DEF HsetDone
    <3>2. AfterHset(proc[c].pc) # "eval"
      BY <2>1, <3>1 DEF AfterHset, HsetSteps
    <3> QED BY <3>1, <3>2 DEF Moves
  <2>2. CASE ~(HsetDone(c) /\ proc[c].pc # "hset_opportunity")
    BY <1>4, <2>2 DEF Moves, CreateStep, HsetDone, HsetReplyLost, HsetFails
  <2> QED BY <2>1, <2>2
<1>5. ASSUME NEW c \in Callers, ProcessRestarts(c) PROVE Moves(c)
  BY <1>5 DEF Moves, ProcessRestarts, Idle
<1> QED BY <1>1, <1>2, <1>3, <1>4, <1>5 DEF Next, RedisRestarts, vars

\* What was read is a state the interaction has been in.
LEMMA ReadIsPast ==
  ASSUME RaceInv, NEW c \in Callers, ReadAccepted(c)
  PROVE  /\ Goto(c, [pc |-> "eval", id |-> proc[c].id, event |-> proc[c].event,
                     key |-> proc[c].key])
         /\ hash' = hash /\ receipts' = receipts
         /\ CanTransition(hash[proc[c].id].state, proc[c].event)
         /\ hash[proc[c].id].state \in Past(receipts[proc[c].id])
<1> DEFINE i == proc[c].id
           st == hash[i].state
<1>1. /\ Goto(c, [pc |-> "eval", id |-> i, event |-> proc[c].event, key |-> proc[c].key])
      /\ hash' = hash /\ receipts' = receipts
      /\ CanTransition(st, proc[c].event) /\ i \in Interactions
  BY ProcType DEF ReadAccepted, NoRedisEffect, RaceInv, IInv
<1>2. CASE hash[i].index = NoIndex
  <2>1. st = NoState \/ st = "Draft"
    BY <1>1, <1>2 DEF RaceInv, HalfMadeIsDraft
  <2>2. st # NoState
    BY <1>1 DEF CanTransition, NoState
  <2> QED BY <1>1, <2>1, <2>2 DEF Past
<1>3. CASE hash[i].index # NoIndex
  <2>1. st \in StateAt(receipts[i], hash[i].index)
    BY <1>1, <1>3 DEF RaceInv, IInv, StateIsLastReceipt
  <2>2. st \in Past(receipts[i])
    BY <2>1 DEF StateAt, Past
  <2> QED BY <1>1, <2>2
<1> QED BY <1>2, <1>3

\* What an interaction has been in, it stays to have been in; and until its
\* creation has written the index it is in Draft.
LEMMA PastStays ==
  ASSUME IInv, HalfMadeIsDraft, [Next]_vars
  PROVE  /\ \A i \in Interactions : Past(receipts[i]) \subseteq Past(receipts'[i])
         /\ HalfMadeIsDraft'
<1>t. /\ hash \in [Interactions -> Hash]
      /\ receipts \in [Interactions -> [Keys -> Receipt \cup {NoReceipt}]]
  BY DEF IInv, TypeOK
<1>1. CASE UNCHANGED <<hash, receipts>>
  BY <1>1 DEF HalfMadeIsDraft
<1>2. ASSUME NEW c \in Callers, Runs(c)
      PROVE  /\ \A i \in Interactions : Past(receipts[i]) \subseteq Past(receipts'[i])
             /\ HalfMadeIsDraft'
  <2> DEFINE j == proc[c].id
             l == proc[c].key
             now == [state |-> Target[proc[c].event], index |-> hash[j].index + 1,
                     fields |-> hash[j].fields]
  <2>1. /\ receipts[j][l] = NoReceipt /\ hash[j].index # NoIndex
        /\ hash' = [hash EXCEPT ![j] = now]
        /\ receipts' = [receipts EXCEPT ![j][l] = NewReceipt(proc[c])]
        /\ j \in Interactions /\ l \in Keys
    BY <1>2, ProcType DEF Runs, ScriptRuns, ScriptWrites, IInv
  <2>2. \A i \in Interactions : \A k \in Used(receipts[i]) : receipts'[i][k] = receipts[i][k]
    BY <1>t, <2>1 DEF Used
  <2>3. \A i \in Interactions : Past(receipts[i]) \subseteq Past(receipts'[i])
    <3>1. \A i \in Interactions : \A k \in Used(receipts[i]) : k \in Used(receipts'[i])
      BY <2>2 DEF Used
    <3> QED BY <2>2, <3>1 DEF Past
  <2>4. hash[j].index + 1 # NoIndex
    <3>1. hash[j] \in Hash
      BY <1>t, <2>1
    <3>2. hash[j].index \in Nat
      BY <2>1, <3>1 DEF Hash
    <3> QED BY <3>2 DEF NoIndex
  <2>5. now.index = hash[j].index + 1
    OBVIOUS
  <2> HIDE DEF now
  <2>6. HalfMadeIsDraft'
    BY <1>t, <2>1, <2>4, <2>5 DEF HalfMadeIsDraft
  <2> QED BY <2>3, <2>6
<1>3. ASSUME NEW c \in Callers, Sets(c)
      PROVE  /\ \A i \in Interactions : Past(receipts[i]) \subseteq Past(receipts'[i])
             /\ HalfMadeIsDraft'
  <2> DEFINE j == proc[c].id
             step == proc[c].pc
             now == [state |-> IF step = "hset_state" THEN "Draft" ELSE hash[j].state,
                     index |-> IF step = "hset_index" THEN 0 ELSE hash[j].index,
                     fields |-> hash[j].fields \cup FieldsOf(step)]
  <2>1. hash' = [hash EXCEPT ![j] = now] /\ receipts' = receipts
    BY <1>3 DEF Sets, Hset
  <2>2. /\ now.index = NoIndex => hash[j].index = NoIndex
        /\ now.state = "Draft" \/ now.state = hash[j].state
    BY DEF NoIndex
  <2> HIDE DEF now
  <2>3. HalfMadeIsDraft'
    BY <1>t, <2>1, <2>2 DEF HalfMadeIsDraft
  <2> QED BY <2>1, <2>3
<1> QED BY <1>1, <1>2, <1>3, StepHasShape DEF Shape, Quiet, Begins

LEMMA RaceStep ==
  ASSUME RaceInv, [Next]_vars
  PROVE  HalfMadeIsDraft' /\ ReadsWerePast' /\ CallsUnanswered'
<1>1. HalfMadeIsDraft' /\ \A i \in Interactions : Past(receipts[i]) \subseteq Past(receipts'[i])
  BY PastStays DEF RaceInv
<1>2. ASSUME NEW d \in Callers, proc'[d] = proc[d], result'[d] = result[d]
      PROVE  /\ proc'[d].pc = "eval" =>
                  \E s \in Past(receipts'[proc'[d].id]) : CanTransition(s, proc'[d].event)
             /\ proc'[d] # Idle => result'[d] = NoAnswer
  <2>1. proc[d].pc = "eval" => proc[d].id \in Interactions
    BY ProcType DEF RaceInv, IInv
  <2> QED BY <1>1, <1>2, <2>1 DEF RaceInv, ReadsWerePast, CallsUnanswered
<1>3. ASSUME NEW c \in Callers, NEW a, Return(c, a) PROVE ReadsWerePast' /\ CallsUnanswered'
  <2>1. /\ proc'[c] = Idle
        /\ \A d \in Callers \ {c} : proc'[d] = proc[d] /\ result'[d] = result[d]
    BY <1>3, StepFrame DEF RaceInv, Return
  <2> QED BY <1>2, <2>1 DEF ReadsWerePast, CallsUnanswered, Idle
<1>4. ASSUME NEW c \in Callers, NEW p, Goto(c, p), p.pc # "eval"
      PROVE  ReadsWerePast' /\ CallsUnanswered'
  <2>1. /\ proc'[c] = p /\ result'[c] = NoAnswer
        /\ \A d \in Callers \ {c} : proc'[d] = proc[d] /\ result'[d] = result[d]
    BY <1>4, GoesTo DEF RaceInv
  <2> QED BY <1>2, <1>4, <2>1 DEF ReadsWerePast, CallsUnanswered
<1>5. ASSUME NEW c \in Callers, ReadAccepted(c) PROVE ReadsWerePast' /\ CallsUnanswered'
  <2> DEFINE p == [pc |-> "eval", id |-> proc[c].id, event |-> proc[c].event, key |-> proc[c].key]
  <2>1. /\ Goto(c, p) /\ receipts' = receipts
        /\ \E s \in Past(receipts[p.id]) : CanTransition(s, p.event)
    BY <1>5, ReadIsPast
  <2> HIDE DEF p
  <2>2. /\ proc'[c] = p /\ result'[c] = NoAnswer
        /\ \A d \in Callers \ {c} : proc'[d] = proc[d] /\ result'[d] = result[d]
    BY <2>1, GoesTo DEF RaceInv
  <2> QED BY <1>2, <2>1, <2>2 DEF ReadsWerePast, CallsUnanswered
<1>6. CASE UNCHANGED <<hash, receipts, proc, result>>
  BY <1>1, <1>2, <1>6 DEF ReadsWerePast, CallsUnanswered
<1> QED BY <1>1, <1>3, <1>4, <1>5, <1>6, StepMoves DEF Moves

LEMMA InitRaceInv == Init => RaceInv
<1>1. Init => HalfMadeIsDraft
  BY DEF Init, HalfMadeIsDraft, NoHash
<1>2. Init => ReadsWerePast /\ CallsUnanswered
  BY DEF Init, ReadsWerePast, CallsUnanswered, Idle
<1> QED BY <1>1, <1>2, InitIInv DEF RaceInv

LEMMA NextRaceInv == ASSUME OneCreator PROVE RaceInv /\ [Next]_vars => RaceInv'
<1>1. RaceInv /\ [Next]_vars => IInv'
  BY NextIInv DEF RaceInv
<1> QED BY <1>1, RaceStep DEF RaceInv

LEMMA RaceInvHolds == ASSUME OneCreator PROVE Spec => []RaceInv
BY InitRaceInv, NextRaceInv, PTL DEF Spec

\* A receipt stays as it was written, and a script wrote it.
LEMMA ReceiptIsScripts ==
  ASSUME IInv, [Next]_vars, NEW i \in Interactions, NEW k \in Keys
  PROVE  \/ receipts'[i][k] = receipts[i][k]
         \/ /\ receipts[i][k] = NoReceipt
            /\ \E c \in Callers : /\ Runs(c) /\ proc[c].id = i /\ proc[c].key = k
                                  /\ receipts'[i][k] = NewReceipt(proc[c])
<1>t. receipts \in [Interactions -> [Keys -> Receipt \cup {NoReceipt}]]
  BY DEF IInv, TypeOK
<1>1. receipts' = receipts \/ \E c \in Callers : Runs(c)
  BY StepHasShape DEF Shape, Quiet, Begins, Sets, Hset
<1>2. ASSUME NEW c \in Callers, Runs(c)
      PROVE  \/ receipts'[i][k] = receipts[i][k]
             \/ /\ receipts[i][k] = NoReceipt /\ proc[c].id = i /\ proc[c].key = k
                /\ receipts'[i][k] = NewReceipt(proc[c])
  <2>1. /\ receipts[proc[c].id][proc[c].key] = NoReceipt
        /\ receipts' = [receipts EXCEPT ![proc[c].id][proc[c].key] = NewReceipt(proc[c])]
        /\ proc[c].id \in Interactions /\ proc[c].key \in Keys
    BY <1>2, ProcType DEF IInv, Runs, ScriptRuns, ScriptWrites
  <2> QED BY <1>t, <2>1
<1> QED BY <1>1, <1>2

LEMMA StatesStay ==
  ASSUME IInv, [Next]_vars, NEW i \in Interactions, NEW n
  PROVE  StateAt(receipts[i], n) \subseteq StateAt(receipts'[i], n)
<1>1. \A k \in Used(receipts[i]) :
        k \in Used(receipts'[i]) /\ receipts'[i][k] = receipts[i][k]
  BY ReceiptIsScripts DEF Used
<1> QED BY <1>1 DEF StateAt

LEMMA AcceptedStep ==
  ASSUME RaceInv, EventsWereAccepted, [Next]_vars
  PROVE  EventsWereAccepted'
<1> SUFFICES ASSUME NEW i \in Interactions, NEW k \in Used(receipts'[i])
             PROVE  \E n \in 0 .. receipts'[i][k].index - 1 :
                      \E s \in StateAt(receipts'[i], n) :
                        CanTransition(s, receipts'[i][k].event)
  BY DEF EventsWereAccepted
<1>1. IInv /\ k \in Keys /\ \A n : StateAt(receipts[i], n) \subseteq StateAt(receipts'[i], n)
  BY StatesStay DEF RaceInv, Used
<1>2. CASE receipts'[i][k] = receipts[i][k]
  <2>1. k \in Used(receipts[i])
    BY <1>2 DEF Used
  <2>2. PICK n \in 0 .. receipts[i][k].index - 1 :
          \E s \in StateAt(receipts[i], n) : CanTransition(s, receipts[i][k].event)
    BY <2>1 DEF EventsWereAccepted
  <2> QED BY <1>1, <1>2, <2>2
<1>3. ASSUME NEW c \in Callers, Runs(c), proc[c].id = i, receipts'[i][k] = NewReceipt(proc[c])
      PROVE  \E n \in 0 .. receipts'[i][k].index - 1 :
               \E s \in StateAt(receipts'[i], n) : CanTransition(s, receipts'[i][k].event)
  <2>1. hash[i].index \in Nat /\ hash[i].index # NoIndex
    <3>1. hash[i] \in Hash /\ hash[i].index # NoIndex
      BY <1>3 DEF RaceInv, IInv, TypeOK, Runs, ScriptRuns
    <3> QED BY <3>1 DEF Hash
  <2>2. receipts'[i][k].event = proc[c].event /\ receipts'[i][k].index - 1 = hash[i].index
    BY <1>3, <2>1 DEF NewReceipt
  <2>3. PICK s \in Past(receipts[i]) : CanTransition(s, proc[c].event)
    BY <1>3 DEF RaceInv, ReadsWerePast, Runs
  <2>4. \E n \in 0 .. hash[i].index : s \in StateAt(receipts[i], n)
    <3>1. CASE s = "Draft"
      BY <2>1, <3>1 DEF StateAt
    <3>2. ASSUME NEW l \in Used(receipts[i]), s = receipts[i][l].after
          PROVE  \E n \in 0 .. hash[i].index : s \in StateAt(receipts[i], n)
      <4>1. receipts[i][l].index \in 1 .. hash[i].index
        BY <2>1 DEF RaceInv, IInv, IndexCountsReceipts
      <4>2. s \in StateAt(receipts[i], receipts[i][l].index)
        BY <2>1, <3>2, <4>1 DEF StateAt
      <4> QED BY <2>1, <4>1, <4>2
    <3> QED BY <2>3, <3>1, <3>2 DEF Past
  <2> QED BY <1>1, <2>2, <2>3, <2>4
<1> QED BY <1>1, <1>2, <1>3, ReceiptIsScripts

\* What racing clients write over each other was at least accepted once: no
\* event takes effect that no state before it accepted
\* (redis_interaction_coordinator.cpp:137-165).
THEOREM EventsAlwaysAccepted == ASSUME OneCreator PROVE Spec => []EventsWereAccepted
<1>1. Init => EventsWereAccepted
  BY DEF Init, EventsWereAccepted, Used
<1> QED BY <1>1, AcceptedStep, RaceInvHolds, PTL DEF Spec

\* The contract speaks of the same values.
LEMMA SameTypes ==
  /\ Race!NoRecord = NoRecord /\ Race!NoReceipt = NoReceipt
  /\ Race!NoAnswer = NoAnswer
  /\ Race!Events = Events /\ Race!States = States /\ Race!Target = Target
  /\ \A s, e : Race!CanTransition(s, e) <=> CanTransition(s, e)
  /\ \A i, e, k, o, b, a, n : Race!Answer(i, e, k, o, b, a, n) = Answer(i, e, k, o, b, a, n)
  /\ \A rs : Race!Past(rs) = Past(rs)
<1>1. /\ Race!NoRecord = NoRecord /\ Race!NoReceipt = NoReceipt
      /\ Race!NoAnswer = NoAnswer
  BY DEF Race!NoRecord, NoRecord, Race!NoReceipt, NoReceipt, Race!NoAnswer, NoAnswer
<1>2. Race!Events = Events /\ Race!States = States /\ Race!Target = Target
  BY DEF Race!Events, Events, Race!States, States, Race!Target, Target
<1>3. \A s, e : Race!CanTransition(s, e) <=> CanTransition(s, e)
  BY DEF Race!CanTransition, CanTransition
<1>4. \A i, e, k, o, b, a, n : Race!Answer(i, e, k, o, b, a, n) = Answer(i, e, k, o, b, a, n)
  BY DEF Race!Answer, Answer
<1>5. \A rs : Race!Past(rs) = Past(rs)
  BY <1>1 DEF Race!Past, Race!Used, Past, Used
<1> QED BY <1>1, <1>2, <1>3, <1>4, <1>5

\* What a step of one process looks like from the contract.
LEMMA AnswerSeen ==
  ASSUME IInv, NEW c \in Callers, NEW a, result' = [result EXCEPT ![c] = a]
  PROVE  TransitionAnswers' =
           [TransitionAnswers EXCEPT
              ![c] = IF a.outcome \in {"Created", "NotCreated"} THEN NoAnswer ELSE a]
<1>1. /\ result'[c] = a /\ \A d \in Callers \ {c} : result'[d] = result[d]
  BY DEF IInv, TypeOK
<1> QED BY <1>1 DEF TransitionAnswers

LEMMA AbandonedSeen ==
  ASSUME IInv, NEW c \in Callers, NEW a, result' = [result EXCEPT ![c] = a],
         a.outcome \in {"Created", "NotCreated"} \/ a = NoAnswer,
         Visible' = Visible, receipts' = receipts
  PROVE  Race!Next
<1>1. TransitionAnswers' = [TransitionAnswers EXCEPT ![c] = NoAnswer]
  BY AnswerSeen
<1>2. Race!Abandoned(c)
  BY <1>1, SameTypes DEF Race!Abandoned
<1> QED BY <1>2 DEF Race!Next

LEMMA FailedSeen ==
  ASSUME IInv, NEW c \in Callers, NEW i \in Interactions, NEW e \in Events, NEW k \in Keys,
         result' = [result EXCEPT ![c] = BackendError(i, e, k)],
         Race!Effect(i, e, k) \/ UNCHANGED <<Visible, receipts>>
  PROVE  Race!Next
<1>1. TransitionAnswers' = [TransitionAnswers EXCEPT ![c] = BackendError(i, e, k)]
  BY AnswerSeen DEF BackendError, Answer
<1>2. Race!Failed(c, i, e, k)
  BY <1>1, SameTypes DEF Race!Failed, BackendError
<1> QED BY <1>2, SameTypes DEF Race!Next

\* A script that writes is an effect of the contract.
LEMMA ScriptIsEffect ==
  ASSUME RaceInv, NEW c \in Callers, proc[c].pc = "eval", ScriptRuns(proc[c]), ScriptWrites(proc[c])
  PROVE  /\ Race!Effect(proc[c].id, proc[c].event, proc[c].key)
         /\ proc[c].id \in Interactions /\ proc[c].event \in Events /\ proc[c].key \in Keys
         /\ Visible[proc[c].id].state = hash[proc[c].id].state
         /\ Visible[proc[c].id].index = hash[proc[c].id].index
<1> DEFINE i == proc[c].id
           e == proc[c].event
           k == proc[c].key
           h == hash[i]
<1>1. i \in Interactions /\ e \in Events /\ k \in Keys
  BY ProcType DEF RaceInv, IInv
<1>2. h \in Hash /\ h.index # NoIndex /\ receipts[i][k] = NoReceipt
  BY <1>1 DEF RaceInv, IInv, TypeOK, ScriptRuns
<1>3. h.index \in Nat /\ h.state \in States
  BY <1>1, <1>2 DEF RaceInv, IInv, VisibleHasState, Hash
<1>4. Race!Accepted(i, e)
  BY SameTypes DEF RaceInv, ReadsWerePast, Race!Accepted
<1>5. Visible[i] = [state |-> h.state, index |-> h.index] /\ Visible[i] # NoRecord
  BY <1>1, <1>2, <1>3 DEF Visible, NoRecord, States
<1> DEFINE now == [state |-> Target[e], index |-> h.index + 1, fields |-> h.fields]
<1>6. hash' = [hash EXCEPT ![i] = now] /\ receipts' = [receipts EXCEPT ![i][k] = NewReceipt(proc[c])]
  BY DEF ScriptWrites
<1>7. hash'[i] = now /\ \A j \in Interactions \ {i} : hash'[j] = hash[j]
  BY <1>1, <1>6 DEF RaceInv, IInv, TypeOK
<1>8. h.index + 1 # NoIndex
  BY <1>3 DEF NoIndex
<1>9. Visible' = [Visible EXCEPT ![i] = [state |-> Target[e], index |-> h.index + 1]]
  <2>1. now.index # NoIndex /\ now.state = Target[e] /\ now.index = h.index + 1
    BY <1>8
  <2> HIDE DEF now, i, h
  <2>2. Visible'[i] = [state |-> Target[e], index |-> h.index + 1]
    BY <1>1, <1>7, <2>1 DEF Visible
  <2>3. \A j \in Interactions \ {i} : Visible'[j] = Visible[j]
    BY <1>7 DEF Visible
  <2>4. /\ Visible = [j \in Interactions |-> Visible[j]]
        /\ Visible' = [j \in Interactions |-> Visible'[j]]
    BY DEF Visible
  <2> QED BY <1>1, <2>2, <2>3, <2>4
<1>10. NewReceipt(proc[c]) = [after |-> Target[e], index |-> h.index + 1, event |-> e]
  BY DEF NewReceipt
<1>11. Race!Effect(i, e, k)
  <2> HIDE DEF i, e, k, h
  <2>1. Visible[i].index = h.index /\ Visible[i].state = h.state
    BY <1>5
  <2> QED BY <1>2, <1>4, <1>5, <1>6, <1>9, <1>10, <2>1, SameTypes DEF Race!Effect
<1> QED BY <1>1, <1>5, <1>11

\* An HSET makes the interaction appear, or changes nothing that is seen.
LEMMA HsetSeen ==
  ASSUME RaceInv, NEW c \in Callers, proc[c].pc \in HsetSteps, Hset(proc[c]), NEW a,
         result' = [result EXCEPT ![c] = a],
         a = NoAnswer \/ a.outcome \in {"Created", "NotCreated"}
  PROVE  Race!Next
<1> DEFINE i == proc[c].id
           step == proc[c].pc
           now == [state |-> IF step = "hset_state" THEN "Draft" ELSE hash[i].state,
                   index |-> IF step = "hset_index" THEN 0 ELSE hash[i].index,
                   fields |-> hash[i].fields \cup FieldsOf(step)]
<1>1. i \in Interactions
  BY ProcType DEF RaceInv, IInv
<1>2. hash' = [hash EXCEPT ![i] = now] /\ receipts' = receipts
  BY DEF Hset
<1>3. hash'[i] = now /\ \A j \in Interactions \ {i} : hash'[j] = hash[j]
  BY <1>1, <1>2 DEF RaceInv, IInv, TypeOK
<1>4. /\ now.state = IF step = "hset_state" THEN "Draft" ELSE hash[i].state
      /\ now.index = IF step = "hset_index" THEN 0 ELSE hash[i].index
  OBVIOUS
<1> HIDE DEF now
<1>5. /\ Visible = [j \in Interactions |-> Visible[j]]
      /\ Visible' = [j \in Interactions |-> Visible'[j]]
      /\ \A j \in Interactions \ {i} : Visible'[j] = Visible[j]
  BY <1>3 DEF Visible
<1>6. CASE step = "hset_index"
  <2>1. hash[i].index = NoIndex /\ hash[i].state = "Draft"
    BY <1>6 DEF RaceInv, IInv, CreationsUndisturbed
  <2>2. Visible[i] = NoRecord
    BY <1>1, <2>1 DEF Visible
  <2>3. Visible'[i] = [state |-> "Draft", index |-> 0]
    BY <1>1, <1>3, <1>4, <1>6, <2>1 DEF Visible, NoIndex
  <2>4. Visible' = [Visible EXCEPT ![i] = [state |-> "Draft", index |-> 0]]
    BY <1>1, <1>5, <2>3
  <2>5. TransitionAnswers' = TransitionAnswers
    <3>1. result[c] = NoAnswer
      BY DEF RaceInv, CallsUnanswered, Idle, HsetSteps
    <3>2. TransitionAnswers[c] = NoAnswer
      BY <3>1 DEF TransitionAnswers, NoAnswer
    <3>3. TransitionAnswers' = [TransitionAnswers EXCEPT ![c] = NoAnswer]
      BY AnswerSeen DEF RaceInv
    <3> QED BY <3>2, <3>3 DEF TransitionAnswers
  <2>6. Race!Create(i)
    BY <1>2, <2>2, <2>4, <2>5, SameTypes DEF Race!Create
  <2> QED BY <1>1, <2>6 DEF Race!Next
<1>7. CASE step # "hset_index"
  <2>1. step = "hset_state" => hash[i].index = NoIndex
    BY DEF RaceInv, IInv, CreationsUndisturbed, NoHash
  <2>2. Visible'[i] = Visible[i]
    BY <1>1, <1>3, <1>4, <1>7, <2>1 DEF Visible
  <2>3. Visible' = Visible
    BY <1>1, <1>5, <2>2
  <2> QED BY <1>2, <2>3, AbandonedSeen DEF RaceInv
<1> QED BY <1>6, <1>7

\* However many processes race, round trips that fail and replies that get lost
\* never make more of a call than an answer that says nothing, and of a race
\* never more than an event that was accepted in an earlier state
\* (redis_interaction_coordinator.cpp:118-257).
THEOREM RacersImplementContract == ASSUME OneCreator PROVE Spec => RacingContractSpec
<1>1. Init => Race!Init
  <2> SUFFICES ASSUME Init PROVE Race!Init
    OBVIOUS
  <2>1. Visible = [i \in Interactions |-> NoRecord]
    BY DEF Init, NoHash, Visible
  <2>2. TransitionAnswers = [c \in Callers |-> NoAnswer]
    BY DEF Init, NoAnswer, TransitionAnswers
  <2> QED BY <2>1, <2>2, SameTypes DEF Init, Race!Init
<1>2. ASSUME RaceInv, [Next]_vars PROVE [Race!Next]_(Race!vars)
  <2>1. ASSUME NEW c \in Callers, NEW i \in Interactions, NEW e \in Events, NEW k \in Keys,
               \/ ApplyNotFound(c, i, e, k) \/ ApplyBegin(c, i, e, k)
               \/ ApplyUnreachable(c, i, e, k)
        PROVE  Race!Next
    <3>1. Visible' = Visible /\ receipts' = receipts
      BY <2>1 DEF ApplyNotFound, ApplyBegin, ApplyUnreachable, NoRedisEffect, Visible
    <3>2. CASE ApplyNotFound(c, i, e, k)
      <4> DEFINE a == Answer(i, e, k, "NotFound", "Draft", "Draft", 0)
      <4>1. result' = [result EXCEPT ![c] = a]
        BY <3>2 DEF ApplyNotFound, Return
      <4>2. a.outcome = "NotFound"
        BY DEF Answer
      <4> HIDE DEF a
      <4>3. TransitionAnswers' = [TransitionAnswers EXCEPT ![c] = a]
        BY <1>2, <4>1, <4>2, AnswerSeen DEF RaceInv
      <4>4. Visible[i] = NoRecord
        BY <3>2 DEF ApplyNotFound, Exists, NoHash, Visible
      <4>5. Race!NotFound(c, i, e, k)
        BY <3>1, <4>3, <4>4, SameTypes DEF Race!NotFound, a
      <4> QED BY <4>5, SameTypes DEF Race!Next
    <3>3. CASE ApplyBegin(c, i, e, k)
      BY <1>2, <3>1, <3>3, AbandonedSeen DEF RaceInv, ApplyBegin, Goto
    <3>4. CASE ApplyUnreachable(c, i, e, k)
      BY <1>2, <3>1, <3>4, FailedSeen DEF RaceInv, ApplyUnreachable, Return
    <3> QED BY <2>1, <3>2, <3>3, <3>4
  <2>2. ASSUME NEW c \in Callers, NEW i \in Interactions, CreateRefused(c, i) \/ CreateBegin(c, i)
        PROVE  Race!Next
    <3>1. Visible' = Visible /\ receipts' = receipts
      BY <2>2 DEF CreateRefused, CreateBegin, NoRedisEffect, Visible
    <3> QED BY <1>2, <2>2, <3>1, AbandonedSeen DEF RaceInv, CreateRefused, CreateBegin, Return, Goto
  <2>3. ASSUME NEW c \in Callers, ApplyStep(c) PROVE Race!Next
    <3> DEFINE p == proc[c]
               i == p.id
               e == p.event
               k == p.key
               h == hash[i]
               r == receipts[i][k]
    <3>1. /\ p.pc \in {"read", "eval"} /\ i \in Interactions /\ e \in Events /\ k \in Keys
      BY <1>2, <2>3, ProcType DEF RaceInv, IInv, ApplyStep, ReadAccepted, ReadRefused,
           EvalApplied, EvalAppliedReplyLost, EvalReplay, ApplyFails
    <3>2. CASE ReadAccepted(c)
      <4>1. Visible' = Visible /\ receipts' = receipts
        BY <3>2 DEF ReadAccepted, NoRedisEffect, Visible
      <4>2. result' = [result EXCEPT ![c] = NoAnswer]
        BY <3>2 DEF ReadAccepted, Goto
      <4> QED BY <1>2, <4>1, <4>2, AbandonedSeen DEF RaceInv
    <3>3. CASE ApplyFails(c) \/ (ReadRefused(c) /\ h.index = NoIndex)
      <4>1. Visible' = Visible /\ receipts' = receipts
        BY <3>3 DEF ApplyFails, ReadRefused, NoRedisEffect, Visible
      <4>2. result' = [result EXCEPT ![c] = BackendError(i, e, k)]
        BY <3>3 DEF ApplyFails, ReadRefused, Return
      <4> QED BY <1>2, <3>1, <4>1, <4>2, FailedSeen DEF RaceInv
    <3>4. CASE ReadRefused(c) /\ h.index # NoIndex
      <4> DEFINE a == Answer(i, e, k, "InvalidTransition", h.state, h.state, h.index)
      <4>1. Visible' = Visible /\ receipts' = receipts
        BY <3>4 DEF ReadRefused, NoRedisEffect, Visible
      <4>2. result' = [result EXCEPT ![c] = a] /\ ~CanTransition(h.state, e)
        BY <3>4 DEF ReadRefused, Return
      <4>3. a.outcome = "InvalidTransition"
        BY DEF Answer
      <4> HIDE DEF a
      <4>4. TransitionAnswers' = [TransitionAnswers EXCEPT ![c] = a]
        BY <1>2, <4>2, <4>3, AnswerSeen DEF RaceInv
      <4>5. h.state \in States
        BY <1>2, <3>1, <3>4 DEF RaceInv, IInv, VisibleHasState
      <4>6. Visible[i] = [state |-> h.state, index |-> h.index] /\ Visible[i] # NoRecord
        BY <3>1, <3>4, <4>5 DEF Visible, NoRecord, States
      <4>7. Visible[i].state = h.state /\ Visible[i].index = h.index
        BY <4>6
      <4>8. Race!Refused(c, i, e, k)
        BY <4>1, <4>2, <4>4, <4>6, <4>7, SameTypes DEF Race!Refused, a
      <4> QED BY <3>1, <4>8, SameTypes DEF Race!Next
    <3>5. CASE EvalReplay(c)
      <4> DEFINE a == Answer(i, e, k, "AlreadyApplied", r.after, r.after, r.index)
      <4>1. Visible' = Visible /\ receipts' = receipts /\ r # NoReceipt
        BY <3>5 DEF EvalReplay, NoRedisEffect, Visible
      <4>2. result' = [result EXCEPT ![c] = a]
        BY <3>5 DEF EvalReplay, Return
      <4>3. a.outcome = "AlreadyApplied"
        BY DEF Answer
      <4> HIDE DEF a
      <4>4. TransitionAnswers' = [TransitionAnswers EXCEPT ![c] = a]
        BY <1>2, <4>2, <4>3, AnswerSeen DEF RaceInv
      <4>5. Race!AlreadyApplied(c, i, e, k)
        BY <4>1, <4>4, SameTypes DEF Race!AlreadyApplied, a
      <4> QED BY <3>1, <4>5, SameTypes DEF Race!Next
    <3>6. CASE EvalAppliedReplyLost(c)
      <4>1. p.pc = "eval" /\ ScriptRuns(p) /\ ScriptWrites(p)
        BY <3>6 DEF EvalAppliedReplyLost
      <4>2. result' = [result EXCEPT ![c] = BackendError(i, e, k)]
        BY <3>6 DEF EvalAppliedReplyLost, Return
      <4>3. Race!Effect(i, e, k)
        BY <1>2, <4>1, ScriptIsEffect
      <4> QED BY <1>2, <3>1, <4>2, <4>3, FailedSeen DEF RaceInv
    <3>7. CASE EvalApplied(c)
      <4> DEFINE a == Answer(i, e, k, "Applied", h.state, Target[e], h.index + 1)
      <4>1. p.pc = "eval" /\ ScriptRuns(p) /\ ScriptWrites(p) /\ result' = [result EXCEPT ![c] = a]
        BY <3>7 DEF EvalApplied, Return
      <4>2. a.outcome = "Applied"
        BY DEF Answer
      <4> HIDE DEF a
      <4>3. TransitionAnswers' = [TransitionAnswers EXCEPT ![c] = a]
        BY <1>2, <4>1, <4>2, AnswerSeen DEF RaceInv
      <4>4. Race!Effect(i, e, k) /\ Visible[i].state = h.state /\ Visible[i].index = h.index
        BY <1>2, <4>1, ScriptIsEffect
      <4>5. Race!Applied(c, i, e, k)
        BY <4>3, <4>4, SameTypes DEF Race!Applied, a
      <4> QED BY <3>1, <4>5, SameTypes DEF Race!Next
    <3> QED BY <2>3, <3>2, <3>3, <3>4, <3>5, <3>6, <3>7 DEF ApplyStep
  <2>4. ASSUME NEW c \in Callers, CreateStep(c) PROVE Race!Next
    <3>1. PICK a : result' = [result EXCEPT ![c] = a] /\ (a = NoAnswer \/ a.outcome \in {"Created", "NotCreated"})
      BY <2>4 DEF CreateStep, HsetDone, HsetReplyLost, HsetFails, Return, Goto
    <3>2. CASE HsetFails(c)
      BY <1>2, <3>1, <3>2, AbandonedSeen DEF RaceInv, HsetFails, NoRedisEffect, Visible
    <3>3. CASE HsetDone(c) \/ HsetReplyLost(c)
      <4>1. proc[c].pc \in HsetSteps /\ Hset(proc[c])
        BY <3>3 DEF HsetDone, HsetReplyLost
      <4> QED BY <1>2, <3>1, <4>1, HsetSeen
    <3> QED BY <2>4, <3>2, <3>3 DEF CreateStep
  <2>5. ASSUME NEW c \in Callers, ProcessRestarts(c) PROVE Race!Next
    BY <1>2, <2>5, AbandonedSeen DEF RaceInv, ProcessRestarts, Goto, Visible
  <2>6. CASE RedisRestarts \/ UNCHANGED vars
    BY <2>6 DEF RedisRestarts, vars, Race!vars, Visible, TransitionAnswers
  <2> QED BY <1>2, <2>1, <2>2, <2>3, <2>4, <2>5, <2>6 DEF Next
<1>3. RaceInv /\ [Next]_vars => [Race!Next]_(Race!vars)
  BY <1>2
<1> QED BY <1>1, <1>3, RaceInvHolds, PTL DEF Spec, RacingContractSpec, Race!Spec

-----------------------------------------------------------------------------
(***************************************************************************)
(* One process alone.  Nothing changes between its read and its script, so *)
(* what the client validated still holds when the script runs.             *)
(***************************************************************************)
OneCaller == \A c, d \in Callers : c = d

ReadsStand ==
  \A c \in Callers :
    proc[c].pc = "eval" => CanTransition(hash[proc[c].id].state, proc[c].event)

SerialInv == RaceInv /\ ReadsStand

\* Who reads does not write.
LEMMA SerialStep ==
  ASSUME OneCaller, SerialInv, [Next]_vars
  PROVE  ReadsStand'
<1>1. ASSUME NEW c \in Callers, NEW a, Return(c, a) PROVE ReadsStand'
  <2>1. proc'[c] = Idle
    BY <1>1, StepFrame DEF SerialInv, RaceInv, Return
  <2>2. \A d \in Callers : proc'[d] = Idle
    BY <2>1 DEF OneCaller
  <2> QED BY <2>2 DEF ReadsStand, Idle
<1>2. ASSUME NEW c \in Callers, NEW p, Goto(c, p), p.pc # "eval" PROVE ReadsStand'
  <2>1. proc'[c] = p
    BY <1>2, GoesTo DEF SerialInv, RaceInv
  <2>2. \A d \in Callers : proc'[d].pc # "eval"
    BY <1>2, <2>1 DEF OneCaller
  <2> QED BY <2>2 DEF ReadsStand
<1>3. ASSUME NEW c \in Callers, ReadAccepted(c) PROVE ReadsStand'
  <2> DEFINE p == [pc |-> "eval", id |-> proc[c].id, event |-> proc[c].event, key |-> proc[c].key]
  <2>1. Goto(c, p) /\ hash' = hash /\ CanTransition(hash[p.id].state, p.event)
    BY <1>3, ReadIsPast DEF SerialInv
  <2> HIDE DEF p
  <2>2. proc'[c] = p
    BY <2>1, GoesTo DEF SerialInv, RaceInv
  <2>3. \A d \in Callers : proc'[d] = p
    BY <2>2 DEF OneCaller
  <2> QED BY <2>1, <2>3 DEF ReadsStand
<1>4. CASE UNCHANGED <<hash, receipts, proc, result>>
  BY <1>4 DEF SerialInv, ReadsStand
<1> QED BY <1>1, <1>2, <1>3, <1>4, StepMoves DEF Moves

LEMMA SerialInvHolds == ASSUME OneCaller PROVE Spec => []SerialInv
<1>1. OneCreator
  BY CreatorsAssumption DEF OneCaller, OneCreator
<1>2. Init => ReadsStand
  BY DEF Init, ReadsStand, Idle
<1>3. SerialInv /\ [Next]_vars => SerialInv'
  <2>1. SerialInv /\ [Next]_vars => RaceInv'
    BY <1>1, NextRaceInv DEF SerialInv
  <2> QED BY <2>1, SerialStep DEF SerialInv
<1>4. Init => SerialInv
  BY <1>2, InitRaceInv DEF SerialInv
<1> QED BY <1>3, <1>4, PTL DEF Spec

\* Every receipt is an edge of the machine, from where the one before it led.
LifeInv ==
  \A i \in Interactions : \A k \in Used(receipts[i]) :
    /\ receipts[i][k].after = Target[receipts[i][k].event]
    /\ \E s \in StateAt(receipts[i], receipts[i][k].index - 1) :
         CanTransition(s, receipts[i][k].event)

LEMMA LifeStep ==
  ASSUME SerialInv, LifeInv, [Next]_vars
  PROVE  LifeInv'
<1> SUFFICES ASSUME NEW i \in Interactions, NEW k \in Used(receipts'[i])
             PROVE  /\ receipts'[i][k].after = Target[receipts'[i][k].event]
                    /\ \E s \in StateAt(receipts'[i], receipts'[i][k].index - 1) :
                         CanTransition(s, receipts'[i][k].event)
  BY DEF LifeInv
<1>1. IInv /\ k \in Keys /\ \A n : StateAt(receipts[i], n) \subseteq StateAt(receipts'[i], n)
  BY StatesStay DEF SerialInv, RaceInv, Used
<1>2. CASE receipts'[i][k] = receipts[i][k]
  <2>1. k \in Used(receipts[i])
    BY <1>2 DEF Used
  <2>2. /\ receipts[i][k].after = Target[receipts[i][k].event]
        /\ \E s \in StateAt(receipts[i], receipts[i][k].index - 1) :
             CanTransition(s, receipts[i][k].event)
    BY <2>1 DEF LifeInv
  <2> QED BY <1>1, <1>2, <2>2
<1>3. ASSUME NEW c \in Callers, Runs(c), proc[c].id = i, receipts'[i][k] = NewReceipt(proc[c])
      PROVE  /\ receipts'[i][k].after = Target[receipts'[i][k].event]
             /\ \E s \in StateAt(receipts'[i], receipts'[i][k].index - 1) :
                  CanTransition(s, receipts'[i][k].event)
  <2>1. hash[i].index \in Nat /\ hash[i].index # NoIndex
    <3>1. hash[i] \in Hash /\ hash[i].index # NoIndex
      BY <1>3 DEF SerialInv, RaceInv, IInv, TypeOK, Runs, ScriptRuns
    <3> QED BY <3>1 DEF Hash
  <2>2. /\ receipts'[i][k].after = Target[proc[c].event]
        /\ receipts'[i][k].event = proc[c].event /\ receipts'[i][k].index - 1 = hash[i].index
    BY <1>3, <2>1 DEF NewReceipt
  <2>3. hash[i].state \in StateAt(receipts[i], hash[i].index)
    BY <2>1 DEF SerialInv, RaceInv, IInv, StateIsLastReceipt
  <2>4. CanTransition(hash[i].state, proc[c].event)
    BY <1>3 DEF SerialInv, ReadsStand, Runs
  <2> QED BY <1>1, <2>2, <2>3, <2>4
<1> QED BY <1>1, <1>2, <1>3, ReceiptIsScripts

\* Of one process alone the receipts tell the life of every interaction:
\* numbered without gap, each event accepted where the one before it led, the
\* last one where the interaction is
\* (redis_interaction_coordinator.cpp:118-257).
THEOREM AloneTellsTheLife == ASSUME OneCaller PROVE Spec => []ReceiptsTellTheLife
<1>1. Init => LifeInv
  BY DEF Init, LifeInv, Used
<1>2. SerialInv /\ LifeInv => ReceiptsTellTheLife
  <2> SUFFICES ASSUME SerialInv, LifeInv, NEW i \in Interactions
               PROVE  IsLife(Visible[i], receipts[i])
    BY DEF ReceiptsTellTheLife
  <2> DEFINE n == hash[i].index
  <2>1. /\ n = NoIndex => Used(receipts[i]) = {}
        /\ n # NoIndex => {receipts[i][k].index : k \in Used(receipts[i])} = 1 .. n
        /\ \A j, k \in Used(receipts[i]) : receipts[i][j].index = receipts[i][k].index => j = k
    BY DEF SerialInv, RaceInv, IInv, IndexCountsReceipts
  <2>2. CASE n = NoIndex
    <3>1. Visible[i] = NoRecord /\ Used(receipts[i]) = {}
      BY <2>1, <2>2 DEF Visible
    <3> QED BY <3>1 DEF IsLife
  <2>3. CASE n # NoIndex
    <3>1. Visible[i] # NoRecord /\ Visible[i].state = hash[i].state /\ Visible[i].index = n
      <4>1. Visible[i] = [state |-> hash[i].state, index |-> n]
        BY <2>3 DEF Visible
      <4>2. hash[i].state # "Absent"
        BY <2>3, Sentinels DEF SerialInv, RaceInv, IInv, VisibleHasState, NoState
      <4> QED BY <4>1, <4>2 DEF NoRecord
    <3>2. hash[i].state \in StateAt(receipts[i], n)
      BY <2>3 DEF SerialInv, RaceInv, IInv, StateIsLastReceipt
    <3>3. \A k \in Used(receipts[i]) : receipts[i][k].index \in 1 .. n
      BY <2>1, <2>3
    <3> QED BY <2>1, <3>1, <3>2, <3>3 DEF LifeInv, IsLife
  <2> QED BY <2>2, <2>3
<1> QED BY <1>1, <1>2, LifeStep, SerialInvHolds, PTL DEF Spec

\* Race and Alone are the same but for the states they accept an event in.
LEMMA SameAlone ==
  /\ Race!vars = Alone!vars
  /\ Race!Init <=> Alone!Init
  /\ \A i : Race!Create(i) <=> Alone!Create(i)
  /\ \A c, i, e, k :
       /\ Race!AlreadyApplied(c, i, e, k) <=> Alone!AlreadyApplied(c, i, e, k)
       /\ Race!Refused(c, i, e, k) <=> Alone!Refused(c, i, e, k)
       /\ Race!NotFound(c, i, e, k) <=> Alone!NotFound(c, i, e, k)
<1>1. /\ Race!NoRecord = Alone!NoRecord /\ Race!NoReceipt = Alone!NoReceipt
      /\ Race!NoAnswer = Alone!NoAnswer
  BY DEF Race!NoRecord, Alone!NoRecord, Race!NoReceipt, Alone!NoReceipt,
         Race!NoAnswer, Alone!NoAnswer
<1>2. \A s, e : Race!CanTransition(s, e) <=> Alone!CanTransition(s, e)
  BY DEF Race!CanTransition, Alone!CanTransition
<1>3. \A i, e, k, o, b, a, n : Race!Answer(i, e, k, o, b, a, n) = Alone!Answer(i, e, k, o, b, a, n)
  BY DEF Race!Answer, Alone!Answer
<1>4. Race!vars = Alone!vars /\ (Race!Init <=> Alone!Init)
  BY <1>1 DEF Race!vars, Alone!vars, Race!Init, Alone!Init
<1>5. \A i : Race!Create(i) <=> Alone!Create(i)
  BY <1>1 DEF Race!Create, Alone!Create
<1>6. \A c, i, e, k : Race!AlreadyApplied(c, i, e, k) <=> Alone!AlreadyApplied(c, i, e, k)
  BY <1>1, <1>3 DEF Race!AlreadyApplied, Alone!AlreadyApplied
<1>7. \A c, i, e, k : Race!Refused(c, i, e, k) <=> Alone!Refused(c, i, e, k)
  BY <1>1, <1>2, <1>3 DEF Race!Refused, Alone!Refused
<1>8. \A c, i, e, k : Race!NotFound(c, i, e, k) <=> Alone!NotFound(c, i, e, k)
  BY <1>1, <1>3 DEF Race!NotFound, Alone!NotFound
<1> QED BY <1>4, <1>5, <1>6, <1>7, <1>8

\* An effect is a script's, and what its client validated stands.
LEMMA EffectIsValid ==
  ASSUME SerialInv, [Next]_vars, NEW i \in Interactions, NEW e \in Events, NEW k \in Keys,
         Race!Effect(i, e, k)
  PROVE  Alone!Effect(i, e, k)
<1>1. /\ Visible[i] # NoRecord /\ receipts[i][k] = NoReceipt
      /\ Visible' = [Visible EXCEPT ![i] = [state |-> Target[e], index |-> Visible[i].index + 1]]
      /\ receipts' = [receipts EXCEPT ![i][k] =
           [after |-> Target[e], index |-> Visible[i].index + 1, event |-> e]]
  BY SameTypes DEF Race!Effect
<1>2. receipts'[i][k].event = e /\ receipts'[i][k] # receipts[i][k]
  <2>1. receipts \in [Interactions -> [Keys -> Receipt \cup {NoReceipt}]]
    BY DEF SerialInv, RaceInv, IInv, TypeOK
  <2> DEFINE r == [after |-> Target[e], index |-> Visible[i].index + 1, event |-> e]
  <2>2. r.event = e /\ e # NoReceipt.event
    BY DEF Events, NoReceipt
  <2> HIDE DEF r
  <2>3. receipts'[i][k] = r
    BY <1>1, <2>1 DEF r
  <2> QED BY <1>1, <2>2, <2>3
<1>3. PICK c \in Callers : Runs(c)
  BY <1>2, StepHasShape DEF SerialInv, RaceInv, Shape, Quiet, Begins, Sets, Hset
<1>4. proc[c].id = i /\ proc[c].event = e
  <2>1. /\ receipts \in [Interactions -> [Keys -> Receipt \cup {NoReceipt}]]
        /\ receipts' = [receipts EXCEPT ![proc[c].id][proc[c].key] = NewReceipt(proc[c])]
        /\ proc[c].id \in Interactions /\ proc[c].key \in Keys
    BY <1>3, ProcType DEF SerialInv, RaceInv, IInv, TypeOK, Runs, ScriptWrites
  <2>2. NewReceipt(proc[c]).event = proc[c].event
    BY DEF NewReceipt
  <2>3. proc[c].id = i /\ proc[c].key = k
    BY <1>2, <2>1
  <2>4. receipts'[i][k] = NewReceipt(proc[c])
    BY <2>1, <2>3
  <2> QED BY <1>2, <2>2, <2>3, <2>4
<1>5. CanTransition(Visible[i].state, e)
  <2>1. hash[i].index # NoIndex /\ CanTransition(hash[i].state, e)
    BY <1>3, <1>4 DEF SerialInv, ReadsStand, Runs, ScriptRuns
  <2>2. Visible[i].state = hash[i].state
    BY <2>1 DEF Visible
  <2> QED BY <2>1, <2>2
<1>6. Alone!Accepted(i, e)
  BY <1>5 DEF Alone!Accepted, Alone!CanTransition, CanTransition
<1>7. /\ Alone!NoRecord = NoRecord /\ Alone!NoReceipt = NoReceipt
      /\ Alone!Target = Target
  BY DEF Alone!NoRecord, NoRecord, Alone!NoReceipt, NoReceipt, Alone!Target, Target
<1> QED BY <1>1, <1>6, <1>7 DEF Alone!Effect

\* One process alone gets from Redis what the interface promises, but for one
\* clause: nobody changes a state between its HGETALL and its script, so every
\* event takes effect in the state it was validated in; a key that was used may
\* still be refused (redis_interaction_coordinator.cpp:137-165).
THEOREM AloneImplementsAllButReplays == ASSUME OneCaller PROVE Spec => AloneContractSpec
<1>1. OneCreator
  BY CreatorsAssumption DEF OneCaller, OneCreator
<1>2. ASSUME SerialInv, [Next]_vars, [Race!Next]_(Race!vars)
      PROVE  [Alone!Next]_(Alone!vars)
  <2>1. Race!Events = Alone!Events /\ Race!Events = Events
    BY DEF Race!Events, Alone!Events, Events
  <2>2. ASSUME NEW i \in Interactions, NEW e \in Events, NEW k \in Keys, Race!Effect(i, e, k)
        PROVE  Alone!Effect(i, e, k)
    BY <1>2, <2>2, EffectIsValid
  <2>3. ASSUME NEW i \in Interactions, Race!Create(i) PROVE Alone!Next
    BY <2>3, SameAlone DEF Alone!Next
  <2>4. ASSUME NEW c \in Callers, Race!Abandoned(c) PROVE Alone!Next
    <3>1. Race!NoAnswer = Alone!NoAnswer
      BY DEF Race!NoAnswer, Alone!NoAnswer
    <3>2. Alone!Abandoned(c)
      BY <2>1, <2>2, <2>4, <3>1 DEF Race!Abandoned, Alone!Abandoned
    <3> QED BY <3>2 DEF Alone!Next
  <2>5. ASSUME NEW c \in Callers, NEW i \in Interactions, NEW e \in Events, NEW k \in Keys,
               \/ Race!AlreadyApplied(c, i, e, k) \/ Race!Refused(c, i, e, k)
               \/ Race!NotFound(c, i, e, k)
        PROVE  Alone!Next
    BY <2>1, <2>5, SameAlone DEF Alone!Next
  <2>6. ASSUME NEW c \in Callers, NEW i \in Interactions, NEW e \in Events, NEW k \in Keys,
               Race!Applied(c, i, e, k)
        PROVE  Alone!Next
    <3>1. Race!Target = Alone!Target
      BY DEF Race!Target, Alone!Target
    <3>2. \A b, a, n : Race!Answer(i, e, k, "Applied", b, a, n) = Alone!Answer(i, e, k, "Applied", b, a, n)
      BY DEF Race!Answer, Alone!Answer
    <3>3. Alone!Applied(c, i, e, k)
      BY <2>2, <2>6, <3>1, <3>2 DEF Race!Applied, Alone!Applied
    <3> QED BY <2>1, <3>3 DEF Alone!Next
  <2>7. ASSUME NEW c \in Callers, NEW i \in Interactions, NEW e \in Events, NEW k \in Keys,
               Race!Failed(c, i, e, k)
        PROVE  Alone!Next
    <3>1. \A o, b, a, n : Race!Answer(i, e, k, o, b, a, n) = Alone!Answer(i, e, k, o, b, a, n)
      BY DEF Race!Answer, Alone!Answer
    <3>2. Alone!Failed(c, i, e, k)
      BY <2>2, <2>7, <3>1 DEF Race!Failed, Alone!Failed
    <3> QED BY <2>1, <3>2 DEF Alone!Next
  <2>8. CASE UNCHANGED Race!vars
    BY <2>8 DEF Race!vars, Alone!vars
  <2> QED BY <1>2, <2>1, <2>3, <2>4, <2>5, <2>6, <2>7, <2>8 DEF Race!Next
<1>3. Race!Init => Alone!Init
  BY SameAlone
<1>4. Spec => Race!Spec
  BY <1>1, RacersImplementContract DEF RacingContractSpec
<1> QED BY <1>2, <1>3, <1>4, SerialInvHolds, PTL DEF Spec, Race!Spec, AloneContractSpec, Alone!Spec
=============================================================================
