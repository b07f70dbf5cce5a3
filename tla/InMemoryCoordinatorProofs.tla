--------------------- MODULE InMemoryCoordinatorProofs ----------------------
(***************************************************************************)
(* What InMemoryCoordinator guarantees for any number of interactions,     *)
(* keys and calling threads.                                               *)
(***************************************************************************)
EXTENDS InMemoryCoordinator, TLAPS

(***************************************************************************)
(* The state machine: an accepted event leads to a state of the machine    *)
(* that is strictly further along.                                         *)
(***************************************************************************)
LEMMA AcceptedEventAdvances ==
  ASSUME NEW s \in States, NEW e \in Events, CanTransition(s, e)
  PROVE  /\ Target[e] \in States
         /\ Apply(s, e) = Target[e]
         /\ Rank[s] \in 0 .. 4
         /\ Rank[Target[e]] \in 0 .. 4
         /\ Rank[s] < Rank[Target[e]]
BY DEF States, Events, CanTransition, Apply, Target, Rank

(***************************************************************************)
(* "No entry" is told apart from every entry.                              *)
(***************************************************************************)
LEMMA SentinelsAreNotEntries ==
  /\ NoRecord \notin Record
  /\ NoReceipt \notin Receipt
  /\ \A x \in Answers : x # NoAnswer
<1>1. NoRecord \notin Record
  BY DEF NoRecord, Record, States
<1>2. NoReceipt \notin Receipt
  BY DEF NoReceipt, Receipt, States
<1>3. \A x \in Answers : x # NoAnswer
  BY DEF NoAnswer, Answers, Outcomes
<1> QED BY <1>1, <1>2, <1>3

LEMMA AnswerType ==
  ASSUME NEW i \in Interactions, NEW e \in Events, NEW k \in Keys,
         NEW o \in Outcomes, NEW b \in States, NEW a \in States, NEW n \in Nat
  PROVE  Answer(i, e, k, o, b, a, n) \in Answers
BY DEF Answer, Answers

-----------------------------------------------------------------------------
(***************************************************************************)
(* The two maps and the answers keep their types.                          *)
(***************************************************************************)
THEOREM TypeCorrect == Spec => []TypeOK
<1>1. Init => TypeOK
  BY DEF Init, TypeOK
<1>2. TypeOK /\ [Next]_vars => TypeOK'
  <2> SUFFICES ASSUME TypeOK, [Next]_vars PROVE TypeOK'
    OBVIOUS
  <2> USE DEF TypeOK
  <2>1. ASSUME NEW i \in Interactions, CreateInteraction(i) PROVE TypeOK'
    BY <2>1 DEF CreateInteraction, Record, States
  <2>2. ASSUME NEW c \in Callers, NEW i \in Interactions, NEW e \in Events,
               NEW k \in Keys, ApplyNotFound(c, i, e, k)
        PROVE  TypeOK'
    <3>1. Answer(i, e, k, "NotFound", "Draft", "Draft", 0) \in Answers
      BY AnswerType DEF Outcomes, States
    <3> QED BY <2>2, <3>1 DEF ApplyNotFound, Reply
  <2>3. ASSUME NEW c \in Callers, NEW i \in Interactions, NEW e \in Events,
               NEW k \in Keys, ApplyReplay(c, i, e, k)
        PROVE  TypeOK'
    <3> DEFINE r == receipts[i][k]
    <3>1. r \in Receipt
      BY <2>3 DEF ApplyReplay
    <3>2. r.after \in States /\ r.index \in Nat
      BY <3>1 DEF Receipt
    <3>3. Answer(i, e, k, "AlreadyApplied", r.after, r.after, r.index) \in Answers
      BY <3>2, AnswerType DEF Outcomes
    <3> QED BY <2>3, <3>3 DEF ApplyReplay, Reply
  <2>4. ASSUME NEW c \in Callers, NEW i \in Interactions, NEW e \in Events,
               NEW k \in Keys, ApplyInvalid(c, i, e, k)
        PROVE  TypeOK'
    <3> DEFINE rec == interactions[i]
    <3>1. rec \in Record
      BY <2>4 DEF ApplyInvalid, Exists
    <3>2. rec.state \in States /\ rec.index \in Nat
      BY <3>1 DEF Record
    <3>3. Answer(i, e, k, "InvalidTransition", rec.state, rec.state, rec.index)
            \in Answers
      BY <3>2, AnswerType DEF Outcomes
    <3> QED BY <2>4, <3>3 DEF ApplyInvalid, Reply
  <2>5. ASSUME NEW c \in Callers, NEW i \in Interactions, NEW e \in Events,
               NEW k \in Keys, ApplyFirst(c, i, e, k)
        PROVE  TypeOK'
    <3> DEFINE rec == interactions[i]
               after == Apply(rec.state, e)
               next == rec.index + 1
    <3>1. rec \in Record
      BY <2>5 DEF ApplyFirst, Exists
    <3>2. rec.state \in States /\ rec.index \in Nat
      BY <3>1 DEF Record
    <3>3. after \in States
      BY <2>5, <3>2, AcceptedEventAdvances DEF ApplyFirst
    <3>4. next \in Nat \ {0}
      BY <3>2
    <3>5. [state |-> after, index |-> next] \in Record
      BY <3>3, <3>4 DEF Record
    <3>6. [after |-> after, index |-> next, event |-> e] \in Receipt
      BY <3>3, <3>4 DEF Receipt
    <3>7. Answer(i, e, k, "Applied", rec.state, after, next) \in Answers
      BY <3>2, <3>3, <3>4, AnswerType DEF Outcomes
    <3> HIDE DEF after, next
    <3>8. interactions' \in [Interactions -> Record \cup {NoRecord}]
      BY <2>5, <3>5 DEF ApplyFirst, after, next
    <3>9. receipts' \in [Interactions -> [Keys -> Receipt \cup {NoReceipt}]]
      BY <2>5, <3>6 DEF ApplyFirst, after, next
    <3>10. result' \in [Callers -> Answers \cup {NoAnswer}]
      BY <2>5, <3>7 DEF ApplyFirst, Reply, after, next
    <3> QED BY <3>8, <3>9, <3>10
  <2>6. CASE UNCHANGED vars
    BY <2>6 DEF vars
  <2> QED BY <2>1, <2>2, <2>3, <2>4, <2>5, <2>6 DEF Next
<1> QED BY <1>1, <1>2, PTL DEF Spec

-----------------------------------------------------------------------------
(***************************************************************************)
(* The steps as seen from the two maps: a step creates an interaction, or  *)
(* has one effect, or leaves both maps alone.  The safety proofs below     *)
(* argue about these three cases.                                          *)
(***************************************************************************)
EffectOf(i, e, k) ==
  /\ interactions[i] \in Record
  /\ receipts[i][k] = NoReceipt
  /\ CanTransition(interactions[i].state, e)
  /\ interactions' = [interactions EXCEPT
       ![i] = [state |-> Target[e], index |-> interactions[i].index + 1]]
  /\ receipts' = [receipts EXCEPT
       ![i][k] = [after |-> Target[e], index |-> interactions[i].index + 1, event |-> e]]

LEMMA StepCases ==
  ASSUME TypeOK, [Next]_vars
  PROVE  \/ \E i \in Interactions : CreateInteraction(i)
         \/ \E i \in Interactions, e \in Events, k \in Keys : EffectOf(i, e, k)
         \/ UNCHANGED <<interactions, receipts>>
<1>1. ASSUME NEW c \in Callers, NEW i \in Interactions, NEW e \in Events,
             NEW k \in Keys, ApplyFirst(c, i, e, k)
      PROVE  EffectOf(i, e, k)
  <2>1. interactions[i] \in Record
    BY <1>1 DEF ApplyFirst, Exists, TypeOK
  <2>2. interactions[i].state \in States
    BY <2>1 DEF Record
  <2>3. Apply(interactions[i].state, e) = Target[e]
    BY <1>1, <2>2, AcceptedEventAdvances DEF ApplyFirst
  <2> QED BY <1>1, <2>1, <2>3 DEF ApplyFirst, EffectOf
<1>2. ASSUME NEW c \in Callers, NEW i \in Interactions, NEW e \in Events,
             NEW k \in Keys,
             \/ ApplyNotFound(c, i, e, k)
             \/ ApplyReplay(c, i, e, k)
             \/ ApplyInvalid(c, i, e, k)
      PROVE  UNCHANGED <<interactions, receipts>>
  BY <1>2 DEF ApplyNotFound, ApplyReplay, ApplyInvalid
<1>3. UNCHANGED vars => UNCHANGED <<interactions, receipts>>
  BY DEF vars
<1> QED BY <1>1, <1>2, <1>3 DEF Next

-----------------------------------------------------------------------------
(***************************************************************************)
(* No interaction is transitioned more than four times.                    *)
(***************************************************************************)
THEOREM IndexNeverOvertakesRank == Spec => []IndexWithinRank
<1>1. Init => IndexWithinRank
  BY DEF Init, IndexWithinRank, Exists
<1>2. TypeOK /\ IndexWithinRank /\ [Next]_vars => IndexWithinRank'
  <2> SUFFICES ASSUME TypeOK, IndexWithinRank, [Next]_vars PROVE IndexWithinRank'
    OBVIOUS
  <2>1. ASSUME NEW i \in Interactions, CreateInteraction(i) PROVE IndexWithinRank'
    BY <2>1 DEF CreateInteraction, IndexWithinRank, Exists, TypeOK, Rank
  <2>2. ASSUME NEW i \in Interactions, NEW e \in Events, NEW k \in Keys,
               EffectOf(i, e, k)
        PROVE  IndexWithinRank'
    <3>1. /\ interactions[i].state \in States
          /\ interactions[i].index \in Nat
      BY <2>2 DEF EffectOf, Record
    <3>2. interactions[i].index <= Rank[interactions[i].state]
      BY <2>2, SentinelsAreNotEntries DEF IndexWithinRank, Exists, EffectOf
    <3>3. /\ Rank[interactions[i].state] \in Nat
          /\ Rank[Target[e]] \in Nat
          /\ Rank[interactions[i].state] < Rank[Target[e]]
      BY <2>2, <3>1, AcceptedEventAdvances DEF EffectOf
    <3>4. interactions[i].index + 1 <= Rank[Target[e]]
      BY <3>1, <3>2, <3>3
    <3>5. \A j \in Interactions :
            interactions'[j] = IF j = i
                               THEN [state |-> Target[e], index |-> interactions[i].index + 1]
                               ELSE interactions[j]
      BY <2>2 DEF EffectOf, TypeOK
    <3> QED BY <3>4, <3>5 DEF IndexWithinRank, Exists
  <2>3. CASE UNCHANGED <<interactions, receipts>>
    BY <2>3 DEF IndexWithinRank, Exists
  <2> QED BY <2>1, <2>2, <2>3, StepCases
<1> QED BY <1>1, <1>2, TypeCorrect, PTL DEF Spec

-----------------------------------------------------------------------------
(***************************************************************************)
(* The receipts of an interaction tell its life.  The invariant is         *)
(* inductive together with type correctness: a new receipt takes the index *)
(* after the last, and the state it starts from is the one the last        *)
(* receipt led to.  The argument is about one record and its receipts.     *)
(***************************************************************************)
LEMMA LifeBegins ==
  ASSUME NEW rs, IsLife(NoRecord, rs)
  PROVE  IsLife([state |-> "Draft", index |-> 0], rs)
BY DEF IsLife, StateAt, NoRecord

\* The effect of a fresh key adds a last chapter.
LEMMA LifeGoesOn ==
  ASSUME NEW rec \in Record, NEW rs \in [Keys -> Receipt \cup {NoReceipt}],
         NEW e \in Events, NEW k \in Keys,
         IsLife(rec, rs), rs[k] = NoReceipt, CanTransition(rec.state, e)
  PROVE  IsLife([state |-> Target[e], index |-> rec.index + 1],
                [rs EXCEPT ![k] = [after |-> Target[e], index |-> rec.index + 1,
                                   event |-> e]])
<1> DEFINE n == rec.index
           new == [after |-> Target[e], index |-> n + 1, event |-> e]
           ns == [rs EXCEPT ![k] = new]
           nrec == [state |-> Target[e], index |-> n + 1]
<1>1. /\ rec.state \in States /\ n \in Nat
      /\ rec # NoRecord
  BY SentinelsAreNotEntries DEF Record
<1>2. \A j \in Keys : ns[j] = IF j = k THEN new ELSE rs[j]
  OBVIOUS
<1>3. new # NoReceipt /\ nrec # NoRecord
  BY DEF NoReceipt, NoRecord, Target, Events
<1>4. k \notin Used(rs) /\ Used(ns) = Used(rs) \cup {k}
  BY <1>2, <1>3 DEF Used
<1> HIDE DEF ns
<1>5. \A j \in Used(rs) : rs[j].index \in 1 .. n /\ j # k /\ ns[j] = rs[j]
  BY <1>2, <1>4 DEF IsLife, Used
<1>6. \A m \in 0 .. n : StateAt(ns, m) = StateAt(rs, m)
  <2> SUFFICES ASSUME NEW m \in 0 .. n, m # 0
               PROVE  StateAt(ns, m) = StateAt(rs, m)
    BY DEF StateAt
  <2>1. ns[k].index # m
    BY <1>1, <1>2
  <2>2. {j \in Used(ns) : ns[j].index = m} = {j \in Used(rs) : rs[j].index = m}
    BY <1>4, <1>5, <2>1
  <2>3. \A j \in {l \in Used(rs) : rs[l].index = m} : ns[j].after = rs[j].after
    BY <1>5
  <2> QED BY <2>2, <2>3 DEF StateAt
<1>7. Target[e] \in StateAt(ns, n + 1)
  <2>1. k \in {j \in Used(ns) : ns[j].index = n + 1}
    BY <1>1, <1>2, <1>4
  <2>2. ns[k].after = Target[e]
    BY <1>2
  <2> QED BY <1>1, <2>1, <2>2 DEF StateAt
<1>8. ASSUME NEW j \in Used(rs)
      PROVE  /\ ns[j].index \in 1 .. (n + 1)
             /\ ns[j].after = Target[ns[j].event]
             /\ \E s \in StateAt(ns, ns[j].index - 1) : CanTransition(s, ns[j].event)
  <2>1. rs[j].index - 1 \in 0 .. n /\ rs[j].index \in 1 .. (n + 1)
    BY <1>1, <1>5
  <2>2. /\ rs[j].after = Target[rs[j].event]
        /\ \E s \in StateAt(rs, rs[j].index - 1) : CanTransition(s, rs[j].event)
    BY DEF IsLife
  <2> QED BY <1>5, <1>6, <2>1, <2>2
<1>9. /\ ns[k].index \in 1 .. (n + 1)
      /\ ns[k].after = Target[ns[k].event]
      /\ \E s \in StateAt(ns, ns[k].index - 1) : CanTransition(s, ns[k].event)
  <2>1. rec.state \in StateAt(rs, n)
    BY <1>1 DEF IsLife
  <2>2. ns[k].index - 1 = n
    BY <1>1, <1>2
  <2> QED BY <1>1, <1>2, <1>6, <2>1, <2>2
<1>10. \A j, l \in Used(ns) : ns[j].index = ns[l].index => j = l
  <2>1. \A j \in Used(rs) : ns[j].index # ns[k].index
    BY <1>1, <1>2, <1>5
  <2>2. \A j, l \in Used(rs) : ns[j].index = ns[l].index => j = l
    BY <1>5 DEF IsLife
  <2> QED BY <1>4, <2>1, <2>2
<1>11. IsLife(nrec, ns)
  BY <1>3, <1>4, <1>7, <1>8, <1>9, <1>10 DEF IsLife
<1> QED BY <1>11 DEF ns

THEOREM ReceiptsAlwaysTellTheLife == Spec => []ReceiptsTellTheLife
<1>1. Init => ReceiptsTellTheLife
  BY DEF Init, ReceiptsTellTheLife, IsLife, Used
<1>2. TypeOK /\ ReceiptsTellTheLife /\ [Next]_vars => ReceiptsTellTheLife'
  <2> SUFFICES ASSUME TypeOK, ReceiptsTellTheLife, [Next]_vars,
                      NEW i \in Interactions
               PROVE  IsLife(interactions'[i], receipts'[i])
    BY DEF ReceiptsTellTheLife
  <2>1. IsLife(interactions[i], receipts[i])
    BY DEF ReceiptsTellTheLife
  <2>2. ASSUME NEW j \in Interactions, CreateInteraction(j)
        PROVE  IsLife(interactions'[i], receipts'[i])
    <3>1. receipts'[i] = receipts[i]
      BY <2>2 DEF CreateInteraction
    <3>2. CASE i = j
      <4>1. /\ interactions[i] = NoRecord
            /\ interactions'[i] = [state |-> "Draft", index |-> 0]
        BY <2>2, <3>2 DEF CreateInteraction, Exists, TypeOK
      <4> QED BY <2>1, <3>1, <4>1, LifeBegins
    <3>3. CASE i # j
      BY <2>1, <2>2, <3>1, <3>3 DEF CreateInteraction, TypeOK
    <3> QED BY <3>2, <3>3
  <2>3. ASSUME NEW j \in Interactions, NEW e \in Events, NEW k \in Keys,
               EffectOf(j, e, k)
        PROVE  IsLife(interactions'[i], receipts'[i])
    <3>1. CASE i = j
      <4>1. /\ interactions[i] \in Record
            /\ receipts[i] \in [Keys -> Receipt \cup {NoReceipt}]
        BY <2>3, <3>1 DEF EffectOf, TypeOK
      <4>2. /\ interactions'[i] =
                 [state |-> Target[e], index |-> interactions[i].index + 1]
            /\ receipts'[i] = [receipts[i] EXCEPT ![k] =
                 [after |-> Target[e], index |-> interactions[i].index + 1, event |-> e]]
        BY <2>3, <3>1 DEF EffectOf, TypeOK
      <4>3. receipts[i][k] = NoReceipt /\ CanTransition(interactions[i].state, e)
        BY <2>3, <3>1 DEF EffectOf
      <4> QED BY <2>1, <4>1, <4>2, <4>3, LifeGoesOn
    <3>2. CASE i # j
      BY <2>1, <2>3, <3>2 DEF EffectOf, TypeOK
    <3> QED BY <3>1, <3>2
  <2>4. CASE UNCHANGED <<interactions, receipts>>
    BY <2>1, <2>4
  <2> QED BY <2>2, <2>3, <2>4, StepCases
<1> QED BY <1>1, <1>2, TypeCorrect, PTL DEF Spec

-----------------------------------------------------------------------------
(***************************************************************************)
(* Answers agree.  The strengthening: an answer that tells of an effect is *)
(* the content of the receipt its key left, and a first use of a key comes *)
(* before every answer about that key.                                     *)
(***************************************************************************)
Effective(x) == x # NoAnswer /\ x.outcome \in {"Applied", "AlreadyApplied"}

AnswersBacked ==
  \A c \in Callers :
    LET x == result[c]
    IN  Effective(x) => /\ receipts[x.id][x.key] # NoReceipt
                        /\ x.after = receipts[x.id][x.key].after
                        /\ x.index = receipts[x.id][x.key].index

OneFirst ==
  \A c, d \in Callers :
    (/\ c # d
     /\ Effective(result[c]) /\ Effective(result[d])
     /\ result[c].id = result[d].id /\ result[c].key = result[d].key)
    => ~(result[c].outcome = "Applied" /\ result[d].outcome = "Applied")

LEMMA BackedAnswersAgree ==
  AnswersBacked /\ OneFirst => AnswersAgree
BY DEF AnswersBacked, OneFirst, AnswersAgree, Effective

LEMMA AnswerFields ==
  ASSUME NEW i, NEW e, NEW k, NEW o, NEW b, NEW a, NEW n
  PROVE  LET x == Answer(i, e, k, o, b, a, n)
         IN  /\ x.id = i /\ x.key = k /\ x.outcome = o /\ x.after = a /\ x.index = n
             /\ Effective(x) => o \in {"Applied", "AlreadyApplied"}
BY DEF Answer, Effective

THEOREM AnswersAlwaysAgree == Spec => []AnswersAgree
<1>1. Init => AnswersBacked /\ OneFirst
  BY DEF Init, AnswersBacked, OneFirst, Effective
<1>2. TypeOK /\ AnswersBacked /\ OneFirst /\ [Next]_vars => (AnswersBacked /\ OneFirst)'
  <2> SUFFICES ASSUME TypeOK, AnswersBacked, OneFirst, [Next]_vars
               PROVE  AnswersBacked' /\ OneFirst'
    OBVIOUS
  <2>0. \A c \in Callers : Effective(result[c]) =>
          result[c].id \in Interactions /\ result[c].key \in Keys
    BY DEF TypeOK, Answers, Effective
  <2>1. ASSUME NEW i \in Interactions, CreateInteraction(i)
        PROVE  AnswersBacked' /\ OneFirst'
    BY <2>1 DEF CreateInteraction, AnswersBacked, OneFirst, Effective
  <2>2. ASSUME NEW c \in Callers, NEW i \in Interactions, NEW e \in Events,
               NEW k \in Keys,
               ApplyNotFound(c, i, e, k) \/ ApplyInvalid(c, i, e, k)
        PROVE  AnswersBacked' /\ OneFirst'
    <3>1. receipts' = receipts
      BY <2>2 DEF ApplyNotFound, ApplyInvalid
    <3>2. \A d \in Callers : Effective(result'[d]) => result'[d] = result[d]
      BY <2>2 DEF ApplyNotFound, ApplyInvalid, Reply, Effective, Answer, TypeOK
    <3> QED BY <3>1, <3>2 DEF AnswersBacked, OneFirst
  <2>3. ASSUME NEW c \in Callers, NEW i \in Interactions, NEW e \in Events,
               NEW k \in Keys, ApplyReplay(c, i, e, k)
        PROVE  AnswersBacked' /\ OneFirst'
    <3> DEFINE r == receipts[i][k]
               x == Answer(i, e, k, "AlreadyApplied", r.after, r.after, r.index)
    <3>1. receipts' = receipts /\ r # NoReceipt
      BY <2>3 DEF ApplyReplay
    <3>2. \A d \in Callers : result'[d] = IF d = c THEN x ELSE result[d]
      BY <2>3 DEF ApplyReplay, Reply, TypeOK
    <3>3. /\ x.id = i /\ x.key = k /\ x.outcome = "AlreadyApplied"
          /\ x.after = r.after /\ x.index = r.index
      BY AnswerFields
    <3> HIDE DEF x
    <3>4. AnswersBacked'
      BY <3>1, <3>2, <3>3 DEF AnswersBacked
    <3>5. OneFirst'
      BY <3>2, <3>3 DEF OneFirst
    <3> QED BY <3>4, <3>5
  <2>4. ASSUME NEW c \in Callers, NEW i \in Interactions, NEW e \in Events,
               NEW k \in Keys, ApplyFirst(c, i, e, k)
        PROVE  AnswersBacked' /\ OneFirst'
    <3> DEFINE after == Apply(interactions[i].state, e)
               next == interactions[i].index + 1
               r == [after |-> after, index |-> next, event |-> e]
               x == Answer(i, e, k, "Applied", interactions[i].state, after, next)
    <3>1. receipts[i][k] = NoReceipt
      BY <2>4 DEF ApplyFirst
    <3>2. \A j \in Interactions, l \in Keys :
            receipts'[j][l] = IF j = i /\ l = k THEN r ELSE receipts[j][l]
      BY <2>4 DEF ApplyFirst, TypeOK
    <3>3. \A d \in Callers : result'[d] = IF d = c THEN x ELSE result[d]
      BY <2>4 DEF ApplyFirst, Reply, TypeOK
    <3>4. x.id = i /\ x.key = k /\ x.outcome = "Applied" /\ x.after = after /\ x.index = next
      BY AnswerFields
    <3>5. r # NoReceipt /\ r.after = after /\ r.index = next
      BY DEF NoReceipt, Events
    <3> HIDE DEF x, r, after, next
    <3>6. \A d \in Callers : Effective(result[d]) =>
            ~(result[d].id = i /\ result[d].key = k)
      BY <3>1 DEF AnswersBacked
    <3>7. AnswersBacked'
      <4> SUFFICES ASSUME NEW d \in Callers, Effective(result'[d])
                   PROVE  /\ receipts'[result'[d].id][result'[d].key] # NoReceipt
                          /\ result'[d].after = receipts'[result'[d].id][result'[d].key].after
                          /\ result'[d].index = receipts'[result'[d].id][result'[d].key].index
        BY DEF AnswersBacked, Effective
      <4>1. CASE d = c
        <5>1. result'[d] = x /\ receipts'[i][k] = r
          BY <3>2, <3>3, <4>1
        <5> QED BY <3>4, <3>5, <5>1
      <4>2. CASE d # c
        <5>1. result'[d] = result[d] /\ Effective(result[d])
          BY <3>3, <4>2
        <5>2. result[d].id \in Interactions /\ result[d].key \in Keys
          BY <2>0, <5>1
        <5>3. receipts'[result[d].id][result[d].key] = receipts[result[d].id][result[d].key]
          BY <3>2, <3>6, <5>1, <5>2
        <5> QED BY <5>1, <5>3 DEF AnswersBacked
      <4> QED BY <4>1, <4>2
    <3>8. OneFirst'
      BY <3>3, <3>4, <3>6 DEF OneFirst
    <3> QED BY <3>7, <3>8
  <2>5. CASE UNCHANGED vars
    BY <2>5 DEF vars, AnswersBacked, OneFirst, Effective
  <2> QED BY <2>1, <2>2, <2>3, <2>4, <2>5 DEF Next
<1> QED BY <1>1, <1>2, TypeCorrect, BackedAnswersAgree, PTL DEF Spec

-----------------------------------------------------------------------------
(***************************************************************************)
(* The in-memory coordinator implements the contract of its interface,     *)
(* step for step.                                                          *)
(***************************************************************************)
LEMMA SameTypes ==
  /\ Contract!NoRecord = NoRecord
  /\ Contract!NoReceipt = NoReceipt
  /\ Contract!NoAnswer = NoAnswer
  /\ Contract!Target = Target
  /\ Contract!Events = Events
  /\ \A s, e : Contract!CanTransition(s, e) <=> CanTransition(s, e)
  /\ \A i, e, k, o, b, a, n :
       Contract!Answer(i, e, k, o, b, a, n) = Answer(i, e, k, o, b, a, n)
BY DEF Contract!NoRecord, NoRecord, Contract!NoReceipt, NoReceipt,
       Contract!NoAnswer, NoAnswer, Contract!Target, Target,
       Contract!Events, Events, Contract!CanTransition, CanTransition,
       Contract!Answer, Answer

THEOREM ImplementsContract == Spec => ContractSpec
<1>1. Init => Contract!Init
  BY SameTypes DEF Init, Contract!Init
<1>2. TypeOK /\ [Next]_vars => [Contract!Next]_(Contract!vars)
  <2> SUFFICES ASSUME TypeOK, [Next]_vars PROVE [Contract!Next]_(Contract!vars)
    OBVIOUS
  <2>1. ASSUME NEW i \in Interactions, CreateInteraction(i) PROVE Contract!Next
    BY <2>1, SameTypes DEF CreateInteraction, Exists, Contract!Next, Contract!Create
  <2>2. ASSUME NEW c \in Callers, NEW i \in Interactions, NEW e \in Events,
               NEW k \in Keys, ApplyNotFound(c, i, e, k)
        PROVE  Contract!Next
    BY <2>2, SameTypes DEF ApplyNotFound, Exists, Reply, Contract!Next, Contract!NotFound
  <2>3. ASSUME NEW c \in Callers, NEW i \in Interactions, NEW e \in Events,
               NEW k \in Keys, ApplyReplay(c, i, e, k)
        PROVE  Contract!Next
    BY <2>3, SameTypes DEF ApplyReplay, Reply, Contract!Next, Contract!AlreadyApplied
  <2>4. ASSUME NEW c \in Callers, NEW i \in Interactions, NEW e \in Events,
               NEW k \in Keys, ApplyInvalid(c, i, e, k)
        PROVE  Contract!Next
    BY <2>4, SameTypes DEF ApplyInvalid, Exists, Reply, Contract!Next, Contract!Refused
  <2>5. ASSUME NEW c \in Callers, NEW i \in Interactions, NEW e \in Events,
               NEW k \in Keys, ApplyFirst(c, i, e, k)
        PROVE  Contract!Next
    <3>1. interactions[i] # NoRecord /\ interactions[i] \in Record
      BY <2>5, SameTypes DEF ApplyFirst, Exists, TypeOK
    <3>2. interactions[i].state \in States
      BY <3>1 DEF Record
    <3>3. Apply(interactions[i].state, e) = Target[e]
      BY <2>5, <3>2, AcceptedEventAdvances DEF ApplyFirst
    <3>4. Contract!Accepted(i, e)
      BY <2>5, SameTypes DEF ApplyFirst, Contract!Accepted
    <3>5. Contract!Effect(i, e, k)
      BY <2>5, <3>1, <3>3, <3>4, SameTypes DEF ApplyFirst, Contract!Effect
    <3>6. Contract!Applied(c, i, e, k)
      BY <2>5, <3>3, <3>5, SameTypes DEF ApplyFirst, Reply, Contract!Applied
    <3> QED BY <3>6, SameTypes DEF Contract!Next
  <2>6. CASE UNCHANGED vars
    BY <2>6 DEF vars, Contract!vars
  <2> QED BY <2>1, <2>2, <2>3, <2>4, <2>5, <2>6 DEF Next
<1> QED BY <1>1, <1>2, TypeCorrect, PTL DEF Spec, ContractSpec, Contract!Spec

\* The racing contract allows what the strict one allows, and accepts an event
\* in more states.
LEMMA RaceIsWeaker ==
  /\ Race!vars = Contract!vars /\ (Contract!Init <=> Race!Init)
  /\ Race!NoAnswer = Contract!NoAnswer /\ Race!Events = Contract!Events
  /\ Race!Events = Events /\ Race!Target = Contract!Target
  /\ \A i, e, k, o, b, a, n : Race!Answer(i, e, k, o, b, a, n) = Contract!Answer(i, e, k, o, b, a, n)
  /\ \A i : Race!Create(i) <=> Contract!Create(i)
  /\ \A c, i, e, k :
       /\ Race!AlreadyApplied(c, i, e, k) <=> Contract!AlreadyApplied(c, i, e, k)
       /\ Contract!Refused(c, i, e, k) => Race!Refused(c, i, e, k)
       /\ Race!NotFound(c, i, e, k) <=> Contract!NotFound(c, i, e, k)
<1>1. /\ Race!NoRecord = Contract!NoRecord /\ Race!NoReceipt = Contract!NoReceipt
      /\ Race!NoAnswer = Contract!NoAnswer /\ Race!Events = Contract!Events
      /\ Race!Events = Events /\ Race!Target = Contract!Target
  BY DEF Race!NoRecord, Contract!NoRecord, Race!NoReceipt, Contract!NoReceipt,
         Race!NoAnswer, Contract!NoAnswer, Race!Events, Contract!Events, Events,
         Race!Target, Contract!Target
<1>2. \A s, e : Race!CanTransition(s, e) <=> Contract!CanTransition(s, e)
  BY DEF Race!CanTransition, Contract!CanTransition
<1>3. \A i, e, k, o, b, a, n : Race!Answer(i, e, k, o, b, a, n) = Contract!Answer(i, e, k, o, b, a, n)
  BY DEF Race!Answer, Contract!Answer
<1>4. Race!vars = Contract!vars /\ (Contract!Init <=> Race!Init)
  BY <1>1 DEF Race!vars, Contract!vars, Race!Init, Contract!Init
<1>5. \A i : Race!Create(i) <=> Contract!Create(i)
  BY <1>1 DEF Race!Create, Contract!Create
<1>6. \A c, i, e, k : Race!AlreadyApplied(c, i, e, k) <=> Contract!AlreadyApplied(c, i, e, k)
  BY <1>1, <1>3 DEF Race!AlreadyApplied, Contract!AlreadyApplied
<1>7. \A c, i, e, k : Contract!Refused(c, i, e, k) => Race!Refused(c, i, e, k)
  BY <1>1, <1>2, <1>3 DEF Race!Refused, Contract!Refused
<1>8. \A c, i, e, k : Race!NotFound(c, i, e, k) <=> Contract!NotFound(c, i, e, k)
  BY <1>1, <1>3 DEF Race!NotFound, Contract!NotFound
<1> QED BY <1>1, <1>3, <1>4, <1>5, <1>6, <1>7, <1>8

\* The present state is one the interaction has been in.
LEMMA EffectMayRace ==
  ASSUME ReceiptsTellTheLife, NEW i \in Interactions, NEW e, NEW k, Contract!Effect(i, e, k)
  PROVE  Race!Effect(i, e, k)
<1>1. interactions[i] # NoRecord /\ CanTransition(interactions[i].state, e)
  BY SameTypes DEF Contract!Effect, Contract!Accepted
<1>2. interactions[i].state \in Past(receipts[i])
  <2>1. interactions[i].state \in StateAt(receipts[i], interactions[i].index)
    BY <1>1 DEF ReceiptsTellTheLife, IsLife
  <2> QED BY <2>1 DEF StateAt, Past
<1>3. Race!Past(receipts[i]) = Past(receipts[i])
  BY DEF Race!Past, Past, Race!Used, Used, Race!NoReceipt, NoReceipt
<1>4. Race!CanTransition(interactions[i].state, e)
  BY <1>1 DEF Race!CanTransition, CanTransition
<1>5. Race!Accepted(i, e)
  BY <1>2, <1>3, <1>4 DEF Race!Accepted
<1>6. /\ Race!NoRecord = Contract!NoRecord /\ Race!NoReceipt = Contract!NoReceipt
      /\ Race!Target = Contract!Target
  BY DEF Race!NoRecord, Contract!NoRecord, Race!NoReceipt, Contract!NoReceipt,
         Race!Target, Contract!Target
<1> QED BY <1>5, <1>6 DEF Race!Effect, Contract!Effect

\* Whoever is built on a coordinator whose callers race is served by this one
\* too (inmemory_interaction_coordinator.cpp:7-129).
THEOREM ImplementsRacingContract == Spec => RacingContractSpec
<1>1. ASSUME ReceiptsTellTheLife, [Contract!Next]_(Contract!vars)
      PROVE  [Race!Next]_(Race!vars)
  <2>1. \A i \in Interactions : \A e, k : Contract!Effect(i, e, k) => Race!Effect(i, e, k)
    BY <1>1, EffectMayRace
  <2>2. ASSUME NEW i \in Interactions, Contract!Create(i) PROVE Race!Next
    BY <2>2, RaceIsWeaker DEF Race!Next
  <2>3. ASSUME NEW c \in Callers, Contract!Abandoned(c) PROVE Race!Next
    <3>1. Race!Abandoned(c)
      BY <2>1, <2>3, RaceIsWeaker DEF Race!Abandoned, Contract!Abandoned
    <3> QED BY <3>1 DEF Race!Next
  <2>4. ASSUME NEW c \in Callers, NEW i \in Interactions, NEW e \in Events, NEW k \in Keys,
               \/ Contract!AlreadyApplied(c, i, e, k) \/ Contract!Refused(c, i, e, k)
               \/ Contract!NotFound(c, i, e, k)
        PROVE  Race!Next
    BY <2>4, RaceIsWeaker DEF Race!Next
  <2>5. ASSUME NEW c \in Callers, NEW i \in Interactions, NEW e \in Events, NEW k \in Keys,
               Contract!Applied(c, i, e, k)
        PROVE  Race!Next
    <3>1. Race!Applied(c, i, e, k)
      BY <2>1, <2>5, RaceIsWeaker DEF Race!Applied, Contract!Applied
    <3> QED BY <3>1, RaceIsWeaker DEF Race!Next
  <2>6. ASSUME NEW c \in Callers, NEW i \in Interactions, NEW e \in Events, NEW k \in Keys,
               Contract!Failed(c, i, e, k)
        PROVE  Race!Next
    <3>1. Race!Failed(c, i, e, k)
      BY <2>1, <2>6, RaceIsWeaker DEF Race!Failed, Contract!Failed
    <3> QED BY <3>1, RaceIsWeaker DEF Race!Next
  <2>7. CASE UNCHANGED Contract!vars
    BY <2>7 DEF Race!vars, Contract!vars
  <2> QED BY <1>1, <2>2, <2>3, <2>4, <2>5, <2>6, <2>7, RaceIsWeaker DEF Contract!Next
<1>2. Contract!Init => Race!Init
  BY RaceIsWeaker
<1> QED BY <1>1, <1>2, ImplementsContract, ReceiptsAlwaysTellTheLife, PTL
        DEF ContractSpec, RacingContractSpec, Contract!Spec, Race!Spec

-----------------------------------------------------------------------------
LEMMA AnswerNames ==
  \A i, e, k, o, b, a, n :
    /\ Answer(i, e, k, o, b, a, n).id = i /\ Answer(i, e, k, o, b, a, n).key = k
    /\ Answer(i, e, k, o, b, a, n).outcome = o /\ Answer(i, e, k, o, b, a, n).after = a
BY DEF Answer

\* A key that was used is answered from its receipt, whatever event comes with
\* it: apply_transition looks the key up before it validates the event, and an
\* id that is not known has no receipt
\* (inmemory_interaction_coordinator.cpp:15-53).
THEOREM ReplaysAreAlwaysAnswered == Spec => ReplayIsAnswered
<1> DEFINE Answers1 ==
             \A c \in Callers, i \in Interactions, k \in Keys :
               (/\ result'[c] # result[c]
                /\ result'[c] # NoAnswer
                /\ result'[c].id = i /\ result'[c].key = k
                /\ receipts[i][k] # NoReceipt)
               => /\ result'[c].outcome = "AlreadyApplied"
                  /\ result'[c].after = receipts[i][k].after
<1>1. ASSUME TypeOK, ReceiptsTellTheLife, [Next]_vars PROVE Answers1
  <2> SUFFICES ASSUME NEW c \in Callers, result'[c] # result[c],
                      result'[c].id \in Interactions, result'[c].key \in Keys,
                      receipts[result'[c].id][result'[c].key] # NoReceipt
               PROVE  /\ result'[c].outcome = "AlreadyApplied"
                      /\ result'[c].after = receipts[result'[c].id][result'[c].key].after
    OBVIOUS
  <2>1. PICK d \in Callers, i \in Interactions, e \in Events, k \in Keys :
          \/ ApplyNotFound(d, i, e, k) \/ ApplyReplay(d, i, e, k)
          \/ ApplyInvalid(d, i, e, k) \/ ApplyFirst(d, i, e, k)
    BY <1>1 DEF Next, vars, CreateInteraction
  <2>2. PICK o, b, a, n :
          /\ result' = [result EXCEPT ![d] = Answer(i, e, k, o, b, a, n)]
          /\ \/ ~Exists(i)
             \/ receipts[i][k] = NoReceipt
             \/ o = "AlreadyApplied" /\ a = receipts[i][k].after
    BY <2>1 DEF ApplyNotFound, ApplyReplay, ApplyInvalid, ApplyFirst, Reply
  <2>3. d = c /\ result'[c] = Answer(i, e, k, o, b, a, n)
    BY <1>1, <2>2 DEF TypeOK
  <2>4. ~Exists(i) => receipts[i][k] = NoReceipt
    BY <1>1 DEF ReceiptsTellTheLife, IsLife, Exists, Used
  <2> QED BY <2>2, <2>3, <2>4, AnswerNames
<1> HIDE DEF Answers1
<1>2. Spec => [][Answers1]_vars
  BY <1>1, TypeCorrect, ReceiptsAlwaysTellTheLife, PTL DEF Spec
<1> QED BY <1>2 DEF ReplayIsAnswered, Answers1
=============================================================================
