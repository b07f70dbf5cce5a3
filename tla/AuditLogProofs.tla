--------------------------- MODULE AuditLogProofs ---------------------------
(***************************************************************************)
(* What the hash chain guarantees for any number of traces, threads and    *)
(* processes: links always point back, a trace that one thread has to      *)
(* itself is read in order and verifies, over failures and restarts, and a *)
(* trace that verifies does not once it has been tampered with.            *)
(***************************************************************************)
EXTENDS AuditLog, WellFoundedInduction, TLAPS

(***************************************************************************)
(* Numbers: a nonempty set below a bound has a greatest member.            *)
(***************************************************************************)
LEMMA NatHasLeast ==
  ASSUME NEW T, T \subseteq Nat, T # {}
  PROVE  \E x \in T : \A y \in T : x <= y
<1>1. PICK x \in T : \A y \in T : ~(<<y, x>> \in OpToRel(<, Nat))
  BY NatLessThanWellFounded, WFMin, Zenon
<1>2. ASSUME NEW y \in T PROVE x <= y
  <2>1. ~(y < x)
    BY <1>1 DEF OpToRel
  <2> QED BY <2>1
<1> QED BY <1>2

LEMMA BoundedHasGreatest ==
  ASSUME NEW N \in Nat, NEW T, T \subseteq 0 .. N, T # {}
  PROVE  \E x \in T : \A y \in T : y <= x
<1> DEFINE U == {N - n : n \in T}
<1>1. U \subseteq Nat /\ U # {}
  OBVIOUS
<1>2. PICK u \in U : \A v \in U : u <= v
  BY <1>1, NatHasLeast
<1>3. PICK x \in T : u = N - x
  BY <1>2
<1>4. ASSUME NEW y \in T PROVE y <= x
  <2>1. N - x <= N - y
    BY <1>2, <1>3
  <2> QED BY <2>1
<1> QED BY <1>4

-----------------------------------------------------------------------------
(***************************************************************************)
(* Types, with the bound on indices and the traces a thread keeps to.      *)
(***************************************************************************)
IndicesBounded ==
  /\ \A n \in DOMAIN rows : rows[n].idx <= MaxIndex[rows[n].event.trace]
  /\ \A th \in Threads : call[th] # Idle =>
       /\ call[th].idx <= MaxIndex[call[th].event.trace]
       /\ call[th].event.trace \in Uses[th]

TypeInv == TypeOK /\ IndicesBounded

LEMMA RowType ==
  ASSUME TypeInv, NEW n \in DOMAIN rows
  PROVE  /\ n \in 1 .. Len(rows) /\ rows[n] \in Row
         /\ rows[n].event \in Event /\ rows[n].event.trace \in Traces
         /\ rows[n].idx \in 0 .. MaxIndex[rows[n].event.trace]
         /\ rows[n].hash \in Seq(Event)
<1>1. n \in 1 .. Len(rows) /\ rows[n] \in Row
  BY DEF TypeInv, TypeOK
<1>2. rows[n].idx <= MaxIndex[rows[n].event.trace]
  BY DEF TypeInv, IndicesBounded
<1>3. /\ rows[n].event \in Event /\ rows[n].idx \in Nat /\ rows[n].hash \in Seq(Event)
      /\ rows[n].event.trace \in Traces
  BY <1>1 DEF Row, Event, Hashes
<1> QED BY <1>1, <1>2, <1>3, ThreadsAssumption

LEMMA CallType ==
  ASSUME TypeInv, NEW th \in Threads, call[th] # Idle
  PROVE  /\ call[th].event \in Event /\ call[th].event.trace \in Traces
         /\ call[th].event.trace \in Uses[th]
         /\ call[th].idx \in 0 .. MaxIndex[call[th].event.trace]
         /\ call[th].step = "Indexed" \/ (call[th].step = "Linked" /\ call[th].prev \in Hashes)
<1>1. call[th] \in Call
  BY DEF TypeInv, TypeOK
<1>2. /\ call[th].event \in Event /\ call[th].idx \in Nat
      /\ call[th].step = "Indexed" \/ (call[th].step = "Linked" /\ call[th].prev \in Hashes)
  BY <1>1 DEF Call
<1>3. call[th].event.trace \in Traces
  BY <1>2 DEF Event
<1> QED BY <1>2, <1>3, ThreadsAssumption DEF TypeInv, IndicesBounded

(***************************************************************************)
(* Among rows of one trace there is exactly one that comes last, and       *)
(* LastHash is its hash.                                                   *)
(***************************************************************************)
IsLast(n, S) == n \in S /\ \A m \in S : m = n \/ Before(rows, m, n)

LEMMA LastExists ==
  ASSUME TypeInv, NEW t \in Traces, NEW S, S \subseteq Stored(rows, t), S # {}
  PROVE  \E n : IsLast(n, S)
<1> DEFINE I == {rows[n].idx : n \in S}
<1>1. \A n \in S : /\ n \in DOMAIN rows /\ n \in 1 .. Len(rows)
                   /\ rows[n].idx \in 0 .. MaxIndex[t]
  BY RowType DEF Stored
<1>2. I \subseteq 0 .. MaxIndex[t] /\ I # {} /\ MaxIndex[t] \in Nat
  BY <1>1, ThreadsAssumption
<1>3. PICK i \in I : \A j \in I : j <= i
  BY <1>2, BoundedHasGreatest
<1> DEFINE T == {n \in S : rows[n].idx = i}
<1>4. T \subseteq 0 .. Len(rows) /\ T # {} /\ Len(rows) \in Nat
  BY <1>1, <1>3 DEF TypeInv, TypeOK
<1>5. PICK n \in T : \A m \in T : m <= n
  BY <1>4, BoundedHasGreatest
<1>6. ASSUME NEW m \in S PROVE m = n \/ Before(rows, m, n)
  <2>1. rows[m].idx <= i /\ rows[n].idx = i /\ rows[m].idx \in Int /\ i \in Int
    BY <1>1, <1>2, <1>3, <1>5
  <2>2. CASE rows[m].idx = i
    <3>1. m <= n /\ m \in Int /\ n \in Int
      BY <1>1, <1>5, <2>2
    <3> QED BY <2>1, <2>2, <3>1 DEF Before
  <2>3. CASE rows[m].idx # i
    BY <2>1, <2>3 DEF Before
  <2> QED BY <2>2, <2>3
<1> QED BY <1>5, <1>6 DEF IsLast

LEMMA LastUnique ==
  ASSUME TypeInv, NEW S, S \subseteq DOMAIN rows,
         NEW m, NEW n, IsLast(m, S), IsLast(n, S)
  PROVE  m = n
<1>1. /\ m \in Int /\ n \in Int /\ rows[m].idx \in Int /\ rows[n].idx \in Int
  BY RowType DEF IsLast
<1> QED BY <1>1 DEF IsLast, Before

LEMMA LastHashIs ==
  ASSUME TypeInv, NEW t \in Traces, NEW S, S \subseteq Stored(rows, t), S # {}
  PROVE  \E n : IsLast(n, S) /\ LastHash(rows, S) = rows[n].hash
<1> DEFINE last == CHOOSE n \in S : \A m \in S : m = n \/ Before(rows, m, n)
<1>1. IsLast(last, S)
  BY LastExists DEF IsLast
<1>2. LastHash(rows, S) = rows[last].hash
  BY DEF LastHash
<1> QED BY <1>1, <1>2

LEMMA LastHashOf ==
  ASSUME TypeInv, NEW t \in Traces, NEW S, S \subseteq Stored(rows, t), NEW n, IsLast(n, S)
  PROVE  LastHash(rows, S) = rows[n].hash
<1>1. S # {} /\ S \subseteq DOMAIN rows
  BY DEF IsLast, Stored
<1> QED BY <1>1, LastHashIs, LastUnique

LEMMA LastHashType ==
  ASSUME TypeInv, NEW t \in Traces, NEW S, S \subseteq Stored(rows, t)
  PROVE  LastHash(rows, S) \in Hashes
<1>1. CASE S = {}
  BY <1>1 DEF LastHash, Genesis, Hashes
<1>2. CASE S # {}
  BY <1>2, LastHashIs, RowType DEF IsLast, Stored, Hashes
<1> QED BY <1>1, <1>2

(***************************************************************************)
(* NextIndex is above every index in the trace.                            *)
(***************************************************************************)
LEMMA NextIndexIsAhead ==
  ASSUME TypeInv, NEW t \in Traces
  PROVE  /\ NextIndex(rows, t) \in Nat
         /\ \A n \in Stored(rows, t) : rows[n].idx < NextIndex(rows, t)
<1>1. CASE Stored(rows, t) = {}
  BY <1>1 DEF NextIndex
<1>2. CASE Stored(rows, t) # {}
  <2> DEFINE I == {rows[n].idx : n \in Stored(rows, t)}
             i == CHOOSE j \in I : \A n \in Stored(rows, t) : rows[n].idx <= j
  <2>1. I \subseteq 0 .. MaxIndex[t] /\ I # {} /\ MaxIndex[t] \in Nat
    BY <1>2, RowType, ThreadsAssumption DEF Stored
  <2>2. \E j \in I : \A n \in Stored(rows, t) : rows[n].idx <= j
    <3>1. PICK j \in I : \A k \in I : k <= j
      BY <2>1, BoundedHasGreatest
    <3> QED BY <3>1
  <2>3. i \in I /\ \A n \in Stored(rows, t) : rows[n].idx <= i
    BY <2>2
  <2>4. NextIndex(rows, t) = 1 + i
    BY <1>2 DEF NextIndex
  <2> HIDE DEF i
  <2>5. i \in Nat /\ \A n \in Stored(rows, t) : rows[n].idx \in Nat
    BY <2>1, <2>3
  <2> QED BY <2>3, <2>4, <2>5
<1> QED BY <1>1, <1>2

(***************************************************************************)
(* Types are kept.                                                         *)
(***************************************************************************)
LEMMA InitTypeInv == Init => TypeInv
BY DEF Init, TypeInv, TypeOK, IndicesBounded, Call

\* A thread that takes an index, and one that links.
Indexes(th, ev, i) ==
  /\ call[th] = Idle /\ ev \in Event /\ ev.trace \in Uses[th]
  /\ i \in 0 .. MaxIndex[ev.trace]
  /\ next' = [next EXCEPT ![ProcessOf[th]][ev.trace] = i + 1]
  /\ call' = [call EXCEPT ![th] = [step |-> "Indexed", event |-> ev, idx |-> i]]
  /\ UNCHANGED rows

LEMMA ReadIndexIndexes ==
  ASSUME TypeInv, NEW th \in Threads, NEW t \in Uses[th], NEW id \in EventIds,
         NEW ev, ev = [id |-> id, trace |-> t],
         ReadIndex(th, ev) \/ ReadIndexBusy(th, ev)
  PROVE  \E i \in Nat : Indexes(th, ev, i)
<1>1. /\ t \in Traces /\ ev \in Event /\ ev.trace = t /\ ProcessOf[th] \in Processes
      /\ MaxIndex[t] \in Nat
  BY ThreadsAssumption DEF Event
<1>2. next[ProcessOf[th]][t] \in Nat \cup {Uncached}
  BY <1>1 DEF TypeInv, TypeOK
<1>3. ASSUME NEW i \in Nat, TakeIndex(th, ev, i) PROVE Indexes(th, ev, i)
  BY <1>1, <1>3 DEF TakeIndex, Indexes
<1>4. CASE ReadIndexBusy(th, ev)
  BY <1>3, <1>4 DEF ReadIndexBusy
<1>5. CASE ReadIndex(th, ev) /\ next[ProcessOf[th]][t] = Uncached
  <2>1. TakeIndex(th, ev, NextIndex(rows, t))
    BY <1>1, <1>5 DEF ReadIndex
  <2>2. NextIndex(rows, t) \in Nat
    BY <1>1, NextIndexIsAhead
  <2> QED BY <1>3, <2>1, <2>2
<1>6. CASE ReadIndex(th, ev) /\ next[ProcessOf[th]][t] # Uncached
  BY <1>1, <1>2, <1>3, <1>6 DEF ReadIndex
<1> QED BY <1>4, <1>5, <1>6

Links(th, prev) ==
  /\ call[th] # Idle /\ call[th].step = "Indexed" /\ prev \in Hashes
  /\ call' = [call EXCEPT ![th] =
       [step |-> "Linked", event |-> call[th].event, idx |-> call[th].idx, prev |-> prev]]
  /\ UNCHANGED <<rows, next>>

LEMMA ReadHashLinks ==
  ASSUME TypeInv, NEW th \in Threads, ReadHash(th) \/ ReadHashBusy(th)
  PROVE  \E prev \in Hashes :
           /\ Links(th, prev)
           /\ \/ prev = Genesis
              \/ prev = LastHash(rows, Stored(rows, call[th].event.trace))
<1>1. call[th].step = "Indexed" /\ call[th] # Idle
  BY DEF ReadHash, ReadHashBusy, Idle
<1>2. Genesis \in Hashes /\ LastHash(rows, Stored(rows, call[th].event.trace)) \in Hashes
  BY <1>1, CallType, LastHashType DEF Genesis, Hashes
<1> QED BY <1>1, <1>2 DEF ReadHash, ReadHashBusy, Link, Links

\* The row a thread inserts.
NewRow(th) == [event |-> call[th].event, idx |-> call[th].idx, prev |-> call[th].prev,
               hash |-> EventHash(call[th].event, call[th].prev)]

LEMMA InsertAppends ==
  ASSUME TypeInv, NEW th \in Threads, Insert(th)
  PROVE  /\ call[th] # Idle /\ call[th].step = "Linked" /\ call[th].prev \in Hashes
         /\ NewRow(th) \in Row /\ rows' = Append(rows, NewRow(th))
         /\ call' = [call EXCEPT ![th] = Idle]
         /\ UNCHANGED <<next, misread>>
<1>1. call[th].step = "Linked" /\ call[th] # Idle
  BY DEF Insert, Idle
<1>2. call[th].event \in Event /\ call[th].idx \in Nat /\ call[th].prev \in Hashes
  BY <1>1, CallType, ThreadsAssumption
<1>3. EventHash(call[th].event, call[th].prev) \in Hashes
  BY <1>2 DEF EventHash, Hashes
<1>4. NewRow(th) \in Row
  BY <1>2, <1>3 DEF NewRow, Row
<1> QED BY <1>1, <1>2, <1>4 DEF Insert, Return, NewRow

LEMMA NextTypeInv == TypeInv /\ [Next]_vars => TypeInv'
<1> SUFFICES ASSUME TypeInv, [Next]_vars PROVE TypeInv'
  OBVIOUS
<1>t. /\ rows \in Seq(Row)
      /\ next \in [Processes -> [Traces -> Nat \cup {Uncached}]]
      /\ call \in [Threads -> Call]
      /\ misread \subseteq Traces
  BY DEF TypeInv, TypeOK
<1>0. Idle \in Call
  BY DEF Call
<1>1. ASSUME NEW th \in Threads, NEW t \in Uses[th], NEW id \in EventIds,
             \/ ReadIndex(th, [id |-> id, trace |-> t])
             \/ ReadIndexBusy(th, [id |-> id, trace |-> t])
      PROVE  TypeInv'
  <2> DEFINE ev == [id |-> id, trace |-> t]
  <2>1. PICK i \in Nat : Indexes(th, ev, i)
    BY <1>1, ReadIndexIndexes
  <2>2. /\ ev \in Event /\ ev.trace = t /\ t \in Traces /\ misread' \subseteq Traces
    BY <1>1, <1>t, ThreadsAssumption DEF Event, ReadIndex, ReadIndexBusy
  <2>3. [step |-> "Indexed", event |-> ev, idx |-> i] \in Call
    BY <2>2 DEF Call
  <2>4. call' \in [Threads -> Call]
    BY <2>1, <2>3, <1>t DEF Indexes
  <2>5. next' \in [Processes -> [Traces -> Nat \cup {Uncached}]]
    BY <2>1, <2>2, <1>t, ThreadsAssumption DEF Indexes
  <2>6. IndicesBounded'
    <3>1. /\ call'[th] = [step |-> "Indexed", event |-> ev, idx |-> i]
          /\ \A u \in Threads \ {th} : call'[u] = call[u]
      BY <2>1, <1>t DEF Indexes
    <3> HIDE DEF ev
    <3> QED BY <2>1, <2>2, <3>1, ThreadsAssumption DEF Indexes, TypeInv, IndicesBounded
  <2> QED BY <2>1, <2>2, <2>4, <2>5, <2>6, <1>t DEF Indexes, TypeInv, TypeOK
<1>2. ASSUME NEW th \in Threads, ReadHash(th) \/ ReadHashBusy(th) PROVE TypeInv'
  <2>1. PICK prev \in Hashes : Links(th, prev)
    BY <1>2, ReadHashLinks
  <2>2. /\ call[th].event \in Event /\ call[th].idx \in Nat
        /\ call[th].event.trace \in Traces /\ misread' \subseteq Traces
    BY <1>2, <1>t, <2>1, CallType, ThreadsAssumption DEF Links, ReadHash, ReadHashBusy
  <2>3. [step |-> "Linked", event |-> call[th].event, idx |-> call[th].idx, prev |-> prev]
          \in Call
    BY <2>2 DEF Call
  <2>4. /\ call' \in [Threads -> Call] /\ UNCHANGED <<rows, next>>
        /\ call'[th].event = call[th].event /\ call'[th].idx = call[th].idx
        /\ \A u \in Threads \ {th} : call'[u] = call[u]
    BY <2>1, <2>3, <1>t DEF Links
  <2>5. IndicesBounded'
    BY <2>1, <2>4 DEF Links, TypeInv, IndicesBounded
  <2> QED BY <2>2, <2>4, <2>5, <1>t DEF TypeInv, TypeOK
<1>3. ASSUME NEW th \in Threads, Insert(th) PROVE TypeInv'
  <2>1. /\ call[th] # Idle /\ NewRow(th) \in Row /\ rows' = Append(rows, NewRow(th))
        /\ call' = [call EXCEPT ![th] = Idle] /\ UNCHANGED <<next, misread>>
        /\ NewRow(th).event = call[th].event /\ NewRow(th).idx = call[th].idx
    BY <1>3, InsertAppends DEF NewRow
  <2>2. /\ rows' \in Seq(Row)
        /\ \A n \in DOMAIN rows' : \/ n \in DOMAIN rows /\ rows'[n] = rows[n]
                                   \/ rows'[n] = NewRow(th)
    BY <2>1, <1>t
  <2>3. IndicesBounded'
    BY <2>1, <2>2, <1>t DEF TypeInv, IndicesBounded
  <2> QED BY <2>1, <2>2, <2>3, <1>0, <1>t DEF TypeInv, TypeOK
<1>4. ASSUME NEW th \in Threads, InsertFails(th) PROVE TypeInv'
  BY <1>4, <1>0, <1>t DEF InsertFails, Return, TypeInv, TypeOK, IndicesBounded
<1>5. ASSUME NEW p \in Processes, Restart(p) PROVE TypeInv'
  <2>1. next' \in [Processes -> [Traces -> Nat \cup {Uncached}]]
    BY <1>5, <1>t DEF Restart
  <2>2. /\ call' \in [Threads -> Call]
        /\ \A th \in Threads : call'[th] = Idle \/ call'[th] = call[th]
    BY <1>5, <1>0, <1>t DEF Restart
  <2> QED BY <1>5, <2>1, <2>2, <1>t DEF Restart, TypeInv, TypeOK, IndicesBounded
<1>6. CASE UNCHANGED vars
  BY <1>6 DEF vars, TypeInv, TypeOK, IndicesBounded
<1> QED BY <1>1, <1>2, <1>3, <1>4, <1>5, <1>6 DEF Next

LEMMA TypeInvHolds == Spec => []TypeInv
BY InitTypeInv, NextTypeInv, PTL DEF Spec

(***************************************************************************)
(* The table, the caches and the calls keep their types.                   *)
(***************************************************************************)
THEOREM TypeCorrect == Spec => []TypeOK
<1>1. TypeInv => TypeOK
  BY DEF TypeInv
<1> QED BY <1>1, TypeInvHolds, PTL

-----------------------------------------------------------------------------
(***************************************************************************)
(* What an insertion leaves as it was: the rows before it, their order and *)
(* the hash that is last among them.                                       *)
(***************************************************************************)
LEMMA AppendKeeps ==
  ASSUME TypeInv, NEW r \in Row, rows' = Append(rows, r)
  PROVE  /\ DOMAIN rows' = DOMAIN rows \cup {Len(rows) + 1}
         /\ Len(rows) + 1 \notin DOMAIN rows /\ rows'[Len(rows) + 1] = r
         /\ \A n \in DOMAIN rows : rows'[n] = rows[n] /\ n < Len(rows) + 1
         /\ \A t : Stored(rows, t) \subseteq Stored(rows', t)
         /\ \A t : t # r.event.trace => Stored(rows', t) = Stored(rows, t)
         /\ Stored(rows', r.event.trace) =
              Stored(rows, r.event.trace) \cup {Len(rows) + 1}
<1>1. rows \in Seq(Row) /\ Len(rows) \in Nat /\ DOMAIN rows = 1 .. Len(rows)
  BY DEF TypeInv, TypeOK
<1>2. /\ Len(rows') = Len(rows) + 1 /\ DOMAIN rows' = 1 .. Len(rows) + 1
      /\ rows'[Len(rows) + 1] = r
      /\ \A n \in 1 .. Len(rows) : rows'[n] = rows[n]
  BY <1>1
<1>3. /\ DOMAIN rows' = DOMAIN rows \cup {Len(rows) + 1}
      /\ Len(rows) + 1 \notin DOMAIN rows
      /\ \A n \in DOMAIN rows : rows'[n] = rows[n] /\ n < Len(rows) + 1
  BY <1>1, <1>2
<1>4. \A t : Stored(rows, t) \subseteq Stored(rows', t)
  BY <1>3 DEF Stored
<1>5. \A t : t # r.event.trace => Stored(rows', t) = Stored(rows, t)
  BY <1>2, <1>3 DEF Stored
<1>6. Stored(rows', r.event.trace) = Stored(rows, r.event.trace) \cup {Len(rows) + 1}
  BY <1>2, <1>3 DEF Stored
<1> QED BY <1>2, <1>3, <1>4, <1>5, <1>6

LEMMA AppendKeepsLastHash ==
  ASSUME TypeInv, TypeInv', NEW r \in Row, rows' = Append(rows, r),
         NEW t \in Traces, NEW S, S \subseteq Stored(rows, t)
  PROVE  LastHash(rows', S) = LastHash(rows, S)
<1>1. CASE S = {}
  BY <1>1 DEF LastHash
<1>2. CASE S # {}
  <2>1. PICK n : IsLast(n, S) /\ LastHash(rows, S) = rows[n].hash
    BY <1>2, LastHashIs
  <2>2. \A m \in S : rows'[m] = rows[m]
    BY AppendKeeps DEF Stored
  <2>3. IsLast(n, S)'
    BY <2>1, <2>2 DEF IsLast, Before
  <2>4. S \subseteq Stored(rows, t)'
    BY AppendKeeps
  <2>5. LastHash(rows, S)' = rows'[n].hash
    <3>1. \E k : IsLast(k, S)' /\ LastHash(rows, S)' = rows'[k].hash
      <4> DEFINE last == CHOOSE k \in S : \A m \in S : m = k \/ Before(rows', m, k)
      <4>1. n \in S /\ \A m \in S : m = n \/ Before(rows', m, n)
        BY <2>3 DEF IsLast
      <4>2. last \in S /\ \A m \in S : m = last \/ Before(rows', m, last)
        BY <4>1
      <4>3. LastHash(rows', S) = rows'[last].hash
        BY <1>2 DEF LastHash
      <4> HIDE DEF last
      <4> QED BY <4>2, <4>3 DEF IsLast
    <3>2. PICK k : IsLast(k, S)' /\ LastHash(rows, S)' = rows'[k].hash
      BY <3>1
    <3>3. IsLast(k, S)
      BY <2>2, <3>2 DEF IsLast, Before
    <3>4. k = n
      BY <2>1, <3>3, LastUnique DEF Stored
    <3> QED BY <3>2, <3>4
  <2> QED BY <2>1, <2>2, <2>5 DEF IsLast
<1> QED BY <1>1, <1>2

-----------------------------------------------------------------------------
(***************************************************************************)
(* Links point back: what a thread is about to link to is the hash of a    *)
(* row that is stored, and rows are never changed or removed.              *)
(***************************************************************************)
PointsTo(prev, t) ==
  prev = Genesis \/ \E m \in Stored(rows, t) : rows[m].hash = prev

LinkedPointsBack ==
  \A th \in Threads :
    call[th].step = "Linked" => PointsTo(call[th].prev, call[th].event.trace)

LinksInv == LinksPointBack /\ LinkedPointsBack

LEMMA NextLinksInv == TypeInv /\ TypeInv' /\ LinksInv /\ [Next]_vars => LinksInv'
<1> SUFFICES ASSUME TypeInv, TypeInv', LinksInv, [Next]_vars PROVE LinksInv'
  OBVIOUS
<1>t. call \in [Threads -> Call] /\ Idle.step # "Linked"
  BY DEF TypeInv, TypeOK, Idle
<1>0. ASSUME UNCHANGED rows,
             \A th \in Threads : call'[th].step = "Linked" => call'[th] = call[th]
      PROVE  LinksInv'
  BY <1>0 DEF LinksInv, LinksPointBack, LinkedPointsBack, PointsTo
<1>1. ASSUME NEW th \in Threads, NEW t \in Uses[th], NEW id \in EventIds,
             \/ ReadIndex(th, [id |-> id, trace |-> t])
             \/ ReadIndexBusy(th, [id |-> id, trace |-> t])
      PROVE  LinksInv'
  <2>1. PICK i \in Nat : Indexes(th, [id |-> id, trace |-> t], i)
    BY <1>1, ReadIndexIndexes
  <2> QED BY <1>0, <2>1, <1>t DEF Indexes
<1>2. ASSUME NEW th \in Threads, ReadHash(th) \/ ReadHashBusy(th) PROVE LinksInv'
  <2> DEFINE t == call[th].event.trace
  <2>1. PICK prev \in Hashes : /\ Links(th, prev)
                               /\ prev = Genesis \/ prev = LastHash(rows, Stored(rows, t))
    BY <1>2, ReadHashLinks
  <2>2. /\ call'[th].prev = prev /\ call'[th].event = call[th].event
        /\ \A u \in Threads \ {th} : call'[u] = call[u]
        /\ UNCHANGED rows
    BY <2>1, <1>t DEF Links
  <2>3. PointsTo(prev, t)
    <3>1. CASE prev = Genesis \/ Stored(rows, t) = {}
      BY <2>1, <3>1 DEF PointsTo, LastHash
    <3>2. CASE prev = LastHash(rows, Stored(rows, t)) /\ Stored(rows, t) # {}
      <4>1. t \in Traces
        BY <2>1, CallType DEF Links
      <4>2. PICK n : IsLast(n, Stored(rows, t)) /\ prev = rows[n].hash
        BY <3>2, <4>1, LastHashIs
      <4> QED BY <4>2 DEF IsLast, PointsTo
    <3> QED BY <2>1, <3>1, <3>2
  <2> QED BY <2>2, <2>3 DEF LinksInv, LinksPointBack, LinkedPointsBack, PointsTo
<1>3. ASSUME NEW th \in Threads, Insert(th) PROVE LinksInv'
  <2> DEFINE r == NewRow(th)
  <2>1. /\ call[th].step = "Linked" /\ r \in Row /\ rows' = Append(rows, r)
        /\ call' = [call EXCEPT ![th] = Idle]
    BY <1>3, InsertAppends
  <2>2. /\ r.event = call[th].event /\ r.prev = call[th].prev
        /\ r.hash = EventHash(r.event, r.prev)
    BY DEF NewRow
  <2> HIDE DEF r
  <2>3. \A u \in Threads : call'[u].step = "Linked" => call'[u] = call[u]
    BY <2>1, <1>t
  <2>4. \A prev, t : PointsTo(prev, t) => PointsTo(prev, t)'
    BY <2>1, AppendKeeps DEF PointsTo, Stored
  <2>5. LinkedPointsBack'
    BY <2>3, <2>4 DEF LinksInv, LinkedPointsBack
  <2>6. PointsTo(r.prev, r.event.trace)
    BY <2>1, <2>2 DEF LinksInv, LinkedPointsBack
  <2>7. LinksPointBack'
    <3> SUFFICES ASSUME NEW n \in DOMAIN rows'
                 PROVE  /\ rows'[n].hash = EventHash(rows'[n].event, rows'[n].prev)
                        /\ \/ rows'[n].prev = Genesis
                           \/ \E m \in Stored(rows', rows'[n].event.trace) :
                                m < n /\ rows'[m].hash = rows'[n].prev
      BY DEF LinksPointBack
    <3>1. CASE n \in DOMAIN rows
      <4>1. /\ rows'[n] = rows[n]
            /\ Stored(rows, rows[n].event.trace) \subseteq Stored(rows', rows[n].event.trace)
            /\ \A m \in Stored(rows, rows[n].event.trace) : rows'[m] = rows[m]
        BY <2>1, <3>1, AppendKeeps DEF Stored
      <4> QED BY <3>1, <4>1 DEF LinksInv, LinksPointBack
    <3>2. CASE n = Len(rows) + 1
      <4>1. /\ rows'[n] = r
            /\ \A m \in Stored(rows, r.event.trace) :
                 /\ rows'[m] = rows[m] /\ m < n /\ m \in Stored(rows', r.event.trace)
        BY <2>1, <3>2, AppendKeeps DEF Stored
      <4> QED BY <2>2, <2>6, <4>1 DEF PointsTo
    <3> QED BY <2>1, <3>1, <3>2, AppendKeeps
  <2> QED BY <2>5, <2>7 DEF LinksInv
<1>4. ASSUME NEW th \in Threads, InsertFails(th) PROVE LinksInv'
  BY <1>0, <1>4, <1>t DEF InsertFails, Return
<1>5. ASSUME NEW p \in Processes, Restart(p) PROVE LinksInv'
  BY <1>0, <1>5, <1>t DEF Restart
<1>6. CASE UNCHANGED vars
  BY <1>0, <1>6 DEF vars
<1> QED BY <1>1, <1>2, <1>3, <1>4, <1>5, <1>6 DEF Next

(***************************************************************************)
(* However appends race, fail or read past a lock: every stored event is   *)
(* linked to the start of its trace or to an event stored before it there, *)
(* and its hash covers it and its link.                                    *)
(***************************************************************************)
THEOREM LinksAlwaysPointBack == Spec => []LinksPointBack
<1>1. Init => LinksInv
  BY DEF Init, LinksInv, LinksPointBack, LinkedPointsBack, Idle
<1>2. LinksInv => LinksPointBack
  BY DEF LinksInv
<1> QED BY <1>1, <1>2, TypeInvHolds, NextLinksInv, PTL DEF Spec

-----------------------------------------------------------------------------
(***************************************************************************)
(* A private trace.  Its thread is always ahead of it: the index it is     *)
(* about to use, and the next one its process remembers, are above all     *)
(* that are stored, so that each insertion comes last; and what it is      *)
(* about to link to is the last of the stored hashes.                      *)
(***************************************************************************)
Above(i, t) == \A n \in Stored(rows, t) : rows[n].idx < i

CacheAhead(th, t) ==
  next[ProcessOf[th]][t] # Uncached => Above(next[ProcessOf[th]][t], t)

CallAhead(th, t) ==
  call[th] # Idle /\ call[th].event.trace = t =>
    /\ Above(call[th].idx, t)
    /\ next[ProcessOf[th]][t] # Uncached /\ call[th].idx < next[ProcessOf[th]][t]

LinkIsLast(th, t) ==
  call[th].step = "Linked" /\ call[th].event.trace = t =>
    call[th].prev = LastHash(rows, Stored(rows, t))

InOrder(t) == \A m, n \in Stored(rows, t) : m < n => rows[m].idx < rows[n].idx

Sound(t) ==
  /\ InOrder(t) /\ Verifies(rows, t)
  /\ \A th \in Threads : t \in Uses[th] =>
       CacheAhead(th, t) /\ CallAhead(th, t) /\ LinkIsLast(th, t)

PrivateInv == \A t \in Traces : Private(t) => Sound(t)

(***************************************************************************)
(* A trace is sound after a step that stores nothing in it and leaves its  *)
(* thread where it was, or idle, possibly without the cache.               *)
(***************************************************************************)
LEMMA SoundKept ==
  ASSUME NEW t \in Traces, Sound(t), UNCHANGED rows,
         \A th \in Threads : t \in Uses[th] =>
           \/ /\ call'[th] = call[th]
              /\ next'[ProcessOf[th]][t] = next[ProcessOf[th]][t]
           \/ /\ call'[th] = Idle \/ call'[th].event.trace # t
              /\ call'[th] = Idle \/ call'[th].step # "Linked" \/ call'[th].event.trace # t
              /\ next'[ProcessOf[th]][t] \in {Uncached, next[ProcessOf[th]][t]}
  PROVE  Sound(t)'
<1>1. Idle.step # "Linked"
  BY DEF Idle
<1>2. InOrder(t)' /\ Verifies(rows, t)'
  BY DEF Sound, InOrder
<1>3. ASSUME NEW th \in Threads, t \in Uses[th]
      PROVE  (CacheAhead(th, t) /\ CallAhead(th, t) /\ LinkIsLast(th, t))'
  <2>1. CacheAhead(th, t) /\ CallAhead(th, t) /\ LinkIsLast(th, t)
    BY <1>3 DEF Sound
  <2>2. CASE call'[th] = call[th] /\ next'[ProcessOf[th]][t] = next[ProcessOf[th]][t]
    BY <2>1, <2>2 DEF CacheAhead, CallAhead, LinkIsLast, Above
  <2>3. CASE /\ call'[th] = Idle \/ call'[th].event.trace # t
             /\ next'[ProcessOf[th]][t] \in {Uncached, next[ProcessOf[th]][t]}
    BY <2>1, <2>3, <1>1 DEF CacheAhead, CallAhead, LinkIsLast, Above
  <2> QED BY <1>3, <2>2, <2>3
<1> QED BY <1>2, <1>3 DEF Sound

(***************************************************************************)
(* The rows of a trace verify after an insertion that comes last.          *)
(***************************************************************************)
LEMMA InsertLastVerifies ==
  ASSUME TypeInv, TypeInv', NEW r \in Row, rows' = Append(rows, r),
         NEW t \in Traces, r.event.trace = t, Verifies(rows, t), InOrder(t), Above(r.idx, t),
         r.prev = LastHash(rows, Stored(rows, t)), r.hash = EventHash(r.event, r.prev)
  PROVE  Verifies(rows, t)' /\ InOrder(t)'
<1> DEFINE N == Len(rows) + 1
<1>1. /\ Stored(rows', t) = Stored(rows, t) \cup {N} /\ N \notin DOMAIN rows /\ rows'[N] = r
      /\ \A n \in Stored(rows, t) : rows'[n] = rows[n] /\ n \in DOMAIN rows /\ n < N
  BY AppendKeeps DEF Stored
<1> HIDE DEF N
<1>2. /\ r.idx \in Nat /\ N \in Int
      /\ \A n \in Stored(rows, t) : rows[n].idx \in Nat /\ n \in Int
  <2>1. N \in DOMAIN rows'
    BY <1>1 DEF Stored
  <2>2. N \in Int
    BY <2>1 DEF TypeInv, TypeOK
  <2>3. \A n \in Stored(rows, t) : rows[n].idx \in Nat /\ n \in Int
    BY <1>1, RowType, ThreadsAssumption
  <2> QED BY <2>2, <2>3 DEF Row
<1>3. InOrder(t)'
  <2> SUFFICES ASSUME NEW m \in Stored(rows', t), NEW n \in Stored(rows', t), m < n
               PROVE  rows'[m].idx < rows'[n].idx
    BY DEF InOrder
  <2>1. m \in Stored(rows, t)
    BY <1>1, <1>2
  <2>2. CASE n \in Stored(rows, t)
    BY <1>1, <2>1, <2>2 DEF InOrder
  <2>3. CASE n = N
    BY <1>1, <2>1, <2>3 DEF Above
  <2> QED BY <1>1, <2>2, <2>3
<1>4. ASSUME NEW n \in Stored(rows, t)
      PROVE  /\ rows'[n].prev =
                  LastHash(rows', {m \in Stored(rows', t) : Before(rows', m, n)})
             /\ rows'[n].hash = EventHash(rows'[n].event, rows'[n].prev)
  <2> DEFINE S == {m \in Stored(rows, t) : Before(rows, m, n)}
  <2>1. {m \in Stored(rows', t) : Before(rows', m, n)} = S
    <3>1. ~Before(rows', N, n)
      BY <1>1, <1>2 DEF Before, Above
    <3>2. \A m \in Stored(rows, t) : Before(rows', m, n) <=> Before(rows, m, n)
      BY <1>1 DEF Before
    <3> QED BY <1>1, <3>1, <3>2
  <2>2. LastHash(rows', S) = LastHash(rows, S)
    BY AppendKeepsLastHash
  <2>3. rows[n].prev = LastHash(rows, S) /\ rows[n].hash = EventHash(rows[n].event, rows[n].prev)
    BY DEF Verifies
  <2> QED BY <1>1, <2>1, <2>2, <2>3
<1>5. /\ rows'[N].prev = LastHash(rows', {m \in Stored(rows', t) : Before(rows', m, N)})
      /\ rows'[N].hash = EventHash(rows'[N].event, rows'[N].prev)
  <2>1. {m \in Stored(rows', t) : Before(rows', m, N)} = Stored(rows, t)
    <3>1. ~Before(rows', N, N)
      BY <1>1, <1>2 DEF Before
    <3>2. \A m \in Stored(rows, t) : Before(rows', m, N)
      BY <1>1, <1>2 DEF Before, Above
    <3> QED BY <1>1, <3>1, <3>2
  <2>2. LastHash(rows', Stored(rows, t)) = LastHash(rows, Stored(rows, t))
    BY AppendKeepsLastHash
  <2> QED BY <1>1, <2>1, <2>2
<1>6. Verifies(rows', t)
  <2>1. \A n \in Stored(rows', t) : n = N \/ n \in Stored(rows, t)
    BY <1>1
  <2> SUFFICES ASSUME NEW n \in Stored(rows', t)
               PROVE  /\ rows'[n].prev =
                           LastHash(rows', {m \in Stored(rows', t) : Before(rows', m, n)})
                      /\ rows'[n].hash = EventHash(rows'[n].event, rows'[n].prev)
    BY DEF Verifies
  <2>2. CASE n = N
    BY <1>5, <2>2
  <2>3. CASE n \in Stored(rows, t)
    BY <1>4, <2>3
  <2> QED BY <2>1, <2>2, <2>3
<1> QED BY <1>3, <1>6

LEMMA InsertKeepsPrivate ==
  ASSUME TypeInv, TypeInv', NEW th \in Threads, Insert(th),
         NEW t \in Traces, Private(t), Sound(t)
  PROVE  Sound(t)'
<1> DEFINE r == NewRow(th)
<1>1. /\ call[th] # Idle /\ call[th].step = "Linked"
      /\ r \in Row /\ rows' = Append(rows, r)
      /\ call' = [call EXCEPT ![th] = Idle] /\ UNCHANGED <<next, misread>>
  BY InsertAppends
<1>2. /\ r.event = call[th].event /\ r.idx = call[th].idx /\ r.prev = call[th].prev
      /\ r.hash = EventHash(r.event, r.prev)
  BY DEF NewRow
<1> HIDE DEF r
<1>3. /\ call \in [Threads -> Call] /\ Idle.step # "Linked"
      /\ call[th].event.trace \in Uses[th] /\ call[th].event.trace \in Traces
  BY <1>1, CallType DEF TypeInv, TypeOK, Idle
<1>4. call'[th] = Idle /\ \A u \in Threads \ {th} : call'[u] = call[u]
  BY <1>1, <1>3
<1>5. CASE r.event.trace = t
  <2>1. t \in Uses[th]
    BY <1>2, <1>3, <1>5
  <2>2. CacheAhead(th, t) /\ CallAhead(th, t) /\ LinkIsLast(th, t) /\ InOrder(t) /\ Verifies(rows, t)
    BY <2>1 DEF Sound
  <2>3. /\ Above(r.idx, t) /\ r.prev = LastHash(rows, Stored(rows, t))
        /\ next[ProcessOf[th]][t] # Uncached /\ r.idx < next[ProcessOf[th]][t]
    BY <1>1, <1>2, <1>5, <2>2 DEF CallAhead, LinkIsLast
  <2>4. Verifies(rows, t)' /\ InOrder(t)'
    BY <1>1, <1>2, <1>5, <2>2, <2>3, InsertLastVerifies
  <2>5. \A u \in Threads : t \in Uses[u] => u = th
    BY <2>1 DEF Private
  <2>6. CacheAhead(th, t)'
    <3>1. Above(next[ProcessOf[th]][t], t)
      BY <2>2, <2>3 DEF CacheAhead
    <3>2. \A n \in Stored(rows', t) :
            \/ n \in Stored(rows, t) /\ rows'[n] = rows[n]
            \/ rows'[n] = r
      BY <1>1, <1>5, AppendKeeps DEF Stored
    <3> QED BY <1>1, <2>3, <3>1, <3>2 DEF CacheAhead, Above
  <2>7. CallAhead(th, t)' /\ LinkIsLast(th, t)'
    BY <1>3, <1>4 DEF CallAhead, LinkIsLast
  <2> QED BY <2>4, <2>5, <2>6, <2>7 DEF Sound
<1>6. CASE r.event.trace # t
  <2>1. /\ Stored(rows', t) = Stored(rows, t)
        /\ \A n \in Stored(rows, t) : rows'[n] = rows[n]
    BY <1>1, <1>6, AppendKeeps DEF Stored
  <2>2. InOrder(t)' /\ \A i : Above(i, t) => Above(i, t)'
    BY <2>1 DEF Sound, InOrder, Above
  <2>3. LastHash(rows, Stored(rows, t))' = LastHash(rows, Stored(rows, t))
    BY <1>1, <2>1, AppendKeepsLastHash
  <2>4. Verifies(rows', t)
    <3> SUFFICES ASSUME NEW n \in Stored(rows', t)
                 PROVE  /\ rows'[n].prev =
                             LastHash(rows', {m \in Stored(rows', t) : Before(rows', m, n)})
                        /\ rows'[n].hash = EventHash(rows'[n].event, rows'[n].prev)
      BY DEF Verifies
    <3> DEFINE S == {m \in Stored(rows, t) : Before(rows, m, n)}
    <3>1. {m \in Stored(rows', t) : Before(rows', m, n)} = S
      BY <2>1 DEF Before
    <3>2. LastHash(rows', S) = LastHash(rows, S)
      BY <1>1, AppendKeepsLastHash
    <3>3. rows[n].prev = LastHash(rows, S) /\ rows[n].hash = EventHash(rows[n].event, rows[n].prev)
      BY <2>1 DEF Sound, Verifies
    <3> QED BY <2>1, <3>1, <3>2, <3>3
  <2>5. ASSUME NEW u \in Threads, t \in Uses[u]
        PROVE  (CacheAhead(u, t) /\ CallAhead(u, t) /\ LinkIsLast(u, t))'
    <3>1. CacheAhead(u, t) /\ CallAhead(u, t) /\ LinkIsLast(u, t)
      BY <2>5 DEF Sound
    <3>2. CacheAhead(u, t)'
      BY <1>1, <2>2, <3>1 DEF CacheAhead, Above
    <3>3. CallAhead(u, t)'
      BY <1>1, <1>4, <2>2, <3>1 DEF CallAhead, Above
    <3>4. LinkIsLast(u, t)'
      BY <1>3, <1>4, <2>3, <3>1 DEF LinkIsLast
    <3> QED BY <3>2, <3>3, <3>4
  <2> QED BY <2>2, <2>4, <2>5 DEF Sound
<1> QED BY <1>5, <1>6

LEMMA IndexesKeepsPrivate ==
  ASSUME TypeInv, NEW th \in Threads, NEW t \in Uses[th], NEW id \in EventIds,
         NEW ev, ev = [id |-> id, trace |-> t],
         ReadIndex(th, ev) \/ ReadIndexBusy(th, ev),
         NEW u \in Traces, Private(u), Private(u)', Sound(u)
  PROVE  Sound(u)'
<1> DEFINE p == ProcessOf[th]
<1>1. /\ t \in Traces /\ ev.trace = t /\ p \in Processes
      /\ next \in [Processes -> [Traces -> Nat \cup {Uncached}]]
      /\ call \in [Threads -> Call]
  BY ThreadsAssumption DEF TypeInv, TypeOK
<1>2. PICK i \in Nat : Indexes(th, ev, i)
  BY ReadIndexIndexes
<1>3. /\ next' = [next EXCEPT ![p][t] = i + 1]
      /\ call' = [call EXCEPT ![th] = [step |-> "Indexed", event |-> ev, idx |-> i]]
      /\ UNCHANGED rows
  BY <1>1, <1>2 DEF Indexes
<1>4. /\ call'[th].step = "Indexed" /\ call'[th].event = ev /\ call'[th].idx = i
      /\ call'[th] # Idle
      /\ \A a \in Threads \ {th} : call'[a] = call[a]
      /\ next'[p][t] = i + 1
      /\ \A q \in Processes, v \in Traces : q # p \/ v # t => next'[q][v] = next[q][v]
  BY <1>1, <1>3 DEF Idle
<1>5. CASE u # t
  <2>1. \A a \in Threads : u \in Uses[a] =>
          /\ next'[ProcessOf[a]][u] = next[ProcessOf[a]][u]
          /\ call'[a] = call[a] \/ call'[a].event.trace # u
    BY <1>1, <1>4, <1>5, ThreadsAssumption
  <2> QED BY <1>3, <2>1, SoundKept
<1>6. CASE u = t
  <2>1. \A a \in Threads : t \in Uses[a] => a = th
    BY <1>6 DEF Private
  <2>2. ReadIndex(th, ev)
    BY <1>1, <1>6 DEF ReadIndexBusy, Private
  <2>3. CacheAhead(th, t)
    BY <1>6 DEF Sound
  <2>4. Above(i, t)
    <3>1. CASE next[p][t] = Uncached
      <4>1. TakeIndex(th, ev, NextIndex(rows, t))
        BY <1>1, <2>2, <3>1 DEF ReadIndex
      <4>2. call' = [call EXCEPT ![th] = [step |-> "Indexed", event |-> ev,
                                          idx |-> NextIndex(rows, t)]]
        BY <4>1 DEF TakeIndex
      <4>3. i = NextIndex(rows, t)
        BY <1>1, <1>4, <4>2
      <4> QED BY <1>1, <4>3, NextIndexIsAhead DEF Above
    <3>2. CASE next[p][t] # Uncached
      <4>1. TakeIndex(th, ev, next[p][t])
        BY <1>1, <2>2, <3>2 DEF ReadIndex
      <4>2. call' = [call EXCEPT ![th] = [step |-> "Indexed", event |-> ev, idx |-> next[p][t]]]
        BY <4>1 DEF TakeIndex
      <4>3. i = next[p][t]
        BY <1>1, <1>4, <4>2
      <4> QED BY <2>3, <3>2, <4>3 DEF CacheAhead
    <3> QED BY <3>1, <3>2
  <2>5. \A n \in Stored(rows, t) : rows[n].idx \in Nat
    BY RowType, ThreadsAssumption DEF Stored
  <2>6. CacheAhead(th, t)'
    BY <1>3, <1>4, <2>4, <2>5 DEF CacheAhead, Above
  <2>7. CallAhead(th, t)'
    BY <1>3, <1>4, <2>4 DEF CallAhead, Above, Uncached
  <2>8. LinkIsLast(th, t)'
    BY <1>4 DEF LinkIsLast
  <2>9. InOrder(t)' /\ Verifies(rows, t)'
    BY <1>3, <1>6 DEF Sound, InOrder
  <2> QED BY <1>6, <2>1, <2>6, <2>7, <2>8, <2>9 DEF Sound
<1> QED BY <1>5, <1>6

LEMMA LinksKeepsPrivate ==
  ASSUME TypeInv, NEW th \in Threads, ReadHash(th) \/ ReadHashBusy(th),
         NEW t \in Traces, Private(t), Private(t)', Sound(t)
  PROVE  Sound(t)'
<1> DEFINE u == call[th].event.trace
<1>1. PICK prev \in Hashes : Links(th, prev)
  BY ReadHashLinks
<1>2. /\ call \in [Threads -> Call] /\ call[th] # Idle /\ UNCHANGED <<rows, next>>
      /\ call' = [call EXCEPT ![th] = [step |-> "Linked", event |-> call[th].event,
                                       idx |-> call[th].idx, prev |-> prev]]
      /\ u \in Uses[th] /\ u \in Traces /\ call[th].idx \in Nat
  BY <1>1, CallType, ThreadsAssumption DEF Links, TypeInv, TypeOK
<1>3. /\ call'[th].step = "Linked" /\ call'[th].event = call[th].event
      /\ call'[th].idx = call[th].idx /\ call'[th].prev = prev
      /\ \A a \in Threads \ {th} : call'[a] = call[a]
  BY <1>2
<1>4. CASE u # t
  <2>1. \A a \in Threads : t \in Uses[a] =>
          /\ next'[ProcessOf[a]][t] = next[ProcessOf[a]][t]
          /\ call'[a] = call[a] \/ call'[a].event.trace # t
    BY <1>2, <1>3, <1>4
  <2> QED BY <1>2, <2>1, SoundKept
<1>5. CASE u = t
  <2>1. \A a \in Threads : t \in Uses[a] => a = th
    BY <1>2, <1>5 DEF Private
  <2>2. CacheAhead(th, t) /\ CallAhead(th, t) /\ InOrder(t) /\ Verifies(rows, t)
    BY <1>2, <1>5 DEF Sound
  <2>3. ReadHash(th)
    BY <1>2, <1>5 DEF ReadHashBusy, Private
  <2>4. call' = [call EXCEPT ![th] =
          [step |-> "Linked", event |-> call[th].event, idx |-> call[th].idx,
           prev |-> IF call[th].idx = 0 THEN Genesis ELSE LastHash(rows, Stored(rows, u))]]
    BY <2>3 DEF ReadHash, Link
  <2>5. prev = IF call[th].idx = 0 THEN Genesis ELSE LastHash(rows, Stored(rows, u))
    BY <1>2, <1>3, <2>4
  <2>6. call[th].idx = 0 => Stored(rows, t) = {}
    <3>1. \A n \in Stored(rows, t) : rows[n].idx \in Nat /\ rows[n].idx < call[th].idx
      BY <1>2, <1>5, <2>2, RowType, ThreadsAssumption DEF CallAhead, Above, Stored
    <3> QED BY <3>1
  <2>7. prev = LastHash(rows, Stored(rows, t))
    BY <1>5, <2>5, <2>6 DEF LastHash
  <2>8. LinkIsLast(th, t)'
    BY <1>2, <1>3, <2>7 DEF LinkIsLast
  <2>9. CacheAhead(th, t)' /\ InOrder(t)' /\ Verifies(rows, t)'
    BY <1>2, <2>2 DEF CacheAhead, InOrder, Above
  <2>10. CallAhead(th, t)'
    BY <1>2, <1>3, <1>5, <2>2 DEF CallAhead, Above
  <2> QED BY <2>1, <2>8, <2>9, <2>10 DEF Sound
<1> QED BY <1>4, <1>5

LEMMA NextPrivateInv == TypeInv /\ TypeInv' /\ PrivateInv /\ [Next]_vars => PrivateInv'
<1> SUFFICES ASSUME TypeInv, TypeInv', PrivateInv, [Next]_vars, NEW t \in Traces, Private(t)'
             PROVE  Sound(t)'
  BY DEF PrivateInv
<1>t. /\ next \in [Processes -> [Traces -> Nat \cup {Uncached}]]
      /\ call \in [Threads -> Call] /\ Idle.step # "Linked"
  BY DEF TypeInv, TypeOK, Idle
<1>0. ASSUME misread \subseteq misread' PROVE Private(t) /\ Sound(t)
  BY <1>0 DEF Private, PrivateInv
<1>1. ASSUME NEW th \in Threads, NEW u \in Uses[th], NEW id \in EventIds,
             \/ ReadIndex(th, [id |-> id, trace |-> u])
             \/ ReadIndexBusy(th, [id |-> id, trace |-> u])
      PROVE  Sound(t)'
  <2>1. Private(t) /\ Sound(t)
    BY <1>0, <1>1 DEF ReadIndex, ReadIndexBusy
  <2> QED BY <1>1, <2>1, IndexesKeepsPrivate
<1>2. ASSUME NEW th \in Threads, ReadHash(th) \/ ReadHashBusy(th) PROVE Sound(t)'
  <2>1. Private(t) /\ Sound(t)
    BY <1>0, <1>2 DEF ReadHash, ReadHashBusy
  <2> QED BY <1>2, <2>1, LinksKeepsPrivate
<1>3. ASSUME NEW th \in Threads, Insert(th) PROVE Sound(t)'
  BY <1>0, <1>3, InsertAppends, InsertKeepsPrivate
<1>4. ASSUME NEW th \in Threads, InsertFails(th) PROVE Sound(t)'
  <2>1. Private(t) /\ Sound(t) /\ UNCHANGED <<rows, next>>
    BY <1>0, <1>4 DEF InsertFails
  <2>2. \A a \in Threads : call'[a] \in {call[a], Idle}
    BY <1>4, <1>t DEF InsertFails, Return
  <2> QED BY <2>1, <2>2, SoundKept
<1>5. ASSUME NEW p \in Processes, Restart(p) PROVE Sound(t)'
  <2>1. Private(t) /\ Sound(t) /\ UNCHANGED rows
    BY <1>0, <1>5 DEF Restart
  <2>2. \A a \in Threads :
          \/ call'[a] = call[a] /\ next'[ProcessOf[a]][t] = next[ProcessOf[a]][t]
          \/ call'[a] = Idle /\ next'[ProcessOf[a]][t] = Uncached
    BY <1>5, <1>t, ThreadsAssumption DEF Restart
  <2> QED BY <2>1, <2>2, SoundKept
<1>6. CASE UNCHANGED vars
  <2>1. Private(t) /\ Sound(t) /\ UNCHANGED <<rows, next, call>>
    BY <1>0, <1>6 DEF vars
  <2> QED BY <2>1, SoundKept
<1> QED BY <1>1, <1>2, <1>3, <1>4, <1>5, <1>6 DEF Next

LEMMA PrivateInvHolds == Spec => []PrivateInv
<1>1. Init => PrivateInv
  BY DEF Init, PrivateInv, Sound, InOrder, Verifies, CacheAhead, CallAhead, LinkIsLast,
         Stored, Above, Idle
<1> QED BY <1>1, TypeInvHolds, NextPrivateInv, PTL DEF Spec

(***************************************************************************)
(* ORDER BY idx returns the events of a private trace in the order of      *)
(* their insertion, over failed insertions and restarts.                   *)
(***************************************************************************)
THEOREM PrivateTracesReadInOrder == Spec => []ReadInOrder
<1>1. PrivateInv => ReadInOrder
  BY DEF PrivateInv, Sound, InOrder, ReadInOrder
<1> QED BY <1>1, PrivateInvHolds, PTL

(***************************************************************************)
(* verify_audit_chain accepts a private trace at every moment.             *)
(***************************************************************************)
THEOREM PrivateTracesVerify == Spec => []PrivateChainsVerify
<1>1. PrivateInv => PrivateChainsVerify
  BY DEF PrivateInv, Sound, PrivateChainsVerify
<1> QED BY <1>1, PrivateInvHolds, PTL

-----------------------------------------------------------------------------
(***************************************************************************)
(* Tampering.  In a chain that verifies hashes grow along the order, so no *)
(* two rows of a trace follow the same hash, and a row that is not the     *)
(* last of its trace is followed by one that names its hash.               *)
(***************************************************************************)
LEMMA RowChain ==
  ASSUME TypeInv, NEW n \in DOMAIN rows, rows[n].hash = EventHash(rows[n].event, rows[n].prev)
  PROVE  /\ rows[n].prev \in Seq(Event) /\ Len(rows[n].prev) \in Nat
         /\ Len(rows[n].hash) = Len(rows[n].prev) + 1
         /\ rows[n].hash # Genesis
<1>1. rows[n] \in Row
  BY RowType
<1>2. rows[n].prev \in Seq(Event) /\ rows[n].event \in Event
  BY <1>1 DEF Row, Hashes
<1> QED BY <1>2 DEF EventHash, Genesis

\* The row that the row k of a verified trace is linked to.
LEMMA HasPrevious ==
  ASSUME TypeInv, NEW t \in Traces, Verifies(rows, t),
         NEW n \in Stored(rows, t), NEW k \in Stored(rows, t), Before(rows, n, k)
  PROVE  \E l \in Stored(rows, t) :
           /\ IsLast(l, {m \in Stored(rows, t) : Before(rows, m, k)})
           /\ l = n \/ Before(rows, n, l)
           /\ rows[k].prev = rows[l].hash
           /\ Len(rows[k].prev) = Len(rows[l].prev) + 1
<1> DEFINE S == {m \in Stored(rows, t) : Before(rows, m, k)}
<1>1. S \subseteq Stored(rows, t) /\ n \in S
  OBVIOUS
<1>2. PICK l : IsLast(l, S) /\ LastHash(rows, S) = rows[l].hash
  BY <1>1, LastHashIs
<1>3. l \in Stored(rows, t) /\ (l = n \/ Before(rows, n, l))
  BY <1>1, <1>2 DEF IsLast
<1>4. rows[k].prev = rows[l].hash
  BY <1>2 DEF Verifies
<1>5. l \in DOMAIN rows /\ rows[l].hash = EventHash(rows[l].event, rows[l].prev)
  BY <1>3 DEF Verifies, Stored
<1> QED BY <1>2, <1>3, <1>4, <1>5, RowChain

LEMMA HashesGrow ==
  ASSUME TypeInv, NEW t \in Traces, Verifies(rows, t),
         NEW n \in Stored(rows, t), NEW k \in Stored(rows, t), Before(rows, n, k)
  PROVE  Len(rows[n].prev) < Len(rows[k].prev)
<1> DEFINE Wrong == {m \in Stored(rows, t) : Before(rows, n, m) /\ Len(rows[m].prev) <= Len(rows[n].prev)}
           Lens == {Len(rows[m].prev) : m \in Wrong}
<1>1. \A m \in Stored(rows, t) : m \in DOMAIN rows /\ Len(rows[m].prev) \in Nat
  BY RowChain DEF Stored, Verifies
<1>2. SUFFICES ASSUME Wrong # {} PROVE FALSE
  BY <1>1
<1>3. Lens \subseteq Nat /\ Lens # {}
  BY <1>1, <1>2
<1>4. PICK x \in Lens : \A y \in Lens : x <= y
  BY <1>3, NatHasLeast
<1>5. PICK m \in Wrong : x = Len(rows[m].prev)
  BY <1>4
<1>m. m \in Stored(rows, t) /\ Before(rows, n, m)
  BY <1>5
<1>6. PICK l \in Stored(rows, t) :
        (l = n \/ Before(rows, n, l)) /\ Len(rows[m].prev) = Len(rows[l].prev) + 1
  BY <1>m, HasPrevious
<1>7. Len(rows[l].prev) < x /\ Len(rows[l].prev) <= Len(rows[n].prev)
  BY <1>1, <1>5, <1>6
<1>8. l # n
  BY <1>1, <1>5, <1>6
<1>9. l \in Wrong
  BY <1>6, <1>7, <1>8
<1> QED BY <1>1, <1>4, <1>5, <1>7, <1>9

\* Rows are in one order: of two rows of a trace one is before the other.
LEMMA BeforeIsTotal ==
  ASSUME TypeInv, NEW m \in DOMAIN rows, NEW n \in DOMAIN rows
  PROVE  /\ m = n \/ Before(rows, m, n) \/ Before(rows, n, m)
         /\ ~(Before(rows, m, n) /\ Before(rows, n, m))
         /\ ~Before(rows, m, m)
<1>1. m \in Int /\ n \in Int /\ rows[m].idx \in Int /\ rows[n].idx \in Int
  BY RowType
<1> QED BY <1>1 DEF Before

LEMMA PrevsDiffer ==
  ASSUME TypeInv, NEW t \in Traces, Verifies(rows, t),
         NEW n \in Stored(rows, t), NEW k \in Stored(rows, t), n # k
  PROVE  Len(rows[n].prev) # Len(rows[k].prev)
<1>1. Before(rows, n, k) \/ Before(rows, k, n)
  BY BeforeIsTotal DEF Stored
<1>2. \A m \in Stored(rows, t) : Len(rows[m].prev) \in Nat
  BY RowChain DEF Stored, Verifies
<1> QED BY <1>1, <1>2, HashesGrow

\* The row right after n.
LEMMA HasNext ==
  ASSUME TypeInv, NEW t \in Traces, Verifies(rows, t),
         NEW n \in Stored(rows, t), NEW m \in Stored(rows, t), Before(rows, n, m)
  PROVE  \E k \in Stored(rows, t) :
           /\ IsLast(n, {l \in Stored(rows, t) : Before(rows, l, k)})
           /\ rows[k].prev = rows[n].hash
<1> DEFINE Later == {k \in Stored(rows, t) : Before(rows, n, k)}
           Lens == {Len(rows[k].prev) : k \in Later}
<1>1. \A k \in Stored(rows, t) : k \in DOMAIN rows /\ Len(rows[k].prev) \in Nat
  BY RowChain DEF Stored, Verifies
<1>2. Lens \subseteq Nat /\ Lens # {}
  BY <1>1
<1>3. PICK x \in Lens : \A y \in Lens : x <= y
  BY <1>2, NatHasLeast
<1>4. PICK k \in Later : x = Len(rows[k].prev)
  BY <1>3
<1>k. k \in Stored(rows, t) /\ Before(rows, n, k)
  BY <1>4
<1>5. PICK l \in Stored(rows, t) :
        /\ IsLast(l, {j \in Stored(rows, t) : Before(rows, j, k)})
        /\ l = n \/ Before(rows, n, l)
        /\ rows[k].prev = rows[l].hash
        /\ Len(rows[k].prev) = Len(rows[l].prev) + 1
  BY <1>k, HasPrevious
<1>6. l \notin Later
  <2> SUFFICES ASSUME l \in Later PROVE FALSE
    OBVIOUS
  <2>1. Len(rows[k].prev) <= Len(rows[l].prev)
    BY <1>3, <1>4
  <2> QED BY <1>1, <1>5, <2>1
<1> QED BY <1>4, <1>5, <1>6

\* Rows that stand elsewhere in another log, in the same order and with the
\* same hashes, have the same last hash there.
LEMMA MovedLastHash ==
  ASSUME TypeInv, NEW t \in Traces, NEW log, NEW S, NEW at,
         \A k \in S : at[k] \in Stored(rows, t) /\ log[k].hash = rows[at[k]].hash,
         \A k, l \in S : at[k] = at[l] => k = l,
         \A k, l \in S : Before(log, k, l) <=> Before(rows, at[k], at[l])
  PROVE  LastHash(log, S) = LastHash(rows, {at[k] : k \in S})
<1>1. CASE S = {}
  BY <1>1 DEF LastHash
<1>2. CASE S # {}
  <2> DEFINE T == {at[k] : k \in S}
             last == CHOOSE n \in S : \A m \in S : m = n \/ Before(log, m, n)
  <2>1. T \subseteq Stored(rows, t) /\ T # {}
    BY <1>2
  <2>2. PICK n : IsLast(n, T) /\ LastHash(rows, T) = rows[n].hash
    BY <2>1, LastHashIs
  <2>3. PICK l \in S : n = at[l]
    BY <2>2 DEF IsLast
  <2>4. \A m \in S : m = l \/ Before(log, m, l)
    BY <2>2, <2>3 DEF IsLast
  <2>5. last \in S /\ \A m \in S : m = last \/ Before(log, m, last)
    BY <2>4
  <2>6. IsLast(at[last], T)
    BY <2>5 DEF IsLast
  <2>7. at[last] = n
    BY <2>1, <2>2, <2>6, LastUnique DEF Stored
  <2>8. LastHash(log, S) = log[last].hash
    BY <1>2 DEF LastHash
  <2> QED BY <2>2, <2>5, <2>7, <2>8
<1> QED BY <1>1, <1>2

LEMMA ReplacementShows ==
  ASSUME TypeInv, NEW t \in Traces, Verifies(rows, t), NEW n \in Stored(rows, t),
         NEW ev \in Event, ev.trace = t, ev # rows[n].event
  PROVE  ~Verifies(Replaced(n, ev), t)
<1> DEFINE log == Replaced(n, ev)
<1>1. n \in DOMAIN rows /\ rows[n] \in Row /\ rows[n].hash = Append(rows[n].prev, rows[n].event)
  BY RowType DEF Stored, Verifies, EventHash
<1>2. /\ DOMAIN log = DOMAIN rows
      /\ log[n].event = ev /\ log[n].prev = rows[n].prev /\ log[n].hash = rows[n].hash
  BY <1>1 DEF Replaced, Row
<1>3. n \in Stored(log, t)
  BY <1>1, <1>2 DEF Stored
<1>4. rows[n].prev \in Seq(Event) /\ rows[n].event \in Event
  BY <1>1 DEF Row, Hashes
<1>5. Append(rows[n].prev, ev) # Append(rows[n].prev, rows[n].event)
  <2> DEFINE prev == rows[n].prev
             old == rows[n].event
  <2>1. Append(prev, ev)[Len(prev) + 1] = ev /\ Append(prev, old)[Len(prev) + 1] = old
    BY <1>4
  <2> QED BY <2>1
<1> HIDE DEF log
<1>6. SUFFICES ASSUME Verifies(log, t) PROVE FALSE
  BY DEF log
<1>7. log[n].hash = Append(log[n].prev, log[n].event)
  BY <1>3, <1>6 DEF Verifies, EventHash
<1> QED BY <1>1, <1>2, <1>5, <1>7

LEMMA ExchangeShows ==
  ASSUME TypeInv, NEW t \in Traces, Verifies(rows, t),
         NEW m \in Stored(rows, t), NEW n \in Stored(rows, t), Before(rows, m, n)
  PROVE  ~Verifies(Exchanged(m, n), t) /\ ~Verifies(Exchanged(n, m), t)
<1>1. /\ m \in DOMAIN rows /\ n \in DOMAIN rows /\ m # n
      /\ rows[m] \in Row /\ rows[n] \in Row
      /\ rows[m].event.trace = t /\ rows[n].event.trace = t
  BY RowType, BeforeIsTotal DEF Stored
<1>2. SUFFICES ASSUME NEW log, log \in {Exchanged(m, n), Exchanged(n, m)}, Verifies(log, t)
               PROVE  FALSE
  OBVIOUS
<1>3. /\ DOMAIN log = DOMAIN rows
      /\ \A k \in DOMAIN rows : log[k].idx = rows[k].idx
      /\ \A k \in DOMAIN rows \ {m, n} : log[k] = rows[k]
      /\ log[m].event = rows[n].event /\ log[m].prev = rows[n].prev
      /\ log[n].event = rows[m].event
  BY <1>1, <1>2 DEF Exchanged, Row
<1>4. \A k, l \in DOMAIN rows : Before(log, k, l) <=> Before(rows, k, l)
  BY <1>3 DEF Before
<1>5. \A k \in DOMAIN rows : log[k].event.trace = t <=> rows[k].event.trace = t
  BY <1>1, <1>3
<1>6. Stored(log, t) = Stored(rows, t)
  BY <1>3, <1>5 DEF Stored
<1> DEFINE S == {k \in Stored(rows, t) : Before(rows, k, m)}
           at == [k \in S |-> k]
<1>7. S \subseteq DOMAIN rows \ {m, n}
  BY <1>1, BeforeIsTotal DEF Stored
<1>8. S = {k \in Stored(log, t) : Before(log, k, m)}
  BY <1>1, <1>4, <1>6 DEF Stored
<1>9. LastHash(log, S) = LastHash(rows, S)
  <2>1. {at[k] : k \in S} = S
    OBVIOUS
  <2>2. \A k \in S : at[k] \in Stored(rows, t) /\ log[k].hash = rows[at[k]].hash
    BY <1>3, <1>7
  <2>3. \A k, l \in S : at[k] = at[l] => k = l
    OBVIOUS
  <2>4. \A k, l \in S : Before(log, k, l) <=> Before(rows, at[k], at[l])
    BY <1>4, <1>7
  <2> HIDE DEF at, S
  <2>5. LastHash(log, S) = LastHash(rows, {at[k] : k \in S})
    BY <2>2, <2>3, <2>4, MovedLastHash
  <2> QED BY <2>1, <2>5
<1>10. log[m].prev = LastHash(log, S)
  BY <1>2, <1>6, <1>8 DEF Verifies
<1>11. rows[m].prev = LastHash(rows, S)
  BY DEF Verifies
<1>12. rows[m].prev = rows[n].prev
  BY <1>3, <1>9, <1>10, <1>11
<1> QED BY <1>1, <1>12, PrevsDiffer

LEMMA RemovedHas ==
  ASSUME TypeInv, NEW n \in DOMAIN rows
  PROVE  /\ DOMAIN Removed(n) = 1 .. Len(rows) - 1
         /\ \A k \in 1 .. n - 1 : Removed(n)[k] = rows[k]
         /\ \A k \in n .. Len(rows) - 1 : Removed(n)[k] = rows[k + 1]
<1> DEFINE N == Len(rows)
           a == SubSeq(rows, 1, n - 1)
           b == SubSeq(rows, n + 1, N)
<1>1. rows \in Seq(Row) /\ N \in Nat /\ n \in 1 .. N
  BY DEF TypeInv, TypeOK
<1>2. a \in Seq(Row) /\ Len(a) = n - 1 /\ \A k \in 1 .. n - 1 : a[k] = rows[k]
  BY <1>1
<1>3. b \in Seq(Row) /\ Len(b) = N - n /\ \A k \in 1 .. N - n : b[k] = rows[k + n]
  BY <1>1
<1> HIDE DEF a, b, N
<1>4. Len(a \o b) = N - 1 /\ a \o b \in Seq(Row)
  <2>1. \A s, u \in Seq(Row) : s \o u \in Seq(Row) /\ Len(s \o u) = Len(s) + Len(u)
    OBVIOUS
  <2>2. a \o b \in Seq(Row) /\ Len(a \o b) = Len(a) + Len(b)
    BY <1>2, <1>3, <2>1, Zenon
  <2>3. (n - 1) + (N - n) = N - 1
    BY <1>1
  <2> QED BY <1>2, <1>3, <2>2, <2>3
<1>5. DOMAIN (a \o b) = 1 .. N - 1
  <2>1. \A s \in Seq(Row) : DOMAIN s = 1 .. Len(s)
    OBVIOUS
  <2> QED BY <1>4, <2>1, Zenon
<1>6. \A k \in 1 .. n - 1 : (a \o b)[k] = a[k]
  BY <1>1, <1>2, <1>3
<1>7. \A k \in n .. N - 1 : (a \o b)[k] = b[k - (n - 1)]
  <2> TAKE k \in n .. N - 1
  <2>1. k \in Int /\ ~(k <= Len(a)) /\ k \in 1 .. Len(a) + Len(b)
    BY <1>1, <1>2, <1>3
  <2>2. (a \o b)[k] = b[k - Len(a)]
    BY <1>2, <1>3, <2>1
  <2> QED BY <1>2, <2>2
<1>8. \A k \in n .. N - 1 : b[k - (n - 1)] = rows[k + 1]
  <2> TAKE k \in n .. N - 1
  <2>1. k - (n - 1) \in 1 .. N - n /\ (k - (n - 1)) + n = k + 1
    BY <1>1
  <2> QED BY <1>3, <2>1
<1> QED BY <1>2, <1>5, <1>6, <1>7, <1>8 DEF Removed, a, b, N

LEMMA RemovalShows ==
  ASSUME TypeInv, NEW t \in Traces, Verifies(rows, t),
         NEW n \in Stored(rows, t), NEW m \in Stored(rows, t), Before(rows, n, m)
  PROVE  ~Verifies(Removed(n), t)
<1> SUFFICES ASSUME Verifies(Removed(n), t) PROVE FALSE
  OBVIOUS
<1> DEFINE log == Removed(n)
           N == Len(rows)
           at == [k \in 1 .. N - 1 |-> IF k < n THEN k ELSE k + 1]
<1>1. /\ n \in DOMAIN rows /\ N \in Nat /\ DOMAIN rows = 1 .. N /\ n \in 1 .. N
      /\ \A k \in Stored(rows, t) : k \in 1 .. N /\ k \in DOMAIN rows
  BY DEF TypeInv, TypeOK, Stored
<1>2. DOMAIN log = 1 .. N - 1 /\ \A k \in 1 .. N - 1 : log[k] = rows[at[k]]
  <2>1. /\ DOMAIN log = 1 .. N - 1
        /\ \A k \in 1 .. n - 1 : log[k] = rows[k]
        /\ \A k \in n .. N - 1 : log[k] = rows[k + 1]
    BY <1>1, RemovedHas
  <2> HIDE DEF log
  <2>2. ASSUME NEW k \in 1 .. N - 1 PROVE log[k] = rows[at[k]]
    BY <1>1, <2>1
  <2> QED BY <2>1, <2>2
<1>3. /\ \A k \in 1 .. N - 1 : at[k] \in 1 .. N /\ at[k] # n
      /\ \A k, l \in 1 .. N - 1 : (k < l <=> at[k] < at[l]) /\ (at[k] = at[l] => k = l)
      /\ \A l \in 1 .. N : l # n => \E k \in 1 .. N - 1 : at[k] = l
  <2>1. \A k \in 1 .. N - 1 : at[k] \in 1 .. N /\ at[k] # n
    BY <1>1
  <2>2. \A k, l \in 1 .. N - 1 : (k < l <=> at[k] < at[l]) /\ (at[k] = at[l] => k = l)
    BY <1>1
  <2>3. ASSUME NEW l \in 1 .. N, l # n PROVE \E k \in 1 .. N - 1 : at[k] = l
    <3>1. CASE l < n
      <4>1. l \in 1 .. N - 1 /\ at[l] = l
        BY <1>1, <3>1
      <4> QED BY <4>1
    <3>2. CASE ~(l < n)
      <4>1. l - 1 \in 1 .. N - 1 /\ at[l - 1] = l
        BY <1>1, <2>3, <3>2
      <4> QED BY <4>1
    <3> QED BY <3>1, <3>2
  <2> QED BY <2>1, <2>2, <2>3
<1> HIDE DEF log, at
<1>4. \A k, l \in 1 .. N - 1 : Before(log, k, l) <=> Before(rows, at[k], at[l])
  BY <1>2, <1>3 DEF Before
<1>5. \A k \in 1 .. N - 1 : k \in Stored(log, t) <=> at[k] \in Stored(rows, t)
  BY <1>1, <1>2, <1>3 DEF Stored
<1>6. PICK k \in Stored(rows, t) :
        IsLast(n, {l \in Stored(rows, t) : Before(rows, l, k)}) /\ rows[k].prev = rows[n].hash
  BY HasNext
<1>7. Before(rows, n, k) /\ k # n
  BY <1>1, <1>6, BeforeIsTotal DEF IsLast
<1>8. PICK j \in 1 .. N - 1 : at[j] = k
  BY <1>1, <1>3, <1>7
<1> DEFINE S == {l \in Stored(log, t) : Before(log, l, j)}
           T == {at[l] : l \in S}
<1>9. S \subseteq 1 .. N - 1 /\ T \subseteq Stored(rows, t)
      /\ \A l \in T : l # n /\ Before(rows, l, k)
  <2>1. S \subseteq 1 .. N - 1
    BY <1>2 DEF Stored
  <2>2. \A l \in S : at[l] \in Stored(rows, t) /\ at[l] # n /\ Before(rows, at[l], k)
    BY <1>3, <1>4, <1>5, <1>8, <2>1
  <2> QED BY <2>1, <2>2
<1>10. log[j].prev = LastHash(log, S) /\ log[j] = rows[k]
  BY <1>2, <1>5, <1>6, <1>8 DEF Verifies, log
<1>11. LastHash(log, S) = LastHash(rows, T)
  <2>1. \A l \in S : at[l] \in Stored(rows, t) /\ log[l].hash = rows[at[l]].hash
    BY <1>2, <1>9
  <2>2. \A i, l \in S : at[i] = at[l] => i = l
    BY <1>3, <1>9
  <2>3. \A i, l \in S : Before(log, i, l) <=> Before(rows, at[i], at[l])
    BY <1>4, <1>9
  <2> HIDE DEF S
  <2> QED BY <2>1, <2>2, <2>3, MovedLastHash
<1>12. LastHash(rows, T) = rows[n].hash
  BY <1>6, <1>10, <1>11
<1> HIDE DEF T
<1>13. rows[n].hash # Genesis /\ Len(rows[n].hash) = Len(rows[n].prev) + 1
       /\ Len(rows[n].prev) \in Nat
  BY <1>1, RowChain DEF Verifies
<1>14. T # {}
  BY <1>12, <1>13 DEF LastHash
<1>15. PICK i : IsLast(i, T) /\ LastHash(rows, T) = rows[i].hash
  BY <1>9, <1>14, LastHashIs
<1>16. i \in Stored(rows, t) /\ i # n
  BY <1>9, <1>15 DEF IsLast
<1>17. Len(rows[i].hash) = Len(rows[i].prev) + 1 /\ Len(rows[i].prev) \in Nat
  BY <1>1, <1>16, RowChain DEF Verifies
<1>18. Len(rows[i].prev) = Len(rows[n].prev)
  <2>1. rows[i].hash = rows[n].hash
    BY <1>12, <1>15
  <2>2. Len(rows[i].prev) + 1 = Len(rows[n].prev) + 1
    BY <1>13, <1>17, <2>1, Zenon
  <2>3. Len(rows[i].prev) \in Nat /\ Len(rows[n].prev) \in Nat
    BY <1>13, <1>17, Zenon
  <2> QED BY <2>2, <2>3
<1> QED BY <1>16, <1>18, PrevsDiffer

\* verify_audit_chain sees any one event of a trace that verifies replaced,
\* exchanged with another or, unless it is the last, removed, in every log the
\* program can write (audit_chain.cpp:27-50).
THEOREM TamperingAlwaysShows == Spec => []TamperingShows
<1>1. ASSUME TypeInv PROVE TamperingShows
  <2> SUFFICES ASSUME NEW t \in Traces, Verifies(rows, t), NEW n \in Stored(rows, t)
               PROVE  /\ \A ev \in Event : ev.trace = t /\ ev # rows[n].event =>
                           ~Verifies(Replaced(n, ev), t)
                      /\ \A m \in Stored(rows, t) \ {n} :
                           /\ ~Verifies(Exchanged(m, n), t)
                           /\ Before(rows, n, m) => ~Verifies(Removed(n), t)
    BY DEF TamperingShows
  <2>1. \A ev \in Event : ev.trace = t /\ ev # rows[n].event => ~Verifies(Replaced(n, ev), t)
    BY <1>1, ReplacementShows
  <2>2. ASSUME NEW m \in Stored(rows, t) \ {n}
        PROVE  /\ ~Verifies(Exchanged(m, n), t)
               /\ Before(rows, n, m) => ~Verifies(Removed(n), t)
    <3>1. Before(rows, m, n) \/ Before(rows, n, m)
      BY <1>1, BeforeIsTotal DEF Stored
    <3> QED BY <1>1, <3>1, ExchangeShows, RemovalShows
  <2> QED BY <2>1, <2>2
<1> QED BY <1>1, TypeInvHolds, PTL
=============================================================================
