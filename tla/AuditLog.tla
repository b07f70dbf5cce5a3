------------------------------ MODULE AuditLog ------------------------------
(***************************************************************************)
(* SqliteAuditLog and audit_chain: the append-only table audit_events, in  *)
(* which every event carries a hash over itself and the hash of the event  *)
(* before it in its trace.  append works in three steps with room for      *)
(* others between them: under the log's mutex it takes the next index of   *)
(* the trace and then reads the last hash; after releasing the mutex it    *)
(* inserts the row.  Each process has a log object, with a mutex and a     *)
(* cache of next indices, of its own; the table is shared.                 *)
(*                                                                         *)
(* Hashes are modelled without collisions: the hash of an event is the     *)
(* sequence of the events it stands for.                                   *)
(***************************************************************************)
EXTENDS Integers, Sequences, FiniteSets

CONSTANTS Traces,     \* trace ids
          EventIds,   \* event ids; audit_events.event_id is a primary key
          Threads,    \* threads that append
          Processes,  \* processes with the database open
          ProcessOf,  \* the process of each thread
          Uses,       \* the traces each thread appends to
          MaxIndex    \* bound: the largest index handed out in each trace

ASSUME ThreadsAssumption ==
  /\ ProcessOf \in [Threads -> Processes]
  /\ Uses \in [Threads -> SUBSET Traces]
  /\ MaxIndex \in [Traces -> Nat]

VARIABLES rows,  \* audit_events, in the order of insertion (rowid)
          next,  \* trace_indices_ of each process's log object
          call,  \* where each thread is inside append
          misread  \* the traces for which a read met another process's lock

vars == <<rows, next, call, misread>>

Event == [id : EventIds, trace : Traces]
Genesis == <<>>
EventHash(ev, prev) == Append(prev, ev)

Uncached == -1
Idle == [step |-> "Idle"]

-----------------------------------------------------------------------------
\* The rows of trace t in log, and the order in which ORDER BY idx returns
\* them: the index on (trace_id, idx) breaks ties by rowid.
Stored(log, t) == {n \in DOMAIN log : log[n].event.trace = t}

Before(log, m, n) ==
  \/ log[m].idx < log[n].idx
  \/ log[m].idx = log[n].idx /\ m < n

\* The event_hash of the last of the rows S in that order.
LastHash(log, S) ==
  IF S = {} THEN Genesis
  ELSE log[CHOOSE n \in S : \A m \in S : m = n \/ Before(log, m, n)].hash

\* Mutation: the link to the previous event is not checked.
HashesMatch(log, t) ==
  \A n \in Stored(log, t) : log[n].hash = EventHash(log[n].event, log[n].prev)

\* verify_audit_chain(query(t)).valid
Verifies(log, t) ==
  \A n \in Stored(log, t) :
    /\ log[n].prev = LastHash(log, {m \in Stored(log, t) : Before(log, m, n)})
    /\ log[n].hash = EventHash(log[n].event, log[n].prev)

\* Mutation: the table is not asked.
FirstIndex(log, t) == 0

\* MAX(idx) + 1 over trace t, 0 when it has no row.
NextIndex(log, t) ==
  IF Stored(log, t) = {} THEN 0
  ELSE 1 + (CHOOSE i \in {log[n].idx : n \in Stored(log, t)} :
              \A n \in Stored(log, t) : log[n].idx <= i)

-----------------------------------------------------------------------------
Init ==
  /\ rows = <<>>
  /\ next = [p \in Processes |-> [t \in Traces |-> Uncached]]
  /\ call = [th \in Threads |-> Idle]
  /\ misread = {}

\* mutex_ is held from the choice of the index to the reading of the hash.
MutexFree(p) ==
  \A th \in Threads : ProcessOf[th] = p => call[th].step # "Indexed"

\* Another process is writing.  No busy_timeout is set, so a statement that
\* meets its lock fails at once.
ForeignWrite(p) ==
  \E th \in Threads : ProcessOf[th] # p /\ call[th].step = "Linked"

TakeIndex(th, ev, i) ==
  /\ call[th] = Idle
  /\ MutexFree(ProcessOf[th])
  /\ i <= MaxIndex[ev.trace]
  /\ next' = [next EXCEPT ![ProcessOf[th]][ev.trace] = i + 1]
  /\ call' = [call EXCEPT ![th] = [step |-> "Indexed", event |-> ev, idx |-> i]]
  /\ UNCHANGED rows

\* get_append_state, the index: from the cache, or from the table when this
\* process has not appended to the trace before.
ReadIndex(th, ev) ==
  LET cached == next[ProcessOf[th]][ev.trace]
  IN  /\ TakeIndex(th, ev, IF cached = Uncached THEN NextIndex(rows, ev.trace) ELSE cached)
      /\ UNCHANGED misread

\* The SELECT MAX(idx) meets a foreign lock: the failure is not looked at,
\* and the trace is taken to be empty.
ReadIndexBusy(th, ev) ==
  /\ next[ProcessOf[th]][ev.trace] = Uncached
  /\ ForeignWrite(ProcessOf[th])
  /\ TakeIndex(th, ev, 0)
  /\ misread' = misread \cup {ev.trace}

Link(th, prev) ==
  /\ call[th].step = "Indexed"
  /\ call' = [call EXCEPT ![th] =
       [step |-> "Linked", event |-> call[th].event, idx |-> call[th].idx, prev |-> prev]]
  /\ UNCHANGED <<rows, next>>

\* Mutation: the last row of any trace is taken.
ReadHashOfAnyTrace(th) ==
  /\ call[th].step = "Indexed"
  /\ Link(th, IF call[th].idx = 0 THEN Genesis ELSE LastHash(rows, DOMAIN rows))
  /\ UNCHANGED misread

\* Mutation: an index that a failed insertion left unused is taken to have
\* a row, and the hash is read only from the row just before.
ReadHashBefore(th) ==
  /\ call[th].step = "Indexed"
  /\ Link(th, LastHash(rows, {n \in Stored(rows, call[th].event.trace) :
                                rows[n].idx = call[th].idx - 1}))
  /\ UNCHANGED misread

\* get_append_state, the hash: the last row of the trace; nothing is read
\* for index 0.
ReadHash(th) ==
  /\ call[th].step = "Indexed"
  /\ Link(th, IF call[th].idx = 0 THEN Genesis
              ELSE LastHash(rows, Stored(rows, call[th].event.trace)))
  /\ UNCHANGED misread

\* The SELECT of the hash meets a foreign lock: Genesis stands.
ReadHashBusy(th) ==
  /\ call[th].step = "Indexed"
  /\ call[th].idx > 0
  /\ ForeignWrite(ProcessOf[th])
  /\ Link(th, Genesis)
  /\ misread' = misread \cup {call[th].event.trace}

Return(th) == call' = [call EXCEPT ![th] = Idle]

Ids(log) == {log[n].event.id : n \in DOMAIN log}

\* The INSERT, outside the mutex.
Insert(th) ==
  LET pending == call[th]
  IN  /\ pending.step = "Linked"
      /\ pending.event.id \notin Ids(rows)
      /\ rows' = Append(rows, [event |-> pending.event, idx |-> pending.idx,
                               prev |-> pending.prev,
                               hash |-> EventHash(pending.event, pending.prev)])
      /\ Return(th)
      /\ UNCHANGED <<next, misread>>

\* The INSERT fails (a duplicate id, a lock, a full disk) and append throws;
\* the index stays used up.
InsertFails(th) ==
  /\ call[th].step = "Linked"
  /\ Return(th)
  /\ UNCHANGED <<rows, next, misread>>

\* A process goes down and comes up with an empty cache.
Restart(p) ==
  /\ next' = [next EXCEPT ![p] = [t \in Traces |-> Uncached]]
  /\ call' = [th \in Threads |-> IF ProcessOf[th] = p THEN Idle ELSE call[th]]
  /\ UNCHANGED <<rows, misread>>

Next ==
  \/ \E th \in Threads :
       \/ \E t \in Uses[th], id \in EventIds :
            \/ ReadIndex(th, [id |-> id, trace |-> t])
            \/ ReadIndexBusy(th, [id |-> id, trace |-> t])
       \/ ReadHash(th)
       \/ ReadHashBusy(th)
       \/ Insert(th)
       \/ InsertFails(th)
  \/ \E p \in Processes : Restart(p)

Spec == Init /\ [][Next]_vars

-----------------------------------------------------------------------------
\* Type correctness of the table, the caches and the calls.
Hashes == Seq(Event)
Row == [event : Event, idx : Nat, prev : Hashes, hash : Hashes]
Call ==
  {Idle} \cup [step : {"Indexed"}, event : Event, idx : Nat]
         \cup [step : {"Linked"}, event : Event, idx : Nat, prev : Hashes]
TypeOK ==
  /\ rows \in Seq(Row)
  /\ next \in [Processes -> [Traces -> Nat \cup {Uncached}]]
  /\ call \in [Threads -> Call]
  /\ misread \subseteq Traces

\* Whatever threads and processes race, whatever reads fail: every event is
\* linked to the start of its trace or to an event that was stored before
\* it in the same trace, and its hash says which.
LinksPointBack ==
  \A n \in DOMAIN rows :
    /\ rows[n].hash = EventHash(rows[n].event, rows[n].prev)
    /\ \/ rows[n].prev = Genesis
       \/ \E m \in Stored(rows, rows[n].event.trace) :
            m < n /\ rows[m].hash = rows[n].prev

\* A trace is private when one thread alone appends to it and no read for it
\* has met another process's lock.
Private(t) ==
  /\ \A a, b \in Threads : t \in Uses[a] /\ t \in Uses[b] => a = b
  /\ t \notin misread

\* A private trace is read back in the order it was written, over failed
\* insertions and restarts.
ReadInOrder ==
  \A t \in Traces : Private(t) =>
    \A m, n \in Stored(rows, t) : m < n => rows[m].idx < rows[n].idx

\* A private trace verifies at every moment, so that a start with
\* --audit-chain-verify fail is never refused on its account.
PrivateChainsVerify ==
  \A t \in Traces : Private(t) => Verifies(rows, t)

\* verify_audit_chain sees tampering with a chain that verifies: an event
\* replaced by another, two events exchanged, or an event removed that is
\* not the last of its trace.
Replaced(n, ev) == [rows EXCEPT ![n].event = ev]
Exchanged(m, n) == [rows EXCEPT ![m] = [rows[n] EXCEPT !.idx = rows[m].idx],
                                ![n] = [rows[m] EXCEPT !.idx = rows[n].idx]]
Removed(n) == SubSeq(rows, 1, n - 1) \o SubSeq(rows, n + 1, Len(rows))
TamperingShows ==
  \A t \in Traces : Verifies(rows, t) =>
    \A n \in Stored(rows, t) :
      /\ \A ev \in Event : ev.trace = t /\ ev # rows[n].event =>
           ~Verifies(Replaced(n, ev), t)
      /\ \A m \in Stored(rows, t) \ {n} :
           /\ ~Verifies(Exchanged(m, n), t)
           /\ Before(rows, n, m) => ~Verifies(Removed(n), t)

\* README.md, "every appended audit event carries a tamper-evident SHA-256
\* hash linking it to its predecessor": every trace verifies.
AllChainsVerify == \A t \in Traces : Verifies(rows, t)
=============================================================================
