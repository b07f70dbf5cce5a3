----------------------------- MODULE MCAuditLog -----------------------------
(***************************************************************************)
(* Instances of AuditLog: two threads of one process and a thread of       *)
(* another, one of the threads with a trace of its own (MCAuditLog.cfg),   *)
(* and two threads of one process on one trace (MCAuditFork.cfg).          *)
(***************************************************************************)
EXTENDS AuditLog, TLC

CONSTANTS a, b, c, p, q, own, shared

OneProcess == [th \in Threads |-> p]
TwoProcesses == [th \in Threads |-> IF th = c THEN q ELSE p]
OneOwn == [th \in Threads |-> IF th = a THEN Traces ELSE {shared}]
AllShared == [th \in Threads |-> Traces]

MaxMixed == [t \in Traces |-> IF t = own THEN 2 ELSE 1]
MaxLong == [t \in Traces |-> 3]

\* Event ids are interchangeable.
Symmetry == Permutations(EventIds)
=============================================================================
