-------------------------- MODULE IndexBuildProofs ---------------------------
(***************************************************************************)
(* What IndexBuild guarantees for any number of builders, artifacts and    *)
(* runs.                                                                   *)
(***************************************************************************)
EXTENDS IndexBuild, TLAPS

LEMMA KindIndices == DOMAIN Kinds = 1..3
BY DEF Kinds

LEMMA IdleIsBuild == Idle \in Build
BY IndexAssumption DEF Idle, Build, Places, Unlisted, Texts

LEMMA BuildFields ==
  ASSUME NEW q \in Build
  PROVE  /\ q.pc \in Places /\ q.run \in 0..MaxRuns /\ q.section \in 1..4
         /\ q.seen \in [Artifacts -> Texts]
         /\ q.todo \in SUBSET Artifacts /\ q.item \in SUBSET Artifacts
BY DEF Build

\* What a builder may change of itself.
LEMMA BuildChanges ==
  ASSUME NEW q \in Build, NEW pc \in Places, NEW todo \in SUBSET Artifacts,
         NEW item \in SUBSET Artifacts
  PROVE  /\ [q EXCEPT !.pc = pc] \in Build
         /\ [q EXCEPT !.pc = pc, !.item = item] \in Build
         /\ [q EXCEPT !.todo = todo, !.item = item, !.pc = pc] \in Build
BY DEF Build

LEMMA ListChanges ==
  ASSUME NEW q \in Build, NEW todo \in SUBSET Artifacts
  PROVE  /\ [q EXCEPT !.todo = todo] \in Build
         /\ \A section \in 1..4, seen \in [Artifacts -> Texts] :
              [q EXCEPT !.section = section, !.todo = todo, !.seen = seen] \in Build
BY Zenon DEF Build

(***************************************************************************)
(* The tables, the stores and the builders keep their types.               *)
(***************************************************************************)
LEMMA TypeStep == TypeOK /\ [Next]_vars => TypeOK'
<1> SUFFICES ASSUME TypeOK, [Next]_vars PROVE TypeOK'
  OBVIOUS
<1> USE IndexAssumption DEF TypeOK
<1>0. /\ \A b \in Builders : build[b] \in Build
      /\ Unlisted \in [Artifacts -> Texts]
      /\ Idle \in Build
  BY IdleIsBuild DEF Unlisted, Texts
<1>1. ASSUME NEW b \in Builders, NEW s \in Scopes, Begin(b, s) PROVE TypeOK'
  <2>1. [Idle EXCEPT !.pc = "Allocating", !.run = counter + 1, !.scope = s] \in Build
    <3>1. counter + 1 \in 0..MaxRuns
      BY <1>1 DEF Begin
    <3> QED BY <1>0, <3>1 DEF Build, Places
  <2> QED BY <1>1, <2>1 DEF Begin
<1>2. ASSUME NEW b \in Builders, NEW pc \in Places, Goto(b, pc)
      PROVE  build' \in [Builders -> Build]
  <2>1. [build[b] EXCEPT !.pc = pc] \in Build
    BY <1>0, BuildChanges, Zenon
  <2> QED BY <1>2, <2>1 DEF Goto
<1>3. ASSUME NEW b \in Builders, StoreGoes(b)
      PROVE  vectors' \in [Stores -> [Artifacts -> Texts]]
  BY <1>0, <1>3 DEF StoreGoes
<1>4. ASSUME NEW b \in Builders, Leave(b)
      PROVE  /\ build' \in [Builders -> Build]
             /\ vectors' \in [Stores -> [Artifacts -> Texts]]
  BY <1>0, <1>3, <1>4 DEF Leave
<1>5. ASSUME NEW b \in Builders, Commit(b) PROVE TypeOK'
  <2>1. build[b].run \in 0..MaxRuns
    BY <1>0 DEF Build
  <2> QED BY <1>2, <1>5, <2>1 DEF Commit, Places
<1>6. ASSUME NEW b \in Builders, CommitFails(b) PROVE TypeOK'
  BY <1>2, <1>4, <1>6 DEF CommitFails, Places
<1>7. ASSUME NEW b \in Builders, Register(b) PROVE TypeOK'
  <2>1. build' \in [Builders -> Build]
    BY <1>2, <1>7 DEF Register, Places
  <2>2. runs' \in [RunIds -> [status : {"none", "running", "completed"}, at : 1..MaxTime]]
    <3>1. [status |-> "running", at |-> 1] \in
            [status : {"none", "running", "completed"}, at : 1..MaxTime]
      OBVIOUS
    <3>2. UNCHANGED runs \/
            runs' = [runs EXCEPT ![build[b].run] = [status |-> "running", at |-> 1]]
      BY <1>7, Zenon DEF Register
    <3> QED BY <3>1, <3>2
  <2> QED BY <1>7, <2>1, <2>2 DEF Register
<1>8. ASSUME NEW b \in Builders, NEW w \in {Started, Completed} \union Artifacts,
             Audit(b, w)
      PROVE  /\ trail' \in [RunIds -> SUBSET ({Started, Completed} \union Artifacts)]
             /\ evtTaken' \in BOOLEAN
  BY <1>8 DEF Audit
<1>9. ASSUME NEW b \in Builders, Announce(b) PROVE TypeOK'
  BY <1>2, <1>8, <1>9 DEF Announce, Places
<1>10. ASSUME NEW b \in Builders, List(b) PROVE TypeOK'
  <2> DEFINE Seen(listed) ==
               [x \in Artifacts |-> IF x \in listed THEN text[x] ELSE build[b].seen[x]]
  <2>0. PICK listed \in {Stored(b), {}} :
          build' = [build EXCEPT ![b] = [build[b] EXCEPT !.section = build[b].section + 1,
                                                         !.todo = listed, !.seen = Seen(listed)]]
    BY <1>10, Zenon DEF List
  <2> DEFINE seen == Seen(listed)
             rec == [build[b] EXCEPT !.section = build[b].section + 1, !.todo = listed,
                                     !.seen = seen]
  <2>1. build' = [build EXCEPT ![b] = rec]
    BY <2>0, Zenon
  <2>2. build[b].section + 1 \in 1..4
    <3>1. build[b].section \in 1..3
      BY <1>10, KindIndices, Zenon DEF List
    <3> QED BY <3>1
  <2>3. listed \in SUBSET Artifacts /\ seen \in [Artifacts -> Texts]
    <3>1. build[b].seen \in [Artifacts -> Texts]
      BY <1>0 DEF Build
    <3>2. listed \in SUBSET Artifacts
      BY DEF Stored
    <3> QED BY <3>1, <3>2
  <2> HIDE DEF seen
  <2>4. rec \in Build
    BY <1>0, <2>2, <2>3, ListChanges, Zenon
  <2> QED BY <1>10, <2>1, <2>4 DEF List
<1>11. ASSUME NEW b \in Builders, NEW x \in Artifacts, Skip(b, x) PROVE TypeOK'
  <2>1. [build[b] EXCEPT !.todo = build[b].todo \ {x}] \in Build
    <3>1. build[b].todo \ {x} \in SUBSET Artifacts
      BY <1>0, BuildFields
    <3> QED BY <1>0, <3>1, ListChanges, Zenon
  <2>2. build' \in [Builders -> Build]
    BY <1>11, <2>1 DEF Skip
  <2> QED BY <1>11, <2>2 DEF Skip
<1>12. ASSUME NEW b \in Builders, NEW x \in Artifacts, Embed(b, x) PROVE TypeOK'
  <2>1. [build[b] EXCEPT !.todo = build[b].todo \ {x}, !.item = {x}, !.pc = "Vector"] \in Build
    <3>1. build[b].todo \ {x} \in SUBSET Artifacts
      BY <1>0, BuildFields
    <3>2. {x} \in SUBSET Artifacts /\ "Vector" \in Places
      BY DEF Places
    <3> QED BY <1>0, <3>1, <3>2, BuildChanges, Zenon
  <2> QED BY <1>12, <2>1 DEF Embed
<1>13. ASSUME NEW b \in Builders, StoreVector(b) PROVE TypeOK'
  <2>1. PICK x \in build[b].item :
          \/ /\ vectors' = [vectors EXCEPT ![StoreOf[b]][x] = build[b].seen[x]]
             /\ UNCHANGED disturbed
          \/ /\ disturbed' = TRUE
             /\ UNCHANGED vectors
    BY <1>13 DEF StoreVector
  <2>2. x \in Artifacts /\ build[b].seen[x] \in Texts
    BY <1>0, <2>1, BuildFields
  <2>3. [vectors[StoreOf[b]] EXCEPT ![x] = build[b].seen[x]] \in [Artifacts -> Texts]
    BY <2>2
  <2>4. vectors' \in [Stores -> [Artifacts -> Texts]]
    BY <2>1, <2>3
  <2>5. disturbed' \in BOOLEAN
    BY <2>1
  <2> QED BY <1>2, <1>13, <2>4, <2>5 DEF StoreVector, Places
<1>14. ASSUME NEW b \in Builders, StoreEntry(b) PROVE TypeOK'
  <2>1. PICK x \in build[b].item :
          \/ entries' = [entries EXCEPT ![build[b].run][x] = build[b].seen[x]]
          \/ UNCHANGED entries
    BY <1>14 DEF StoreEntry
  <2>2. x \in Artifacts /\ build[b].seen[x] \in Texts
    BY <1>0, <2>1 DEF Build
  <2>3. ASSUME build[b].run \in RunIds PROVE entries' \in [RunIds -> [Artifacts -> Texts]]
    <3>1. [entries[build[b].run] EXCEPT ![x] = build[b].seen[x]] \in [Artifacts -> Texts]
      BY <2>2, <2>3
    <3> QED BY <2>1, <2>3, <3>1
  <2>4. ASSUME build[b].run \notin RunIds PROVE entries' \in [RunIds -> [Artifacts -> Texts]]
    BY <2>1, <2>4
  <2>5. entries' \in [RunIds -> [Artifacts -> Texts]]
    BY <2>3, <2>4
  <2> QED BY <1>2, <1>14, <2>5 DEF StoreEntry, Places
<1>15. ASSUME NEW b \in Builders, AuditArtifact(b) PROVE TypeOK'
  <2>1. build[b].item \subseteq Artifacts
    BY <1>0 DEF Build
  <2>2. [build[b] EXCEPT !.pc = "Work", !.item = {}] \in Build
    <3>1. {} \in SUBSET Artifacts /\ "Work" \in Places
      BY DEF Places
    <3> QED BY <1>0, <3>1, BuildChanges, Zenon
  <2> QED BY <1>8, <1>15, <2>1, <2>2 DEF AuditArtifact
<1>16. ASSUME NEW b \in Builders, Complete(b) PROVE TypeOK'
  <2>1. runs' \in [RunIds -> [status : {"none", "running", "completed"}, at : 1..MaxTime]]
    <3>1. CASE UNCHANGED runs
      BY <3>1
    <3>2. ASSUME NEW now \in 1..MaxTime,
                 runs' = [runs EXCEPT ![build[b].run] = [status |-> "completed", at |-> now]]
          PROVE  runs' \in [RunIds -> [status : {"none", "running", "completed"},
                                      at : 1..MaxTime]]
      BY <3>2
    <3> QED BY <1>16, <3>1, <3>2 DEF Complete
  <2> QED BY <1>2, <1>16, <2>1 DEF Complete, Places
<1>17. ASSUME NEW b \in Builders, Report(b) PROVE TypeOK'
  BY <1>4, <1>8, <1>17 DEF Report
<1>18. ASSUME NEW b \in Builders, AuditFails(b) PROVE TypeOK'
  BY <1>4, <1>18 DEF AuditFails
<1>19. ASSUME NEW b \in Builders, Crash(b) PROVE TypeOK'
  BY <1>0, <1>3, <1>19 DEF Crash
<1>22. ASSUME NEW b \in Builders, Release(b) PROVE TypeOK'
  <2>1. counter' \in 0..MaxRuns
    BY <1>0, <1>22 DEF Release, Build
  <2> QED BY <1>0, <1>22, <2>1 DEF Release
<1>20. ASSUME NEW x \in Artifacts, Edit(x) PROVE TypeOK'
  BY <1>20 DEF Edit, Texts
<1>21. CASE UNCHANGED vars
  BY <1>21 DEF vars
<1> QED
  BY <1>1, <1>5, <1>6, <1>7, <1>9, <1>10, <1>11, <1>12, <1>13, <1>14, <1>15, <1>16,
     <1>17, <1>18, <1>19, <1>20, <1>21, <1>22 DEF Next, Step

LEMMA TypeInit == Init => TypeOK
<1> SUFFICES ASSUME Init PROVE TypeOK
  OBVIOUS
<1> USE DEF Init
<1>1. Unlisted \in [Artifacts -> Texts]
  BY IndexAssumption DEF Unlisted, Texts
<1>2. Absent \in [status : {"none", "running", "completed"}, at : 1..MaxTime]
  BY IndexAssumption DEF Absent
<1>3. counter \in 0..MaxRuns
  BY IndexAssumption
<1>4. /\ entries \in [RunIds -> [Artifacts -> Texts]]
      /\ vectors \in [Stores -> [Artifacts -> Texts]]
  BY <1>1
<1>5. /\ runs \in [RunIds -> [status : {"none", "running", "completed"}, at : 1..MaxTime]]
      /\ trail \in [RunIds -> SUBSET ({Started, Completed} \union Artifacts)]
  BY <1>2
<1>6. build \in [Builders -> Build]
  BY IdleIsBuild
<1> QED BY <1>3, <1>4, <1>5, <1>6 DEF TypeOK

(***************************************************************************)
(* Every table, store and builder keeps its type, whatever fails.          *)
(***************************************************************************)
THEOREM TypeCorrect == Spec => []TypeOK
BY TypeInit, TypeStep, PTL DEF Spec

-----------------------------------------------------------------------------
(***************************************************************************)
(* Three sorts of steps: a builder starts or gives up its transaction, a   *)
(* builder that has an id works on, a build ends.                          *)
(***************************************************************************)
Works(b) ==
  \/ Register(b) \/ Announce(b) \/ List(b)
  \/ \E x \in Artifacts : Skip(b, x) \/ Embed(b, x)
  \/ StoreVector(b) \/ StoreEntry(b) \/ AuditArtifact(b) \/ Complete(b)
Ends(b) == CommitFails(b) \/ Report(b) \/ AuditFails(b) \/ Crash(b)

LEMMA OthersStay ==
  ASSUME TypeOK, NEW b \in Builders, Step(b), NEW q \in Builders \ {b}
  PROVE  build'[q] = build[q]
<1> USE DEF TypeOK
<1>1. \E rec : build' = [build EXCEPT ![b] = rec]
  <2>1. ASSUME NEW pc, Goto(b, pc) PROVE \E rec : build' = [build EXCEPT ![b] = rec]
    <3>1. build' = [build EXCEPT ![b] = [build[b] EXCEPT !.pc = pc]]
      BY <2>1 DEF Goto
    <3> QED BY <3>1
  <2>2. ASSUME Leave(b) PROVE \E rec : build' = [build EXCEPT ![b] = rec]
    BY <2>2 DEF Leave
  <2>3. ASSUME NEW x \in Artifacts, Skip(b, x)
        PROVE  \E rec : build' = [build EXCEPT ![b] = rec]
    <3>1. build' = [build EXCEPT ![b] = [build[b] EXCEPT !.todo = @ \ {x}]]
      BY <2>3 DEF Skip
    <3> QED BY <3>1
  <2>4. CASE \E s \in Scopes : Begin(b, s)
    BY <2>4 DEF Begin
  <2>5. CASE Commit(b) \/ CommitFails(b) \/ Register(b) \/ Announce(b)
    BY <2>1, <2>2, <2>5 DEF Commit, CommitFails, Register, Announce
  <2>10. CASE Release(b)
    BY <2>10 DEF Release
  <2>6. CASE List(b)
    BY <2>6, Zenon DEF List
  <2>7. CASE \E x \in Artifacts : Skip(b, x) \/ Embed(b, x)
    BY <2>3, <2>7 DEF Embed
  <2>8. CASE StoreVector(b) \/ StoreEntry(b) \/ AuditArtifact(b)
    BY <2>1, <2>8 DEF StoreVector, StoreEntry, AuditArtifact
  <2>9. CASE Complete(b) \/ Report(b) \/ AuditFails(b) \/ Crash(b)
    BY <2>1, <2>2, <2>9 DEF Complete, Report, AuditFails, Crash
  <2> QED BY <2>4, <2>5, <2>6, <2>7, <2>8, <2>9, <2>10 DEF Step
<1> QED BY <1>1

LEMMA WorkingStep ==
  ASSUME TypeOK, NEW b \in Builders, Works(b)
  PROVE  /\ Numbered(b) /\ Numbered(b)' /\ ~At(b, "Report")
         /\ build'[b].run = build[b].run
         /\ counter' = counter /\ lock' = lock
         /\ \A r \in RunIds \ {build[b].run} : runs'[r] = runs[r] /\ entries'[r] = entries[r]
         /\ \A r \in RunIds : runs'[r].status = "completed" =>
              runs[r].status = "completed" \/ At(b, "Report")'
<1> USE DEF TypeOK
<1>0. build[b] \in Build
  OBVIOUS
<1>1. CASE Register(b)
  <2>1. \/ runs' = [runs EXCEPT ![build[b].run] = [status |-> "running", at |-> 1]]
        \/ runs' = runs
    BY <1>1 DEF Register
  <2>2. \A r \in RunIds : \/ runs'[r] = runs[r]
                          \/ r = build[b].run /\ runs'[r].status = "running"
    BY <2>1
  <2>3. /\ At(b, "Register") /\ Goto(b, "Announce")
        /\ UNCHANGED <<counter, lock, entries>>
    BY <1>1 DEF Register
  <2> QED BY <1>0, <2>2, <2>3 DEF Goto, At, Numbered, Build
<1>2. CASE Announce(b)
  BY <1>0, <1>2 DEF Announce, Goto, At, Numbered, Build
<1>3. CASE List(b)
  BY <1>0, <1>3 DEF List, At, Numbered, Build
<1>4. ASSUME NEW x \in Artifacts, Skip(b, x) PROVE build'[b] = [build[b] EXCEPT !.todo = @ \ {x}]
  BY <1>0, <1>4 DEF Skip, Build
<1>5. CASE \E x \in Artifacts : Skip(b, x)
  BY <1>0, <1>4, <1>5 DEF Skip, At, Numbered, Build
<1>6. CASE \E x \in Artifacts : Embed(b, x)
  BY <1>0, <1>6 DEF Embed, At, Numbered, Build
<1>7. CASE StoreVector(b)
  BY <1>0, <1>7 DEF StoreVector, Goto, At, Numbered, Build
<1>8. CASE StoreEntry(b)
  BY <1>0, <1>8 DEF StoreEntry, Goto, At, Numbered, Build
<1>9. CASE AuditArtifact(b)
  BY <1>0, <1>9 DEF AuditArtifact, At, Numbered, Build
<1>10. CASE Complete(b)
  BY <1>0, <1>10 DEF Complete, Goto, At, Numbered, Build
<1> QED BY <1>1, <1>2, <1>3, <1>5, <1>6, <1>7, <1>8, <1>9, <1>10 DEF Works

\* A builder holds the lock from BEGIN IMMEDIATE to the end of its
\* transaction.
LockHeld == \A b \in Builders : lock = b <=> build[b].pc \in {"Allocating", "Stuck"}

LEMMA EndingStep ==
  ASSUME TypeOK, LockHeld, NEW b \in Builders, Ends(b)
  PROVE  /\ ~Numbered(b)' /\ ~At(b, "Allocating")'
         /\ At(b, "Stuck")' => /\ At(b, "Allocating") /\ lock' = lock
                               /\ build'[b].run = build[b].run
         /\ (At(b, "Idle")' => lock' = IF At(b, "Allocating") \/ lock = b THEN Nobody ELSE lock)
         /\ UNCHANGED <<counter, runs, entries>>
<1> USE DEF TypeOK
<1>0. build[b] \in Build
  OBVIOUS
<1>1. ASSUME Leave(b) PROVE build'[b] = Idle
  BY <1>1 DEF Leave
<1>2. CASE CommitFails(b)
  <2>1. CASE b \in Servers
    BY <1>0, <1>2, <2>1 DEF CommitFails, Goto, At, Numbered, Build
  <2>2. CASE b \notin Servers
    BY <1>1, <1>2, <2>2 DEF CommitFails, At, Numbered, Idle
  <2> QED BY <2>1, <2>2
<1>3. CASE Crash(b)
  <2>1. build'[b] = Idle
    BY <1>3 DEF Crash
  <2> QED BY <1>3, <2>1 DEF Crash, At, Numbered, Idle, LockHeld
<1>4. CASE Report(b) \/ AuditFails(b)
  <2>1. build[b].pc \in {"Announce", "Audit", "Report"}
    BY <1>4 DEF Report, AuditFails, At
  <2>2. build'[b] = Idle /\ UNCHANGED <<counter, lock, runs, entries>>
    BY <1>1, <1>4 DEF Report, AuditFails
  <2> QED BY <2>1, <2>2 DEF At, Numbered, Idle, LockHeld
<1> QED BY <1>2, <1>3, <1>4 DEF Ends

-----------------------------------------------------------------------------
(***************************************************************************)
(* Run ids.  The distinctness of ids is not inductive by itself: one must  *)
(* know that ids come from the counter, that only the holder of the lock   *)
(* is about to take one, and that the ids to come have no rows.            *)
(***************************************************************************)
Pending ==
  \A b \in Builders : build[b].pc \in {"Allocating", "Stuck"} => build[b].run = counter + 1
IdsGiven == \A b \in Builders : Numbered(b) => build[b].run \in 1..counter
FutureIsBlank == \A r \in RunIds : r > counter =>
                   runs[r] = Absent /\ \A x \in Artifacts : entries[r][x] = 0

IdInv == TypeOK /\ LockHeld /\ Pending /\ IdsGiven /\ FutureIsBlank /\ RunIdsAreDistinct

LEMMA IdInvInit == Init => IdInv
<1> SUFFICES ASSUME Init PROVE IdInv
  OBVIOUS
<1>1. TypeOK
  BY TypeInit
<1>2. \A b \in Builders : ~Numbered(b) /\ ~At(b, "Allocating") /\ build[b].pc = "Idle"
  BY Zenon DEF Init, Idle, Numbered, At
<1>3. LockHeld
  BY <1>2, IndexAssumption, Zenon DEF Init, LockHeld, Nobody
<1>4. FutureIsBlank
  BY DEF Init, FutureIsBlank, Unlisted
<1> QED BY <1>1, <1>2, <1>3, <1>4 DEF IdInv, Pending, IdsGiven, RunIdsAreDistinct

LEMMA IdInvStep == IdInv /\ [Next]_vars => IdInv'
<1> SUFFICES ASSUME IdInv, [Next]_vars PROVE IdInv'
  OBVIOUS
<1>0. TypeOK'
  BY TypeStep DEF IdInv
<1>1. ASSUME NEW b \in Builders, NEW s \in Scopes, Begin(b, s) PROVE IdInv'
  <2>1. /\ lock = Nobody /\ lock' = b /\ build[b].pc = "Idle"
        /\ UNCHANGED <<counter, runs, entries>>
    BY <1>1 DEF Begin, At
  <2>2. build'[b].pc = "Allocating" /\ build'[b].run = counter + 1
    BY <1>1 DEF Begin, Idle, IdInv, TypeOK
  <2>3. \A q \in Builders \ {b} : build'[q] = build[q]
    BY <1>1, OthersStay DEF Step, IdInv
  <2>4. LockHeld'
    BY <2>1, <2>2, <2>3, IndexAssumption DEF LockHeld, IdInv, Nobody
  <2>5. \A q \in Builders \ {b} : build[q].pc \notin {"Allocating", "Stuck"}
    BY <2>1, IndexAssumption DEF LockHeld, IdInv, Nobody
  <2>6. Pending'
    BY <2>1, <2>2, <2>3, <2>5 DEF Pending, At
  <2>7. IdsGiven' /\ FutureIsBlank' /\ RunIdsAreDistinct'
    BY <2>1, <2>2, <2>3 DEF IdsGiven, FutureIsBlank, RunIdsAreDistinct, Numbered, At, IdInv
  <2> QED BY <1>0, <2>4, <2>6, <2>7 DEF IdInv
<1>2. ASSUME NEW b \in Builders, Commit(b) PROVE IdInv'
  <2>1. /\ build[b].pc = "Allocating" /\ lock' = Nobody /\ counter' = build[b].run
        /\ UNCHANGED <<runs, entries>>
    BY <1>2 DEF Commit, At
  <2>2. build'[b].pc = "Register" /\ build'[b].run = build[b].run
    BY <1>2 DEF Commit, Goto, IdInv, TypeOK, Build
  <2>3. \A q \in Builders \ {b} : build'[q] = build[q]
    BY <1>2, OthersStay DEF Step, IdInv
  <2>4. counter' = counter + 1 /\ counter \in Nat /\ counter' \in RunIds
    <3>1. counter' = counter + 1
      BY <2>1 DEF Pending, At, IdInv
    <3>2. counter \in 0..MaxRuns /\ counter' \in 0..MaxRuns
      BY <1>0 DEF IdInv, TypeOK
    <3> QED BY <3>1, <3>2, IndexAssumption DEF RunIds
  <2>5. \A q \in Builders \ {b} : build[q].pc \notin {"Allocating", "Stuck"}
    BY <2>1 DEF LockHeld, IdInv
  <2>6. LockHeld'
    BY <2>1, <2>2, <2>3, <2>5, IndexAssumption DEF LockHeld, Nobody
  <2>7. Pending'
    BY <2>2, <2>3, <2>5 DEF Pending, At
  <2>8. IdsGiven'
    BY <2>1, <2>2, <2>3, <2>4 DEF IdsGiven, Numbered, IdInv
  <2>9. FutureIsBlank'
    BY <2>1, <2>4, IndexAssumption DEF FutureIsBlank, RunIds, IdInv
  <2>10. RunIdsAreDistinct'
    <3>1. runs[counter'].status # "completed"
      BY <2>4, IndexAssumption DEF FutureIsBlank, Absent, RunIds, IdInv
    <3>2. \A q \in Builders \ {b} : Numbered(q) => build[q].run # counter'
      BY <2>4 DEF IdsGiven, IdInv
    <3> QED BY <2>1, <2>2, <2>3, <3>1, <3>2 DEF RunIdsAreDistinct, Numbered, At, IdInv
  <2> QED BY <1>0, <2>6, <2>7, <2>8, <2>9, <2>10 DEF IdInv
<1>3. ASSUME NEW b \in Builders, Works(b) PROVE IdInv'
  <2>1. /\ Numbered(b) /\ Numbered(b)' /\ ~At(b, "Report")
        /\ build'[b].run = build[b].run
        /\ counter' = counter /\ lock' = lock
        /\ \A r \in RunIds \ {build[b].run} : runs'[r] = runs[r] /\ entries'[r] = entries[r]
        /\ \A r \in RunIds : runs'[r].status = "completed" =>
             runs[r].status = "completed" \/ At(b, "Report")'
    BY <1>3, WorkingStep DEF IdInv
  <2>2. \A q \in Builders \ {b} : build'[q] = build[q]
    BY <1>3, OthersStay DEF Works, Step, IdInv
  <2>3. build[b].run \in 1..counter
    BY <2>1 DEF IdsGiven, IdInv
  <2>4. LockHeld' /\ Pending' /\ IdsGiven'
    BY <2>1, <2>2 DEF LockHeld, Pending, IdsGiven, Numbered, At, IdInv
  <2>5. FutureIsBlank'
    <3> SUFFICES ASSUME NEW r \in RunIds, counter' < r
                 PROVE  runs'[r] = Absent /\ \A x \in Artifacts : entries'[r][x] = 0
      BY DEF FutureIsBlank
    <3>1. counter \in Nat /\ r \in Int
      BY IndexAssumption DEF RunIds, IdInv, TypeOK
    <3>2. counter < r /\ r # build[b].run
      BY <2>1, <2>3, <3>1
    <3>3. runs'[r] = runs[r] /\ entries'[r] = entries[r]
      BY <2>1, <3>2
    <3> QED BY <3>2, <3>3 DEF FutureIsBlank, IdInv
  <2>6. RunIdsAreDistinct'
    <3>1. \A q \in Builders \ {b} : Numbered(q) =>
            build[q].run \in RunIds \ {build[b].run}
      <4>1. counter \in 0..MaxRuns
        BY DEF IdInv, TypeOK
      <4> QED BY <2>1, <4>1, IndexAssumption DEF RunIdsAreDistinct, IdsGiven, RunIds, IdInv
    <3>2. build[b].run \in RunIds
      BY <2>3, IndexAssumption DEF RunIds, IdInv, TypeOK
    <3>3. runs'[build[b].run].status = "completed" => At(b, "Report")'
      BY <2>1, <3>2 DEF RunIdsAreDistinct, IdInv
    <3> QED BY <2>1, <2>2, <3>1, <3>3 DEF RunIdsAreDistinct, Numbered, At, IdInv
  <2> QED BY <1>0, <2>4, <2>5, <2>6 DEF IdInv
<1>4. ASSUME NEW b \in Builders, Ends(b) PROVE IdInv'
  <2>1. /\ ~Numbered(b)' /\ ~At(b, "Allocating")'
        /\ At(b, "Stuck")' => /\ At(b, "Allocating") /\ lock' = lock
                              /\ build'[b].run = build[b].run
        /\ (At(b, "Idle")' => lock' = IF At(b, "Allocating") \/ lock = b THEN Nobody ELSE lock)
        /\ UNCHANGED <<counter, runs, entries>>
    BY <1>4, EndingStep DEF IdInv
  <2>2. \A q \in Builders \ {b} : build'[q] = build[q]
    BY <1>4, OthersStay DEF Ends, Step, IdInv
  <2>3. LockHeld'
    BY <2>1, <2>2, IndexAssumption DEF LockHeld, Numbered, At, IdInv, Nobody
  <2>4. Pending' /\ IdsGiven' /\ FutureIsBlank' /\ RunIdsAreDistinct'
    BY <2>1, <2>2 DEF Pending, IdsGiven, FutureIsBlank, RunIdsAreDistinct, Numbered, At, IdInv
  <2> QED BY <1>0, <2>3, <2>4 DEF IdInv
<1>8. ASSUME NEW b \in Builders, Release(b) PROVE IdInv'
  <2>1. /\ build[b].pc = "Stuck" /\ lock = b /\ lock' = Nobody
        /\ counter' \in {counter, build[b].run} /\ UNCHANGED <<runs, entries>>
    BY <1>8 DEF Release, At, LockHeld, IdInv
  <2>2. build'[b] = Idle
    BY <1>8 DEF Release, IdInv, TypeOK
  <2>3. \A q \in Builders \ {b} : build'[q] = build[q]
    BY <1>8, OthersStay DEF Step, IdInv
  <2>4. \A q \in Builders \ {b} : build[q].pc \notin {"Allocating", "Stuck"}
    BY <2>1 DEF LockHeld, IdInv
  <2>5. build'[b].pc = "Idle"
    BY <2>2 DEF Idle
  <2>6. LockHeld' /\ Pending'
    BY <2>1, <2>3, <2>4, <2>5, IndexAssumption DEF LockHeld, Pending, At, Nobody
  <2>7. /\ counter <= counter' /\ counter \in Nat /\ counter' \in Nat
    BY <1>0, <2>1, IndexAssumption DEF IdInv, TypeOK, Pending
  <2>8. IdsGiven' /\ FutureIsBlank' /\ RunIdsAreDistinct'
    BY <2>1, <2>3, <2>5, <2>7, IndexAssumption
       DEF IdsGiven, FutureIsBlank, RunIdsAreDistinct, Numbered, At, RunIds, IdInv
  <2> QED BY <1>0, <2>6, <2>8 DEF IdInv
<1>5. ASSUME UNCHANGED <<counter, lock, runs, entries, build>> PROVE IdInv'
  BY <1>0, <1>5 DEF IdInv, LockHeld, Pending, IdsGiven, FutureIsBlank, RunIdsAreDistinct,
                    Numbered, At
<1>6. ASSUME NEW x \in Artifacts, Edit(x) PROVE IdInv'
  BY <1>5, <1>6 DEF Edit
<1>7. CASE UNCHANGED vars
  BY <1>5, <1>7 DEF vars
<1> QED BY <1>1, <1>2, <1>3, <1>4, <1>6, <1>7, <1>8 DEF Next, Step, Works, Ends

(***************************************************************************)
(* No two builds work under one id, nor does one under the id of a run     *)
(* that is over (IndexAssumption only).                                    *)
(***************************************************************************)
THEOREM RunIdsStayDistinct == Spec => []RunIdsAreDistinct
<1>1. IdInv => RunIdsAreDistinct
  BY DEF IdInv
<1> QED BY <1>1, IdInvInit, IdInvStep, PTL DEF Spec

(***************************************************************************)
(* The rows of a completed run are never written again.                    *)
(***************************************************************************)
THEOREM CompletedRunsStay == Spec => HistoryStays
<1>1. ASSUME IdInv, [Next]_vars, NEW r \in RunIds, runs[r].status = "completed"
      PROVE  runs'[r] = runs[r] /\ entries'[r] = entries[r]
  <2>1. ASSUME NEW b \in Builders, Works(b)
        PROVE  runs'[r] = runs[r] /\ entries'[r] = entries[r]
    <3>1. Numbered(b) /\ ~At(b, "Report")
      BY <1>1, <2>1, WorkingStep DEF IdInv
    <3>2. build[b].run # r
      BY <1>1, <3>1 DEF RunIdsAreDistinct, IdInv
    <3> QED BY <1>1, <2>1, <3>2, WorkingStep DEF IdInv
  <2>2. ASSUME NEW b \in Builders, Ends(b)
        PROVE  runs'[r] = runs[r] /\ entries'[r] = entries[r]
    BY <1>1, <2>2, EndingStep DEF IdInv
  <2>3. ASSUME UNCHANGED <<runs, entries>>
        PROVE  runs'[r] = runs[r] /\ entries'[r] = entries[r]
    BY <2>3
  <2>4. ASSUME NEW b \in Builders, NEW s \in Scopes, Begin(b, s)
        PROVE  UNCHANGED <<runs, entries>>
    BY <2>4 DEF Begin
  <2>5. ASSUME NEW b \in Builders, Commit(b) PROVE UNCHANGED <<runs, entries>>
    BY <2>5 DEF Commit
  <2>8. ASSUME NEW b \in Builders, Release(b) PROVE UNCHANGED <<runs, entries>>
    BY <2>8 DEF Release
  <2>6. ASSUME NEW x \in Artifacts, Edit(x) PROVE UNCHANGED <<runs, entries>>
    BY <2>6 DEF Edit
  <2>7. CASE UNCHANGED vars
    BY <2>7 DEF vars
  <2> QED BY <1>1, <2>1, <2>2, <2>3, <2>4, <2>5, <2>6, <2>7, <2>8 DEF Next, Step, Works, Ends
<1>2. IdInv /\ [Next]_vars =>
        [\A r \in RunIds : runs[r].status = "completed" =>
           runs'[r] = runs[r] /\ entries'[r] = entries[r]]_vars
  BY <1>1
<1> QED BY <1>2, IdInvInit, IdInvStep, PTL DEF Spec, HistoryStays

-----------------------------------------------------------------------------
(***************************************************************************)
(* The audit log.  While a run is worked on, its events keep up with its   *)
(* entries: at most the one that was just written is not told yet.         *)
(***************************************************************************)
AuditKeepsUp == \A b \in Builders :
  /\ \A u, v \in build[b].item : u = v
  /\ Numbered(b) =>
       /\ build[b].pc \notin {"Register", "Announce"} => Started \in trail[build[b].run]
       /\ \A x \in Artifacts : entries[build[b].run][x] # 0 =>
            x \in trail[build[b].run] \/ (At(b, "Audit") /\ x \in build[b].item)

AuditInv == IdInv /\ CompletedRunsAreAudited /\ AuditKeepsUp

LEMMA TrailGrows ==
  ASSUME TypeOK, NEW b \in Builders, Step(b), NEW r \in RunIds
  PROVE  trail[r] \subseteq trail'[r]
<1> USE DEF TypeOK
<1>1. ASSUME NEW w, Audit(b, w) PROVE trail[r] \subseteq trail'[r]
  BY <1>1 DEF Audit
<1>2. CASE Announce(b) \/ AuditArtifact(b) \/ Report(b)
  BY <1>1, <1>2 DEF Announce, AuditArtifact, Report
<1>3. CASE UNCHANGED trail
  BY <1>3
<1> QED
  BY <1>2, <1>3, Zenon DEF Step, Begin, Commit, CommitFails, Release, Register, List, Skip, Embed,
                    StoreVector, StoreEntry, Complete, AuditFails, Crash

LEMMA WorkKeepsUp ==
  ASSUME IdInv, AuditKeepsUp, NEW b \in Builders, Works(b)
  PROVE  /\ \A u, v \in build'[b].item : u = v
         /\ build'[b].pc \notin {"Register", "Announce"} => Started \in trail'[build[b].run]
         /\ \A x \in Artifacts : entries'[build[b].run][x] # 0 =>
              x \in trail'[build[b].run] \/ (At(b, "Audit")' /\ x \in build'[b].item)
<1> DEFINE r == build[b].run
<1>0. build[b] \in Build /\ r \in RunIds /\ Numbered(b)
  <2>1. Numbered(b)
    BY WorkingStep DEF IdInv
  <2>2. r \in 1..counter /\ counter \in 0..MaxRuns
    BY <2>1 DEF IdsGiven, IdInv, TypeOK
  <2> QED BY <2>1, <2>2, IndexAssumption DEF IdInv, TypeOK, RunIds
<1> DEFINE KeptUp == \A x \in Artifacts : entries[r][x] # 0 =>
                       x \in trail[r] \/ (At(b, "Audit") /\ x \in build[b].item)
<1>a. /\ \A u, v \in build[b].item : u = v
      /\ build[b].pc \notin {"Register", "Announce"} => Started \in trail[r]
      /\ KeptUp
  BY <1>0 DEF AuditKeepsUp
<1> USE DEF At
<1>1. CASE Register(b)
  <2>1. /\ build[b].pc = "Register" /\ build'[b] = [build[b] EXCEPT !.pc = "Announce"]
        /\ UNCHANGED <<trail, entries>>
    BY <1>0, <1>1 DEF Register, Goto, IdInv, TypeOK
  <2> QED BY <1>0, <1>a, <2>1 DEF Build
<1>2. CASE Announce(b)
  <2>1. /\ build[b].pc = "Announce" /\ build'[b] = [build[b] EXCEPT !.pc = "Work"]
        /\ trail'[r] = trail[r] \union {Started} /\ UNCHANGED entries
    BY <1>0, <1>2 DEF Announce, Audit, Goto, IdInv, TypeOK
  <2> QED BY <1>0, <1>a, <2>1 DEF Build
<1>3. CASE List(b)
  <2>1. /\ build[b].pc = "Work" /\ build'[b].pc = "Work" /\ build'[b].item = build[b].item
        /\ UNCHANGED <<trail, entries>>
    BY <1>0, <1>3 DEF List, IdInv, TypeOK, Build
  <2> QED BY <1>a, <2>1
<1>4. ASSUME NEW x \in Artifacts, Skip(b, x)
      PROVE  /\ build[b].pc = "Work" /\ build'[b].pc = "Work" /\ build'[b].item = build[b].item
             /\ UNCHANGED <<trail, entries>>
  <2>1. build'[b] = [build[b] EXCEPT !.todo = @ \ {x}]
    BY <1>0, <1>4 DEF Skip, IdInv, TypeOK
  <2> QED BY <1>0, <1>4, <2>1 DEF Skip, Build
<1>5. CASE \E x \in Artifacts : Skip(b, x)
  BY <1>a, <1>4, <1>5
<1>6. ASSUME NEW x \in Artifacts, Embed(b, x)
      PROVE  /\ build[b].pc = "Work" /\ build'[b].pc = "Vector" /\ build'[b].item = {x}
             /\ UNCHANGED <<trail, entries>>
  BY <1>0, <1>6 DEF Embed, IdInv, TypeOK, Build
<1>7. CASE \E x \in Artifacts : Embed(b, x)
  BY <1>a, <1>6, <1>7
<1>8. CASE StoreVector(b)
  <2>1. /\ build[b].pc = "Vector" /\ build'[b] = [build[b] EXCEPT !.pc = "Entry"]
        /\ UNCHANGED <<trail, entries>>
    BY <1>0, <1>8 DEF StoreVector, Goto, IdInv, TypeOK
  <2> QED BY <1>0, <1>a, <2>1 DEF Build
<1>9. CASE StoreEntry(b)
  <2>1. /\ build[b].pc = "Entry" /\ build'[b] = [build[b] EXCEPT !.pc = "Audit"]
        /\ UNCHANGED trail
    BY <1>0, <1>9 DEF StoreEntry, Goto, IdInv, TypeOK
  <2>2. PICK y \in build[b].item : \/ entries' = [entries EXCEPT ![r][y] = build[b].seen[y]]
                                   \/ UNCHANGED entries
    BY <1>9 DEF StoreEntry
  <2>3. \A x \in Artifacts : x # y => entries'[r][x] = entries[r][x]
    BY <1>0, <2>2 DEF IdInv, TypeOK
  <2>4. build'[b].pc = "Audit" /\ build'[b].item = build[b].item
    BY <1>0, <2>1 DEF Build
  <2> QED BY <1>a, <2>1, <2>2, <2>3, <2>4
<1>10. CASE AuditArtifact(b)
  <2>1. PICK y \in build[b].item : trail'[r] = trail[r] \union {y}
    BY <1>0, <1>10 DEF AuditArtifact, Audit, IdInv, TypeOK
  <2>2. /\ build[b].pc = "Audit" /\ build'[b].pc = "Work" /\ build'[b].item = {}
        /\ UNCHANGED entries
    BY <1>0, <1>10 DEF AuditArtifact, IdInv, TypeOK, Build
  <2> QED BY <1>a, <2>1, <2>2
<1>11. CASE Complete(b)
  <2>1. /\ build[b].pc = "Work" /\ build'[b] = [build[b] EXCEPT !.pc = "Report"]
        /\ UNCHANGED <<trail, entries>>
    BY <1>0, <1>11 DEF Complete, Goto, IdInv, TypeOK
  <2> QED BY <1>0, <1>a, <2>1 DEF Build
<1> QED BY <1>1, <1>2, <1>3, <1>5, <1>7, <1>8, <1>9, <1>10, <1>11 DEF Works

LEMMA AuditInvStep == AuditInv /\ [Next]_vars => AuditInv'
<1> SUFFICES ASSUME AuditInv, [Next]_vars PROVE AuditInv'
  OBVIOUS
<1>0. IdInv' /\ IdInv /\ TypeOK
  BY IdInvStep DEF AuditInv, IdInv
<1>1. ASSUME NEW b \in Builders, Works(b) PROVE AuditInv'
  <2>1. /\ Numbered(b) /\ ~At(b, "Report") /\ build'[b].run = build[b].run
        /\ \A r \in RunIds \ {build[b].run} : runs'[r] = runs[r] /\ entries'[r] = entries[r]
        /\ \A r \in RunIds : runs'[r].status = "completed" =>
             runs[r].status = "completed" \/ At(b, "Report")'
    BY <1>0, <1>1, WorkingStep
  <2>2. \A q \in Builders \ {b} : build'[q] = build[q]
    BY <1>0, <1>1, OthersStay DEF Works, Step
  <2>3. \A r \in RunIds : trail[r] \subseteq trail'[r]
    BY <1>0, <1>1, TrailGrows DEF Works, Step
  <2>4. /\ \A u, v \in build'[b].item : u = v
        /\ build'[b].pc \notin {"Register", "Announce"} => Started \in trail'[build[b].run]
        /\ \A x \in Artifacts : entries'[build[b].run][x] # 0 =>
             x \in trail'[build[b].run] \/ (At(b, "Audit")' /\ x \in build'[b].item)
    BY <1>0, <1>1, WorkKeepsUp DEF AuditInv
  <2>5. \A q \in Builders : Numbered(q) => build[q].run \in RunIds
    BY <1>0, IndexAssumption DEF IdsGiven, RunIds, IdInv, TypeOK
  <2>6. AuditKeepsUp'
    <3>1. ASSUME NEW q \in Builders \ {b}, Numbered(q)'
          PROVE  /\ Numbered(q) /\ build[q].run \in RunIds
                 /\ entries'[build[q].run] = entries[build[q].run]
                 /\ trail[build[q].run] \subseteq trail'[build[q].run]
      <4>1. Numbered(q)
        BY <2>2, <3>1 DEF Numbered
      <4>2. build[q].run \in RunIds \ {build[b].run}
        BY <1>0, <2>1, <2>5, <4>1 DEF RunIdsAreDistinct, IdInv
      <4> QED BY <2>1, <2>3, <4>1, <4>2
    <3>2. ASSUME NEW q \in Builders \ {b}, Numbered(q)'
          PROVE  /\ build'[q].pc \notin {"Register", "Announce"} =>
                      Started \in trail'[build'[q].run]
                 /\ \A x \in Artifacts : entries'[build'[q].run][x] # 0 =>
                      x \in trail'[build'[q].run] \/ (At(q, "Audit")' /\ x \in build'[q].item)
      <4>1. build'[q] = build[q]
        BY <2>2
      <4>2. /\ build[q].pc \notin {"Register", "Announce"} => Started \in trail[build[q].run]
            /\ \A x \in Artifacts : entries[build[q].run][x] # 0 =>
                 x \in trail[build[q].run] \/ (At(q, "Audit") /\ x \in build[q].item)
        BY <3>1, <3>2 DEF AuditKeepsUp, AuditInv
      <4> QED BY <3>1, <3>2, <4>1, <4>2 DEF At
    <3>3. ASSUME NEW q \in Builders PROVE \A u, v \in build'[q].item : u = v
      BY <2>2, <2>4 DEF AuditKeepsUp, AuditInv
    <3>4. ASSUME NEW q \in Builders, Numbered(q)'
          PROVE  /\ build'[q].pc \notin {"Register", "Announce"} =>
                      Started \in trail'[build'[q].run]
                 /\ \A x \in Artifacts : entries'[build'[q].run][x] # 0 =>
                      x \in trail'[build'[q].run] \/ (At(q, "Audit")' /\ x \in build'[q].item)
      BY <2>1, <2>4, <3>2, <3>4
    <3> QED BY <3>3, <3>4 DEF AuditKeepsUp
  <2>7. CompletedRunsAreAudited'
    <3> SUFFICES ASSUME NEW r \in RunIds, runs'[r].status = "completed"
                 PROVE  /\ Started \in trail'[r]
                        /\ \A x \in Artifacts : entries'[r][x] # 0 => x \in trail'[r]
      BY DEF CompletedRunsAreAudited
    <3>1. CASE r = build[b].run
      <4>1. ~(runs[r].status = "completed")
        BY <1>0, <2>1, <3>1 DEF RunIdsAreDistinct, IdInv
      <4>2. At(b, "Report")'
        BY <2>1, <4>1
      <4> QED BY <2>4, <3>1, <4>2 DEF At
    <3>2. CASE r # build[b].run
      BY <2>1, <2>3, <3>2 DEF CompletedRunsAreAudited, AuditInv
    <3> QED BY <3>1, <3>2
  <2> QED BY <1>0, <2>6, <2>7 DEF AuditInv
<1>2. ASSUME NEW b \in Builders, Ends(b) PROVE AuditInv'
  <2>1. ~Numbered(b)' /\ UNCHANGED <<runs, entries>>
    BY <1>0, <1>2, EndingStep DEF IdInv
  <2>2. \A q \in Builders \ {b} : build'[q] = build[q]
    BY <1>0, <1>2, OthersStay DEF Ends, Step
  <2>3. \A r \in RunIds : trail[r] \subseteq trail'[r]
    BY <1>0, <1>2, TrailGrows DEF Ends, Step
  <2>4. \A u, v \in build'[b].item : u = v
    <3>1. build'[b].item = {} \/ build'[b].item = build[b].item
      BY <1>0, <1>2 DEF Ends, CommitFails, Report, AuditFails, Crash, Leave, Goto, Idle,
                        TypeOK, Build
    <3> QED BY <3>1 DEF AuditKeepsUp, AuditInv
  <2>5. \A q \in Builders : Numbered(q) => build[q].run \in RunIds
    BY <1>0, IndexAssumption DEF IdsGiven, RunIds, IdInv, TypeOK
  <2>6. AuditKeepsUp'
    BY <2>1, <2>2, <2>3, <2>4, <2>5 DEF AuditKeepsUp, AuditInv, Numbered, At
  <2>7. CompletedRunsAreAudited'
    BY <2>1, <2>3 DEF CompletedRunsAreAudited, AuditInv
  <2> QED BY <1>0, <2>6, <2>7 DEF AuditInv
<1>3. ASSUME NEW b \in Builders, NEW s \in Scopes, Begin(b, s) PROVE AuditInv'
  <2>1. /\ build'[b].pc = "Allocating" /\ build'[b].item = {}
        /\ UNCHANGED <<runs, entries, trail>>
    BY <1>0, <1>3 DEF Begin, Idle, TypeOK
  <2>2. \A q \in Builders \ {b} : build'[q] = build[q]
    BY <1>0, <1>3, OthersStay DEF Step
  <2> QED BY <1>0, <2>1, <2>2
          DEF AuditInv, AuditKeepsUp, CompletedRunsAreAudited, Numbered, At
<1>4. ASSUME NEW b \in Builders, Commit(b) PROVE AuditInv'
  <2>1. /\ build[b].pc = "Allocating" /\ build'[b] = [build[b] EXCEPT !.pc = "Register"]
        /\ counter' = build[b].run /\ UNCHANGED <<runs, entries, trail>>
    BY <1>0, <1>4 DEF Commit, Goto, At, TypeOK
  <2>2. \A q \in Builders \ {b} : build'[q] = build[q]
    BY <1>0, <1>4, OthersStay DEF Step
  <2>3. \A x \in Artifacts : entries[build[b].run][x] = 0
    <3>1. build[b].run \in RunIds /\ build[b].run > counter
      BY <1>0, <2>1, IndexAssumption DEF Pending, At, IdInv, TypeOK, Build, RunIds
    <3> QED BY <1>0, <3>1 DEF FutureIsBlank, IdInv
  <2>4. /\ build'[b].pc = "Register" /\ build'[b].run = build[b].run
        /\ build'[b].item = build[b].item
    BY <1>0, <2>1 DEF TypeOK, Build
  <2>5. AuditKeepsUp'
    <3>1. ASSUME NEW q \in Builders
          PROVE  /\ \A u, v \in build'[q].item : u = v
                 /\ q # b => Numbered(q)' = Numbered(q)
      BY <2>2, <2>4 DEF AuditInv, AuditKeepsUp, Numbered
    <3>2. ASSUME NEW q \in Builders \ {b}, Numbered(q)
          PROVE  /\ build'[q].pc \notin {"Register", "Announce"} =>
                      Started \in trail'[build'[q].run]
                 /\ \A x \in Artifacts : entries'[build'[q].run][x] # 0 =>
                      x \in trail'[build'[q].run] \/ (At(q, "Audit")' /\ x \in build'[q].item)
      BY <2>1, <2>2, <3>2 DEF AuditInv, AuditKeepsUp, At
    <3>3. \A x \in Artifacts : entries'[build'[b].run][x] = 0
      BY <2>1, <2>3, <2>4
    <3> QED BY <2>4, <3>1, <3>2, <3>3 DEF AuditKeepsUp
  <2> QED BY <1>0, <2>1, <2>5 DEF AuditInv, CompletedRunsAreAudited
<1>8. ASSUME NEW b \in Builders, Release(b) PROVE AuditInv'
  <2>1. /\ build'[b].pc = "Idle" /\ build'[b].item = {}
        /\ UNCHANGED <<runs, entries, trail>>
    BY <1>0, <1>8 DEF Release, Idle, TypeOK
  <2>2. \A q \in Builders \ {b} : build'[q] = build[q]
    BY <1>0, <1>8, OthersStay DEF Step
  <2> QED BY <1>0, <2>1, <2>2
          DEF AuditInv, AuditKeepsUp, CompletedRunsAreAudited, Numbered, At
<1>5. ASSUME UNCHANGED <<runs, entries, trail, build>> PROVE AuditInv'
  BY <1>0, <1>5 DEF AuditInv, AuditKeepsUp, CompletedRunsAreAudited, Numbered, At
<1>6. ASSUME NEW x \in Artifacts, Edit(x) PROVE AuditInv'
  BY <1>5, <1>6 DEF Edit
<1>7. CASE UNCHANGED vars
  BY <1>5, <1>7 DEF vars
<1> QED BY <1>1, <1>2, <1>3, <1>4, <1>6, <1>7, <1>8 DEF Next, Step, Works, Ends

(***************************************************************************)
(* Whatever fails, and whoever races: the audit log tells of a completed   *)
(* run that it started, and of each of its entries.                        *)
(***************************************************************************)
THEOREM CompletedRunsAreTold == Spec => []CompletedRunsAreAudited
<1>1. Init => AuditInv
  <2> SUFFICES ASSUME Init PROVE CompletedRunsAreAudited /\ AuditKeepsUp
    BY IdInvInit DEF AuditInv
  <2>1. \A r \in RunIds : runs[r].status = "none"
    BY DEF Init, Absent
  <2>2. CompletedRunsAreAudited
    BY <2>1 DEF CompletedRunsAreAudited
  <2>3. \A b \in Builders : build[b].item = {} /\ ~Numbered(b)
    BY Zenon DEF Init, Idle, Numbered
  <2>4. AuditKeepsUp
    BY <2>3, Zenon DEF AuditKeepsUp
  <2> QED BY <2>2, <2>4
<1>2. AuditInv => CompletedRunsAreAudited
  BY DEF AuditInv
<1> QED BY <1>1, <1>2, AuditInvStep, PTL DEF Spec

-----------------------------------------------------------------------------
(***************************************************************************)
(* Staleness.  One must know that no two builds overlap, that a builder    *)
(* keeps to the texts it listed, and that what it is through with is       *)
(* settled: embedded, or recorded by another run that completed, whose     *)
(* rows stay (IdInv).                                                      *)
(***************************************************************************)
Alone ==
  /\ \A b \in Builders : At(b, "Idle") => build[b] = Idle
  /\ \A b, q \in Builders : ~At(b, "Idle") /\ ~At(q, "Idle") => b = q

\* Not yet embedded by b: still to be considered, or just about to be stored.
Open(b) == build[b].todo \union (IF At(b, "Vector") THEN build[b].item ELSE {})

Recorded(b, x) ==
  \E r \in RunIds \ {build[b].run} :
    runs[r].status = "completed" /\ entries[r][x] = build[b].seen[x]

Settled(b, x) == vectors[StoreOf[b]][x] = build[b].seen[x] \/ Recorded(b, x)

Vouched(b) ==
  /\ \A x \in Artifacts \ Open(b) : build[b].seen[x] # 0 => Settled(b, x)
  /\ ~Numbered(b) => build[b].seen = Unlisted
  /\ \A u, v \in build[b].item : u = v
  /\ At(b, "Report") => build[b].todo = {}

VouchInv == IdInv /\ (~disturbed => Alone /\ \A b \in Builders : Vouched(b))

LEMMA IdleIsVouched ==
  \A b \in Builders : build[b] = Idle => Vouched(b)
BY DEF Vouched, Idle, Unlisted, At

\* The builder works on what it listed: its rows are not yet those of a
\* completed run, and the rows of completed runs stay.
LEMMA RecordsStay ==
  ASSUME IdInv, NEW b \in Builders, Works(b), build'[b].seen = build[b].seen,
         NEW x \in Artifacts, Recorded(b, x)
  PROVE  Recorded(b, x)'
<1>1. PICK r \in RunIds \ {build[b].run} :
        runs[r].status = "completed" /\ entries[r][x] = build[b].seen[x]
  BY DEF Recorded
<1>2. build'[b].run = build[b].run /\ runs'[r] = runs[r] /\ entries'[r] = entries[r]
  BY WorkingStep DEF IdInv
<1> QED BY <1>1, <1>2 DEF Recorded

LEMMA VouchedWorks ==
  ASSUME IdInv, NEW b \in Builders, Works(b), Vouched(b), ~disturbed'
  PROVE  Vouched(b)'
<1> USE DEF TypeOK
<1>0. /\ build[b] \in Build /\ Numbered(b) /\ Numbered(b)' /\ ~At(b, "Report")
      /\ build'[b].run = build[b].run
      /\ \A r \in RunIds \ {build[b].run} : runs'[r] = runs[r] /\ entries'[r] = entries[r]
      /\ TypeOK
  BY WorkingStep DEF IdInv
\* A step that embeds nothing and opens nothing.
<1>1. ASSUME build'[b].seen = build[b].seen, UNCHANGED vectors,
             Open(b) \subseteq Open(b)', \A u, v \in build'[b].item : u = v,
             At(b, "Report")' => build'[b].todo = {}
      PROVE  Vouched(b)'
  <2>1. ASSUME NEW x \in Artifacts \ Open(b)', build'[b].seen[x] # 0 PROVE Settled(b, x)'
    <3>1. Settled(b, x)
      BY <1>1, <2>1 DEF Vouched
    <3> QED BY <1>1, <3>1, RecordsStay DEF Settled
  <2> QED BY <1>0, <1>1, <2>1 DEF Vouched
<1>2. ASSUME NEW pc \in Places, Goto(b, pc)
      PROVE  /\ build'[b].pc = pc /\ build'[b].seen = build[b].seen
             /\ build'[b].todo = build[b].todo /\ build'[b].item = build[b].item
  BY <1>0, <1>2 DEF Goto, Build
<1>3. CASE Register(b) \/ Announce(b)
  <2>1. /\ Goto(b, "Announce") \/ Goto(b, "Work")
        /\ UNCHANGED vectors /\ build[b].pc \in {"Register", "Announce"}
    BY <1>3 DEF Register, Announce, At
  <2>2. /\ build'[b].pc \in {"Announce", "Work"} /\ build'[b].seen = build[b].seen
        /\ build'[b].todo = build[b].todo /\ build'[b].item = build[b].item
    BY <1>2, <2>1 DEF Places
  <2> QED BY <1>1, <2>1, <2>2 DEF Open, At, Vouched
<1>4. CASE List(b)
  <2>1. PICK listed \in {Stored(b), {}} :
          build' = [build EXCEPT ![b] =
            [build[b] EXCEPT !.section = build[b].section + 1, !.todo = listed,
               !.seen = [x \in Artifacts |-> IF x \in listed THEN text[x] ELSE build[b].seen[x]]]]
    BY <1>4, Zenon DEF List
  <2>2. /\ build[b].pc = "Work" /\ build[b].todo = {} /\ UNCHANGED <<vectors, runs, entries>>
    BY <1>4, Zenon DEF List, At
  <2>3. /\ build'[b].pc = "Work" /\ build'[b].todo = listed /\ build'[b].item = build[b].item
        /\ \A x \in Artifacts : x \notin listed => build'[b].seen[x] = build[b].seen[x]
    BY <1>0, <2>1, <2>2 DEF Build
  <2>4. ASSUME NEW x \in Artifacts \ Open(b)', build'[b].seen[x] # 0 PROVE Settled(b, x)'
    <3>1. x \notin listed /\ x \notin Open(b) /\ build'[b].seen[x] = build[b].seen[x]
      BY <2>2, <2>3, <2>4 DEF Open, At
    <3>2. Settled(b, x)
      BY <2>4, <3>1 DEF Vouched
    <3> QED BY <1>0, <2>2, <3>1, <3>2 DEF Settled, Recorded
  <2> QED BY <1>0, <2>3, <2>4 DEF Vouched, At
<1>5. ASSUME NEW x \in Artifacts, Skip(b, x) PROVE Vouched(b)'
  <2>1. /\ build[b].pc = "Work" /\ x \in build[b].todo /\ build[b].seen[x] \in PriorHashes(x)
        /\ build' = [build EXCEPT ![b] = [build[b] EXCEPT !.todo = build[b].todo \ {x}]]
        /\ UNCHANGED <<vectors, runs, entries>>
    BY <1>5 DEF Skip, At
  <2>2. /\ build'[b].pc = "Work" /\ build'[b].todo = build[b].todo \ {x}
        /\ build'[b].item = build[b].item /\ build'[b].seen = build[b].seen
    BY <1>0, <2>1 DEF Build
  <2>3. Recorded(b, x)
    <3>1. PICK r \in RunIds : runs[r].status = "completed" /\ entries[r][x] = build[b].seen[x]
      BY <2>1 DEF PriorHashes
    <3>2. r # build[b].run
      BY <1>0, <3>1 DEF RunIdsAreDistinct, IdInv
    <3> QED BY <3>1, <3>2 DEF Recorded
  <2>4. ASSUME NEW y \in Artifacts \ Open(b)', build'[b].seen[y] # 0 PROVE Settled(b, y)'
    <3>1. y = x \/ y \notin Open(b)
      BY <2>1, <2>2, <2>4 DEF Open, At
    <3>2. Settled(b, y)
      BY <2>2, <2>3, <2>4, <3>1 DEF Vouched, Settled
    <3> QED BY <1>0, <2>1, <2>2, <3>2 DEF Settled, Recorded
  <2> QED BY <1>0, <2>2, <2>4 DEF Vouched, At
<1>6. ASSUME NEW x \in Artifacts, Embed(b, x) PROVE Vouched(b)'
  <2>1. /\ build[b].pc = "Work" /\ UNCHANGED vectors
        /\ build'[b].pc = "Vector" /\ build'[b].item = {x} /\ build'[b].seen = build[b].seen
        /\ build'[b].todo = build[b].todo \ {x}
    BY <1>0, <1>6 DEF Embed, At, Build
  <2> QED BY <1>1, <2>1 DEF Open, At
<1>7. CASE StoreVector(b)
  <2>1. /\ Goto(b, "Entry") /\ build[b].pc = "Vector" /\ UNCHANGED <<runs, entries>>
    BY <1>7 DEF StoreVector, At
  <2>2. PICK x \in build[b].item :
          vectors' = [vectors EXCEPT ![StoreOf[b]][x] = build[b].seen[x]]
    BY <1>7 DEF StoreVector
  <2>3. x \in Artifacts /\ \A y \in build[b].item : y = x
    BY <1>0, <2>2 DEF Vouched, Build
  <2>4. \A y \in Artifacts : vectors'[StoreOf[b]][y] =
                               IF y = x THEN build[b].seen[x] ELSE vectors[StoreOf[b]][y]
    BY <1>0, <2>2, <2>3, IndexAssumption
  <2>5. /\ build'[b].pc = "Entry" /\ build'[b].seen = build[b].seen
        /\ build'[b].todo = build[b].todo /\ build'[b].item = build[b].item
    BY <1>2, <2>1 DEF Places
  <2>6. ASSUME NEW y \in Artifacts \ Open(b)', build'[b].seen[y] # 0 PROVE Settled(b, y)'
    <3>1. CASE y = x
      BY <2>4, <2>5, <3>1 DEF Settled
    <3>2. CASE y # x
      <4>1. y \notin Open(b)
        BY <2>1, <2>3, <2>5, <2>6, <3>2 DEF Open, At
      <4>2. Settled(b, y)
        BY <2>5, <2>6, <4>1 DEF Vouched
      <4> QED BY <1>0, <2>1, <2>4, <2>5, <3>2, <4>2 DEF Settled, Recorded
    <3> QED BY <3>1, <3>2
  <2> QED BY <1>0, <2>5, <2>6 DEF Vouched, At
<1>8. CASE StoreEntry(b) \/ Complete(b)
  <2>1. /\ Goto(b, "Audit") \/ (Goto(b, "Report") /\ build[b].todo = {})
        /\ UNCHANGED vectors /\ build[b].pc \in {"Entry", "Work"}
    BY <1>8 DEF StoreEntry, Complete, At
  <2>2. /\ build'[b].pc \in {"Audit", "Report"} /\ build'[b].seen = build[b].seen
        /\ build'[b].todo = build[b].todo /\ build'[b].item = build[b].item
    BY <1>2, <2>1 DEF Places
  <2>3. build'[b].pc = "Report" => build[b].todo = {}
    BY <1>2, <2>1 DEF Places
  <2> QED BY <1>1, <2>1, <2>2, <2>3 DEF Open, At, Vouched
<1>9. CASE AuditArtifact(b)
  <2>1. /\ build[b].pc = "Audit" /\ UNCHANGED vectors
        /\ build'[b].pc = "Work" /\ build'[b].item = {} /\ build'[b].seen = build[b].seen
        /\ build'[b].todo = build[b].todo
    BY <1>0, <1>9 DEF AuditArtifact, At, Build
  <2> QED BY <1>1, <2>1 DEF Open, At
<1> QED BY <1>3, <1>4, <1>5, <1>6, <1>7, <1>8, <1>9 DEF Works

LEMMA VouchInvStep == VouchInv /\ [Next]_vars => VouchInv'
<1> SUFFICES ASSUME VouchInv, [Next]_vars, ~disturbed'
             PROVE  Alone' /\ \A b \in Builders : Vouched(b)'
  BY IdInvStep DEF VouchInv
<1>0. TypeOK /\ IdInv
  BY DEF VouchInv, IdInv
<1>1. ~disturbed
  <2>1. ASSUME NEW b \in Builders, Step(b) PROVE disturbed => disturbed'
    <3>1. CASE \E scope \in Scopes : Begin(b, scope)
      BY <3>1, Zenon DEF Begin
    <3>2. CASE StoreVector(b)
      BY <3>2, Zenon DEF StoreVector
    <3>3. CASE ~(\E scope \in Scopes : Begin(b, scope)) /\ ~StoreVector(b)
      BY <2>1, <3>3, Zenon DEF Step, Commit, CommitFails, Release, Register, Announce, List,
              Skip, Embed, StoreEntry, AuditArtifact, Complete, Report, AuditFails, Crash
    <3> QED BY <3>1, <3>2, <3>3
  <2>2. disturbed => disturbed'
    BY <2>1, Zenon DEF Next, Edit, vars
  <2> QED BY <2>2
<1>2. Alone /\ \A b \in Builders : Vouched(b)
  BY <1>1 DEF VouchInv
<1>3. ASSUME UNCHANGED <<runs, entries, vectors, build>>
      PROVE  Alone' /\ \A b \in Builders : Vouched(b)'
  BY <1>2, <1>3 DEF Alone, Vouched, Settled, Recorded, Open, Numbered, At
\* A builder that was working goes on, or ends: the others are idle.
<1>4. ASSUME NEW b \in Builders, Step(b), ~At(b, "Idle"), Vouched(b)',
             At(b, "Idle")' => build'[b] = Idle
      PROVE  Alone' /\ \A q \in Builders : Vouched(q)'
  <2>1. \A q \in Builders \ {b} : build'[q] = Idle
    BY <1>0, <1>2, <1>4, OthersStay DEF Alone
  <2>2. Alone'
    BY <1>4, <2>1 DEF Alone, At, Idle
  <2>3. \A q \in Builders : build'[q] = Idle => Vouched(q)'
    BY DEF Vouched, Idle, Unlisted, At
  <2> QED BY <1>4, <2>1, <2>2, <2>3
<1>5. ASSUME NEW b \in Builders, Works(b) PROVE Alone' /\ \A q \in Builders : Vouched(q)'
  <2>1. Vouched(b)' /\ Numbered(b) /\ Numbered(b)'
    BY <1>0, <1>2, <1>5, VouchedWorks, WorkingStep
  <2>2. Step(b)
    BY <1>5 DEF Works, Step
  <2> QED BY <1>4, <2>1, <2>2 DEF Numbered, At
<1>6. ASSUME NEW b \in Builders, Commit(b) \/ (CommitFails(b) /\ ~Leave(b))
      PROVE  Alone' /\ \A q \in Builders : Vouched(q)'
  <2>1. /\ build[b].pc = "Allocating"
        /\ build' = [build EXCEPT ![b] = [build[b] EXCEPT !.pc = "Register"]] \/
           build' = [build EXCEPT ![b] = [build[b] EXCEPT !.pc = "Stuck"]]
    BY <1>0, <1>6 DEF Commit, CommitFails, Goto, At, TypeOK
  <2>2. /\ build'[b].pc \in {"Register", "Stuck"} /\ build'[b].item = build[b].item
        /\ build'[b].seen = build[b].seen
    BY <1>0, <2>1 DEF TypeOK, Build
  <2>3. build[b].seen = Unlisted /\ \A u, v \in build[b].item : u = v
    BY <1>2, <2>1 DEF Vouched, Numbered
  <2>4. Vouched(b)'
    BY <2>2, <2>3 DEF Vouched, Unlisted, At
  <2>5. Step(b)
    BY <1>6 DEF Step
  <2> QED BY <1>4, <2>1, <2>2, <2>4, <2>5 DEF At
<1>7. ASSUME NEW b \in Builders, Step(b), build'[b] = Idle, ~At(b, "Idle")
      PROVE  Alone' /\ \A q \in Builders : Vouched(q)'
  <2>1. Vouched(b)'
    BY <1>7 DEF Vouched, Idle, Unlisted, At
  <2> QED BY <1>4, <1>7, <2>1
<1>8. ASSUME NEW b \in Builders, Leave(b) PROVE build'[b] = Idle
  BY <1>0, <1>8 DEF Leave, TypeOK
\* A build begins: had another been working, the two would overlap.
<1>9. ASSUME NEW b \in Builders, NEW scope \in Scopes, Begin(b, scope)
      PROVE  Alone' /\ \A q \in Builders : Vouched(q)'
  <2>1. \A q \in Builders \ {b} : build'[q] = build[q] /\ At(q, "Idle")
    <3>1. Step(b)
      BY <1>9 DEF Step
    <3> QED BY <1>0, <1>9, <3>1, OthersStay DEF Begin
  <2>2. \A q \in Builders \ {b} : build'[q] = Idle
    BY <1>2, <2>1 DEF Alone
  <2>3. /\ build'[b].pc = "Allocating" /\ build'[b].item = {} /\ build'[b].seen = Unlisted
    BY <1>0, <1>9 DEF Begin, Idle, TypeOK
  <2>4. Alone' /\ Vouched(b)'
    BY <2>2, <2>3 DEF Alone, Vouched, Unlisted, At, Idle
  <2>5. \A q \in Builders : build'[q] = Idle => Vouched(q)'
    BY DEF Vouched, Idle, Unlisted, At
  <2> QED BY <2>2, <2>4, <2>5
\* A server goes down between two builds: a store that goes with it is its own.
<1>10. ASSUME NEW b \in Builders, Crash(b), At(b, "Idle")
       PROVE  Alone' /\ \A q \in Builders : Vouched(q)'
  <2>1. build' = build /\ UNCHANGED <<runs, entries>> /\ build[b] = Idle
    BY <1>0, <1>2, <1>10 DEF Crash, Alone, TypeOK
  <2>2. ASSUME NEW q \in Builders \ {b} PROVE vectors'[StoreOf[q]] = vectors[StoreOf[q]]
    BY <1>0, <1>10, IndexAssumption DEF Crash, StoreGoes, TypeOK
  <2>3. ASSUME NEW q \in Builders \ {b} PROVE Vouched(q)'
    BY <1>2, <2>1, <2>2 DEF Vouched, Settled, Recorded, Open, Numbered, At
  <2>4. Vouched(b)'
    BY <2>1 DEF Vouched, Idle, Unlisted, At
  <2> QED BY <1>2, <2>1, <2>3, <2>4 DEF Alone, At
<1>11. ASSUME NEW b \in Builders, Step(b) PROVE Alone' /\ \A q \in Builders : Vouched(q)'
  <2>1. CASE Works(b)
    BY <1>5, <2>1
  <2>5. CASE Commit(b)
    BY <1>6, <2>5
  <2>6. CASE \E scope \in Scopes : Begin(b, scope)
    BY <1>9, <2>6
  <2>2. CASE CommitFails(b)
    <3>1. ~At(b, "Idle")
      BY <2>2 DEF CommitFails, At
    <3>2. CASE Leave(b)
      BY <1>7, <1>8, <1>11, <3>1, <3>2
    <3>3. CASE ~Leave(b)
      BY <1>6, <2>2, <3>3
    <3> QED BY <3>2, <3>3
  <2>3. CASE Report(b) \/ AuditFails(b)
    BY <1>7, <1>8, <1>11, <2>3 DEF Report, AuditFails, At
  <2>4. CASE Crash(b) \/ Release(b)
    <3>1. build'[b] = Idle
      BY <1>0, <2>4 DEF Crash, Release, TypeOK
    <3>2. Release(b) => ~At(b, "Idle")
      BY DEF Release, At
    <3> QED BY <1>7, <1>10, <1>11, <2>4, <3>1, <3>2
  <2> QED BY <1>11, <2>1, <2>2, <2>3, <2>4, <2>5, <2>6 DEF Step, Works
<1>12. ASSUME NEW x \in Artifacts, Edit(x) PROVE UNCHANGED <<runs, entries, vectors, build>>
  BY <1>12 DEF Edit
<1> QED BY <1>3, <1>11, <1>12 DEF Next, vars

(***************************************************************************)
(* Of any stores, in memory or on disk, and of texts that may come back:   *)
(* an undisturbed build leaves a vector stale only where an earlier run    *)
(* that completed had recorded the very text it listed                     *)
(* (index_build_pipeline.cpp: the comparison with the prior hash).         *)
(***************************************************************************)
THEOREM StaleVectorsAreRecorded == Spec => []StaleIsRecorded
<1>1. Init => VouchInv
  <2> SUFFICES ASSUME Init PROVE Alone /\ \A b \in Builders : Vouched(b)
    BY IdInvInit DEF VouchInv
  <2>1. \A b \in Builders : build[b] = Idle
    BY Zenon DEF Init
  <2> QED BY <2>1, IdleIsVouched DEF Alone, At, Idle
<1>2. VouchInv => StaleIsRecorded
  BY DEF VouchInv, Vouched, Settled, Recorded, Open, At, StaleIsRecorded
<1> QED BY <1>1, <1>2, VouchInvStep, PTL DEF Spec
=============================================================================
