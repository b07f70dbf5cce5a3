----------------------- MODULE SchemaMigrationProofs ------------------------
(***************************************************************************)
(* A recorded schema version is the truth, for any number of processes     *)
(* that run the chain at the same time and crash between statements.       *)
(***************************************************************************)
EXTENDS SchemaMigration, TLAPS

(***************************************************************************)
(* The only facts about the table Objects the proofs use.                  *)
(***************************************************************************)
LEMMA ObjectsShape ==
  /\ Versions = 1 .. 8
  /\ \A n \in Versions : DOMAIN Objects[n] = 1 .. Size(n)
  /\ \A n \in Versions : Size(n) \in 1 .. 8
<1>1. Versions = 1 .. 8
  BY DEF Versions, Objects
<1>2. ASSUME NEW n \in Versions
      PROVE  DOMAIN Objects[n] = 1 .. Len(Objects[n]) /\ Len(Objects[n]) \in 1 .. 8
  BY DEF Versions, Objects
<1> QED BY <1>1, <1>2 DEF Size

(***************************************************************************)
(* get_schema_version returns the largest of the recorded versions.        *)
(***************************************************************************)
LEMMA VersionIsMax ==
  ASSUME stamped \subseteq Versions, stamped # {}
  PROVE  Version \in stamped /\ \A m \in stamped : m <= Version
<1>1. stamped \subseteq 1 .. 8
  BY ObjectsShape
<1>2. \E n \in stamped : \A m \in stamped : m <= n
  <2> SUFFICES ASSUME \A n \in stamped : \E m \in stamped : ~(m <= n)
               PROVE  FALSE
    OBVIOUS
  <2>8. 8 \notin stamped
    BY <1>1
  <2>7. 7 \notin stamped
    BY <1>1, <2>8
  <2>6. 6 \notin stamped
    BY <1>1, <2>8, <2>7
  <2>5. 5 \notin stamped
    BY <1>1, <2>8, <2>7, <2>6
  <2>4. 4 \notin stamped
    BY <1>1, <2>8, <2>7, <2>6, <2>5
  <2>3. 3 \notin stamped
    BY <1>1, <2>8, <2>7, <2>6, <2>5, <2>4
  <2>2. 2 \notin stamped
    BY <1>1, <2>8, <2>7, <2>6, <2>5, <2>4, <2>3
  <2>1. 1 \notin stamped
    BY <1>1, <2>8, <2>7, <2>6, <2>5, <2>4, <2>3, <2>2
  <2>9. PICK n \in stamped : TRUE
    OBVIOUS
  <2>10. n \in 1 .. 8
    BY <1>1
  <2> QED BY <2>1, <2>2, <2>3, <2>4, <2>5, <2>6, <2>7, <2>8, <2>9, <2>10
<1> QED BY <1>2 DEF Version

-----------------------------------------------------------------------------
(***************************************************************************)
(* The inductive invariant.  A process that works on a level has every     *)
(* level below it in place, and of its own level the objects of the        *)
(* statements behind it.  Both survive whatever the others do, because no  *)
(* step ever takes an object away.                                         *)
(***************************************************************************)
InChain ==
  \A p \in Processes : Running(p) =>
    /\ proc[p].target \in Targets
    /\ proc[p].level \in Versions
    /\ proc[p].level <= proc[p].target
    /\ proc[p].stmt <= Size(proc[p].level) + 1

BelowInPlace ==
  \A p \in Processes : Running(p) =>
    \A m \in Versions : m < proc[p].level => ObjectsOf(m) \subseteq schema

BehindInPlace ==
  \A p \in Processes : Running(p) =>
    \A k \in DOMAIN Objects[proc[p].level] :
      k < proc[p].stmt => Objects[proc[p].level][k] \in schema

ChainInv == TypeOK /\ VersionIsTrue /\ InChain /\ BelowInPlace /\ BehindInPlace

(***************************************************************************)
(* A process at the end of its statements has its whole level in place.    *)
(***************************************************************************)
LEMMA StampingIsEarned ==
  ASSUME ChainInv, NEW p \in Processes, Stamping(p)
  PROVE  \A m \in 1 .. proc[p].level : ObjectsOf(m) \subseteq schema
<1>1. Running(p) /\ proc[p].level \in Versions
  BY DEF Stamping, Executing, ChainInv, InChain
<1>2. \A m \in Versions : m < proc[p].level => ObjectsOf(m) \subseteq schema
  BY <1>1 DEF ChainInv, BelowInPlace
<1>3. ObjectsOf(proc[p].level) \subseteq schema
  <2>1. \A k \in DOMAIN Objects[proc[p].level] : k < proc[p].stmt
    <3>1. /\ DOMAIN Objects[proc[p].level] = 1 .. Size(proc[p].level)
          /\ Size(proc[p].level) \in 1 .. 8
      BY <1>1, ObjectsShape
    <3>2. proc[p].stmt = Size(proc[p].level) + 1
      BY DEF Stamping
    <3> QED BY <3>1, <3>2
  <2> QED BY <1>1, <2>1 DEF ChainInv, BehindInPlace, ObjectsOf
<1> QED BY <1>1, <1>2, <1>3, ObjectsShape

(***************************************************************************)
(* A process that skips its level finds it, and all below it, in place.    *)
(***************************************************************************)
LEMMA SkippingIsEarned ==
  ASSUME ChainInv, NEW p \in Processes, Running(p), Version >= proc[p].level
  PROVE  \A m \in 1 .. proc[p].level : ObjectsOf(m) \subseteq schema
<1>1. proc[p].level \in 1 .. 8
  BY ObjectsShape DEF ChainInv, InChain
<1>2. stamped # {}
  BY <1>1 DEF Version
<1>3. Version \in stamped /\ stamped \subseteq 1 .. 8
  BY <1>2, VersionIsMax, ObjectsShape DEF ChainInv, TypeOK
<1>4. \A m \in 1 .. Version : ObjectsOf(m) \subseteq schema
  BY <1>3 DEF ChainInv, VersionIsTrue
<1> QED BY <1>1, <1>3, <1>4

(***************************************************************************)
(* What a step that takes a process from one level to the next, or out of  *)
(* the chain, leaves of the invariant.                                     *)
(***************************************************************************)
LEMMA LevelDoneKeeps ==
  ASSUME ChainInv, NEW p \in Processes, Running(p), LevelDone(p),
         \A m \in 1 .. proc[p].level : ObjectsOf(m) \subseteq schema,
         schema' = schema
  PROVE  /\ proc' \in [Processes -> Positions]
         /\ outcome' \in [Processes -> {"None", "Ok", "Error", "DuplicateColumn"}]
         /\ InChain' /\ BelowInPlace' /\ BehindInPlace'
<1>1. /\ proc[p].target \in Targets /\ proc[p].target \in 1 .. 8
      /\ proc[p].level \in 1 .. 8 /\ proc[p].level <= proc[p].target
  BY ObjectsShape, TargetsAssumption DEF ChainInv, InChain
<1>2. /\ proc \in [Processes -> Positions]
      /\ outcome \in [Processes -> {"None", "Ok", "Error", "DuplicateColumn"}]
  BY DEF ChainInv, TypeOK
<1>3. CASE proc[p].level = proc[p].target
  <2>1. /\ proc' = [proc EXCEPT ![p] = Idle]
        /\ outcome' = [outcome EXCEPT ![p] = "Ok"]
    BY <1>3 DEF LevelDone, Return
  <2>2. ~Running(p)' /\ \A q \in Processes \ {p} : proc'[q] = proc[q]
    BY <2>1, <1>2 DEF Running
  <2> QED BY <2>1, <2>2, <1>2 DEF ChainInv, InChain, BelowInPlace, BehindInPlace, Running,
                                Idle,
                  Positions
<1>4. CASE proc[p].level # proc[p].target
  <2>1. /\ proc' = [proc EXCEPT ![p] = [target |-> proc[p].target,
                                       level |-> proc[p].level + 1, stmt |-> 0]]
        /\ outcome' = outcome
    BY <1>4, <1>2 DEF LevelDone, GoTo
  <2>2. /\ \A q \in Processes \ {p} : proc'[q] = proc[q]
        /\ proc'[p].target = proc[p].target
        /\ proc'[p].level = proc[p].level + 1 /\ proc'[p].stmt = 0
    BY <2>1, <1>2
  <2>3. proc'[p].level \in 1 .. 8 /\ proc'[p].level <= proc'[p].target
    BY <2>2, <1>1, <1>4
  <2>4. proc' \in [Processes -> Positions]
    BY <2>1, <2>2, <2>3, <1>1, <1>2 DEF Positions
  <2>5. InChain'
    BY <2>2, <2>3, <1>1, ObjectsShape DEF ChainInv, InChain, Running
  <2>6. BelowInPlace'
    BY <2>2, <1>1, ObjectsShape DEF ChainInv, BelowInPlace, Running
  <2>7. BehindInPlace'
    <3>1. \A k \in DOMAIN Objects[proc'[p].level] : ~(k < proc'[p].stmt)
      BY <2>2, <2>3, ObjectsShape
    <3> QED BY <2>2, <3>1 DEF ChainInv, BehindInPlace, Running
  <2> QED BY <2>1, <2>4, <2>5, <2>6, <2>7, <1>2
<1> QED BY <1>3, <1>4

(***************************************************************************)
(* A process that leaves the chain, for whatever reason, leaves what it    *)
(* has added behind.                                                       *)
(***************************************************************************)
LEMMA ReturnKeeps ==
  ASSUME ChainInv, NEW p \in Processes,
         NEW how \in {"None", "Ok", "Error", "DuplicateColumn"}, Return(p, how),
         UNCHANGED <<schema, stamped>>
  PROVE  ChainInv'
<1>1. /\ proc \in [Processes -> Positions]
      /\ outcome \in [Processes -> {"None", "Ok", "Error", "DuplicateColumn"}]
  BY DEF ChainInv, TypeOK
<1>2. ~Running(p)' /\ \A q \in Processes \ {p} : proc'[q] = proc[q]
  BY <1>1 DEF Return, Running
<1>3. InChain' /\ BelowInPlace' /\ BehindInPlace'
  BY <1>2 DEF ChainInv, InChain, BelowInPlace, BehindInPlace, Running
<1>4. TypeOK'
  BY <1>1 DEF ChainInv, TypeOK, Return, Idle, Positions
<1> QED BY <1>3, <1>4 DEF ChainInv, VersionIsTrue

-----------------------------------------------------------------------------
(***************************************************************************)
(* The invariant holds at the start and is kept by every step.             *)
(***************************************************************************)
LEMMA InitChainInv == Init => ChainInv
BY DEF Init, ChainInv, TypeOK, VersionIsTrue, InChain, BelowInPlace, BehindInPlace,
       Running, Idle, Positions

LEMMA NextChainInv == ChainInv /\ [Next]_vars => ChainInv'
<1> SUFFICES ASSUME ChainInv, [Next]_vars PROVE ChainInv'
  OBVIOUS
<1>t. /\ schema \subseteq UNION {ObjectsOf(n) : n \in Versions}
      /\ stamped \subseteq Versions
      /\ proc \in [Processes -> Positions]
      /\ outcome \in [Processes -> {"None", "Ok", "Error", "DuplicateColumn"}]
  BY DEF ChainInv, TypeOK
<1>1. ASSUME NEW p \in Processes, NEW target \in Targets, Open(p, target)
      PROVE  ChainInv'
  <2>1. /\ proc' = [proc EXCEPT ![p] = [target |-> target, level |-> 1, stmt |-> 0]]
        /\ outcome' = [outcome EXCEPT ![p] = "None"]
        /\ UNCHANGED <<schema, stamped>>
    BY <1>1 DEF Open
  <2>2. /\ \A q \in Processes \ {p} : proc'[q] = proc[q]
        /\ proc'[p].target = target /\ proc'[p].level = 1 /\ proc'[p].stmt = 0
    BY <2>1, <1>t
  <2>3. target \in 1 .. 8
    BY ObjectsShape, TargetsAssumption
  <2>4. TypeOK'
    BY <2>1, <2>3, <1>t DEF TypeOK, Positions
  <2>5. InChain'
    BY <2>1, <2>2, <2>3, ObjectsShape DEF ChainInv, InChain, Running
  <2>6. BelowInPlace'
    BY <2>1, <2>2, ObjectsShape DEF ChainInv, BelowInPlace, Running
  <2>7. BehindInPlace'
    <3>1. \A k \in DOMAIN Objects[1] : ~(k < 0)
      BY ObjectsShape
    <3> QED BY <2>1, <2>2, <3>1 DEF ChainInv, BehindInPlace, Running
  <2> QED BY <2>1, <2>4, <2>5, <2>6, <2>7 DEF ChainInv, VersionIsTrue
<1>2. ASSUME NEW p \in Processes, Skip(p) PROVE ChainInv'
  <2>1. \A m \in 1 .. proc[p].level : ObjectsOf(m) \subseteq schema
    BY <1>2, SkippingIsEarned DEF Skip, Checking
  <2> QED BY <1>2, <2>1, <1>t, LevelDoneKeeps
       DEF Skip, Checking, ChainInv, TypeOK, VersionIsTrue
<1>3. ASSUME NEW p \in Processes, Migrate(p) PROVE ChainInv'
  <2>1. /\ proc' = [proc EXCEPT ![p] = [target |-> proc[p].target,
                                       level |-> proc[p].level, stmt |-> 1]]
        /\ Running(p) /\ UNCHANGED <<schema, stamped, outcome>>
    BY <1>3, <1>t DEF Migrate, Checking, GoTo
  <2>2. /\ \A q \in Processes \ {p} : proc'[q] = proc[q]
        /\ proc'[p].target = proc[p].target /\ proc'[p].level = proc[p].level
        /\ proc'[p].stmt = 1
    BY <2>1, <1>t
  <2>3. TypeOK'
    BY <2>1, <1>t DEF TypeOK, Positions
  <2>4. InChain' /\ BelowInPlace'
    BY <2>1, <2>2, ObjectsShape DEF ChainInv, InChain, BelowInPlace, Running
  <2>5. BehindInPlace'
    <3>1. \A k \in DOMAIN Objects[proc[p].level] : ~(k < 1)
      BY <2>1, ObjectsShape DEF ChainInv, InChain
    <3> QED BY <2>1, <2>2, <3>1 DEF ChainInv, BehindInPlace, Running
  <2> QED BY <2>1, <2>3, <2>4, <2>5 DEF ChainInv, VersionIsTrue
<1>4. ASSUME NEW p \in Processes, Add(p) PROVE ChainInv'
  <2>1. /\ proc' = [proc EXCEPT ![p] = [target |-> proc[p].target,
                     level |-> proc[p].level, stmt |-> proc[p].stmt + 1]]
        /\ schema' = schema \cup {Objects[proc[p].level][proc[p].stmt]}
        /\ UNCHANGED <<stamped, outcome>>
    BY <1>4, <1>t DEF Add, Pending, GoTo
  <2>2. /\ \A q \in Processes \ {p} : proc'[q] = proc[q]
        /\ proc'[p].target = proc[p].target /\ proc'[p].level = proc[p].level
        /\ proc'[p].stmt = proc[p].stmt + 1
    BY <2>1, <1>t
  <2>3. /\ Running(p) /\ proc[p].level \in Versions
        /\ proc[p].stmt \in 1 .. Size(proc[p].level)
    <3>1. /\ Running(p) /\ proc[p].level \in Versions
          /\ proc[p].stmt <= Size(proc[p].level) + 1
          /\ proc[p].stmt # Size(proc[p].level) + 1
          /\ proc[p].stmt # 0
      BY <1>4 DEF Add, Adding, Stamping, Executing, ChainInv, InChain
    <3>2. proc[p].stmt \in 0 .. 9 /\ Size(proc[p].level) \in 1 .. 8
      BY <3>1, <1>t, ObjectsShape DEF Positions
    <3> QED BY <3>1, <3>2
  <2>4. Objects[proc[p].level][proc[p].stmt] \in ObjectsOf(proc[p].level)
    BY <2>3, ObjectsShape DEF ObjectsOf
  <2>5. TypeOK'
    <3>1. proc'[p].stmt \in 0 .. 9
      <4>1. Size(proc[p].level) \in 1 .. 8
        BY <2>3, ObjectsShape
      <4> QED BY <2>2, <2>3, <4>1
    <3> QED BY <2>1, <2>2, <2>3, <2>4, <3>1, <1>t DEF TypeOK, Positions
  <2>6. InChain'
    <3>1. Size(proc[p].level) \in 1 .. 8
      BY <2>3, ObjectsShape
    <3>2. proc'[p].stmt <= Size(proc'[p].level) + 1
      BY <2>2, <2>3, <3>1
    <3> QED BY <2>2, <2>3, <3>2 DEF ChainInv, InChain, Running
  <2>7. BelowInPlace'
    BY <2>1, <2>2, <2>3 DEF ChainInv, BelowInPlace, Running
  <2>8. BehindInPlace'
    <3>1. /\ DOMAIN Objects[proc[p].level] = 1 .. Size(proc[p].level)
          /\ Size(proc[p].level) \in 1 .. 8
      BY <2>3, ObjectsShape
    <3>2. \A k \in DOMAIN Objects[proc[p].level] :
            k < proc[p].stmt + 1 => k < proc[p].stmt \/ k = proc[p].stmt
      BY <2>3, <3>1
    <3> QED BY <2>1, <2>2, <2>3, <3>2 DEF ChainInv, BehindInPlace, Running
  <2> QED BY <2>1, <2>5, <2>6, <2>7, <2>8 DEF ChainInv, VersionIsTrue
<1>5. ASSUME NEW p \in Processes, Stamp(p) PROVE ChainInv'
  <2>1. \A m \in 1 .. proc[p].level : ObjectsOf(m) \subseteq schema
    BY <1>5, StampingIsEarned DEF Stamp
  <2>2. Running(p) /\ proc[p].level \in Versions
    BY <1>5 DEF Stamp, Stamping, Executing, ChainInv, InChain
  <2>3. VersionIsTrue'
    BY <1>5, <2>1 DEF Stamp, ChainInv, VersionIsTrue
  <2> QED BY <1>5, <2>1, <2>2, <2>3, <1>t, LevelDoneKeeps DEF Stamp, ChainInv, TypeOK
<1>6. ASSUME NEW p \in Processes, AddFails(p) PROVE ChainInv'
  BY <1>6, ReturnKeeps DEF AddFails
<1>7. ASSUME NEW p \in Processes, StatementFails(p) PROVE ChainInv'
  BY <1>7, ReturnKeeps DEF StatementFails
<1>8. ASSUME NEW p \in Processes, Crash(p) PROVE ChainInv'
  BY <1>8, ReturnKeeps DEF Crash
<1>9. CASE UNCHANGED vars
  BY <1>9 DEF vars, ChainInv, TypeOK, VersionIsTrue, InChain, BelowInPlace,
              BehindInPlace, Running
<1> QED BY <1>1, <1>2, <1>3, <1>4, <1>5, <1>6, <1>7, <1>8, <1>9 DEF Next

LEMMA ChainInvHolds == Spec => []ChainInv
BY InitChainInv, NextChainInv, PTL DEF Spec

(***************************************************************************)
(* The database and the processes keep their types; the position in the    *)
(* chain never leaves the table of objects.                                *)
(***************************************************************************)
THEOREM TypeCorrect == Spec => []TypeOK
<1>1. ChainInv => TypeOK
  BY DEF ChainInv
<1> QED BY <1>1, ChainInvHolds, PTL

(***************************************************************************)
(* Whatever number of processes run ensure_schema_vN at once, and whatever *)
(* goes down between two statements: a version in schema_version comes     *)
(* with every object of that version and of all below it.                  *)
(***************************************************************************)
THEOREM VersionsAreTrue == Spec => []VersionIsTrue
<1>1. ChainInv => VersionIsTrue
  BY DEF ChainInv
<1> QED BY <1>1, ChainInvHolds, PTL

(***************************************************************************)
(* ensure_schema_vN returns success only on a database that has everything *)
(* up to version N, also when another process has put it there.            *)
(***************************************************************************)
THEOREM OpenedDatabasesAreReady == Spec => OpenedIsReady
<1> DEFINE Ready(p) == \A m \in 1 .. proc[p].target : ObjectsOf(m) \subseteq schema'
           OpensReady == \A p \in Processes :
                           (outcome'[p] = "Ok" /\ outcome[p] # "Ok") => Ready(p)
<1>1. ASSUME ChainInv, [Next]_vars PROVE OpensReady
  <2> SUFFICES ASSUME NEW p \in Processes, outcome'[p] = "Ok", outcome[p] # "Ok"
               PROVE  Ready(p)
    OBVIOUS
  <2>1. outcome \in [Processes -> {"None", "Ok", "Error", "DuplicateColumn"}]
    BY <1>1 DEF ChainInv, TypeOK
  <2>2. ASSUME NEW q \in Processes, NEW target \in Targets, Open(q, target) PROVE FALSE
    BY <2>1, <2>2 DEF Open
  <2>3. ASSUME NEW q \in Processes, Migrate(q) \/ Add(q) PROVE FALSE
    BY <2>3 DEF Migrate, Add
  <2>4. ASSUME NEW q \in Processes, AddFails(q) \/ StatementFails(q) \/ Crash(q) PROVE FALSE
    BY <2>1, <2>4 DEF AddFails, StatementFails, Crash, Return
  <2>5. ASSUME NEW q \in Processes, LevelDone(q)
        PROVE  q = p /\ proc[p].level = proc[p].target
    BY <2>1, <2>5 DEF LevelDone, Return
  <2>6. ASSUME NEW q \in Processes, Skip(q) PROVE Ready(p)
    <3>1. q = p /\ proc[p].level = proc[p].target
      BY <2>5, <2>6 DEF Skip
    <3>2. \A m \in 1 .. proc[p].level : ObjectsOf(m) \subseteq schema
      BY <3>1, <2>6, <1>1, SkippingIsEarned DEF Skip, Checking
    <3> QED BY <2>6, <3>1, <3>2 DEF Skip
  <2>7. ASSUME NEW q \in Processes, Stamp(q) PROVE Ready(p)
    <3>1. q = p /\ proc[p].level = proc[p].target
      BY <2>5, <2>7 DEF Stamp
    <3>2. \A m \in 1 .. proc[p].level : ObjectsOf(m) \subseteq schema
      BY <3>1, <2>7, <1>1, StampingIsEarned DEF Stamp
    <3> QED BY <2>7, <3>1, <3>2 DEF Stamp
  <2>8. CASE UNCHANGED vars
    BY <2>8 DEF vars
  <2> QED BY <1>1, <2>2, <2>3, <2>4, <2>6, <2>7, <2>8 DEF Next
<1>2. Spec => [][OpensReady]_vars
  BY <1>1, ChainInvHolds, PTL DEF Spec
<1> QED BY <1>2 DEF OpenedIsReady
=============================================================================
