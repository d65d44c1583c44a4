--------------------------- MODULE MigrateProofs ---------------------------
(***************************************************************************)
(* Proofs about Migrate, for any number of migrations, replicas and faults *)
(* and any mix of binaries.                                                *)
(***************************************************************************)
EXTENDS Migrate, TLAPS

USE MigrateAssumption

-----------------------------------------------------------------------------
(* Type correctness.                                                       *)

PositionOK ==
  /\ pc \in [Replicas -> Steps]
  /\ next \in [Replicas -> 1..(Count + 1)]
  /\ \A p \in Replicas : next[p] \in 1..(Known[p] + 1)
  /\ \A p \in Replicas :
       pc[p] \in {"recheck", "up", "record", "commit"} => next[p] <= Known[p]

\* A replica that goes to a step, at one of its migrations or past the last.
LEMMA MoveType ==
  ASSUME TypeOK, NEW p \in Replicas, NEW step \in Steps,
         NEW i \in 1..(Known[p] + 1),
         step \in {"recheck", "up", "record", "commit"} => i <= Known[p],
         pc' = [pc EXCEPT ![p] = step], next' = [next EXCEPT ![p] = i]
  PROVE  PositionOK'
<1>1. i \in 1..(Count + 1)
  OBVIOUS
<1> QED
  BY <1>1 DEF TypeOK, PositionOK

\* It may stay at its migration.
LEMMA GoToType ==
  ASSUME TypeOK, NEW p \in Replicas, NEW step \in Steps, GoTo(p, step),
         UNCHANGED next,
         step \in {"recheck", "up", "record", "commit"} => next[p] <= Known[p]
  PROVE  PositionOK'
<1>1. next' = [next EXCEPT ![p] = next[p]]
  BY DEF TypeOK
<1>2. next[p] \in 1..(Known[p] + 1)
  BY DEF TypeOK
<1> QED
  BY <1>1, <1>2, MoveType DEF GoTo

\* Or go on to the following one.
LEMMA AdvanceType ==
  ASSUME TypeOK, NEW p \in Replicas, Advance(p), next[p] <= Known[p]
  PROVE  PositionOK'
<1>1. next[p] + 1 \in 1..(Known[p] + 1)
  BY DEF TypeOK
<1>2. "check" \in Steps
  BY DEF Steps
<1> QED
  BY <1>1, <1>2, MoveType DEF Advance, GoTo

\* The migration a replica runs is one that exists.
LEMMA NextExists ==
  ASSUME TypeOK, NEW p \in Replicas, next[p] <= Known[p]
  PROVE  next[p] \in Versions
BY DEF TypeOK, Versions

\* One step of a replica keeps the state well typed.
LEMMA StepType ==
  ASSUME TypeOK, NEW p \in Replicas, Step(p)
  PROVE  TypeOK'
<1>0. \A step \in {"read", "check", "recheck", "up", "record", "commit",
                   "serving", "failed"} : step \in Steps
  BY DEF Steps
<1>1. CASE TakeLock(p)
  <2>1. PositionOK'
    BY <1>0, <1>1, GoToType DEF TakeLock
  <2> QED
    BY <1>1, <2>1 DEF TakeLock, TypeOK, PositionOK
<1>2. CASE ReadRecorded(p)
  <2>1. PositionOK'
    BY <1>0, <1>2, GoToType DEF ReadRecorded
  <2> QED
    BY <1>2, <2>1 DEF ReadRecorded, TypeOK, PositionOK
<1>3. CASE StartSQLite(p)
  <2>1. PositionOK'
    BY <1>0, <1>3, GoToType DEF StartSQLite
  <2> QED
    BY <1>3, <2>1 DEF StartSQLite, TypeOK, PositionOK
<1>4. CASE CheckPostgres(p)
  <2>1. PositionOK'
    BY <1>0, <1>4, GoToType, AdvanceType DEF CheckPostgres
  <2> QED
    BY <1>4, <2>1 DEF CheckPostgres, TypeOK, PositionOK
<1>5. CASE CheckSQLite(p)
  <2>1. PositionOK'
    BY <1>0, <1>5, GoToType, AdvanceType DEF CheckSQLite
  <2> QED
    BY <1>5, <2>1 DEF CheckSQLite, TypeOK, PositionOK
<1>6. CASE BeginImmediate(p)
  <2>1. PositionOK'
    BY <1>0, <1>6, GoToType DEF BeginImmediate
  <2> QED
    BY <1>6, <2>1 DEF BeginImmediate, TypeOK, PositionOK
<1>7. CASE Recheck(p)
  <2>0. next[p] <= Known[p]
    BY <1>7 DEF Recheck, TypeOK
  <2>1. PositionOK'
    BY <1>0, <1>7, <2>0, GoToType, AdvanceType DEF Recheck
  <2> QED
    BY <1>7, <2>1 DEF Recheck, Release, TypeOK, PositionOK
<1>8. CASE RunUp(p)
  <2>0. next[p] <= Known[p]
    BY <1>8 DEF RunUp, TypeOK
  <2>1. PositionOK'
    BY <1>0, <1>8, <2>0, GoToType DEF RunUp
  <2>2. schema' \in Seq(Versions)
    <3>1. next[p] \in Versions
      BY <2>0, NextExists
    <3>2. schema' = schema \/ schema' = Append(schema, next[p])
      BY <1>8 DEF RunUp
    <3>3. schema \in Seq(Versions)
      BY DEF TypeOK
    <3> QED
      BY <3>1, <3>2, <3>3
  <2> QED
    BY <1>8, <2>1, <2>2 DEF RunUp, Release, TypeOK, PositionOK
<1>9. CASE RecordVersion(p)
  <2>0. next[p] <= Known[p]
    BY <1>9 DEF RecordVersion, TypeOK
  <2>1. PositionOK'
    BY <1>0, <1>9, <2>0, GoToType, AdvanceType DEF RecordVersion
  <2> QED
    BY <1>9, <2>0, <2>1, NextExists DEF RecordVersion, TypeOK, PositionOK
<1>10. CASE Commit(p)
  <2>0. next[p] <= Known[p]
    BY <1>10 DEF Commit, TypeOK
  <2>1. PositionOK'
    BY <1>10, <2>0, AdvanceType DEF Commit
  <2> QED
    BY <1>10, <2>0, <2>1, NextExists DEF Commit, Release, TypeOK, PositionOK
<1>11. CASE Finish(p)
  <2>1. PositionOK'
    BY <1>0, <1>11, GoToType DEF Finish
  <2> QED
    BY <1>11, <2>1 DEF Finish, Release, TypeOK, PositionOK
<1> QED
  BY <1>1, <1>2, <1>3, <1>4, <1>5, <1>6, <1>7, <1>8, <1>9, <1>10, <1>11
     DEF Step

\* What one replica may do.
Acts(p) ==
  \/ Step(p) \/ Fail(p) \/ CommitUnacknowledged(p) \/ BreakOff(p)
  \/ Restart(p)

\* Whatever a replica does, the state stays well typed.
LEMMA StepTypes ==
  ASSUME TypeOK, NEW p \in Replicas, Acts(p)
  PROVE  TypeOK'
<1>0. {"start", "failed"} \subseteq Steps
  BY DEF Steps
<1>1. CASE Fail(p)
  <2>1. PositionOK'
    BY <1>0, <1>1, GoToType DEF Fail
  <2> QED
    BY <1>1, <2>1 DEF Fail, Release, TypeOK, PositionOK
<1>2. CASE CommitUnacknowledged(p)
  <2>1. PositionOK'
    BY <1>0, <1>2, GoToType DEF CommitUnacknowledged
  <2>2. next[p] \in Versions
    BY <1>2, NextExists DEF CommitUnacknowledged, TypeOK
  <2> QED
    BY <1>2, <2>1, <2>2 DEF CommitUnacknowledged, Release, TypeOK, PositionOK
<1>3. CASE Restart(p)
  <2>1. 1 \in 1..(Known[p] + 1)
    OBVIOUS
  <2>2. PositionOK'
    BY <1>0, <1>3, <2>1, MoveType DEF Restart, GoTo
  <2> QED
    BY <1>3, <2>2 DEF Restart, TypeOK, PositionOK
<1>4. CASE BreakOff(p)
  <2>1. PositionOK'
    BY <1>0, <1>4, GoToType DEF BreakOff
  <2>2. next[p] \in Versions
    BY <1>4, NextExists DEF BreakOff, TypeOK
  <2> QED
    BY <1>4, <2>1, <2>2 DEF BreakOff, Release, TypeOK, PositionOK
<1> QED
  BY <1>1, <1>2, <1>3, <1>4, StepType DEF Acts

\* Every reachable state of the migrations is well typed.
THEOREM MigrateTypeCorrect == Spec => []TypeOK
<1>1. Init => TypeOK
  BY DEF Init, TypeOK, Steps, Versions
<1>2. TypeOK /\ [Next]_vars => TypeOK'
  <2>1. TypeOK /\ UNCHANGED vars => TypeOK'
    BY DEF vars, TypeOK
  <2> QED
    BY <2>1, StepTypes DEF Next, Acts
<1> QED
  BY <1>1, <1>2, PTL DEF Spec

-----------------------------------------------------------------------------
(* The inductive invariant.                                                *)

\* The schema is at a version, and the table of versions says which; only a
\* migration that runs outside a transaction may lack its record.
InOrder ==
  /\ \A i \in 1..Len(schema) : schema[i] = i
  /\ recorded \subseteq 1..Len(schema)
  /\ \A v \in 1..Len(schema) :
       v \in recorded \/ (v = Len(schema) /\ v \notin Transactional)

\* Who works on the schema in a transaction holds the lock; on PostgreSQL
\* everybody does.
Holds(p) ==
  \/ pc[p] = "recheck"
  \/ pc[p] \in {"up", "record", "commit"} /\ InTransaction(p)
  \/ Engine = "postgres" /\ pc[p] \in {"read", "check", "up", "record", "commit"}
LockHeld ==
  /\ \A p \in Replicas : Holds(p) => lock = p
  /\ \A p \in Replicas : pc[p] = "recheck" => Engine = "sqlite"
  /\ \A p \in Replicas : pc[p] = "read" => Engine = "postgres"
  /\ \A p \in Replicas : pc[p] \in {"recheck", "commit"} => InTransaction(p)

\* A replica skips nothing that is not recorded, runs nothing in a transaction
\* that is, and records outside a transaction only what is applied.
Progress ==
  /\ \A p \in Replicas : 1..(next[p] - 1) \subseteq recorded
  /\ \A p \in Replicas :
       pc[p] \in {"up", "record", "commit"} /\ InTransaction(p) =>
         next[p] \notin recorded
  /\ \A p \in Replicas :
       pc[p] = "record" /\ ~InTransaction(p) => next[p] <= Len(schema)
  /\ \A p \in Replicas : pc[p] = "serving" => next[p] > Known[p]

\* On PostgreSQL the versions read under the lock stay up to date.
ReadIsCurrent ==
  Engine = "postgres" => \A p \in Replicas :
    pc[p] \in {"check", "up", "record", "commit"} =>
    /\ done[p] \subseteq recorded
    /\ \A v \in recorded : v \in done[p] \/ v < next[p]

MigrateInv == InOrder /\ LockHeld /\ Progress /\ ReadIsCurrent

-----------------------------------------------------------------------------
(* What a step does to the schema and the table of versions.               *)

Quiet == UNCHANGED <<schema, recorded>>

\* A migration with its record, in a transaction.
Commits(p) ==
  /\ pc[p] = "commit"
  /\ schema' = Append(schema, next[p])
  /\ recorded' = recorded \cup {next[p]}

\* The statements, then the record, of one that has no transaction.
RunsAlone(p) ==
  /\ pc[p] = "up" /\ ~InTransaction(p) /\ ~Applied(next[p])
  /\ schema' = Append(schema, next[p])
  /\ UNCHANGED recorded
RecordsAlone(p) ==
  /\ pc[p] = "record" /\ ~InTransaction(p) /\ MayWrite(p)
  /\ recorded' = recorded \cup {next[p]}
  /\ UNCHANGED schema

\* Nothing else writes.
LEMMA Effects ==
  ASSUME NEW p \in Replicas, Acts(p)
  PROVE  Quiet \/ Commits(p) \/ RunsAlone(p) \/ RecordsAlone(p)
BY DEF Acts, Step, Quiet, Commits, RunsAlone, RecordsAlone, TakeLock,
   ReadRecorded, StartSQLite, CheckPostgres, CheckSQLite, BeginImmediate,
   Recheck, RunUp, RecordVersion, Commit, Finish, Fail, CommitUnacknowledged,
   BreakOff, Restart

\* The numbers of the state.
LEMMA Numbers ==
  ASSUME TypeOK
  PROVE  /\ Len(schema) \in Nat /\ DOMAIN schema = 1..Len(schema)
         /\ \A v \in recorded : v \in Nat
         /\ \A p \in Replicas : next[p] \in Nat \ {0}
<1>1. Len(schema) \in Nat /\ DOMAIN schema = 1..Len(schema)
  BY DEF TypeOK
<1>2. \A v \in recorded : v \in Nat
  BY DEF TypeOK, Versions
<1>3. \A p \in Replicas : next[p] \in 1..(Count + 1)
  BY DEF TypeOK
<1> QED
  BY <1>1, <1>2, <1>3

\* And of the state after a step.
LEMMA NumbersStay ==
  ASSUME TypeOK, NEW p \in Replicas, Acts(p)
  PROVE  /\ Len(schema') \in Nat
         /\ \A q \in Replicas : next'[q] \in Nat \ {0}
<1>1. TypeOK'
  BY StepTypes
<1>2. Len(schema') \in Nat
  BY <1>1 DEF TypeOK
<1>3. \A q \in Replicas : next'[q] \in 1..(Count + 1)
  BY <1>1 DEF TypeOK
<1> QED
  BY <1>2, <1>3

\* A migration that a replica is at and that is not applied is the first
\* missing one, and everything before it is recorded.
LEMMA FirstMissing ==
  ASSUME TypeOK, InOrder, Progress, NEW p \in Replicas, ~Applied(next[p])
  PROVE  next[p] = Len(schema) + 1 /\ recorded = 1..Len(schema)
<1>1. Len(schema) \in Nat /\ DOMAIN schema = 1..Len(schema)
      /\ next[p] \in Nat /\ next[p] >= 1
  BY Numbers
<1>2. next[p] > Len(schema)
  <2>1. next[p] \in 1..Len(schema) => Applied(next[p])
    BY <1>1 DEF Applied, InOrder
  <2> QED
    BY <1>1, <2>1
<1>3. 1..(next[p] - 1) \subseteq recorded /\ recorded \subseteq 1..Len(schema)
  BY DEF Progress, InOrder
<1>4. next[p] <= Len(schema) + 1
  <2> SUFFICES ASSUME next[p] > Len(schema) + 1
               PROVE  FALSE
    BY <1>1
  <2>1. Len(schema) + 1 \in 1..(next[p] - 1)
    BY <1>1
  <2> QED
    BY <1>1, <1>3, <2>1
<1>5. next[p] = Len(schema) + 1
  BY <1>1, <1>2, <1>4
<1>6. next[p] - 1 = Len(schema)
  BY <1>1, <1>5
<1> QED
  BY <1>3, <1>5, <1>6

\* A migration run in a transaction is not applied before its commit.
LEMMA Missing ==
  ASSUME TypeOK, InOrder, Progress, NEW p \in Replicas,
         pc[p] \in {"up", "record", "commit"}, InTransaction(p)
  PROVE  ~Applied(next[p])
<1> SUFFICES ASSUME NEW i \in DOMAIN schema, schema[i] = next[p]
             PROVE  FALSE
  BY DEF Applied
<1>1. i \in 1..Len(schema) /\ i = next[p]
  BY DEF TypeOK, InOrder
<1>2. next[p] \notin recorded
  BY DEF Progress
<1> QED
  BY <1>1, <1>2 DEF InOrder, InTransaction

\* Every step is one of MigrateOnce or changes nothing it sees.
LEMMA EffectsAreOnce ==
  ASSUME TypeOK, MigrateInv, NEW p \in Replicas, Acts(p)
  PROVE  [Once!Apply \/ Once!Record]_<<schema, recorded>>
<1>0. InOrder /\ LockHeld /\ Progress
  BY DEF MigrateInv
<1>1. CASE Quiet
  BY <1>1 DEF Quiet
<1>2. CASE Commits(p)
  <2>1. InTransaction(p)
    BY <1>0, <1>2 DEF LockHeld, Commits
  <2>2. next[p] = Len(schema) + 1 /\ recorded = 1..Len(schema)
    BY <1>0, <1>2, <2>1, Missing, FirstMissing DEF Commits
  <2>3. next[p] <= Count
    BY <1>2 DEF TypeOK, Commits
  <2> QED
    BY <1>2, <2>1, <2>2, <2>3 DEF Commits, Once!Apply, InTransaction
<1>3. CASE RunsAlone(p)
  <2>1. next[p] = Len(schema) + 1 /\ recorded = 1..Len(schema)
    BY <1>0, <1>3, FirstMissing DEF RunsAlone
  <2>2. next[p] <= Count
    BY <1>3 DEF TypeOK, RunsAlone
  <2> QED
    BY <1>3, <2>1, <2>2 DEF RunsAlone, Once!Apply, InTransaction
<1>4. CASE RecordsAlone(p)
  <2>1. next[p] \in 1..Len(schema)
    BY <1>0, <1>4 DEF RecordsAlone, Progress, TypeOK
  <2>2. CASE next[p] \in recorded
    BY <1>4, <2>2 DEF RecordsAlone
  <2>3. CASE next[p] \notin recorded
    <3>1. next[p] = Len(schema)
      BY <1>0, <2>1, <2>3 DEF InOrder
    <3> QED
      BY <1>4, <2>1, <3>1 DEF RecordsAlone, Once!Record, InTransaction, TypeOK
  <2> QED
    BY <2>2, <2>3
<1> QED
  BY <1>1, <1>2, <1>3, <1>4, Effects

\* Such a step keeps the schema and the versions in order, and takes nothing
\* back.
LEMMA InOrderStays ==
  ASSUME TypeOK, InOrder, [Once!Apply \/ Once!Record]_<<schema, recorded>>
  PROVE  /\ InOrder'
         /\ recorded \subseteq recorded'
         /\ Len(schema) <= Len(schema')
<1>0. Len(schema) \in Nat
  BY Numbers
<1>1. CASE Once!Apply
  <2>1. Len(schema') = Len(schema) + 1
    BY <1>1 DEF TypeOK, Once!Apply
  <2>2. \A i \in 1..Len(schema') : schema'[i] = i
    BY <1>1, <2>1 DEF TypeOK, InOrder, Once!Apply
  <2> QED
    BY <1>0, <1>1, <2>1, <2>2 DEF InOrder, Once!Apply
<1>2. CASE Once!Record
  <2>1. Len(schema) \in 1..Len(schema)
    BY <1>0, <1>2 DEF Once!Record
  <2>2. schema' = schema /\ recorded' = recorded \cup {Len(schema)}
    BY <1>2 DEF Once!Record
  <2>3. Len(schema') = Len(schema)
    BY <2>2
  <2>4. recorded' \subseteq 1..Len(schema)
    BY <2>1, <2>2 DEF InOrder
  <2>5. \A v \in 1..Len(schema) : v \in recorded'
    BY <2>2 DEF InOrder
  <2> QED
    BY <1>0, <2>2, <2>3, <2>4, <2>5 DEF InOrder
<1>3. CASE UNCHANGED <<schema, recorded>>
  BY <1>0, <1>3 DEF InOrder
<1> QED
  BY <1>1, <1>2, <1>3

-----------------------------------------------------------------------------
(* The other parts of the invariant.                                       *)

\* The lock stays with whoever needs it.
LEMMA LockStays ==
  ASSUME TypeOK, LockHeld, NEW p \in Replicas, Acts(p)
  PROVE  LockHeld'
<1> USE DEF LockHeld, Holds, TypeOK, GoTo, InTransaction
<1>1. CASE TakeLock(p)
  BY <1>1 DEF TakeLock
<1>2. CASE ReadRecorded(p)
  BY <1>2 DEF ReadRecorded
<1>3. CASE StartSQLite(p)
  BY <1>3 DEF StartSQLite
<1>4. CASE CheckPostgres(p)
  BY <1>4 DEF CheckPostgres, Advance
<1>5. CASE CheckSQLite(p)
  BY <1>5 DEF CheckSQLite, Advance
<1>6. CASE BeginImmediate(p)
  BY <1>6 DEF BeginImmediate
<1>7. CASE Recheck(p)
  BY <1>7 DEF Recheck, Advance, Release
<1>8. CASE RunUp(p)
  BY <1>8 DEF RunUp, Release
<1>9. CASE RecordVersion(p)
  BY <1>9 DEF RecordVersion, Advance
<1>10. CASE Commit(p)
  BY <1>10 DEF Commit, Advance, Release
<1>11. CASE Finish(p)
  BY <1>11 DEF Finish, Release
<1>12. CASE Fail(p)
  BY <1>12 DEF Fail, Release
<1>13. CASE CommitUnacknowledged(p)
  BY <1>13 DEF CommitUnacknowledged, Release
<1>14. CASE Restart(p)
  BY <1>14 DEF Restart
<1>15. CASE BreakOff(p)
  BY <1>15 DEF BreakOff, Release
<1> QED
  BY <1>1, <1>2, <1>3, <1>4, <1>5, <1>6, <1>7, <1>8, <1>9, <1>10, <1>11,
     <1>12, <1>13, <1>14, <1>15 DEF Acts, Step

\* Who writes a record shuts out every replica that needs the lock.
LEMMA OnlyWriter ==
  ASSUME TypeOK, LockHeld, NEW p \in Replicas, NEW q \in Replicas, Holds(q),
         Commits(p) \/ RecordsAlone(p)
  PROVE  p = q
BY DEF LockHeld, Holds, Commits, RecordsAlone, MayWrite

\* Without a write of p nothing is recorded; with one, its own migration is.
LEMMA OnlyOwn ==
  ASSUME TypeOK, LockHeld, NEW p \in Replicas, NEW q \in Replicas \ {p},
         Holds(q), Acts(p)
  PROVE  recorded' = recorded
<1>1. ~Commits(p) /\ ~RecordsAlone(p)
  BY OnlyWriter
<1> QED
  BY <1>1, Effects DEF Quiet, RunsAlone

\* The position of a replica that acts, and of the others.
Position(p) ==
  /\ 1..(next[p] - 1) \subseteq recorded
  /\ pc[p] \in {"up", "record", "commit"} /\ InTransaction(p) =>
       next[p] \notin recorded
  /\ pc[p] = "record" /\ ~InTransaction(p) => next[p] <= Len(schema)
  /\ pc[p] = "serving" => next[p] > Known[p]

\* A replica that goes on to the next migration leaves a recorded one.
LEMMA AdvancePosition ==
  ASSUME TypeOK, NEW p \in Replicas, Position(p), Advance(p),
         recorded \subseteq recorded', next[p] \in recorded'
  PROVE  Position(p)'
<1>1. next'[p] = next[p] + 1 /\ pc'[p] = "check" /\ next[p] \in Nat
  BY DEF TypeOK, Advance, GoTo
<1>2. 1..(next'[p] - 1) \subseteq recorded'
  <2> SUFFICES ASSUME NEW v \in 1..(next'[p] - 1)
               PROVE  v \in recorded'
    OBVIOUS
  <2>1. v \in 1..(next[p] - 1) \/ v = next[p]
    BY <1>1
  <2> QED
    BY <2>1 DEF Position
<1> QED
  BY <1>1, <1>2 DEF Position

\* One that acts is where the code has put it.
LEMMA OwnPosition ==
  ASSUME TypeOK, MigrateInv, NEW p \in Replicas, Acts(p),
         recorded \subseteq recorded', Len(schema) <= Len(schema')
  PROVE  Position(p)'
<1>0. Position(p) /\ LockHeld /\ ReadIsCurrent /\ InOrder
  BY DEF MigrateInv, Progress, Position
<1>a. Len(schema) \in Nat /\ Len(schema') \in Nat /\ next[p] \in Nat
  BY Numbers, NumbersStay
<1> USE DEF Position, TypeOK, GoTo, InTransaction
<1>1. CASE TakeLock(p)
  BY <1>0, <1>1 DEF TakeLock
<1>2. CASE ReadRecorded(p)
  BY <1>0, <1>2 DEF ReadRecorded
<1>3. CASE StartSQLite(p)
  BY <1>0, <1>3 DEF StartSQLite
<1>4. CASE CheckPostgres(p)
  <2>1. next[p] \in done[p] <=> next[p] \in recorded
    BY <1>0, <1>a, <1>4 DEF CheckPostgres, ReadIsCurrent
  <2>2. CASE next[p] \in done[p]
    BY <1>0, <1>4, <2>1, <2>2, AdvancePosition DEF CheckPostgres
  <2>3. CASE next[p] \notin done[p]
    BY <1>0, <1>4, <2>1, <2>3 DEF CheckPostgres
  <2> QED
    BY <2>2, <2>3
<1>5. CASE CheckSQLite(p)
  <2>1. CASE next[p] \in recorded
    BY <1>0, <1>5, <2>1, AdvancePosition DEF CheckSQLite
  <2>2. CASE next[p] \notin recorded
    BY <1>0, <1>5, <2>2 DEF CheckSQLite
  <2> QED
    BY <2>1, <2>2
<1>6. CASE BeginImmediate(p)
  BY <1>0, <1>6 DEF BeginImmediate
<1>7. CASE Recheck(p)
  <2>1. CASE next[p] \in recorded
    BY <1>0, <1>7, <2>1, AdvancePosition DEF Recheck
  <2>2. CASE next[p] \notin recorded
    BY <1>0, <1>7, <2>2 DEF Recheck
  <2> QED
    BY <2>1, <2>2
<1>8. CASE RunUp(p)
  <2>1. ~InTransaction(p) /\ pc'[p] = "record" => next[p] <= Len(schema')
    <3> SUFFICES ASSUME ~InTransaction(p), pc'[p] = "record"
                 PROVE  next[p] <= Len(schema')
      OBVIOUS
    <3>1. ~Applied(next[p]) /\ schema' = Append(schema, next[p])
      BY <1>8 DEF RunUp
    <3>2. next[p] = Len(schema) + 1
      BY <3>1, FirstMissing DEF MigrateInv
    <3> QED
      BY <3>1, <3>2
  <2>2. next' = next /\ recorded' = recorded /\ pc'[p] \in {"record", "failed"}
    BY <1>8 DEF RunUp
  <2> QED
    BY <1>0, <1>8, <2>1, <2>2 DEF RunUp
<1>9. CASE RecordVersion(p)
  <2>1. CASE InTransaction(p)
    BY <1>0, <1>9, <2>1 DEF RecordVersion
  <2>2. CASE ~InTransaction(p)
    BY <1>0, <1>9, <2>2, AdvancePosition DEF RecordVersion
  <2> QED
    BY <2>1, <2>2
<1>10. CASE Commit(p)
  BY <1>0, <1>10, AdvancePosition DEF Commit
<1>11. CASE Finish(p)
  BY <1>0, <1>11 DEF Finish
<1>12. CASE Fail(p)
  BY <1>0, <1>12 DEF Fail
<1>13. CASE CommitUnacknowledged(p)
  BY <1>0, <1>13 DEF CommitUnacknowledged
<1>14. CASE Restart(p)
  BY <1>0, <1>14 DEF Restart
<1>15. CASE BreakOff(p)
  BY <1>0, <1>15 DEF BreakOff
<1> QED
  BY <1>1, <1>2, <1>3, <1>4, <1>5, <1>6, <1>7, <1>8, <1>9, <1>10, <1>11,
     <1>12, <1>13, <1>14, <1>15 DEF Acts, Step

\* The others stay where they are.
LEMMA OthersStay ==
  ASSUME TypeOK, NEW p \in Replicas, NEW q \in Replicas \ {p}, Acts(p)
  PROVE  pc'[q] = pc[q] /\ next'[q] = next[q] /\ done'[q] = done[q]
BY DEF TypeOK, Acts, Step, GoTo, Advance, TakeLock, ReadRecorded, StartSQLite,
   CheckPostgres, CheckSQLite, BeginImmediate, Recheck, RunUp, RecordVersion,
   Commit, Finish, Fail, CommitUnacknowledged, BreakOff, Restart

\* Positions stay in step with the schema.
LEMMA ProgressStays ==
  ASSUME TypeOK, MigrateInv, NEW p \in Replicas, Acts(p),
         recorded \subseteq recorded', Len(schema) <= Len(schema')
  PROVE  Progress'
<1> SUFFICES ASSUME NEW q \in Replicas
             PROVE  Position(q)'
  BY DEF Progress, Position, InTransaction
<1>1. CASE q = p
  BY <1>1, OwnPosition
<1>2. CASE q # p
  <2>1. Position(q) /\ LockHeld
    BY DEF MigrateInv, Progress, Position
  <2>2. pc'[q] = pc[q] /\ next'[q] = next[q]
    BY <1>2, OthersStay
  <2>3. Holds(q) => recorded' = recorded
    BY <1>2, <2>1, OnlyOwn
  <2>4. Len(schema) \in Nat /\ Len(schema') \in Nat /\ next[q] \in Nat
    BY Numbers, NumbersStay
  <2> QED
    BY <2>1, <2>2, <2>3, <2>4 DEF Position, InTransaction, Holds
<1> QED
  BY <1>1, <1>2

\* What a replica read under the advisory lock stays true.
LEMMA ReadStays ==
  ASSUME TypeOK, MigrateInv, NEW p \in Replicas, Acts(p)
  PROVE  ReadIsCurrent'
<1>0. LockHeld /\ ReadIsCurrent
  BY DEF MigrateInv
<1> SUFFICES ASSUME Engine = "postgres", NEW q \in Replicas,
                    pc'[q] \in {"check", "up", "record", "commit"}
             PROVE  /\ done'[q] \subseteq recorded'
                    /\ \A v \in recorded' : v \in done'[q] \/ v < next'[q]
  BY DEF ReadIsCurrent
<1>a. \A r \in Replicas : next[r] \in Nat /\ next'[r] \in Nat
  BY Numbers, NumbersStay
<1>b. \A v \in recorded : v \in Nat
  BY Numbers
<1>1. CASE q # p
  <2>1. pc'[q] = pc[q] /\ next'[q] = next[q] /\ done'[q] = done[q]
    BY <1>1, OthersStay
  <2>2. recorded' = recorded
    BY <1>0, <1>1, <2>1, OnlyOwn DEF Holds
  <2> QED
    BY <1>0, <2>1, <2>2 DEF ReadIsCurrent
<1>2. CASE q = p
  <2>0. pc[p] \in {"check", "up", "record", "commit"} =>
          /\ done[p] \subseteq recorded
          /\ \A v \in recorded : v \in done[p] \/ v < next[p]
    BY <1>0 DEF ReadIsCurrent
  <2>1. CASE ReadRecorded(p)
    BY <1>2, <2>1 DEF ReadRecorded, TypeOK, GoTo
  <2>2. CASE CheckPostgres(p)
    <3>1. next'[p] \in {next[p], next[p] + 1}
          /\ recorded' = recorded /\ done' = done /\ pc[p] = "check"
      BY <2>2 DEF CheckPostgres, Advance, TypeOK
    <3> QED
      BY <1>2, <1>a, <1>b, <2>0, <3>1
  <2>3. CASE RunUp(p)
    BY <1>2, <2>0, <2>3 DEF RunUp
  <2>4. CASE RecordVersion(p) \/ Commit(p)
    <3>1. \/ recorded' = recorded /\ next' = next
          \/ recorded' = recorded \cup {next[p]} /\ next'[p] = next[p] + 1
      BY <2>4 DEF RecordVersion, Commit, Advance, TypeOK
    <3>2. done' = done /\ pc[p] \in {"record", "commit"}
      BY <2>4 DEF RecordVersion, Commit
    <3> QED
      BY <1>2, <1>a, <1>b, <2>0, <3>1, <3>2
  <2>5. ~StartSQLite(p) /\ ~CheckSQLite(p) /\ ~BeginImmediate(p) /\ ~Recheck(p)
    BY <1>0 DEF StartSQLite, CheckSQLite, BeginImmediate, Recheck, LockHeld
  <2>6. TakeLock(p) \/ Finish(p) \/ Fail(p) \/ CommitUnacknowledged(p)
          \/ BreakOff(p) \/ Restart(p)
        => pc'[p] \in {"read", "serving", "failed", "start"}
    BY DEF TakeLock, Finish, Fail, CommitUnacknowledged, BreakOff, Restart,
       GoTo, TypeOK
  <2> QED
    BY <1>2, <2>1, <2>2, <2>3, <2>4, <2>5, <2>6 DEF Acts, Step
<1> QED
  BY <1>1, <1>2

\* The invariant is inductive.
LEMMA MigrateInvariant == Spec => [](TypeOK /\ MigrateInv)
<1>1. Init => MigrateInv
  BY DEF Init, MigrateInv, InOrder, LockHeld, Holds, Progress, ReadIsCurrent
<1>2. TypeOK /\ MigrateInv /\ [Next]_vars => MigrateInv'
  <2> SUFFICES ASSUME TypeOK, MigrateInv, [Next]_vars
               PROVE  MigrateInv'
    OBVIOUS
  <2>1. ASSUME NEW p \in Replicas, Acts(p)
        PROVE  MigrateInv'
    <3>1. InOrder' /\ recorded \subseteq recorded' /\ Len(schema) <= Len(schema')
      BY <2>1, EffectsAreOnce, InOrderStays DEF MigrateInv
    <3> QED
      BY <2>1, <3>1, LockStays, ProgressStays, ReadStays DEF MigrateInv
  <2>2. CASE UNCHANGED vars
    BY <2>2 DEF vars, MigrateInv, InOrder, LockHeld, Holds, Progress,
       ReadIsCurrent, InTransaction
  <2> QED
    BY <2>1, <2>2 DEF Next, Acts
<1> QED
  BY <1>1, <1>2, MigrateTypeCorrect, PTL DEF Spec

-----------------------------------------------------------------------------
(* The theorems.                                                           *)

\* The replicas together apply the migrations once and in order, each with its
\* record when it runs in a transaction and before the following one when it
\* does not.
THEOREM MigrateImplementsOnce == Spec => ImplementsOnce
<1>1. Init => Once!Init
  BY DEF Init, Once!Init
<1>2. TypeOK /\ MigrateInv /\ [Next]_vars
        => [Once!Apply \/ Once!Record]_<<schema, recorded>>
  <2> SUFFICES ASSUME TypeOK, MigrateInv, [Next]_vars
               PROVE  [Once!Apply \/ Once!Record]_<<schema, recorded>>
    OBVIOUS
  <2>1. CASE UNCHANGED vars
    BY <2>1 DEF vars
  <2> QED
    BY <2>1, EffectsAreOnce DEF Next, Acts
<1> QED
  BY <1>1, <1>2, MigrateInvariant, PTL DEF Spec, ImplementsOnce, Once!Spec

\* No replica is ever about to run a migration in a transaction that is already
\* applied.
THEOREM MigrateRunsOnce == Spec => []RunsOnce
<1>1. TypeOK /\ MigrateInv => RunsOnce
  BY Missing DEF MigrateInv, RunsOnce
<1> QED
  BY <1>1, MigrateInvariant, PTL

\* A replica that serves has every migration it embeds, also those that run
\* outside a transaction, whatever crashed before.
THEOREM MigrateServesMigrated == Spec => []ServesMigrated
<1>1. TypeOK /\ MigrateInv => ServesMigrated
  <2> SUFFICES ASSUME TypeOK, MigrateInv, NEW p \in Replicas,
                      pc[p] = "serving", NEW v \in 1..Known[p]
               PROVE  v \in recorded /\ Applied(v)
    BY DEF ServesMigrated
  <2>1. next[p] > Known[p] /\ 1..(next[p] - 1) \subseteq recorded
    BY DEF MigrateInv, Progress
  <2>2. v \in 1..(next[p] - 1)
    BY <2>1 DEF TypeOK
  <2>3. v \in 1..Len(schema) /\ schema[v] = v
    BY <2>1, <2>2 DEF MigrateInv, InOrder
  <2> QED
    BY <2>1, <2>2, <2>3 DEF Applied, TypeOK
<1> QED
  BY <1>1, MigrateInvariant, PTL

\* The half-done state that a crash can leave is at most one migration, the
\* last one applied, and it is one that runs outside a transaction.
THEOREM HalfDoneIsTheLast ==
  Spec => [](\A v \in Versions : Applied(v) /\ v \notin recorded =>
               v = Len(schema) /\ v \notin Transactional)
<1>1. TypeOK /\ MigrateInv =>
        \A v \in Versions : Applied(v) /\ v \notin recorded =>
          v = Len(schema) /\ v \notin Transactional
  BY DEF TypeOK, MigrateInv, InOrder, Applied
<1> QED
  BY <1>1, MigrateInvariant, PTL

-----------------------------------------------------------------------------
(* The lock is given back.                                                 *)

NoLeak == \A p \in Replicas : lock = p => Holds(p)

LEMMA NothingLeaks ==
  ASSUME TypeOK, LockHeld, NoLeak, NEW p \in Replicas, Acts(p)
  PROVE  NoLeak'
<1> USE MigrateAssumption DEF NoLeak, LockHeld, Holds, TypeOK, GoTo, InTransaction
<1>1. CASE TakeLock(p)
  BY <1>1 DEF TakeLock
<1>2. CASE ReadRecorded(p)
  BY <1>2 DEF ReadRecorded
<1>3. CASE StartSQLite(p)
  BY <1>3 DEF StartSQLite
<1>4. CASE CheckPostgres(p)
  BY <1>4 DEF CheckPostgres, Advance
<1>5. CASE CheckSQLite(p)
  BY <1>5 DEF CheckSQLite, Advance
<1>6. CASE BeginImmediate(p)
  BY <1>6 DEF BeginImmediate
<1>7. CASE Recheck(p)
  BY <1>7 DEF Recheck, Advance, Release
<1>8. CASE RunUp(p)
  BY <1>8 DEF RunUp, Release
<1>9. CASE RecordVersion(p)
  BY <1>9 DEF RecordVersion, Advance
<1>10. CASE Commit(p)
  BY <1>10 DEF Commit, Advance, Release
<1>11. CASE Finish(p)
  BY <1>11 DEF Finish, Release
<1>12. CASE Fail(p)
  BY <1>12 DEF Fail, Release
<1>13. CASE CommitUnacknowledged(p)
  BY <1>13 DEF CommitUnacknowledged, Release
<1>14. CASE Restart(p)
  BY <1>14 DEF Restart
<1>15. CASE BreakOff(p)
  BY <1>15 DEF BreakOff, Release
<1> QED
  BY <1>1, <1>2, <1>3, <1>4, <1>5, <1>6, <1>7, <1>8, <1>9, <1>10, <1>11,
     <1>12, <1>13, <1>14, <1>15 DEF Acts, Step

\* The lock is held by a replica exactly while it is at a step that needs it:
\* no failed statement, killed process, finished run or commit without an
\* acknowledgement leaves it behind, so that nobody waits for a replica that
\* has nothing left to do.
THEOREM LockIsNeverLeftBehind ==
  Spec => [](\A p \in Replicas : lock = p <=> Holds(p))
<1>1. Init => NoLeak
  BY MigrateAssumption DEF Init, NoLeak
<1>2. TypeOK /\ MigrateInv /\ NoLeak /\ [Next]_vars => NoLeak'
  <2>1. NoLeak /\ UNCHANGED vars => NoLeak'
    BY DEF NoLeak, Holds, InTransaction, vars
  <2> QED
    BY <2>1, NothingLeaks DEF MigrateInv, Next, Acts
<1>3. MigrateInv /\ NoLeak => \A p \in Replicas : lock = p <=> Holds(p)
  BY DEF MigrateInv, LockHeld, NoLeak
<1> QED
  BY <1>1, <1>2, <1>3, MigrateInvariant, PTL DEF Spec

-----------------------------------------------------------------------------
(* How long a start-up can last.                                           *)

\* At most so many steps of p are still to come, if nobody else acts.
StepsLeft(p) ==
  LET n == 5 * (Known[p] + 1 - next[p]) IN
  CASE pc[p] \in {"serving", "failed"} -> 0
    [] pc[p] = "commit" -> n + 1
    [] pc[p] = "record" -> n + 2
    [] pc[p] = "up" -> n + 3
    [] pc[p] = "recheck" -> n + 4
    [] pc[p] = "check" -> n + 5
    [] pc[p] = "read" -> n + 6
    [] pc[p] = "start" -> n + 7

LEMMA StepsLeftType ==
  ASSUME TypeOK, NEW p \in Replicas
  PROVE  /\ StepsLeft(p) \in 0..(5 * Known[p] + 7)
         /\ pc[p] \notin {"serving", "failed"} => StepsLeft(p) > 0
<1> DEFINE n == 5 * (Known[p] + 1 - next[p])
<1>1. n \in 0..(5 * Known[p]) /\ Known[p] \in Nat
  <2>1. Known[p] \in Nat /\ next[p] \in 1..(Known[p] + 1)
    BY MigrateAssumption DEF TypeOK
  <2> QED
    BY <2>1
<1>2. /\ pc[p] \in {"serving", "failed"} => StepsLeft(p) = 0
      /\ pc[p] = "commit" => StepsLeft(p) = n + 1
      /\ pc[p] = "record" => StepsLeft(p) = n + 2
      /\ pc[p] = "up" => StepsLeft(p) = n + 3
      /\ pc[p] = "recheck" => StepsLeft(p) = n + 4
      /\ pc[p] = "check" => StepsLeft(p) = n + 5
      /\ pc[p] = "read" => StepsLeft(p) = n + 6
      /\ pc[p] = "start" => StepsLeft(p) = n + 7
  BY DEF StepsLeft
<1>3. pc[p] \in Steps
  BY DEF TypeOK
<1> HIDE DEF n
<1> QED
  BY <1>1, <1>2, <1>3 DEF Steps

Nearer(p) == StepsLeft(p)' < StepsLeft(p)

\* A replica that stops is at its end.
LEMMA StopsNearer ==
  ASSUME TypeOK, NEW p \in Replicas, pc[p] \notin {"serving", "failed"},
         pc'[p] \in {"serving", "failed"}
  PROVE  Nearer(p)
<1>1. StepsLeft(p)' = 0
  BY DEF StepsLeft
<1>2. StepsLeft(p) \in Nat /\ StepsLeft(p) > 0
  BY StepsLeftType, MigrateAssumption
<1> QED
  BY <1>1, <1>2 DEF Nearer

\* One that goes on with its migration is nearer to it.
LEMMA GoesOnNearer ==
  ASSUME TypeOK, NEW p \in Replicas, next'[p] = next[p],
         \/ pc[p] = "start" /\ pc'[p] \in {"read", "check"}
         \/ pc[p] = "read" /\ pc'[p] = "check"
         \/ pc[p] = "check" /\ pc'[p] \in {"recheck", "up"}
         \/ pc[p] = "recheck" /\ pc'[p] = "up"
         \/ pc[p] = "up" /\ pc'[p] = "record"
         \/ pc[p] = "record" /\ pc'[p] = "commit"
  PROVE  Nearer(p)
<1> DEFINE n == 5 * (Known[p] + 1 - next[p])
<1>1. n \in Nat
  BY MigrateAssumption DEF TypeOK
<1>2. /\ pc[p] = "record" => StepsLeft(p) = n + 2
      /\ pc[p] = "up" => StepsLeft(p) = n + 3
      /\ pc[p] = "recheck" => StepsLeft(p) = n + 4
      /\ pc[p] = "check" => StepsLeft(p) = n + 5
      /\ pc[p] = "read" => StepsLeft(p) = n + 6
      /\ pc[p] = "start" => StepsLeft(p) = n + 7
  BY DEF StepsLeft
<1>3. /\ pc'[p] = "commit" => StepsLeft(p)' = n + 1
      /\ pc'[p] = "record" => StepsLeft(p)' = n + 2
      /\ pc'[p] = "up" => StepsLeft(p)' = n + 3
      /\ pc'[p] = "recheck" => StepsLeft(p)' = n + 4
      /\ pc'[p] = "check" => StepsLeft(p)' = n + 5
      /\ pc'[p] = "read" => StepsLeft(p)' = n + 6
  BY DEF StepsLeft
<1> HIDE DEF n
<1> QED
  BY <1>1, <1>2, <1>3 DEF Nearer

\* And one that goes on to the following migration.
LEMMA AdvancesNearer ==
  ASSUME TypeOK, NEW p \in Replicas, Advance(p),
         pc[p] \in {"check", "recheck", "record", "commit"}
  PROVE  Nearer(p)
<1> DEFINE n == 5 * (Known[p] + 1 - next[p])
<1>1. n \in Nat /\ next[p] \in Nat /\ Known[p] \in Nat
  BY MigrateAssumption DEF TypeOK
<1>2. pc'[p] = "check" /\ next'[p] = next[p] + 1
  BY DEF Advance, GoTo, TypeOK
<1>3. StepsLeft(p)' = 5 * (Known[p] + 1 - (next[p] + 1)) + 5
  BY <1>2 DEF StepsLeft
<1>4. StepsLeft(p)' = n
  BY <1>1, <1>3
<1>5. /\ pc[p] = "commit" => StepsLeft(p) = n + 1
      /\ pc[p] = "record" => StepsLeft(p) = n + 2
      /\ pc[p] = "recheck" => StepsLeft(p) = n + 4
      /\ pc[p] = "check" => StepsLeft(p) = n + 5
  BY DEF StepsLeft
<1> HIDE DEF n
<1> QED
  BY <1>1, <1>4, <1>5 DEF Nearer

\* Every step of a replica, and every fault that hits it, is one of these.
LEMMA StepsNearer ==
  ASSUME TypeOK, NEW p \in Replicas,
         Step(p) \/ CommitUnacknowledged(p) \/ BreakOff(p)
                 \/ (Fail(p) /\ pc[p] # "serving")
  PROVE  Nearer(p)
<1>1. ASSUME NEW step, GoTo(p, step)
      PROVE  pc'[p] = step
  BY <1>1 DEF GoTo, TypeOK
<1>2. CASE TakeLock(p) \/ ReadRecorded(p) \/ StartSQLite(p)
             \/ BeginImmediate(p)
  BY <1>1, <1>2, GoesOnNearer
     DEF TakeLock, ReadRecorded, StartSQLite, BeginImmediate
<1>3. CASE CheckPostgres(p) \/ CheckSQLite(p) \/ Recheck(p)
  BY <1>1, <1>3, GoesOnNearer, AdvancesNearer
     DEF CheckPostgres, CheckSQLite, Recheck
<1>4. CASE RunUp(p)
  BY <1>1, <1>4, GoesOnNearer, StopsNearer DEF RunUp
<1>5. CASE RecordVersion(p) \/ Commit(p)
  BY <1>1, <1>5, GoesOnNearer, AdvancesNearer DEF RecordVersion, Commit
<1>6. CASE Finish(p) \/ CommitUnacknowledged(p) \/ BreakOff(p)
             \/ (Fail(p) /\ pc[p] # "serving")
  BY <1>1, <1>6, StopsNearer DEF Finish, CommitUnacknowledged, BreakOff, Fail
<1> QED
  BY <1>2, <1>3, <1>4, <1>5, <1>6 DEF Step

\* A start-up ends: every step of a replica brings it nearer to serving or to
\* giving up, no step of another takes it back, and there are at most
\* 5 * Known[p] + 7 of them.  So only restarting can make it last, after a
\* fault or after statements that find their tables made; that the next step
\* runs is what the fairness of EveryReplicaServes adds.
THEOREM StartUpsWindDown ==
  Spec => /\ [](\A p \in Replicas : StepsLeft(p) \in 0..(5 * Known[p] + 7))
          /\ [][\A p \in Replicas :
                  /\ Step(p) => Nearer(p)
                  /\ pc'[p] # pc[p] \/ next'[p] # next[p] =>
                       Nearer(p) \/ pc'[p] = "failed" \/ Restart(p)]_vars
<1>1. TypeOK => \A p \in Replicas : StepsLeft(p) \in 0..(5 * Known[p] + 7)
  BY StepsLeftType
<1>2. ASSUME TypeOK, NEW p \in Replicas, NEW q \in Replicas, Acts(q),
             pc'[p] # pc[p] \/ next'[p] # next[p]
      PROVE  Nearer(p) \/ pc'[p] = "failed" \/ Restart(p)
  <2>1. q = p
    BY <1>2, OthersStay
  <2>2. Fail(p) => pc'[p] = "failed"
    BY <1>2 DEF Fail, GoTo, TypeOK
  <2> QED
    BY <1>2, <2>1, <2>2, StepsNearer DEF Acts
<1>3. TypeOK /\ [Next]_vars =>
        [\A p \in Replicas :
           /\ Step(p) => Nearer(p)
           /\ pc'[p] # pc[p] \/ next'[p] # next[p] =>
                Nearer(p) \/ pc'[p] = "failed" \/ Restart(p)]_vars
  BY <1>2, StepsNearer DEF Next, Acts
<1> QED
  BY <1>1, <1>3, MigrateTypeCorrect, PTL DEF Spec
=============================================================================
