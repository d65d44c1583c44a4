------------------------------ MODULE Migrate ------------------------------
(***************************************************************************)
(* The migrations that the server applies at start-up: migratePostgres and *)
(* migrateSQLite of internal/database/migrate.go, run by several replicas  *)
(* at once on one database.                                                *)
(*                                                                         *)
(* On PostgreSQL a replica holds a session advisory lock for the whole     *)
(* run.  On SQLite each migration has an immediate transaction, which      *)
(* takes the write lock of the database file when it begins and checks the *)
(* version again.  A migration marked transaction:false runs its statements*)
(* and the record of its version one after the other, outside any          *)
(* transaction.                                                            *)
(*                                                                         *)
(* A migration creates tables, so running it again fails.  A replica whose *)
(* migrations fail does not start; docker compose restarts it.             *)
(***************************************************************************)
EXTENDS Naturals, Sequences

CONSTANTS
  Replicas,       \* servers that share the database
  Nobody,         \* holder of a free lock
  Count,          \* number of migrations that exist
  Known,          \* how many of them the binary of each replica embeds
  Transactional,  \* migrations that run in a transaction
  Engine,         \* "sqlite" or "postgres"
  MaxFaults       \* how often a statement fails or a replica is killed

Versions == 1..Count

ASSUME MigrateAssumption ==
  /\ Count \in Nat /\ MaxFaults \in Nat
  /\ Nobody \notin Replicas
  /\ Known \in [Replicas -> 0..Count]
  /\ Transactional \subseteq Versions
  /\ Engine \in {"sqlite", "postgres"}

VARIABLES
  schema,    \* migrations whose effects are committed, in order
  recorded,  \* versions in table schema_migrations
  lock,      \* holder of the advisory lock, or of SQLite's write lock
  pc,        \* what each replica does next
  next,      \* the migration it is at
  done,      \* PostgreSQL: the versions it read under the lock
  faults     \* how many faults have happened

vars == <<schema, recorded, lock, pc, next, done, faults>>

Steps ==
  {"start", "read", "check", "recheck", "up", "record", "commit", "serving",
   "failed"}

TypeOK ==
  /\ schema \in Seq(Versions)
  /\ recorded \in SUBSET Versions
  /\ lock \in Replicas \cup {Nobody}
  /\ pc \in [Replicas -> Steps]
  /\ next \in [Replicas -> 1..(Count + 1)]
  /\ done \in [Replicas -> SUBSET Versions]
  /\ \A p \in Replicas : next[p] \in 1..(Known[p] + 1)
  /\ \A p \in Replicas :
       pc[p] \in {"recheck", "up", "record", "commit"} => next[p] <= Known[p]
  /\ faults \in 0..MaxFaults

Init ==
  /\ schema = <<>>
  /\ recorded = {}
  /\ lock = Nobody
  /\ pc = [p \in Replicas |-> "start"]
  /\ next = [p \in Replicas |-> 1]
  /\ done = [p \in Replicas |-> {}]
  /\ faults = 0

-----------------------------------------------------------------------------
(* Helpers.                                                                *)

GoTo(p, step) == pc' = [pc EXCEPT ![p] = step]

\* On to the following migration.
Advance(p) == next' = [next EXCEPT ![p] = next[p] + 1] /\ GoTo(p, "check")

Applied(v) == \E i \in DOMAIN schema : schema[i] = v

\* p gives back the lock if it holds it.
Release(p) == lock' = IF lock = p THEN Nobody ELSE lock

InTransaction(p) == next[p] \in Transactional

-----------------------------------------------------------------------------
(* Before the first migration.                                             *)

\* Fault: each replica locks a key of its own.
TakeOwnLock(p) ==
  /\ Engine = "postgres"
  /\ pc[p] = "start"
  /\ GoTo(p, "read")
  /\ UNCHANGED <<schema, recorded, lock, next, done, faults>>

\* PostgreSQL: pg_advisory_lock waits for the holder.
TakeLock(p) ==
  /\ Engine = "postgres"
  /\ pc[p] = "start"
  /\ lock = Nobody
  /\ lock' = p
  /\ GoTo(p, "read")
  /\ UNCHANGED <<schema, recorded, next, done, faults>>

ReadRecorded(p) ==
  /\ pc[p] = "read"
  /\ done' = [done EXCEPT ![p] = recorded]
  /\ GoTo(p, "check")
  /\ UNCHANGED <<schema, recorded, lock, next, faults>>

\* SQLite: only the bookkeeping table is created first.
StartSQLite(p) ==
  /\ Engine = "sqlite"
  /\ pc[p] = "start"
  /\ GoTo(p, "check")
  /\ UNCHANGED <<schema, recorded, lock, next, done, faults>>

-----------------------------------------------------------------------------
(* One migration.                                                          *)

\* Fault: the loop runs one migration past the last.
CheckPastLast(p) ==
  /\ Engine = "postgres"
  /\ pc[p] = "check"
  /\ next[p] <= Known[p] + 1
  /\ IF next[p] \in done[p]
       THEN Advance(p)
       ELSE GoTo(p, "up") /\ UNCHANGED next
  /\ UNCHANGED <<schema, recorded, lock, done, faults>>

\* PostgreSQL: the versions read at the start decide.
CheckPostgres(p) ==
  /\ Engine = "postgres"
  /\ pc[p] = "check"
  /\ next[p] <= Known[p]
  /\ IF next[p] \in done[p]
       THEN Advance(p)
       ELSE GoTo(p, "up") /\ UNCHANGED next
  /\ UNCHANGED <<schema, recorded, lock, done, faults>>

\* Fault: the version of a transaction:false migration is not looked up.
CheckNothing(p) ==
  /\ Engine = "sqlite"
  /\ pc[p] = "check"
  /\ next[p] <= Known[p]
  /\ ~InTransaction(p)
  /\ GoTo(p, "up")
  /\ UNCHANGED <<schema, recorded, lock, next, done, faults>>

\* SQLite, transaction:false: the table is read outside any transaction.
CheckSQLite(p) ==
  /\ Engine = "sqlite"
  /\ pc[p] = "check"
  /\ next[p] <= Known[p]
  /\ ~InTransaction(p)
  /\ IF next[p] \in recorded
       THEN Advance(p)
       ELSE GoTo(p, "up") /\ UNCHANGED next
  /\ UNCHANGED <<schema, recorded, lock, done, faults>>

\* Fault: a plain BEGIN takes no lock.
BeginDeferred(p) ==
  /\ Engine = "sqlite"
  /\ pc[p] = "check"
  /\ next[p] <= Known[p]
  /\ InTransaction(p)
  /\ GoTo(p, "recheck")
  /\ UNCHANGED <<schema, recorded, lock, next, done, faults>>

\* SQLite: BEGIN IMMEDIATE waits for the writer, up to busy_timeout.
BeginImmediate(p) ==
  /\ Engine = "sqlite"
  /\ pc[p] = "check"
  /\ next[p] <= Known[p]
  /\ InTransaction(p)
  /\ lock = Nobody
  /\ lock' = p
  /\ GoTo(p, "recheck")
  /\ UNCHANGED <<schema, recorded, next, done, faults>>

\* The version is checked again inside the transaction.
Recheck(p) ==
  /\ pc[p] = "recheck"
  /\ IF next[p] \in recorded
       THEN Advance(p) /\ Release(p)
       ELSE GoTo(p, "up") /\ UNCHANGED <<lock, next>>
  /\ UNCHANGED <<schema, recorded, done, faults>>

\* A statement outside the transactions of p waits for SQLite's writer.
MayWrite(p) == lock \in {Nobody, p}

\* The migration's own statements; its tables may already be there.
RunUp(p) ==
  /\ pc[p] = "up"
  /\ MayWrite(p)
  /\ IF Applied(next[p])
       THEN GoTo(p, "failed") /\ Release(p) /\ UNCHANGED schema
       ELSE /\ GoTo(p, "record")
            /\ schema' = IF InTransaction(p) THEN schema
                                             ELSE Append(schema, next[p])
            /\ UNCHANGED lock
  /\ UNCHANGED <<recorded, next, done, faults>>

\* The INSERT of the version.  It is not there yet: the migration's statements
\* would have failed first.
RecordVersion(p) ==
  /\ pc[p] = "record"
  /\ MayWrite(p)
  /\ IF InTransaction(p)
       THEN GoTo(p, "commit") /\ UNCHANGED <<recorded, next>>
       ELSE recorded' = recorded \cup {next[p]} /\ Advance(p)
  /\ UNCHANGED <<schema, lock, done, faults>>

Commit(p) ==
  /\ pc[p] = "commit"
  /\ schema' = Append(schema, next[p])
  /\ recorded' = recorded \cup {next[p]}
  /\ Advance(p)
  /\ IF Engine = "sqlite" THEN Release(p) ELSE UNCHANGED lock
  /\ UNCHANGED <<done, faults>>

\* Faults: the lock is kept, or the last migration is left out.
FinishWithoutUnlock(p) ==
  /\ pc[p] = "check"
  /\ next[p] > Known[p]
  /\ GoTo(p, "serving")
  /\ UNCHANGED <<schema, recorded, lock, next, done, faults>>
FinishEarly(p) ==
  /\ pc[p] = "check"
  /\ next[p] >= Known[p]
  /\ GoTo(p, "serving")
  /\ Release(p)
  /\ UNCHANGED <<schema, recorded, next, done, faults>>

\* Every migration the binary embeds is done: the server starts to serve.
Finish(p) ==
  /\ pc[p] = "check"
  /\ next[p] > Known[p]
  /\ GoTo(p, "serving")
  /\ Release(p)
  /\ UNCHANGED <<schema, recorded, next, done, faults>>

-----------------------------------------------------------------------------
(* Failures and restarts.                                                  *)

\* A statement fails, or waits too long, or the process is killed: what is not
\* committed is rolled back and the lock is released with its connection.
Fail(p) ==
  /\ faults < MaxFaults
  /\ faults' = faults + 1
  /\ pc[p] # "failed"
  /\ GoTo(p, "failed")
  /\ Release(p)
  /\ UNCHANGED <<schema, recorded, next, done>>

\* A COMMIT that fails for the replica may have succeeded in the database.
CommitUnacknowledged(p) ==
  /\ faults < MaxFaults
  /\ faults' = faults + 1
  /\ pc[p] = "commit"
  /\ schema' = Append(schema, next[p])
  /\ recorded' = recorded \cup {next[p]}
  /\ GoTo(p, "failed")
  /\ Release(p)
  /\ UNCHANGED <<next, done>>

\* The statements of a migration outside a transaction commit one by one: when
\* it breaks off, enough is there to make the next attempt fail.
BreakOff(p) ==
  /\ faults < MaxFaults
  /\ faults' = faults + 1
  /\ pc[p] = "up"
  /\ MayWrite(p) /\ ~InTransaction(p) /\ ~Applied(next[p])
  /\ schema' = Append(schema, next[p])
  /\ GoTo(p, "failed")
  /\ Release(p)
  /\ UNCHANGED <<recorded, next, done>>

Restart(p) ==
  /\ pc[p] = "failed"
  /\ GoTo(p, "start")
  /\ next' = [next EXCEPT ![p] = 1]
  /\ done' = [done EXCEPT ![p] = {}]
  /\ UNCHANGED <<schema, recorded, lock, faults>>

-----------------------------------------------------------------------------
(* The specification.                                                      *)

Step(p) ==
  \/ TakeLock(p) \/ ReadRecorded(p) \/ StartSQLite(p)
  \/ CheckPostgres(p) \/ CheckSQLite(p) \/ BeginImmediate(p) \/ Recheck(p)
  \/ RunUp(p) \/ RecordVersion(p) \/ Commit(p) \/ Finish(p)

Next ==
  \E p \in Replicas :
    \/ Step(p) \/ Fail(p) \/ CommitUnacknowledged(p) \/ BreakOff(p)
    \/ Restart(p)

Spec == Init /\ [][Next]_vars

\* Every replica runs and is restarted; the lock reaches each waiting replica,
\* because every other one asks for it finitely often between faults.
FairSpec == Spec /\ \A p \in Replicas : WF_vars(Step(p)) /\ WF_vars(Restart(p))

-----------------------------------------------------------------------------
(* Properties.                                                             *)

\* Migrations are applied once and in order, each with the record of its version
\* or before it, by whichever replicas run and crash.
Once == INSTANCE MigrateOnce WITH schema <- schema, recorded <- recorded
ImplementsOnce == Once!Spec

\* No replica is about to run a migration that has been applied already, except
\* one that opted out of the transaction which holds the others back.
RunsOnce ==
  \A p \in Replicas :
    pc[p] = "up" /\ MayWrite(p) /\ InTransaction(p) => ~Applied(next[p])

\* A server serves only when every migration it knows is applied and recorded.
ServesMigrated ==
  \A p \in Replicas : pc[p] = "serving" =>
    \A v \in 1..Known[p] : v \in recorded /\ Applied(v)

\* Once no more faults happen every replica ends up serving, unless a fault
\* has left a transaction:false migration applied without its record.
HalfDone == \E v \in Versions : Applied(v) /\ v \notin recorded
EveryReplicaServes ==
  \A p \in Replicas : <>[](pc[p] = "serving") \/ <>[]HalfDone
=============================================================================
