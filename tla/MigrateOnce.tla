---------------------------- MODULE MigrateOnce ----------------------------
(***************************************************************************)
(* What the start-up migrations promise (the comment on Migrate in         *)
(* internal/database/migrate.go): each migration is applied once and in    *)
(* order, in one transaction with the record of its version unless it opts *)
(* out of that, and none before those that precede it are recorded.        *)
(***************************************************************************)
EXTENDS Naturals, Sequences

CONSTANTS
  Count,         \* number of migrations that exist
  Transactional  \* those that run in a transaction

VARIABLES schema,    \* migrations whose effects are committed, in order
          recorded   \* versions in table schema_migrations

Init == schema = <<>> /\ recorded = {}

\* The next migration, with its record or without.
Apply ==
  LET v == Len(schema) + 1 IN
  /\ v <= Count
  /\ recorded = 1..Len(schema)
  /\ schema' = Append(schema, v)
  /\ recorded' = IF v \in Transactional THEN recorded \cup {v} ELSE recorded

\* The record of a migration that opted out.
Record ==
  /\ Len(schema) > 0 /\ Len(schema) \notin Transactional
  /\ recorded' = recorded \cup {Len(schema)}
  /\ UNCHANGED schema

Spec == Init /\ [][Apply \/ Record]_<<schema, recorded>>
=============================================================================
