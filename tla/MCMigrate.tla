----------------------------- MODULE MCMigrate -----------------------------
(* Instances of Migrate for TLC: a rolling update, where one replica still *)
(* runs a binary with fewer migrations than the others.                    *)
EXTENDS Migrate

CONSTANT old

RollingUpdate == [p \in Replicas |-> IF p = old THEN Count - 1 ELSE Count]
=============================================================================
