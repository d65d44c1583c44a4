----------------------------- MODULE MCAccounts -----------------------------
(* Instances of Accounts for TLC: the names derived from identities, where *)
(* the second name for one base is the first name for another.             *)
EXTENDS Accounts, TLC

CONSTANTS bob, bob2, bob22

Suffixed ==
  [b \in {bob, bob2} |-> IF b = bob THEN <<bob, bob2>> ELSE <<bob2, bob22>>]

\* No guard reads the last response.
ExceptReply == <<tables, writer, sessions, up, req>>

RequestSymmetry == Permutations(Requests)
PeopleSymmetry == Permutations(Requests) \cup Permutations(Identities)
=============================================================================
