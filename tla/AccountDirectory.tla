-------------------------- MODULE AccountDirectory --------------------------
(***************************************************************************)
(* What the account service promises about who has an account: an account  *)
(* is made either with a password or, in one step, together with the       *)
(* identity it belongs to; neither a password nor an identity ever moves   *)
(* to another account; only roles change.                                  *)
(***************************************************************************)
CONSTANTS Usernames, Identities, Roles

VARIABLES registered,  \* usernames that have an account
          passwords,   \* accounts that have a password
          links,       \* external identities and the accounts they open
          role         \* role of each account

vars == <<registered, passwords, links, role>>

Init ==
  /\ registered = {} /\ passwords = {} /\ links = {}
  /\ role \in [Usernames -> Roles]

Open(n, first) ==
  /\ n \notin registered
  /\ registered' = registered \cup {n}
  /\ role' = [role EXCEPT ![n] = first]

Register(n, first) ==
  /\ Open(n, first)
  /\ passwords' = passwords \cup {n}
  /\ UNCHANGED links

Enrol(i, n, first) ==
  /\ \A l \in links : l.identity # i
  /\ Open(n, first)
  /\ links' = links \cup {[identity |-> i, user |-> n]}
  /\ UNCHANGED passwords

Regrade(n, rank) ==
  /\ n \in registered
  /\ role' = [role EXCEPT ![n] = rank]
  /\ UNCHANGED <<registered, passwords, links>>

Next ==
  \E n \in Usernames, rank \in Roles :
    \/ Register(n, rank)
    \/ \E i \in Identities : Enrol(i, n, rank)
    \/ Regrade(n, rank)

Spec == Init /\ [][Next]_vars
=============================================================================
