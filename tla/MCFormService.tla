--------------------------- MODULE MCFormService ---------------------------
(* Instances of FormService for TLC: the form requests the clients send.   *)
EXTENDS FormService, TLC

CONSTANTS t1, t2, c1, c2, s1, s2

\* A published form that anyone may fill in at any time.
open ==
  [slug |-> s1, content |-> c1, active |-> TRUE, draft |-> FALSE,
   public |-> TRUE, anonymous |-> TRUE, start |-> 0, end |-> Never]
edited == [open EXCEPT !.content = c2]
shelved == [open EXCEPT !.slug = s2, !.draft = TRUE]
closing == [open EXCEPT !.start = 1, !.end = 2]
identified == [open EXCEPT !.public = FALSE, !.anonymous = FALSE]
contradictory == [open EXCEPT !.anonymous = FALSE]

LockInputs == {open, edited, shelved}
OneInput == {open}
AccessInputs == {closing, identified, contradictory}

\* No guard reads the last response, so states that differ in it alone are one.
ExceptReply == <<tables, activeTenants, clock, req>>

TenantSymmetry == Permutations(Tenants) \cup Permutations(Requests)
RequestSymmetry == Permutations(Requests)
=============================================================================
