------------------------------ MODULE MCLogin ------------------------------
(* Symmetry of Login's instances for TLC.                                  *)
EXTENDS Login, TLC

LoginSymmetry ==
  Permutations(Browsers) \cup Permutations(Flows) \cup Permutations(Codes)
    \cup Permutations(Requests)
=============================================================================
