---------------------------- MODULE MCAuthority ----------------------------
(***************************************************************************)
(* Instances of Authority for TLC.  A configuration that gives one of the  *)
(* sets of ids no element checks the rest of the system without it.        *)
(***************************************************************************)
EXTENDS DocumentedRules, TLC

CONSTANTS a1, u1, u2

\* Users who are not administrators are interchangeable, and so are objects of
\* one kind.
Symmetry ==
    Permutations(Users \ Admins) \cup Permutations(Teams)
        \cup Permutations(Organizations)
=============================================================================
