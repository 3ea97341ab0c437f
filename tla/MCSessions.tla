---------------------------- MODULE MCSessions ----------------------------
(***************************************************************************)
(* Instances of Sessions for TLC.                                          *)
(***************************************************************************)
EXTENDS DocumentedSessionRules, TLC

\* Ids that only name rows or requests are interchangeable.
Symmetry ==
    Permutations(SessionIds) \cup Permutations(Tokens)
        \cup Permutations(RequestIds) \cup Permutations(Objects)
        \cup Permutations(Users \ Admins)
=============================================================================
