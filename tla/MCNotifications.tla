-------------------------- MODULE MCNotifications --------------------------
(***************************************************************************)
(* An instance of Notifications for TLC: an issue with a comment, the      *)
(* journal of the project, and three users, of whom two get mentioned.     *)
(***************************************************************************)
EXTENDS Notifications, TLC

CONSTANTS i1, c1, j1, u1, u2

IssueOfContainer == (c1 :> i1) @@ (j1 :> None)

Texts == {{u1}, {u1, u2}}
=============================================================================
