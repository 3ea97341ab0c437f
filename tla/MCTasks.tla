------------------------------ MODULE MCTasks ------------------------------
(***************************************************************************)
(* Instances of Tasks for TLC: one chart with two tasks, of which the      *)
(* default chart has the first, and two comments, the second a reply.      *)
(***************************************************************************)
EXTENDS Tasks, TLC

CONSTANTS t1, c1, c2

TaskRows == ChartTasks \cup Comments

TaskOfComment == (c1 :> t1) @@ (c2 :> t1)

ReplyTo == (c1 :> None) @@ (c2 :> c1)

\* Requests are interchangeable.
Symmetry == Permutations(RequestIds)
=============================================================================
