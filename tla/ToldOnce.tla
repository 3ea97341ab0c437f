------------------------------ MODULE ToldOnce ------------------------------
(***************************************************************************)
(* What notifications promise about mentions: of being mentioned in one    *)
(* comment or journal a user is told at most once, however often the text  *)
(* is written, by whomever.  News that is gone, with the text or with the  *)
(* user, does not come again.                                              *)
(***************************************************************************)
CONSTANTS Users, Containers

VARIABLE news   \* what a user got of the mentions in a comment or journal

Init == news = [c \in Containers |-> [u \in Users |-> "none"]]

\* Several users may be mentioned for the first time by one text.
Tell(c, u) ==
    /\ news[c][u] = "none"
    /\ news' = [news EXCEPT ![c][u] = "told"]

\* An issue, the project or a user is deleted.
Withdraw ==
    /\ news' \in [Containers -> [Users -> {"none", "told", "gone"}]]
    /\ \A c \in Containers, u \in Users : news'[c][u] \in {news[c][u], "gone"}

Next == Withdraw \/ \E c \in Containers, u \in Users : Tell(c, u)

Spec == Init /\ [][Next]_news
=============================================================================
