------------------------------ MODULE MCIssues ------------------------------
(***************************************************************************)
(* Instances of Issues for TLC: one project, one issue, and two comments,  *)
(* the second a reply to the first.  And the states of an issue, over all  *)
(* requests there can be.                                                  *)
(***************************************************************************)
EXTENDS Issues, IssueStates, TLC

CONSTANTS p, i1, c1, c2

ProjectContainers == {p, i1, c1, c2}

IssueOfComment == (c1 :> i1) @@ (c2 :> i1)

ReplyTo == (c1 :> None) @@ (c2 :> c1)

\* Attachments and requests are interchangeable.
Symmetry == Permutations(Attachments) \cup Permutations(RequestIds)

ConsistentStates == {issue \in [status : Statuses, closedReason : Reasons \cup {Null},
     closedReasonDescription : Texts \cup {Null}, closedAt : {1, Null}] : Consistent(issue)}

\* tests/issues-crud.test.ts:492: a request is refused exactly when it would
\* leave a closed issue without a reason, or an open one with a closed field.
ASSUME RequestsAreRefusedForAReason ==
    \A issue \in ConsistentStates, payload \in Payload :
        LET next == [f \in DOMAIN payload |->
                       IF payload[f] = Absent THEN issue[f] ELSE payload[f]]
            keepsClosedFields ==
                next.closedReason # Null \/ next.closedReasonDescription # Null
            done == createIssueUpdateValues(payload, issue, 2)
        IN  /\ (done = Rejected) <=>
                 IF next.status = Closed THEN next.closedReason = Null
                 ELSE keepsClosedFields
            /\ done # Rejected =>
                 /\ \A f \in DOMAIN payload : done[f] = next[f]
                 /\ done.closedAt = IF next.status = Closed THEN 2 ELSE Null
=============================================================================
