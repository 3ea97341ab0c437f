---------------------------- MODULE IssueStates ----------------------------
(***************************************************************************)
(* What issues.service lets the status of an issue and the fields that     *)
(* belong to a closed one become, and what the edit form and the board of  *)
(* the frontend ask for.  Pure functions of a row and a request.           *)
(***************************************************************************)
EXTENDS Naturals

CONSTANTS
    Statuses,       \* issueStatusCodes
    Open, Closed,   \* of the statuses: what an issue is given, and the last
    Reasons,        \* closedReasonCodes
    Texts,          \* descriptions of a reason, as trimmed
    Null,           \* null
    Absent          \* undefined: a field the request does not have

ASSUME StatusesDiffer == {Open, Closed} \subseteq Statuses /\ Open # Closed
ASSUME NullIsNoValue == Null \notin Reasons \cup Texts \cup Nat
ASSUME AbsentIsNoValue == Absent \notin Statuses \cup Reasons \cup Texts \cup {Null}

\* The columns of an issue that depend on one another.
State ==
    [status : Statuses, closedReason : Reasons \cup {Null},
     closedReasonDescription : Texts \cup {Null}, closedAt : Nat \cup {Null}]

\* What the request schemas let through.
Payload ==
    [status : Statuses \cup {Absent}, closedReason : Reasons \cup {Null, Absent},
     closedReasonDescription : Texts \cup {Null, Absent}]

Rejected == [status |-> Null]

createIssueStateValues(status, reason, description, now) ==
    IF (status = Closed) # (reason # Null) \/ (status # Closed /\ description # Null)
    THEN Rejected
    ELSE [status |-> status, closedReason |-> reason,
          closedReasonDescription |-> description,
          closedAt |-> IF status = Closed THEN now ELSE Null]

given(value, otherwise) == IF value = Absent THEN otherwise ELSE value

createIssueInsertValues(payload, now) ==
    createIssueStateValues(given(payload.status, Open),
        given(payload.closedReason, Null),
        given(payload.closedReasonDescription, Null), now)

createIssueUpdateValues(payload, current, now) ==
    createIssueStateValues(given(payload.status, current.status),
        given(payload.closedReason, current.closedReason),
        given(payload.closedReasonDescription, current.closedReasonDescription),
        now)

-----------------------------------------------------------------------------
(***************************************************************************)
(* The frontend                                                            *)
(***************************************************************************)

\* The board asks for the status of the column a card is dropped in.
MoveCard(status) ==
    [status |-> status, closedReason |-> Absent, closedReasonDescription |-> Absent]

\* The edit form sends all its fields; those it disables keep their values.
createIssueFormState(issue) ==
    [status |-> issue.status, closedReason |-> issue.closedReason,
     closedReasonDescription |-> issue.closedReasonDescription]

-----------------------------------------------------------------------------
(***************************************************************************)
(* Properties                                                              *)
(***************************************************************************)

\* An issue is closed exactly when it has a reason and a time of closing, and
\* only then may the reason be described.
Consistent(issue) ==
    /\ issue \in State
    /\ issue.status = Closed <=> issue.closedReason # Null
    /\ issue.status = Closed <=> issue.closedAt # Null
    /\ issue.status # Closed => issue.closedReasonDescription = Null
=============================================================================
