------------------------------ MODULE Milestones ------------------------------
(***************************************************************************)
(* A project's chart as the pages of the project manager read it: its      *)
(* tasks, each with a type and a status, and the links between them.  The  *)
(* status of a milestone is not set by hand: it is inferred from the tasks *)
(* it depends on.                                                          *)
(*                                                                         *)
(* A chart is a record; of is the project's chart its tasks were made in,  *)
(* tasks maps the id of a task to its type and status, and links holds     *)
(* pairs of ids, source first.  Names, dates, progress, the closed reason  *)
(* and the parent of a task are left out.                                  *)
(***************************************************************************)
EXTENDS FiniteSets

Open == "ISSUE_STATUS_OPEN"
InProgress == "ISSUE_STATUS_IN_PROGRESS"
Blocked == "ISSUE_STATUS_BLOCKED"
Closed == "ISSUE_STATUS_CLOSED"
Unset == "unset"    \* the attribute is missing

Statuses == {Open, InProgress, Blocked, Closed}
Types == {"task", "milestone"}

ChartOf(of, tasks, links) == [of |-> of, tasks |-> tasks, links |-> links]

IsChart(chart, owners, ids) ==
    /\ chart = ChartOf(chart.of, chart.tasks, chart.links)
    /\ chart.of \in owners
    /\ DOMAIN chart.tasks \subseteq ids
    /\ chart.tasks \in
        [DOMAIN chart.tasks -> [type : Types, status : Statuses \cup {Unset}]]
    /\ chart.links \subseteq (DOMAIN chart.tasks) \X (DOMAIN chart.tasks)

Milestones(chart) ==
    {id \in DOMAIN chart.tasks : chart.tasks[id].type = "milestone"}

\* A missing or unknown status is open.
ParseTaskStatus(raw) == IF raw \in Statuses THEN raw ELSE Open

\* Tasks get the attributes they miss.
EnsureTaskObjectAttrs(task) == [task EXCEPT !.status = ParseTaskStatus(@)]

NormalizeTasks(chart) ==
    [chart EXCEPT !.tasks =
        [id \in DOMAIN @ |-> EnsureTaskObjectAttrs(@[id])]]

\* Ids must be present and unique, and none of those set aside.
ValidTaskId(id, reserved) == id \notin reserved

ValidTaskIds(chart, reserved) ==
    \A id \in DOMAIN chart.tasks : ValidTaskId(id, reserved)

-----------------------------------------------------------------------------
(* Inference *)

CollectIncomingDependencies(chart, ids) ==
    {link[1] : link \in {l \in chart.links : l[2] \in ids}}

\* The ids of a chart: those of its tasks and those its links start from.
IdsOf(chart) == DOMAIN chart.tasks \cup {link[1] : link \in chart.links}

\* A stack of tasks to visit; the walk never enters the milestone itself, and
\* goes no further than an id that has no task.
CollectTransitivePredecessorIds(chart, id) ==
    LET Visit[visited \in SUBSET IdsOf(chart)] ==
            LET known == visited \cap DOMAIN chart.tasks
                next == visited \cup
                        (CollectIncomingDependencies(chart, known) \ {id})
            IN  IF next = visited THEN visited ELSE Visit[next]
    IN  Visit[CollectIncomingDependencies(chart, {id}) \ {id}]

InferMilestoneStatus(statuses) ==
    IF Blocked \in statuses THEN Blocked
    ELSE IF statuses = {Closed} THEN Closed
    ELSE InProgress

\* visiting are the milestones being resolved: one that depends on itself
\* through another counts as in progress.  The code also remembers what it
\* resolved, which changes no result.
CreateStatusResolver(chart) ==
    LET Resolve[visiting \in SUBSET Milestones(chart)] ==
            [p \in IdsOf(chart) |->
                IF p \notin DOMAIN chart.tasks THEN InProgress
                ELSE IF p \notin Milestones(chart)
                THEN ParseTaskStatus(chart.tasks[p].status)
                ELSE IF p \in visiting THEN InProgress
                ELSE InferMilestoneStatus(
                        {Resolve[visiting \cup {p}][q] :
                            q \in CollectTransitivePredecessorIds(chart, p)})]
    IN  Resolve

ResolveTaskStatus(chart, id) == CreateStatusResolver(chart)[{}][id]

\* inferMilestoneStatusesFromXml, and the writing of its result.
InferMilestones(chart) ==
    [chart EXCEPT !.tasks =
        [id \in DOMAIN @ |->
            IF id \in Milestones(chart)
            THEN [@[id] EXCEPT !.status = ResolveTaskStatus(chart, id)]
            ELSE @[id]]]

\* The cards of the board: all tasks, with their statuses.
ParseProjectKanbanTasks(chart) ==
    [id \in DOMAIN chart.tasks |-> ResolveTaskStatus(chart, id)]

\* The status of one task, and then those of the milestones.
UpdateTaskStatusInChart(chart, id, status) ==
    IF id \in DOMAIN chart.tasks
    THEN InferMilestones([chart EXCEPT !.tasks[id].status = status])
    ELSE chart

-----------------------------------------------------------------------------
(* What the document on milestones says the inference computes *)

\* The ids that come before a task, directly or not: they are in every set that
\* has the ids linked to the task and, with one of them, those linked to it.
Before(chart, p) ==
    {q \in IdsOf(chart) \ {p} :
        \A ids \in SUBSET IdsOf(chart) :
            (\A link \in chart.links :
                link[2] \in ids \cup {p} => link[1] \in ids) => q \in ids}

\* The statuses by the rules: blocked if a task before it is blocked, closed
\* if there are tasks before it and all are closed, in progress otherwise.  A
\* milestone before it is closed by the same rules, and none that is before
\* itself through another milestone is.
DocumentedStatus(chart, m) ==
    LET Plain == {p \in DOMAIN chart.tasks \ Milestones(chart) :
                    p \in Before(chart, m)}
        Inferred == {p \in Milestones(chart) : p \in Before(chart, m) \cup {m}}
        Status(p) == ParseTaskStatus(chart.tasks[p].status)
        circle == \E p, q \in Inferred :
                    p \in Before(chart, q) /\ q \in Before(chart, p)
    IN  IF m \notin DOMAIN chart.tasks THEN InProgress
        ELSE IF \E p \in Plain : Status(p) = Blocked THEN Blocked
        ELSE IF /\ \A p \in Inferred :
                    /\ Before(chart, p) # {}
                    /\ Before(chart, p) \subseteq DOMAIN chart.tasks
                /\ \A p \in Plain : Status(p) = Closed
                /\ ~circle
             THEN Closed
             ELSE InProgress

MilestonesFollow(chart) ==
    \A m \in Milestones(chart) :
        chart.tasks[m].status = DocumentedStatus(chart, m)

=============================================================================
