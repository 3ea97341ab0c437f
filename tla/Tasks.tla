------------------------------- MODULE Tasks -------------------------------
(***************************************************************************)
(* tasks.service, task-comment.service, task-mirror.service and the chart  *)
(* handlers of projects.service over one chart of one project.             *)
(*                                                                         *)
(* The tasks of a chart are what its file says.  A task gets a mirror row  *)
(* when it is first discussed; comments and links of attachments hang on   *)
(* that row.  Saving a chart without a task removes what was kept about    *)
(* the task, file by file.  Task ids come from the file: a task that was   *)
(* removed can be put back under its id, so a late removal may meet it.    *)
(*                                                                         *)
(* Text of charts, journals and comments, and authors, are left out.       *)
(***************************************************************************)
EXTENDS Attachments

CONSTANTS
    ChartTasks,     \* task ids
    DefaultTasks,   \* the tasks of a default chart
    Comments,       \* ids of TaskComments rows
    TaskOf,         \* taskId of a comment
    ParentComment   \* parentCommentId of a comment, or None

ASSUME TaskContainers ==
    /\ Containers = ChartTasks \cup Comments
    /\ ChartTasks \cap Comments = {}
    /\ DefaultTasks \subseteq ChartTasks
ASSUME TaskForeignKeys ==
    /\ TaskOf \in [Comments -> ChartTasks]
    /\ ParentComment \in [Comments -> Comments \cup {None}]
ASSUME TaskIdsDoNotMix == Containers \cap Attachments = {}

VARIABLES
    project,        \* "absent", "present" or "deleted", with its chart row
    chart,          \* the task ids in the chart file
    journals,       \* the tasks that have a journal file
    bodies,         \* the comments that have a body file
    overtaken       \* history: tasks of which a deletion met another request

taskVars == <<project, chart, journals, bodies>>
vars == <<attachmentVars, taskVars, overtaken>>

\* A save that removed tasks: its comments, then its journals, are unlinked.
RemovalRequest ==
    [step : {"unlinkBodies"}, on : {None}, attachment : {None},
     ids : SUBSET Comments, removed : SUBSET ChartTasks]
    \cup [step : {"unlinkJournals"}, on : {None}, attachment : {None},
          ids : SUBSET ChartTasks, removed : SUBSET ChartTasks]

JournalRequest ==
    [step : {"readJournal", "writeJournal", "writeFirstJournal"},
     on : ChartTasks, attachment : {None}, ids : {{}}]
    \cup [step : {"createProjectJournal"}, on : {None}, attachment : {None},
          ids : {{}}]

BodyRequest ==
    [step : {"writeBody", "unlinkBody"}, on : Comments, attachment : {None},
     ids : {{}}]

Request ==
    {idle} \cup UploadRequest \cup SweepRequest \cup RemovalRequest
        \cup JournalRequest \cup BodyRequest

\* Every variable has its type.
TypeOK ==
    /\ live \subseteq Containers
    /\ used \subseteq Comments \cup Attachments
    /\ attachments \subseteq Attachments
    /\ linkedTo \in [Attachments -> Containers \cup {None}]
    /\ blobs \subseteq Attachments
    /\ requests \in [RequestIds -> Request]
    /\ failed \in BOOLEAN
    /\ project \in {"absent", "present", "deleted"}
    /\ chart \subseteq ChartTasks
    /\ journals \subseteq ChartTasks
    /\ bodies \subseteq Comments
    /\ overtaken \subseteq ChartTasks

-----------------------------------------------------------------------------
(***************************************************************************)
(* Rows                                                                    *)
(***************************************************************************)
\* validateTaskReadableForCurrentUser: the project, its chart row, the file.
taskReadable(t) == project = "present" /\ t \in chart

commentReadable(c) == c \in live /\ taskReadable(TaskOf[c])

commentsOf(ts) == {c \in Comments : TaskOf[c] \in ts}

\* Slip: the links of task comments do not cascade.
deleteRowsKeepingCommentLinks(cs) ==
    /\ live' = live \ (cs \cup commentsOf(cs))
    /\ linkedTo' = [a \in Attachments |->
                      IF linkedTo[a] \in cs THEN None ELSE linkedTo[a]]

\* ON DELETE CASCADE from the chart row to mirrors, to comments and links.
deleteRows(cs) ==
    LET gone == cs \cup commentsOf(cs) IN
    /\ live' = live \ gone
    /\ linkedTo' = [a \in Attachments |->
                      IF linkedTo[a] \in gone THEN None ELSE linkedTo[a]]

attachmentsStay == UNCHANGED <<attachments, blobs>>

-----------------------------------------------------------------------------
(***************************************************************************)
(* The project and its chart                                               *)
(***************************************************************************)
CreateProject(id) ==
    /\ isFree(id)
    /\ project = "absent"
    /\ project' = "present"
    /\ chart' = DefaultTasks
    /\ goOn(id, [idle EXCEPT !.step = "createProjectJournal"])
    /\ attachmentsStay
    /\ UNCHANGED <<live, used, linkedTo, failed, journals, bodies>>

WriteProjectJournal(id) ==
    /\ requests[id].step = "createProjectJournal"
    /\ end(id)
    /\ attachmentsStay
    /\ UNCHANGED <<live, used, linkedTo, failed, taskVars>>

\* The rows, and with them the mirror, go before the chart files, and no
\* sweep follows.  Journals and bodies of tasks are left to nobody.
deleteProjectRecord ==
    /\ project' = "deleted"
    /\ chart' = {}
    /\ deleteRows(ChartTasks)

DeleteProject(id) ==
    /\ isFree(id)
    /\ project = "present"
    /\ deleteProjectRecord
    /\ UNCHANGED <<attachments, blobs, used, requests, failed, journals, bodies>>

\* createProject takes the project back, with what others did to it meanwhile.
WriteProjectJournalFails(id) ==
    /\ requests[id].step = "createProjectJournal"
    /\ deleteProjectRecord
    /\ end(id)
    /\ failed' = TRUE
    /\ attachmentsStay /\ UNCHANGED <<used, journals, bodies>>

\* What deleteRemovedTaskMirrorData awaits first.
goOnRemoving(id, comments, removed) ==
    goOn(id, IF comments = {}
             THEN [step |-> "unlinkJournals", on |-> None, attachment |-> None,
                   ids |-> removed, removed |-> removed]
             ELSE [step |-> "unlinkBodies", on |-> None, attachment |-> None,
                   ids |-> comments, removed |-> removed])

\* Slip: a removed task that has no comments is not looked at.
SaveChartOfDiscussedTasks(id, nextTasks) ==
    LET removed == {t \in chart \ nextTasks : commentsOf({t}) \cap live # {}} IN
    /\ isFree(id)
    /\ project = "present"
    /\ chart' = nextTasks
    /\ IF removed = {} THEN UNCHANGED requests
       ELSE goOnRemoving(id, commentsOf(removed) \cap live, removed)
    /\ attachmentsStay
    /\ UNCHANGED <<live, used, linkedTo, failed, project, journals, bodies>>

\* updateProjectChart writes the file at once, and selects the comments of
\* the removed tasks before it awaits anything.
SaveChart(id, nextTasks) ==
    LET removed == chart \ nextTasks IN
    /\ isFree(id)
    /\ project = "present"
    /\ chart' = nextTasks
    /\ IF removed = {} THEN UNCHANGED requests
       ELSE goOnRemoving(id, commentsOf(removed) \cap live, removed)
    /\ attachmentsStay
    /\ UNCHANGED <<live, used, linkedTo, failed, project, journals, bodies>>

\* The chart row is looked up again after each body; without it the request
\* ends.
UnlinkRemovedBody(id, c) ==
    LET r == requests[id] IN
    /\ r.step = "unlinkBodies"
    /\ c \in r.ids
    /\ bodies' = bodies \ {c}
    /\ IF project = "present" THEN goOnRemoving(id, r.ids \ {c}, r.removed)
       ELSE end(id)
    /\ attachmentsStay
    /\ UNCHANGED <<live, used, linkedTo, failed, project, chart, journals>>

\* The mirror rows of all removed tasks go after the last journal.
UnlinkRemovedJournal(id, t) ==
    LET r == requests[id] IN
    /\ r.step = "unlinkJournals"
    /\ t \in r.ids
    /\ journals' = journals \ {t}
    /\ IF r.ids = {t}
       THEN deleteRows(r.removed) /\ sweepOrphans(id, linkedTo')
       ELSE goOn(id, [r EXCEPT !.ids = @ \ {t}]) /\ UNCHANGED <<live, linkedTo>>
    /\ attachmentsStay
    /\ UNCHANGED <<used, failed, project, chart, bodies>>

-----------------------------------------------------------------------------
(***************************************************************************)
(* Attachments of tasks and of their comments                              *)
(***************************************************************************)
\* uploadTaskAttachment makes the mirror row before the limit is looked at.
UploadTaskAttachment(id, t, a) ==
    /\ isFree(id)
    /\ taskReadable(t)
    /\ live' = live \cup {t}
    /\ IF assertWithinAttachmentLimit(t)
       THEN /\ a \notin used
            /\ used' = used \cup {a}
            /\ goOn(id, [idle EXCEPT !.step = "writeBlob", !.on = t,
                                     !.attachment = a])
       ELSE UNCHANGED <<used, requests>>
    /\ attachmentsStay /\ UNCHANGED <<linkedTo, failed, taskVars>>

UploadCommentAttachment(id, c, a) ==
    /\ commentReadable(c)
    /\ BeginUpload(id, c, a)
    /\ UNCHANGED taskVars

DeleteTaskAttachment(id, a) ==
    /\ linkedTo[a] \in ChartTasks => taskReadable(linkedTo[a])
    /\ linkedTo[a] \in Comments => commentReadable(linkedTo[a])
    /\ DeleteAttachmentLink(id, a)
    /\ UNCHANGED taskVars

-----------------------------------------------------------------------------
(***************************************************************************)
(* Journals                                                                *)
(***************************************************************************)
UpdateTaskJournal(id, t) ==
    /\ isFree(id)
    /\ taskReadable(t)
    /\ goOn(id, [idle EXCEPT !.step = "readJournal", !.on = t])
    /\ attachmentsStay
    /\ UNCHANGED <<live, used, linkedTo, failed, taskVars>>

\* The chart file is not looked at again, only the mirror: the insert fails
\* when the chart row is gone.
MirrorForJournal(id) ==
    LET r == requests[id] IN
    /\ r.step = "readJournal"
    /\ \/ /\ r.on \in live
          /\ goOn(id, [r EXCEPT !.step = "writeJournal"])
          /\ UNCHANGED live
       \/ /\ r.on \notin live
          /\ project = "present"
          /\ live' = live \cup {r.on}
          /\ goOn(id, [r EXCEPT !.step = "writeFirstJournal"])
       \/ /\ r.on \notin live
          /\ project # "present"
          /\ end(id)
          /\ UNCHANGED live
    /\ attachmentsStay /\ UNCHANGED <<used, linkedTo, failed, taskVars>>

WriteTaskJournal(id) ==
    /\ requests[id].step \in {"writeJournal", "writeFirstJournal"}
    /\ journals' = journals \cup {requests[id].on}
    /\ end(id)
    /\ attachmentsStay
    /\ UNCHANGED <<live, used, linkedTo, failed, project, chart, bodies>>

\* Slip: a failed write always takes the mirror row along.
WriteTaskJournalFailsAndClears(id) ==
    LET r == requests[id] IN
    /\ r.step \in {"writeJournal", "writeFirstJournal"}
    /\ deleteRows({r.on})
    /\ journals' \in {journals, journals \cup {r.on}}
    /\ end(id)
    /\ failed' = TRUE
    /\ attachmentsStay /\ UNCHANGED <<used, project, chart, bodies>>

\* The mirror row goes if it was not there before, whoever uses it by now.
WriteTaskJournalFails(id) ==
    LET r == requests[id] IN
    /\ r.step \in {"writeJournal", "writeFirstJournal"}
    /\ IF r.step = "writeFirstJournal" THEN deleteRows({r.on})
       ELSE UNCHANGED <<live, linkedTo>>
    /\ journals' \in {journals, journals \cup {r.on}}
    /\ end(id)
    /\ failed' = TRUE
    /\ attachmentsStay /\ UNCHANGED <<used, project, chart, bodies>>

-----------------------------------------------------------------------------
(***************************************************************************)
(* Comments                                                                *)
(***************************************************************************)
CreateComment(id, c) ==
    /\ isFree(id)
    /\ taskReadable(TaskOf[c])
    /\ ParentComment[c] # None =>
          /\ ParentComment[c] \in live
          /\ TaskOf[ParentComment[c]] = TaskOf[c]
    /\ c \notin used
    /\ used' = used \cup {c}
    /\ live' = live \cup {TaskOf[c], c}
    /\ goOn(id, [idle EXCEPT !.step = "writeBody", !.on = c])
    /\ attachmentsStay /\ UNCHANGED <<linkedTo, failed, taskVars>>

UpdateComment(id, c) ==
    /\ isFree(id)
    /\ commentReadable(c)
    /\ goOn(id, [idle EXCEPT !.step = "writeBody", !.on = c])
    /\ attachmentsStay
    /\ UNCHANGED <<live, used, linkedTo, failed, taskVars>>

WriteBody(id) ==
    /\ requests[id].step = "writeBody"
    /\ bodies' = bodies \cup {requests[id].on}
    /\ end(id)
    /\ attachmentsStay
    /\ UNCHANGED <<live, used, linkedTo, failed, project, chart, journals>>

DeleteComment(id, c) ==
    /\ isFree(id)
    /\ commentReadable(c)
    /\ \A x \in Comments \cap live : ParentComment[x] # c
    /\ deleteRows({c})
    /\ goOn(id, [idle EXCEPT !.step = "unlinkBody", !.on = c])
    /\ attachmentsStay /\ UNCHANGED <<used, failed, taskVars>>

UnlinkBody(id) ==
    /\ requests[id].step = "unlinkBody"
    /\ bodies' = bodies \ {requests[id].on}
    /\ sweepOrphans(id, linkedTo)
    /\ attachmentsStay
    /\ UNCHANGED <<live, used, linkedTo, failed, project, chart, journals>>

WriteBodyFails(id) ==
    /\ requests[id].step = "writeBody"
    /\ bodies' \in {bodies, bodies \cup {requests[id].on}}
    /\ end(id)
    /\ failed' = TRUE
    /\ attachmentsStay
    /\ UNCHANGED <<live, used, linkedTo, project, chart, journals>>

\* A read that fails, or an unlink, ends the request as it stands.
ReadOrUnlinkFails(id) ==
    /\ requests[id].step \in {"readJournal", "unlinkBody", "unlinkBodies",
                              "unlinkJournals"}
    /\ end(id)
    /\ failed' = TRUE
    /\ attachmentsStay /\ UNCHANGED <<live, used, linkedTo, taskVars>>

-----------------------------------------------------------------------------
Init ==
    /\ live = {}
    /\ used = {}
    /\ attachments = {}
    /\ linkedTo = [a \in Attachments |-> None]
    /\ blobs = {}
    /\ requests = [id \in RequestIds |-> idle]
    /\ failed = FALSE
    /\ project = "absent"
    /\ chart = {}
    /\ journals = {}
    /\ bodies = {}
    /\ overtaken = {}

ChartHandlers(id) ==
    \/ CreateProject(id)
    \/ WriteProjectJournal(id)
    \/ WriteProjectJournalFails(id)
    \/ DeleteProject(id)
    \/ \E nextTasks \in SUBSET ChartTasks : SaveChart(id, nextTasks)
    \/ \E c \in Comments : UnlinkRemovedBody(id, c)
    \/ \E t \in ChartTasks : UnlinkRemovedJournal(id, t)

TaskHandlers(id) ==
    \/ \E t \in ChartTasks :
          \/ UpdateTaskJournal(id, t)
          \/ \E a \in Attachments : UploadTaskAttachment(id, t, a)
    \/ MirrorForJournal(id)
    \/ WriteTaskJournal(id)
    \/ WriteTaskJournalFails(id)
    \/ ReadOrUnlinkFails(id)

TaskCommentHandlers(id) ==
    \/ \E c \in Comments :
          \/ CreateComment(id, c)
          \/ UpdateComment(id, c)
          \/ DeleteComment(id, c)
          \/ \E a \in Attachments : UploadCommentAttachment(id, c, a)
    \/ \E a \in Attachments : DeleteTaskAttachment(id, a)
    \/ WriteBody(id)
    \/ UnlinkBody(id)
    \/ WriteBodyFails(id)

\* The tasks that a request removes, and those it works on.
removedBy(r) ==
    IF r.step \in {"unlinkBodies", "unlinkJournals"} THEN r.removed ELSE {}

tasksOf(r) ==
    {t \in ChartTasks : r.on = t \/ (\E c \in commentsOf({t}) : r.on = c)}
        \cup removedBy(r)

\* A task is overtaken when it is worked on, or put back, while a save that
\* removed it is under way, or a comment of it while it is being deleted.
recordOvertaken ==
    overtaken' = overtaken \cup
        {t \in ChartTasks : \E i \in RequestIds :
            \/ /\ t \in removedBy(requests'[i])
               /\ \/ t \in chart' \ chart
                  \/ \E j \in RequestIds \ {i} : t \in tasksOf(requests'[j])
            \/ /\ requests'[i].step = "unlinkBody"
               /\ TaskOf[requests'[i].on] = t
               /\ \E j \in RequestIds \ {i} : requests'[j].on = requests'[i].on}

Next ==
    /\ \/ \E id \in RequestIds :
              \/ ChartHandlers(id)
              \/ TaskHandlers(id)
              \/ TaskCommentHandlers(id)
              \/ AttachmentSteps(id) /\ UNCHANGED taskVars
       \/ Crash /\ UNCHANGED taskVars
    /\ recordOvertaken

Spec == Init /\ [][Next]_vars

-----------------------------------------------------------------------------
\* What is listed with a task can be read.  A linked attachment has its row,
\* its blob and the row it is linked to, whatever removals, uploads, sweeps and
\* failures have met; and as long as no file operation fails, a task comment
\* has its body, except while the request that writes it, or a save that
\* removed its task, is under way.
TaskContentIsStored ==
    /\ LinkedAttachmentsAreStored
    /\ ~ failed =>
          \A c \in Comments \cap live :
              \/ c \in bodies
              \/ \E id \in RequestIds :
                    \/ requests[id].step = "writeBody" /\ requests[id].on = c
                    \/ TaskOf[c] \in removedBy(requests[id])

\* Removing a task from the chart removes all that was kept about it: as long
\* as nothing failed and no other request overlapped a deletion on the task, a
\* task that is not in the chart has no mirror row, and without a mirror row
\* there is no journal file, no comment and no body that would come back when
\* the task is put into the chart again.
RemovedTasksLeaveNothing ==
    project = "present" /\ ~ failed =>
        \A t \in ChartTasks \ overtaken :
            (\A id \in RequestIds : t \notin tasksOf(requests[id])) =>
                /\ t \notin chart => t \notin live
                /\ t \notin live =>
                      /\ t \notin journals
                      /\ commentsOf({t}) \cap (live \cup bodies) = {}

isBeingRemoved(t) == \E id \in RequestIds : t \in removedBy(requests[id])

\* A task that stays in the chart keeps its mirror row and its journal, and
\* its comments keep their bodies.  The exceptions are of the step itself: a
\* removal of this task, which was put back meanwhile, is still under way; or
\* the first write of its journal fails; or the project goes.  Whatever met
\* whom before, a task that is removed by nobody is safe.
KeptTasksKeepTheirData ==
    [][\A t \in chart \cap chart' :
          \/ isBeingRemoved(t)
          \/ /\ t \in live => t \in live'
             /\ t \in journals => t \in journals'
             /\ \A c \in commentsOf({t}) \cap live' :
                   c \in bodies => c \in bodies'
          \/ failed' /\ \E id \in RequestIds :
                requests[id].step = "writeFirstJournal" /\ requests[id].on = t]_vars
=============================================================================
