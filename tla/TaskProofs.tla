----------------------------- MODULE TaskProofs -----------------------------
(***************************************************************************)
(* What is kept about the tasks of a chart, for every chart and every      *)
(* number of tasks, comments, attachments and requests under way.          *)
(***************************************************************************)
EXTENDS Tasks, AttachmentProofs

\* A comment has the mirror row of its task, and nothing outlives the project.
RowsInv ==
    /\ live \cap Comments \subseteq used
    /\ \A c \in Comments \cap live : TaskOf[c] \in live
    /\ project # "present" => live = {}

\* What a request is about to unlink is of the tasks it removes, or of a
\* comment whose row is gone.
UnlinksInv ==
    \A id \in RequestIds : LET r == requests[id] IN
        /\ r.step = "unlinkBodies" => r.ids \subseteq commentsOf(r.removed)
        /\ r.step = "unlinkJournals" => r.ids \subseteq r.removed
        /\ r.step = "unlinkBody" => r.on \in used \ live

waitsFor(c, r) ==
    \/ r.step = "writeBody" /\ r.on = c
    \/ TaskOf[c] \in removedBy(r)

BodiesInv ==
    ~ failed =>
        \A c \in Comments \cap live :
            c \in bodies \/ \E id \in RequestIds : waitsFor(c, requests[id])

\* Before the project there is nothing.
AbsentInv ==
    project = "absent" =>
        /\ journals = {} /\ bodies = {}
        /\ \A id \in RequestIds :
              requests[id].step \in {"idle"} \cup sweepingSteps

\* A task that is being removed and is in the chart was put back.
PutBackInv ==
    \A id \in RequestIds : removedBy(requests[id]) \cap chart \subseteq overtaken

\* A request on a task that another removes has overtaken the removal.
OneAtATime ==
    \A id \in RequestIds : \A other \in RequestIds \ {id} :
        removedBy(requests[id]) \cap tasksOf(requests[other]) \subseteq overtaken

\* The requests on a task began when it was in the chart.
RequestsAreOnChart ==
    project = "present" =>
        \A id \in RequestIds :
            tasksOf(requests[id]) \subseteq
                chart \cup overtaken \cup removedBy(requests[id])

\* What is written has its row, and so has what is stored; a row has its task
\* in the chart, or a request that removes it.
StoredInv ==
    project = "present" /\ ~ failed =>
        /\ \A id \in RequestIds : LET r == requests[id] IN
              /\ r.step \in {"writeJournal", "writeFirstJournal"} =>
                    r.on \in live \cup overtaken
              /\ r.step = "writeBody" =>
                    r.on \in live \/ TaskOf[r.on] \in overtaken
        /\ \A t \in ChartTasks \cap live :
              \/ t \in chart \cup overtaken
              \/ \E id \in RequestIds : t \in removedBy(requests[id])
        /\ journals \subseteq live \cup overtaken
        /\ \A c \in bodies :
              \/ c \in live \/ TaskOf[c] \in overtaken
              \/ \E id \in RequestIds :
                    requests[id].step = "unlinkBody" /\ requests[id].on = c

\* A removal has unlinked all that it does not name any more.
RemovalsInv ==
    project = "present" /\ ~ failed =>
        \A id \in RequestIds : LET r == requests[id] IN
            /\ r.step = "unlinkBodies" =>
                  \A c \in commentsOf(r.removed) \cap bodies :
                      c \in r.ids \/ TaskOf[c] \in overtaken
            /\ r.step = "unlinkJournals" =>
                  /\ \A c \in commentsOf(r.removed) \cap bodies :
                        TaskOf[c] \in overtaken
                  /\ r.removed \cap journals \subseteq r.ids \cup overtaken

TaskInv ==
    /\ RowsInv
    /\ UnlinksInv
    /\ BodiesInv
    /\ AbsentInv
    /\ PutBackInv
    /\ OneAtATime
    /\ RequestsAreOnChart
    /\ StoredInv
    /\ RemovalsInv

-----------------------------------------------------------------------------
(***************************************************************************)
(* Types                                                                   *)
(***************************************************************************)
LEMMA IdleIsRequest == idle \in Request /\ idle.step = "idle" /\ idle.on = None
BY DEF Request, idle

LEMMA GoOnType ==
    ASSUME TypeOK, NEW id \in RequestIds, NEW r \in Request, goOn(id, r)
    PROVE  requests' \in [RequestIds -> Request]
BY DEF TypeOK, goOn

\* A request's step tells what it carries.
LEMMA RequestKinds ==
    ASSUME NEW r \in Request
    PROVE  /\ r.step \in uploadingSteps => r \in UploadRequest
           /\ r.step \in sweepingSteps => r \in SweepRequest
           /\ r.step \in {"unlinkBodies", "unlinkJournals"} => r \in RemovalRequest
           /\ r.step \in {"readJournal", "writeJournal", "writeFirstJournal"}
                => r \in JournalRequest /\ r.on \in ChartTasks
           /\ r.step \in {"writeBody", "unlinkBody"} => r \in BodyRequest
           /\ r.step \notin uploadingSteps
                => heldBy(r) = {} \/ r \in SweepRequest
BY TaskIdsDoNotMix, TaskContainers, NoneIsNothing
DEF Request, idle, UploadRequest, SweepRequest, RemovalRequest, JournalRequest,
    BodyRequest, uploadingSteps, sweepingSteps, heldBy

LEMMA TypesOfAttachments == TypeOK => AttachmentTypes
<1>. SUFFICES ASSUME TypeOK
              PROVE  AttachmentTypes
  OBVIOUS
<1>1. \A id \in RequestIds : requests[id] \in Request
  BY DEF TypeOK
<1>. QED
  BY <1>1, RequestKinds DEF AttachmentTypes, TypeOK

\* What a save that removed tasks goes on with.
LEMMA RemovalKinds ==
    ASSUME NEW id \in RequestIds, NEW comments \in SUBSET Comments,
           NEW removed \in SUBSET ChartTasks, goOnRemoving(id, comments, removed)
    PROVE  \E n \in RemovalRequest :
              /\ goOn(id, n) /\ n.removed = removed
              /\ \/ n.step = "unlinkBodies" /\ n.ids = comments
                 \/ n.step = "unlinkJournals" /\ n.ids = removed /\ comments = {}
<1>. DEFINE n == IF comments = {}
                 THEN [step |-> "unlinkJournals", on |-> None,
                       attachment |-> None, ids |-> removed, removed |-> removed]
                 ELSE [step |-> "unlinkBodies", on |-> None,
                       attachment |-> None, ids |-> comments, removed |-> removed]
<1>1. /\ n \in RemovalRequest /\ n.removed = removed
      /\ \/ n.step = "unlinkBodies" /\ n.ids = comments
         \/ n.step = "unlinkJournals" /\ n.ids = removed /\ comments = {}
  BY DEF RemovalRequest
<1>. QED
  BY <1>1 DEF goOnRemoving

\* Where a sweep begins, a request ends or goes on as a sweep.
LEMMA SweepKinds ==
    ASSUME TypeOK, NEW id \in RequestIds, NEW links, sweepOrphans(id, links)
    PROVE  \E n \in {idle} \cup SweepRequest : goOn(id, n)
BY TypesOfAttachments, SweepRequests

LEMMA InitTypeOK == Init => TypeOK
BY IdleIsRequest, TaskContainers DEF Init, TypeOK

\* Saves of the chart, and the making and the end of a project.
LEMMA ChartHandlersTypeOK ==
    ASSUME TypeOK, NEW id \in RequestIds, ChartHandlers(id),
           overtaken' \subseteq ChartTasks
    PROVE  TypeOK'
<1>. DEFINE r == requests[id]
<1>0. r \in Request
  BY DEF TypeOK
<1>. USE <1>0, TaskContainers DEF attachmentsStay
<1>a. ASSUME NEW cs, deleteRows(cs)
      PROVE  live' \subseteq live /\ linkedTo' \in [Attachments -> Containers \cup {None}]
  BY <1>a DEF deleteRows, TypeOK
<1>1. CASE CreateProject(id)
  <2>1. [idle EXCEPT !.step = "createProjectJournal"] \in Request
    BY DEF idle, Request, JournalRequest
  <2>2. requests' \in [RequestIds -> Request]
    BY <1>1, <2>1, GoOnType DEF CreateProject
  <2>. QED
    BY <1>1, <2>2 DEF CreateProject, TypeOK
<1>2. CASE WriteProjectJournal(id)
  <2>1. requests' \in [RequestIds -> Request]
    BY <1>2, GoOnType, IdleIsRequest DEF WriteProjectJournal, end
  <2>. QED
    BY <1>2, <2>1 DEF WriteProjectJournal, taskVars, TypeOK
<1>3. CASE DeleteProject(id)
  BY <1>3, <1>a DEF DeleteProject, deleteProjectRecord, TypeOK
<1>4. CASE WriteProjectJournalFails(id)
  <2>1. requests' \in [RequestIds -> Request]
    BY <1>4, GoOnType, IdleIsRequest DEF WriteProjectJournalFails, end
  <2>. QED
    BY <1>4, <1>a, <2>1
    DEF WriteProjectJournalFails, deleteProjectRecord, TypeOK
<1>5. ASSUME NEW nextTasks \in SUBSET ChartTasks, SaveChart(id, nextTasks)
      PROVE  TypeOK'
  <2>. DEFINE removed == chart \ nextTasks
              comments == commentsOf(removed) \cap live
  <2>1. removed \in SUBSET ChartTasks /\ comments \in SUBSET Comments
    BY DEF TypeOK, commentsOf
  <2>2. CASE goOnRemoving(id, comments, removed)
    <3>1. PICK n \in RemovalRequest : goOn(id, n)
      BY <2>1, <2>2, RemovalKinds
    <3>2. requests' \in [RequestIds -> Request]
      BY <3>1, GoOnType DEF Request
    <3>. QED
      BY <1>5, <3>2 DEF SaveChart, TypeOK
  <2>3. CASE UNCHANGED requests
    BY <1>5, <2>3 DEF SaveChart, TypeOK
  <2>. QED
    BY <1>5, <2>2, <2>3 DEF SaveChart
<1>6. ASSUME NEW c \in Comments, UnlinkRemovedBody(id, c)
      PROVE  TypeOK'
  <2>1. r \in RemovalRequest /\ r.step = "unlinkBodies"
    BY <1>6, RequestKinds DEF UnlinkRemovedBody
  <2>2. r.ids \ {c} \in SUBSET Comments /\ r.removed \in SUBSET ChartTasks
    BY <2>1 DEF RemovalRequest
  <2>3. CASE goOnRemoving(id, r.ids \ {c}, r.removed)
    <3>1. PICK n \in RemovalRequest : goOn(id, n)
      BY <2>2, <2>3, RemovalKinds
    <3>2. requests' \in [RequestIds -> Request]
      BY <3>1, GoOnType DEF Request
    <3>. QED
      BY <1>6, <3>2 DEF UnlinkRemovedBody, TypeOK
  <2>4. CASE end(id)
    <3>1. requests' \in [RequestIds -> Request]
      BY <2>4, GoOnType, IdleIsRequest DEF end
    <3>. QED
      BY <1>6, <3>1 DEF UnlinkRemovedBody, TypeOK
  <2>. QED
    BY <1>6, <2>3, <2>4 DEF UnlinkRemovedBody
<1>7. ASSUME NEW t \in ChartTasks, UnlinkRemovedJournal(id, t)
      PROVE  TypeOK'
  <2>1. r \in RemovalRequest /\ r.step = "unlinkJournals"
    BY <1>7, RequestKinds DEF UnlinkRemovedJournal
  <2>2. [r EXCEPT !.ids = @ \ {t}] \in Request
    BY <2>1 DEF RemovalRequest, Request
  <2>3. CASE sweepOrphans(id, linkedTo') /\ deleteRows(r.removed)
    <3>1. PICK n \in {idle} \cup SweepRequest : goOn(id, n)
      BY <2>3, SweepKinds
    <3>2. requests' \in [RequestIds -> Request]
      BY <3>1, GoOnType DEF Request
    <3>. QED
      BY <1>7, <1>a, <2>3, <3>2 DEF UnlinkRemovedJournal, TypeOK
  <2>4. CASE goOn(id, [r EXCEPT !.ids = @ \ {t}]) /\ UNCHANGED <<live, linkedTo>>
    <3>1. requests' \in [RequestIds -> Request]
      BY <2>2, <2>4, GoOnType
    <3>. QED
      BY <1>7, <2>4, <3>1 DEF UnlinkRemovedJournal, TypeOK
  <2>. QED
    BY <1>7, <2>3, <2>4 DEF UnlinkRemovedJournal
<1>. QED
  BY <1>1, <1>2, <1>3, <1>4, <1>5, <1>6, <1>7 DEF ChartHandlers

\* Attachments and journals of tasks.
LEMMA TaskHandlersTypeOK ==
    ASSUME TypeOK, NEW id \in RequestIds, TaskHandlers(id),
           overtaken' \subseteq ChartTasks
    PROVE  TypeOK'
<1>. DEFINE r == requests[id]
<1>0. r \in Request
  BY DEF TypeOK
<1>. USE <1>0, TaskContainers DEF attachmentsStay, taskVars
<1>1. ASSUME NEW t \in ChartTasks, UpdateTaskJournal(id, t)
      PROVE  TypeOK'
  <2>1. [idle EXCEPT !.step = "readJournal", !.on = t] \in Request
    BY DEF idle, Request, JournalRequest
  <2>2. requests' \in [RequestIds -> Request]
    BY <1>1, <2>1, GoOnType DEF UpdateTaskJournal
  <2>. QED
    BY <1>1, <2>2 DEF UpdateTaskJournal, TypeOK
<1>2. ASSUME NEW t \in ChartTasks, NEW a \in Attachments,
             UploadTaskAttachment(id, t, a)
      PROVE  TypeOK'
  <2>1. [idle EXCEPT !.step = "writeBlob", !.on = t, !.attachment = a] \in Request
    BY DEF idle, Request, UploadRequest
  <2>2. requests' \in [RequestIds -> Request] /\ used' \subseteq used \cup {a}
    BY <1>2, <2>1, GoOnType DEF UploadTaskAttachment, TypeOK
  <2>. QED
    BY <1>2, <2>2 DEF UploadTaskAttachment, TypeOK
<1>3. CASE MirrorForJournal(id)
  <2>1. r \in JournalRequest /\ r.step = "readJournal" /\ r.on \in ChartTasks
    BY <1>3, RequestKinds DEF MirrorForJournal
  <2>2. /\ [r EXCEPT !.step = "writeJournal"] \in Request
        /\ [r EXCEPT !.step = "writeFirstJournal"] \in Request
    BY <2>1 DEF Request, JournalRequest
  <2>3. requests' \in [RequestIds -> Request]
    BY <1>3, <2>2, GoOnType, IdleIsRequest DEF MirrorForJournal, end
  <2>. QED
    BY <1>3, <2>1, <2>3 DEF MirrorForJournal, TypeOK
<1>4. CASE WriteTaskJournal(id) \/ WriteTaskJournalFails(id)
  <2>1. r.on \in ChartTasks
    BY <1>4, RequestKinds DEF WriteTaskJournal, WriteTaskJournalFails
  <2>2. requests' \in [RequestIds -> Request]
    BY <1>4, GoOnType, IdleIsRequest DEF WriteTaskJournal, WriteTaskJournalFails, end
  <2>. QED
    BY <1>4, <2>1, <2>2
    DEF WriteTaskJournal, WriteTaskJournalFails, deleteRows, TypeOK
<1>5. CASE ReadOrUnlinkFails(id)
  <2>1. requests' \in [RequestIds -> Request]
    BY <1>5, GoOnType, IdleIsRequest DEF ReadOrUnlinkFails, end
  <2>. QED
    BY <1>5, <2>1 DEF ReadOrUnlinkFails, TypeOK
<1>. QED
  BY <1>1, <1>2, <1>3, <1>4, <1>5 DEF TaskHandlers

\* Comments and their attachments.
LEMMA TaskCommentHandlersTypeOK ==
    ASSUME TypeOK, NEW id \in RequestIds, TaskCommentHandlers(id),
           overtaken' \subseteq ChartTasks
    PROVE  TypeOK'
<1>. DEFINE r == requests[id]
<1>0. r \in Request
  BY DEF TypeOK
<1>. USE <1>0, TaskContainers, TaskForeignKeys DEF attachmentsStay, taskVars
<1>1. ASSUME NEW c \in Comments,
             CreateComment(id, c) \/ UpdateComment(id, c) \/ DeleteComment(id, c)
      PROVE  TypeOK'
  <2>1. /\ [idle EXCEPT !.step = "writeBody", !.on = c] \in Request
        /\ [idle EXCEPT !.step = "unlinkBody", !.on = c] \in Request
    BY DEF idle, Request, BodyRequest
  <2>2. requests' \in [RequestIds -> Request]
    BY <1>1, <2>1, GoOnType DEF CreateComment, UpdateComment, DeleteComment
  <2>. QED
    BY <1>1, <2>2
    DEF CreateComment, UpdateComment, DeleteComment, deleteRows, TypeOK
<1>2. ASSUME NEW c \in Comments, NEW a \in Attachments,
             UploadCommentAttachment(id, c, a)
      PROVE  TypeOK'
  <2>1. [idle EXCEPT !.step = "writeBlob", !.on = c, !.attachment = a] \in Request
    BY DEF idle, Request, UploadRequest
  <2>2. requests' \in [RequestIds -> Request]
    BY <1>2, <2>1, GoOnType DEF UploadCommentAttachment, BeginUpload
  <2>. QED
    BY <1>2, <2>2 DEF UploadCommentAttachment, BeginUpload, TypeOK
<1>3. ASSUME NEW a \in Attachments, DeleteTaskAttachment(id, a)
      PROVE  TypeOK'
  <2>1. PICK n \in {idle} \cup SweepRequest : goOn(id, n)
    BY <1>3, SweepKinds DEF DeleteTaskAttachment, DeleteAttachmentLink
  <2>2. requests' \in [RequestIds -> Request]
    BY <2>1, GoOnType DEF Request
  <2>. QED
    BY <1>3, <2>2 DEF DeleteTaskAttachment, DeleteAttachmentLink, TypeOK
<1>4. CASE WriteBody(id) \/ WriteBodyFails(id)
  <2>1. r.on \in Comments
    BY <1>4, RequestKinds DEF WriteBody, WriteBodyFails, BodyRequest
  <2>2. requests' \in [RequestIds -> Request]
    BY <1>4, GoOnType, IdleIsRequest DEF WriteBody, WriteBodyFails, end
  <2>. QED
    BY <1>4, <2>1, <2>2 DEF WriteBody, WriteBodyFails, TypeOK
<1>5. CASE UnlinkBody(id)
  <2>1. PICK n \in {idle} \cup SweepRequest : goOn(id, n)
    BY <1>5, SweepKinds DEF UnlinkBody
  <2>2. requests' \in [RequestIds -> Request]
    BY <2>1, GoOnType DEF Request
  <2>. QED
    BY <1>5, <2>2 DEF UnlinkBody, TypeOK
<1>. QED
  BY <1>1, <1>2, <1>3, <1>4, <1>5 DEF TaskCommentHandlers

\* Every step keeps the types, a crash included.
LEMMA NextTypeOK == TypeOK /\ [Next]_vars => TypeOK'
<1>. SUFFICES ASSUME TypeOK, [Next]_vars
              PROVE  TypeOK'
  OBVIOUS
<1>1. CASE UNCHANGED vars
  BY <1>1 DEF vars, attachmentVars, taskVars, TypeOK
<1>2. CASE Next
  <2>1. overtaken' \subseteq ChartTasks
    BY <1>2 DEF Next, recordOvertaken, TypeOK
  <2>2. CASE Crash /\ UNCHANGED taskVars
    <3>1. requests' \in [RequestIds -> Request]
      BY <2>2, IdleIsRequest DEF Crash
    <3>. QED
      BY <2>1, <2>2, <3>1 DEF Crash, taskVars, TypeOK
  <2>3. ASSUME NEW id \in RequestIds, AttachmentSteps(id), UNCHANGED taskVars
        PROVE  TypeOK'
    <3>1. PICK n \in {idle} \cup UploadRequest \cup SweepRequest : goOn(id, n)
      BY <2>3, TypesOfAttachments, AttachmentStepTypes DEF TypeOK
    <3>2. requests' \in [RequestIds -> Request]
      BY <3>1, GoOnType DEF Request
    <3>. QED
      BY <2>1, <2>3, <3>2, TypesOfAttachments, AttachmentStepTypes
      DEF TypeOK, taskVars
  <2>. QED
    BY <1>2, <2>1, <2>2, <2>3, ChartHandlersTypeOK, TaskHandlersTypeOK,
       TaskCommentHandlersTypeOK DEF Next
<1>. QED
  BY <1>1, <1>2

\* The tables, the files and the requests under way keep their types.
THEOREM TaskTypes == Spec => []TypeOK
BY InitTypeOK, NextTypeOK, PTL DEF Spec

-----------------------------------------------------------------------------
(***************************************************************************)
(* Attachments: what Attachments keeps, the requests on tasks keep too     *)
(***************************************************************************)
\* A free slot that stays free went on to be idle.
LEMMA StaysFree ==
    ASSUME TypeOK, NEW id \in RequestIds, isFree(id), UNCHANGED requests
    PROVE  end(id)
BY DEF TypeOK, isFree, end, goOn

\* The requests on tasks have no attachment in hand.
LEMMA OthersHoldNothing ==
    ASSUME NEW n \in {idle} \cup RemovalRequest \cup JournalRequest \cup BodyRequest
    PROVE  heldBy(n) = {} /\ n.step \notin uploadSteps
BY TaskIdsDoNotMix, TaskContainers, NoneIsNothing
DEF heldBy, uploadSteps, idle, RemovalRequest, JournalRequest, BodyRequest

LEMMA RowsTakeTheirLinks ==
    ASSUME TypeOK, AttachmentInv, NEW cs, deleteRows(cs)
    PROVE  linksOnlyGo
BY DEF deleteRows, linksOnlyGo, TypeOK, AttachmentInv, LinkedAttachmentsAreStored

\* A request on tasks that goes on as one, and takes links only with rows.
LEMMA TaskStep ==
    ASSUME TypeOK, AttachmentInv, NEW id \in RequestIds,
           NEW n \in {idle} \cup RemovalRequest \cup JournalRequest \cup BodyRequest,
           goOn(id, n), linksOnlyGo, used \subseteq used',
           UNCHANGED <<attachments, blobs>>
    PROVE  AttachmentInv'
BY TypesOfAttachments, OthersHoldNothing, QuietStep

LEMMA ChartHandlersKeepAttachments ==
    ASSUME TypeOK, AttachmentInv, NEW id \in RequestIds, ChartHandlers(id)
    PROVE  AttachmentInv'
<1>. DEFINE r == requests[id]
<1>. r \in Request /\ AttachmentTypes
  BY TypesOfAttachments DEF TypeOK
<1>. USE DEF attachmentsStay, taskVars
<1>1. CASE CreateProject(id)
  <2>1. [idle EXCEPT !.step = "createProjectJournal"] \in JournalRequest
    BY DEF idle, JournalRequest
  <2>. QED
    BY <1>1, <2>1, TaskStep, LinksStay DEF CreateProject
<1>2. CASE WriteProjectJournal(id)
  BY <1>2, TaskStep, LinksStay DEF WriteProjectJournal, end
<1>3. CASE DeleteProject(id)
  BY <1>3, TaskStep, StaysFree, RowsTakeTheirLinks
  DEF DeleteProject, deleteProjectRecord, end
<1>4. CASE WriteProjectJournalFails(id)
  BY <1>4, TaskStep, RowsTakeTheirLinks
  DEF WriteProjectJournalFails, deleteProjectRecord, end
<1>5. ASSUME NEW nextTasks \in SUBSET ChartTasks, SaveChart(id, nextTasks)
      PROVE  AttachmentInv'
  <2>. DEFINE removed == chart \ nextTasks
              comments == commentsOf(removed) \cap live
  <2>1. removed \in SUBSET ChartTasks /\ comments \in SUBSET Comments
    BY DEF TypeOK, commentsOf
  <2>2. linksOnlyGo
    BY <1>5, LinksStay DEF SaveChart
  <2>3. PICK n \in {idle} \cup RemovalRequest : goOn(id, n)
    BY <1>5, <2>1, RemovalKinds, StaysFree DEF SaveChart, end
  <2>. QED
    BY <1>5, <2>2, <2>3, TaskStep DEF SaveChart
<1>6. ASSUME NEW c \in Comments, UnlinkRemovedBody(id, c)
      PROVE  AttachmentInv'
  <2>1. r \in RemovalRequest
    BY <1>6, RequestKinds DEF UnlinkRemovedBody
  <2>2. r.ids \ {c} \in SUBSET Comments /\ r.removed \in SUBSET ChartTasks
    BY <1>6, <2>1 DEF RemovalRequest, UnlinkRemovedBody
  <2>3. PICK n \in {idle} \cup RemovalRequest : goOn(id, n)
    BY <1>6, <2>2, RemovalKinds DEF UnlinkRemovedBody, end
  <2>. QED
    BY <1>6, <2>3, TaskStep, LinksStay DEF UnlinkRemovedBody
<1>7. ASSUME NEW t \in ChartTasks, UnlinkRemovedJournal(id, t)
      PROVE  AttachmentInv'
  <2>1. r \in RemovalRequest
    BY <1>7, RequestKinds DEF UnlinkRemovedJournal
  <2>2. CASE deleteRows(r.removed) /\ sweepOrphans(id, linkedTo')
    <3>1. linkedTo' \in [Attachments -> Containers \cup {None}]
      BY <2>2 DEF deleteRows, TypeOK
    <3>. QED
      BY <1>7, <2>2, <3>1, SweepStep, RowsTakeTheirLinks DEF UnlinkRemovedJournal
  <2>3. CASE goOn(id, [r EXCEPT !.ids = @ \ {t}]) /\ UNCHANGED <<live, linkedTo>>
    <3>1. [r EXCEPT !.ids = @ \ {t}] \in RemovalRequest
      BY <1>7, <2>1 DEF RemovalRequest, UnlinkRemovedJournal
    <3>. QED
      BY <1>7, <2>3, <3>1, TaskStep, LinksStay DEF UnlinkRemovedJournal
  <2>. QED
    BY <1>7, <2>2, <2>3 DEF UnlinkRemovedJournal
<1>. QED
  BY <1>1, <1>2, <1>3, <1>4, <1>5, <1>6, <1>7 DEF ChartHandlers

LEMMA TaskHandlersKeepAttachments ==
    ASSUME TypeOK, AttachmentInv, NEW id \in RequestIds, TaskHandlers(id)
    PROVE  AttachmentInv'
<1>. DEFINE r == requests[id]
<1>. r \in Request /\ AttachmentTypes
  BY TypesOfAttachments DEF TypeOK
<1>. USE DEF attachmentsStay, taskVars
<1>1. ASSUME NEW t \in ChartTasks, UpdateTaskJournal(id, t)
      PROVE  AttachmentInv'
  <2>1. [idle EXCEPT !.step = "readJournal", !.on = t] \in JournalRequest
    BY DEF idle, JournalRequest
  <2>. QED
    BY <1>1, <2>1, TaskStep, LinksStay DEF UpdateTaskJournal
<1>2. ASSUME NEW t \in ChartTasks, NEW a \in Attachments,
             UploadTaskAttachment(id, t, a)
      PROVE  AttachmentInv'
  <2>1. CASE assertWithinAttachmentLimit(t)
    BY <1>2, <2>1, FreshUpload, TaskContainers DEF UploadTaskAttachment
  <2>2. CASE ~ assertWithinAttachmentLimit(t)
    BY <1>2, <2>2, TaskStep, StaysFree, LinksStay DEF UploadTaskAttachment, end
  <2>. QED
    BY <2>1, <2>2
<1>3. CASE MirrorForJournal(id)
  <2>1. r \in JournalRequest /\ r.on \in ChartTasks
    BY <1>3, RequestKinds DEF MirrorForJournal
  <2>2. /\ [r EXCEPT !.step = "writeJournal"] \in JournalRequest
        /\ [r EXCEPT !.step = "writeFirstJournal"] \in JournalRequest
    BY <1>3, <2>1 DEF JournalRequest, MirrorForJournal
  <2>3. PICK n \in {idle} \cup JournalRequest : goOn(id, n)
    BY <1>3, <2>2 DEF MirrorForJournal, end
  <2>4. linksOnlyGo
    BY <1>3, LinksStay DEF MirrorForJournal
  <2>. QED
    BY <1>3, <2>3, <2>4, TaskStep DEF MirrorForJournal
<1>4. CASE WriteTaskJournal(id) \/ ReadOrUnlinkFails(id)
  BY <1>4, TaskStep, LinksStay DEF WriteTaskJournal, ReadOrUnlinkFails, end
<1>5. CASE WriteTaskJournalFails(id)
  <2>1. linksOnlyGo
    BY <1>5, LinksStay, RowsTakeTheirLinks DEF WriteTaskJournalFails
  <2>. QED
    BY <1>5, <2>1, TaskStep DEF WriteTaskJournalFails, end
<1>. QED
  BY <1>1, <1>2, <1>3, <1>4, <1>5 DEF TaskHandlers

LEMMA TaskCommentHandlersKeepAttachments ==
    ASSUME TypeOK, AttachmentInv, NEW id \in RequestIds, TaskCommentHandlers(id)
    PROVE  AttachmentInv'
<1>. AttachmentTypes
  BY TypesOfAttachments
<1>. USE DEF attachmentsStay, taskVars
<1>1. ASSUME NEW c \in Comments,
             CreateComment(id, c) \/ UpdateComment(id, c) \/ DeleteComment(id, c)
      PROVE  AttachmentInv'
  <2>1. /\ [idle EXCEPT !.step = "writeBody", !.on = c] \in BodyRequest
        /\ [idle EXCEPT !.step = "unlinkBody", !.on = c] \in BodyRequest
    BY DEF idle, BodyRequest
  <2>2. linksOnlyGo
    BY <1>1, LinksStay, RowsTakeTheirLinks
    DEF CreateComment, UpdateComment, DeleteComment
  <2>. QED
    BY <1>1, <2>1, <2>2, TaskStep DEF CreateComment, UpdateComment, DeleteComment
<1>2. ASSUME NEW a \in Attachments,
             \/ \E c \in Comments : UploadCommentAttachment(id, c, a)
             \/ DeleteTaskAttachment(id, a)
      PROVE  AttachmentInv'
  <2>1. AttachmentHandlers
    BY <1>2, TaskContainers
    DEF UploadCommentAttachment, DeleteTaskAttachment, AttachmentHandlers
  <2>. QED
    BY <2>1, AttachmentHandlersInv
<1>3. CASE WriteBody(id) \/ WriteBodyFails(id)
  BY <1>3, TaskStep, LinksStay DEF WriteBody, WriteBodyFails, end
<1>4. CASE UnlinkBody(id)
  BY <1>4, SweepStep, LinksStay DEF UnlinkBody, TypeOK
<1>. QED
  BY <1>1, <1>2, <1>3, <1>4 DEF TaskCommentHandlers

LEMMA NextAttachmentInv ==
    TypeOK /\ AttachmentInv /\ [Next]_vars => AttachmentInv'
<1>. SUFFICES ASSUME TypeOK, AttachmentInv, [Next]_vars
              PROVE  AttachmentInv'
  OBVIOUS
<1>1. ASSUME NEW id \in RequestIds, AttachmentSteps(id)
      PROVE  AttachmentInv'
  <2>1. AttachmentHandlers
    BY <1>1 DEF AttachmentHandlers
  <2>. QED
    BY <2>1, TypesOfAttachments, AttachmentHandlersInv
<1>. QED
  BY <1>1, CrashKeepsAttachments, AttachmentsStay, ChartHandlersKeepAttachments,
     TaskHandlersKeepAttachments, TaskCommentHandlersKeepAttachments DEF Next, vars

-----------------------------------------------------------------------------
(***************************************************************************)
(* Steps of one request, by what they do to rows, files and the chart      *)
(***************************************************************************)
removingSteps == {"unlinkBodies", "unlinkJournals"}

writingSteps == {"writeJournal", "writeFirstJournal", "writeBody"}

\* Only the request id moved, to n.
onlyMoves(id, n) ==
    \A x \in RequestIds : requests'[x] = IF x = id THEN n ELSE requests[x]

LEMMA OneMoves ==
    ASSUME TypeOK, NEW id \in RequestIds, NEW n, goOn(id, n)
    PROVE  onlyMoves(id, n)
BY DEF TypeOK, goOn, onlyMoves

\* What a request works on.
LEMMA WorksOn ==
    ASSUME NEW r
    PROVE  /\ r.step \notin removingSteps => removedBy(r) = {}
           /\ r.step \in removingSteps => removedBy(r) = r.removed
           /\ removedBy(r) \subseteq tasksOf(r)
           /\ r.on \in ChartTasks => r.on \in tasksOf(r)
           /\ r.on \in Comments => TaskOf[r.on] \in tasksOf(r)
           /\ r.on = None => tasksOf(r) = removedBy(r)
           /\ \A t \in tasksOf(r) :
                 \/ t \in removedBy(r) \/ r.on = t
                 \/ r.on \in Comments /\ TaskOf[r.on] = t
BY NoneIsNothing, TaskContainers, TaskForeignKeys
DEF removedBy, tasksOf, commentsOf, removingSteps

LEMMA WorksOnComment ==
    ASSUME NEW r, NEW c \in Comments, r.on = c, r.step \notin removingSteps
    PROVE  tasksOf(r) \subseteq {TaskOf[c]}
<1>1. removedBy(r) = {} /\ r.on \notin ChartTasks
  BY WorksOn, TaskContainers
<1>. QED
  BY <1>1 DEF tasksOf, commentsOf

LEMMA WorksOnNoMore ==
    ASSUME NEW r, NEW n, n.step \notin removingSteps, n.on = None \/ n.on = r.on
    PROVE  tasksOf(n) \subseteq tasksOf(r)
<1>1. removedBy(n) = {}
  BY WorksOn
<1>2. CASE n.on = None
  BY <1>1, <1>2, WorksOn
<1>3. CASE n.on = r.on
  BY <1>1, <1>3 DEF tasksOf
<1>. QED
  BY <1>2, <1>3

LEMMA TasksAreTasks ==
    ASSUME NEW r \in Request
    PROVE  removedBy(r) \subseteq ChartTasks /\ tasksOf(r) \subseteq ChartTasks
<1>1. removedBy(r) \subseteq ChartTasks
  BY RequestKinds DEF removedBy, RemovalRequest
<1>. QED
  BY <1>1 DEF tasksOf

\* What the history records of a step.
LEMMA Recorded ==
    ASSUME TypeOK, TypeOK', recordOvertaken
    PROVE  /\ overtaken \subseteq overtaken'
           /\ OneAtATime'
           /\ \A i \in RequestIds :
                 removedBy(requests'[i]) \cap (chart' \ chart) \subseteq overtaken'
           /\ \A i, j \in RequestIds :
                 i # j /\ requests'[i].step = "unlinkBody"
                       /\ requests'[j].on = requests'[i].on
                   => TaskOf[requests'[i].on] \in overtaken'
<1>0. \A i \in RequestIds : requests'[i] \in Request
  BY DEF TypeOK
<1>1. \A i \in RequestIds : /\ removedBy(requests'[i]) \subseteq ChartTasks
                            /\ tasksOf(requests'[i]) \subseteq ChartTasks
  BY <1>0, TasksAreTasks
<1>2. OneAtATime'
  <2>. SUFFICES ASSUME NEW i \in RequestIds, NEW j \in RequestIds \ {i},
                       NEW t \in removedBy(requests'[i]),
                       t \in tasksOf(requests'[j])
                PROVE  t \in overtaken'
    BY DEF OneAtATime
  <2>. QED
    BY <1>1 DEF recordOvertaken
<1>3. ASSUME NEW i \in RequestIds, NEW t \in removedBy(requests'[i]),
             t \in chart' \ chart
      PROVE  t \in overtaken'
  BY <1>1, <1>3 DEF recordOvertaken
<1>4. ASSUME NEW i \in RequestIds, NEW j \in RequestIds, i # j,
             requests'[i].step = "unlinkBody", requests'[j].on = requests'[i].on
      PROVE  TaskOf[requests'[i].on] \in overtaken'
  <2>1. requests'[i].on \in Comments
    BY <1>0, <1>4, RequestKinds DEF BodyRequest
  <2>. QED
    BY <1>4, <2>1, TaskForeignKeys DEF recordOvertaken
<1>. QED
  BY <1>2, <1>3, <1>4 DEF recordOvertaken

\* A step that stores no file, removes no row and no task, and goes on with
\* tasks of the chart or those that it had.
LEMMA CalmStep ==
    ASSUME TypeOK, TypeOK', TaskInv, recordOvertaken,
           NEW id \in RequestIds, NEW n, onlyMoves(id, n),
           requests[id].step \notin {"writeBody", "unlinkBody"} \cup removingSteps,
           n.step \notin {"unlinkBody"} \cup removingSteps,
           n.step \in writingSteps => n.on \in live',
           tasksOf(n) \subseteq chart \cup tasksOf(requests[id]),
           live \subseteq live',
           live' \cap ChartTasks \subseteq live \cup chart \cup overtaken,
           \A c \in Comments \cap (live' \ live) :
              c \notin used /\ waitsFor(c, n) /\ TaskOf[c] \in live',
           live' \cap Comments \subseteq used', used \subseteq used',
           project # "present" => live' = live,
           project = "absent" => n.step \in {"idle"} \cup sweepingSteps,
           failed => failed',
           UNCHANGED <<project, chart, journals, bodies>>
    PROVE  TaskInv'
<1>. USE DEF TaskInv, onlyMoves
<1>a. removedBy(requests[id]) = {} /\ removedBy(n) = {}
  BY WorksOn
<1>b. \A x \in RequestIds : removedBy(requests'[x]) = removedBy(requests[x])
  BY <1>a
<1>c. overtaken \subseteq overtaken' /\ OneAtATime'
  BY Recorded
<1>1. RowsInv'
  BY DEF RowsInv
<1>2. UnlinksInv'
  <2>. SUFFICES ASSUME NEW x \in RequestIds
                PROVE  LET q == requests'[x] IN
                       /\ q.step = "unlinkBodies" => q.ids \subseteq commentsOf(q.removed)
                       /\ q.step = "unlinkJournals" => q.ids \subseteq q.removed
                       /\ q.step = "unlinkBody" => q.on \in used' \ live'
    BY DEF UnlinksInv, commentsOf
  <2>1. CASE x = id
    BY <2>1 DEF removingSteps
  <2>2. CASE x # id
    <3>1. requests'[x] = requests[x] /\ requests[x] \in Request
      BY <2>2 DEF TypeOK
    <3>2. requests[x].step = "unlinkBody" => requests[x].on \in Comments
      BY <3>1, RequestKinds DEF BodyRequest
    <3>. QED
      BY <3>1, <3>2 DEF UnlinksInv
  <2>. QED
    BY <2>1, <2>2
<1>3. BodiesInv'
  <2>. SUFFICES ASSUME ~ failed, NEW c \in Comments \cap live', c \notin bodies
                PROVE  \E x \in RequestIds : waitsFor(c, requests'[x])
    BY DEF BodiesInv, waitsFor
  <2>1. CASE c \notin live
    BY <2>1
  <2>2. CASE c \in live
    <3>1. PICK x \in RequestIds : waitsFor(c, requests[x])
      BY <2>2 DEF BodiesInv
    <3>2. x # id
      BY <1>a, <3>1 DEF waitsFor
    <3>. QED
      BY <3>1, <3>2
  <2>. QED
    BY <2>1, <2>2
<1>4. AbsentInv'
  BY DEF AbsentInv
<1>5. PutBackInv'
  BY <1>b, <1>c DEF PutBackInv
<1>6. RequestsAreOnChart'
  BY <1>a, <1>b, <1>c DEF RequestsAreOnChart
<1>7. StoredInv'
  <2>. SUFFICES ASSUME project = "present", ~ failed
                PROVE  StoredInv'
    BY DEF StoredInv
  <2>1. \A x \in RequestIds : LET q == requests'[x] IN
           /\ q.step \in {"writeJournal", "writeFirstJournal"} =>
                 q.on \in live' \cup overtaken'
           /\ q.step = "writeBody" =>
                 q.on \in live' \/ TaskOf[q.on] \in overtaken'
    BY <1>c DEF StoredInv, writingSteps
  <2>2. \A t \in ChartTasks \cap live' :
           \/ t \in chart' \cup overtaken'
           \/ \E x \in RequestIds : t \in removedBy(requests'[x])
    BY <1>b, <1>c DEF StoredInv
  <2>3. \A c \in bodies' :
           \/ c \in live' \/ TaskOf[c] \in overtaken'
           \/ \E x \in RequestIds :
                 requests'[x].step = "unlinkBody" /\ requests'[x].on = c
    BY <1>c DEF StoredInv
  <2>. QED
    BY <1>c, <2>1, <2>2, <2>3 DEF StoredInv
<1>8. RemovalsInv'
  BY <1>c DEF RemovalsInv, removingSteps, commentsOf
<1>. QED
  BY <1>c, <1>1, <1>2, <1>3, <1>4, <1>5, <1>6, <1>7, <1>8

-----------------------------------------------------------------------------
(***************************************************************************)
(* Steps that fail or take the project away: what is left is consistent    *)
(***************************************************************************)
\* A request that fails, or all that are lost with the server.
LEMMA FailingStep ==
    ASSUME TypeOK, TypeOK', TaskInv, recordOvertaken, failed',
           \A x \in RequestIds : requests'[x] = idle \/ requests'[x] = requests[x],
           live' \subseteq live, used' = used,
           \A c \in Comments \cap live' : TaskOf[c] \in live',
           \/ UNCHANGED <<project, chart>>
           \/ project' = "deleted" /\ chart' = {} /\ live' = {},
           project = "absent" => UNCHANGED <<journals, bodies>>
    PROVE  TaskInv'
<1>. USE DEF TaskInv
<1>a. overtaken \subseteq overtaken' /\ OneAtATime'
  BY Recorded
<1>b. /\ removedBy(idle) = {} /\ tasksOf(idle) = {}
      /\ idle.step = "idle"
  BY IdleIsRequest, WorksOn DEF removingSteps
<1>1. RowsInv'
  BY DEF RowsInv
<1>2. UnlinksInv'
  BY <1>b DEF UnlinksInv, commentsOf
<1>3. AbsentInv'
  BY <1>b DEF AbsentInv
<1>4. PutBackInv'
  BY <1>a, <1>b DEF PutBackInv
<1>5. RequestsAreOnChart'
  BY <1>a, <1>b DEF RequestsAreOnChart
<1>. QED
  BY <1>a, <1>1, <1>2, <1>3, <1>4, <1>5 DEF BodiesInv, StoredInv, RemovalsInv

\* With all tasks go all rows.
LEMMA ProjectTakesAll ==
    ASSUME TypeOK, deleteProjectRecord
    PROVE  live' = {} /\ chart' = {} /\ project' = "deleted"
BY TaskContainers, TaskForeignKeys
DEF deleteProjectRecord, deleteRows, commentsOf, TypeOK

LEMMA DeleteProjectInv ==
    ASSUME TypeOK, TypeOK', TaskInv, recordOvertaken,
           NEW id \in RequestIds, DeleteProject(id)
    PROVE  TaskInv'
<1>. USE DEF TaskInv
<1>a. OneAtATime'
  BY Recorded
<1>b. /\ live' = {} /\ chart' = {} /\ project' = "deleted"
      /\ UNCHANGED <<requests, used>>
  BY ProjectTakesAll DEF DeleteProject
<1>1. RowsInv'
  BY <1>b DEF RowsInv
<1>2. UnlinksInv'
  BY <1>b DEF UnlinksInv, commentsOf
<1>3. BodiesInv' /\ AbsentInv' /\ PutBackInv'
  BY <1>b DEF BodiesInv, AbsentInv, PutBackInv
<1>4. RequestsAreOnChart' /\ StoredInv' /\ RemovalsInv'
  BY <1>b DEF RequestsAreOnChart, StoredInv, RemovalsInv
<1>. QED
  BY <1>a, <1>1, <1>2, <1>3, <1>4

LEMMA CreateProjectInv ==
    ASSUME TypeOK, TypeOK', TaskInv, recordOvertaken,
           NEW id \in RequestIds, CreateProject(id)
    PROVE  TaskInv'
<1>. USE DEF TaskInv
<1>. DEFINE n == [idle EXCEPT !.step = "createProjectJournal"]
<1>a. OneAtATime'
  BY Recorded
<1>b. /\ onlyMoves(id, n) /\ n.on = None /\ n.step = "createProjectJournal"
  BY OneMoves DEF CreateProject, idle
<1>. HIDE DEF n
<1>c. /\ live' = {} /\ journals' = {} /\ bodies' = {} /\ project' = "present"
      /\ used' = used /\ failed' = failed
  BY DEF CreateProject, RowsInv, AbsentInv
<1>d. ASSUME NEW x \in RequestIds
      PROVE  /\ requests'[x].step \in {"idle", "createProjectJournal"}
                                        \cup sweepingSteps
             /\ requests'[x].on = None
  <2>1. CASE x = id
    BY <1>b, <2>1 DEF onlyMoves
  <2>2. CASE x # id
    <3>1. requests'[x] = requests[x] /\ requests[x] \in Request
      BY <1>b, <2>2 DEF onlyMoves, TypeOK
    <3>2. requests[x].step \in {"idle"} \cup sweepingSteps
      BY DEF AbsentInv, CreateProject
    <3>3. requests[x].on = None
      BY <3>1, <3>2, NoneIsNothing, TaskContainers
      DEF Request, idle, UploadRequest, SweepRequest, RemovalRequest,
          JournalRequest, BodyRequest, sweepingSteps
    <3>. QED
      BY <3>1, <3>2, <3>3
  <2>. QED
    BY <2>1, <2>2
<1>e. \A x \in RequestIds : removedBy(requests'[x]) = {} /\ tasksOf(requests'[x]) = {}
  BY <1>d, WorksOn DEF removingSteps, sweepingSteps
<1>1. RowsInv' /\ BodiesInv' /\ AbsentInv'
  BY <1>c DEF RowsInv, BodiesInv, AbsentInv
<1>2. UnlinksInv'
  BY <1>d DEF UnlinksInv, commentsOf, sweepingSteps
<1>3. PutBackInv' /\ RequestsAreOnChart'
  BY <1>e DEF PutBackInv, RequestsAreOnChart
<1>4. StoredInv' /\ RemovalsInv'
  BY <1>c, <1>d DEF StoredInv, RemovalsInv, sweepingSteps
<1>. QED
  BY <1>a, <1>1, <1>2, <1>3, <1>4

-----------------------------------------------------------------------------
(***************************************************************************)
(* Saves of the chart, and the removals they begin                         *)
(***************************************************************************)
\* A save that removes no task.
LEMMA SaveOfMoreInv ==
    ASSUME TypeOK, TypeOK', TaskInv, recordOvertaken,
           chart \subseteq chart', project = "present",
           UNCHANGED <<requests, live, used, failed, project, journals, bodies>>
    PROVE  TaskInv'
<1>. USE DEF TaskInv
<1>a. /\ overtaken \subseteq overtaken' /\ OneAtATime'
      /\ \A x \in RequestIds :
            removedBy(requests[x]) \cap (chart' \ chart) \subseteq overtaken'
  BY Recorded
<1>1. RowsInv' /\ BodiesInv' /\ AbsentInv'
  BY DEF RowsInv, BodiesInv, AbsentInv
<1>2. UnlinksInv'
  BY DEF UnlinksInv, commentsOf
<1>3. PutBackInv'
  BY <1>a DEF PutBackInv
<1>4. RequestsAreOnChart'
  BY <1>a DEF RequestsAreOnChart
<1>5. StoredInv'
  BY <1>a DEF StoredInv
<1>6. RemovalsInv'
  BY <1>a DEF RemovalsInv, commentsOf
<1>. QED
  BY <1>a, <1>1, <1>2, <1>3, <1>4, <1>5, <1>6

\* A save that removes tasks, and goes on to unlink what was kept about them.
LEMMA SaveOfLessInv ==
    ASSUME TypeOK, TypeOK', TaskInv, recordOvertaken, NEW id \in RequestIds,
           isFree(id), project = "present",
           NEW removed, removed = chart \ chart', removed # {},
           goOnRemoving(id, commentsOf(removed) \cap live, removed),
           UNCHANGED <<live, used, failed, project, journals, bodies>>
    PROVE  TaskInv'
<1>. USE DEF TaskInv
<1>. DEFINE comments == commentsOf(removed) \cap live
<1>0. /\ removed \in SUBSET ChartTasks
      /\ comments \in SUBSET Comments
  BY DEF TypeOK, commentsOf
<1>1. PICK n \in RemovalRequest :
         /\ goOn(id, n) /\ n.removed = removed
         /\ \/ n.step = "unlinkBodies" /\ n.ids = comments
            \/ n.step = "unlinkJournals" /\ n.ids = removed /\ comments = {}
  BY <1>0, RemovalKinds
<1>2. /\ \A x \in RequestIds \ {id} : requests'[x] = requests[x]
      /\ requests'[id] = n /\ requests[id] = idle
  BY <1>1, OneMoves DEF onlyMoves, isFree
<1>3. /\ removedBy(n) = removed /\ tasksOf(n) = removed
      /\ removedBy(idle) = {} /\ idle.step = "idle"
  <2>1. n.on = None
    BY DEF RemovalRequest
  <2>. QED
    BY <1>1, <2>1, IdleIsRequest, WorksOn DEF removingSteps
<1>a. /\ overtaken \subseteq overtaken' /\ OneAtATime'
      /\ \A x \in RequestIds :
            removedBy(requests'[x]) \cap (chart' \ chart) \subseteq overtaken'
  BY Recorded
<1>b. \A x \in RequestIds \ {id} :
         removed \cap tasksOf(requests[x]) \subseteq overtaken'
  BY <1>a, <1>2, <1>3 DEF OneAtATime
<1>4. RowsInv' /\ AbsentInv'
  BY DEF RowsInv, AbsentInv
<1>5. UnlinksInv'
  BY <1>1, <1>2 DEF UnlinksInv, commentsOf
<1>6. BodiesInv'
  <2>. SUFFICES ASSUME ~ failed, NEW c \in Comments \cap live, c \notin bodies
                PROVE  \E x \in RequestIds : waitsFor(c, requests'[x])
    BY DEF BodiesInv, waitsFor
  <2>1. PICK x \in RequestIds : waitsFor(c, requests[x])
    BY DEF BodiesInv
  <2>2. x # id
    BY <1>2, <1>3, <2>1 DEF waitsFor
  <2>. QED
    BY <1>2, <2>1, <2>2
<1>7. PutBackInv'
  BY <1>0, <1>2, <1>3, <1>a DEF PutBackInv
<1>8. RequestsAreOnChart'
  <2>. SUFFICES ASSUME NEW x \in RequestIds, NEW t \in tasksOf(requests'[x])
                PROVE  t \in chart' \cup overtaken' \cup removedBy(requests'[x])
    BY DEF RequestsAreOnChart
  <2>1. CASE x = id
    BY <1>2, <1>3, <2>1
  <2>2. CASE x # id
    BY <1>2, <1>a, <1>b, <2>2 DEF RequestsAreOnChart
  <2>. QED
    BY <2>1, <2>2
<1>9. StoredInv'
  <2>. SUFFICES ASSUME ~ failed
                PROVE  StoredInv'
    BY DEF StoredInv
  <2>1. \A x \in RequestIds : LET q == requests'[x] IN
           /\ q.step \in {"writeJournal", "writeFirstJournal"} =>
                 q.on \in live' \cup overtaken'
           /\ q.step = "writeBody" =>
                 q.on \in live' \/ TaskOf[q.on] \in overtaken'
    BY <1>1, <1>2, <1>a DEF StoredInv
  <2>2. ASSUME NEW t \in ChartTasks \cap live
        PROVE  \/ t \in chart' \cup overtaken'
               \/ \E x \in RequestIds : t \in removedBy(requests'[x])
    <3>1. CASE t \in chart
      BY <1>2, <1>3, <3>1
    <3>2. CASE t \in overtaken
      BY <1>a, <3>2
    <3>3. CASE \E x \in RequestIds : t \in removedBy(requests[x])
      BY <1>2, <1>3, <3>3
    <3>. QED
      BY <3>1, <3>2, <3>3 DEF StoredInv
  <2>3. \A c \in bodies :
           \/ c \in live \/ TaskOf[c] \in overtaken'
           \/ \E x \in RequestIds :
                 requests'[x].step = "unlinkBody" /\ requests'[x].on = c
    BY <1>2, <1>3, <1>a DEF StoredInv
  <2>. QED
    BY <1>a, <2>1, <2>2, <2>3 DEF StoredInv
<1>10. RemovalsInv'
  <2>. SUFFICES ASSUME ~ failed
                PROVE  RemovalsInv'
    BY DEF RemovalsInv
  <2>1. ASSUME NEW c \in commentsOf(removed) \cap bodies, c \notin live
        PROVE  TaskOf[c] \in overtaken'
    <3>1. CASE TaskOf[c] \in overtaken
      BY <1>a, <3>1
    <3>2. CASE \E x \in RequestIds :
                  requests[x].step = "unlinkBody" /\ requests[x].on = c
      BY <1>2, <1>3, <1>b, <2>1, <3>2, WorksOn DEF commentsOf
    <3>. QED
      BY <2>1, <3>1, <3>2 DEF StoredInv
  <2>. SUFFICES ASSUME NEW x \in RequestIds
                PROVE  LET r == requests'[x] IN
                       /\ r.step = "unlinkBodies" =>
                             \A c \in commentsOf(r.removed) \cap bodies :
                                 c \in r.ids \/ TaskOf[c] \in overtaken'
                       /\ r.step = "unlinkJournals" =>
                             /\ \A c \in commentsOf(r.removed) \cap bodies :
                                   TaskOf[c] \in overtaken'
                             /\ r.removed \cap journals \subseteq
                                   r.ids \cup overtaken'
    BY DEF RemovalsInv, commentsOf
  <2>2. CASE x = id
    BY <1>1, <1>2, <2>1, <2>2
  <2>3. CASE x # id
    BY <1>2, <1>a, <2>3 DEF RemovalsInv
  <2>. QED
    BY <2>2, <2>3
<1>. QED
  BY <1>4, <1>5, <1>6, <1>7, <1>8, <1>9, <1>10, <1>a

LEMMA SaveChartInv ==
    ASSUME TypeOK, TypeOK', TaskInv, recordOvertaken, NEW id \in RequestIds,
           NEW nextTasks \in SUBSET ChartTasks, SaveChart(id, nextTasks)
    PROVE  TaskInv'
<1>1. CASE chart \ nextTasks = {}
  BY <1>1, SaveOfMoreInv DEF SaveChart, attachmentsStay
<1>2. CASE chart \ nextTasks # {}
  <2>. DEFINE removed == chart \ nextTasks
  <2>1. /\ removed = chart \ chart' /\ removed # {}
        /\ goOnRemoving(id, commentsOf(removed) \cap live, removed)
        /\ isFree(id) /\ project = "present"
        /\ UNCHANGED <<live, used, failed, project, journals, bodies>>
    BY <1>2 DEF SaveChart
  <2>. HIDE DEF removed
  <2>. QED
    BY <2>1, SaveOfLessInv
<1>. QED
  BY <1>1, <1>2

-----------------------------------------------------------------------------
(***************************************************************************)
(* Removals under way                                                      *)
(***************************************************************************)
LEMMA UnlinkRemovedBodyInv ==
    ASSUME TypeOK, TypeOK', TaskInv, recordOvertaken, NEW id \in RequestIds,
           NEW c \in Comments, UnlinkRemovedBody(id, c)
    PROVE  TaskInv'
<1>. USE DEF TaskInv
<1>. DEFINE r == requests[id]
<1>0. /\ r \in RemovalRequest /\ r.step = "unlinkBodies"
      /\ UNCHANGED <<live, used, failed, project, chart, journals>>
      /\ bodies' = bodies \ {c}
  BY RequestKinds DEF UnlinkRemovedBody, TypeOK
<1>1. /\ r.ids \ {c} \in SUBSET Comments /\ r.removed \in SUBSET ChartTasks
      /\ removedBy(r) = r.removed
  BY <1>0, WorksOn DEF RemovalRequest, removingSteps
<1>a. overtaken \subseteq overtaken' /\ OneAtATime'
  BY Recorded
<1>b. RowsInv'
  BY <1>0 DEF RowsInv
<1>2. ASSUME project = "present", goOnRemoving(id, r.ids \ {c}, r.removed)
      PROVE  TaskInv'
  <2>1. PICK n \in RemovalRequest :
           /\ goOn(id, n) /\ n.removed = r.removed
           /\ \/ n.step = "unlinkBodies" /\ n.ids = r.ids \ {c}
              \/ n.step = "unlinkJournals" /\ n.ids = r.removed /\ r.ids \ {c} = {}
    BY <1>1, <1>2, RemovalKinds
  <2>2. onlyMoves(id, n)
    BY <2>1, OneMoves
  <2>3. removedBy(n) = r.removed /\ tasksOf(n) = r.removed
    BY <2>1, WorksOn DEF RemovalRequest, removingSteps
  <2>4. \A x \in RequestIds : removedBy(requests'[x]) = removedBy(requests[x])
    BY <1>1, <2>2, <2>3 DEF onlyMoves
  <2>5. UnlinksInv'
    BY <1>0, <2>1, <2>2 DEF UnlinksInv, onlyMoves, commentsOf
  <2>6. BodiesInv'
    <3>. SUFFICES ASSUME ~ failed, NEW k \in Comments \cap live, k \notin bodies'
                  PROVE  \E x \in RequestIds : waitsFor(k, requests'[x])
      BY <1>0 DEF BodiesInv, waitsFor
    <3>1. CASE k = c
      <4>1. TaskOf[c] \in r.removed
        BY <1>0 DEF UnlinkRemovedBody, UnlinksInv, commentsOf
      <4>. QED
        BY <2>2, <2>3, <3>1, <4>1 DEF onlyMoves, waitsFor
    <3>2. CASE k # c
      <4>1. PICK x \in RequestIds : waitsFor(k, requests[x])
        BY <1>0, <3>2 DEF BodiesInv
      <4>. QED
        BY <1>0, <2>2, <2>4, <4>1 DEF onlyMoves, waitsFor
    <3>. QED
      BY <3>1, <3>2
  <2>7. AbsentInv'
    BY <1>0, <1>2 DEF AbsentInv
  <2>8. PutBackInv'
    BY <1>0, <1>a, <2>4 DEF PutBackInv
  <2>9. RequestsAreOnChart'
    BY <1>0, <1>a, <2>2, <2>3, <2>4 DEF RequestsAreOnChart, onlyMoves
  <2>10. StoredInv'
    <3>. SUFFICES ASSUME ~ failed
                  PROVE  StoredInv'
      BY <1>0 DEF StoredInv
    <3>1. \A x \in RequestIds : LET q == requests'[x] IN
             /\ q.step \in {"writeJournal", "writeFirstJournal"} =>
                   q.on \in live' \cup overtaken'
             /\ q.step = "writeBody" =>
                   q.on \in live' \/ TaskOf[q.on] \in overtaken'
      BY <1>0, <1>2, <1>a, <2>1, <2>2 DEF StoredInv, onlyMoves
    <3>2. \A t \in ChartTasks \cap live' :
             \/ t \in chart' \cup overtaken'
             \/ \E x \in RequestIds : t \in removedBy(requests'[x])
      BY <1>0, <1>2, <1>a, <2>4 DEF StoredInv
    <3>3. \A k \in bodies' :
             \/ k \in live' \/ TaskOf[k] \in overtaken'
             \/ \E x \in RequestIds :
                   requests'[x].step = "unlinkBody" /\ requests'[x].on = k
      BY <1>0, <1>2, <1>a, <2>2 DEF StoredInv, onlyMoves
    <3>. QED
      BY <1>0, <1>2, <1>a, <3>1, <3>2, <3>3 DEF StoredInv
  <2>11. RemovalsInv'
    BY <1>0, <1>2, <1>a, <2>1, <2>2 DEF RemovalsInv, onlyMoves, commentsOf
  <2>. QED
    BY <1>a, <1>b, <2>5, <2>6, <2>7, <2>8, <2>9, <2>10, <2>11
<1>3. ASSUME project # "present", end(id)
      PROVE  TaskInv'
  <2>1. /\ onlyMoves(id, idle) /\ removedBy(idle) = {} /\ idle.step = "idle"
        /\ live = {}
    BY <1>3, IdleIsRequest, OneMoves, WorksOn DEF end, removingSteps, RowsInv
  <2>2. UnlinksInv'
    BY <1>0, <2>1 DEF UnlinksInv, onlyMoves, commentsOf
  <2>3. BodiesInv' /\ AbsentInv'
    BY <1>0, <2>1 DEF BodiesInv, AbsentInv, onlyMoves
  <2>4. PutBackInv'
    BY <1>0, <1>a, <2>1 DEF PutBackInv, onlyMoves
  <2>5. RequestsAreOnChart' /\ StoredInv' /\ RemovalsInv'
    BY <1>0, <1>3 DEF RequestsAreOnChart, StoredInv, RemovalsInv
  <2>. QED
    BY <1>a, <1>b, <2>2, <2>3, <2>4, <2>5
<1>. QED
  BY <1>2, <1>3 DEF UnlinkRemovedBody

\* A journal that is not the last.
LEMMA UnlinkNextJournalInv ==
    ASSUME TypeOK, TypeOK', TaskInv, recordOvertaken, NEW id \in RequestIds,
           NEW t \in ChartTasks, UnlinkRemovedJournal(id, t),
           requests[id].ids # {t}
    PROVE  TaskInv'
<1>. USE DEF TaskInv
<1>. DEFINE r == requests[id]
            n == [r EXCEPT !.ids = @ \ {t}]
<1>0. /\ r \in RemovalRequest /\ r.step = "unlinkJournals"
      /\ UNCHANGED <<live, used, failed, project, chart, bodies>>
      /\ journals' = journals \ {t}
      /\ onlyMoves(id, n)
  BY RequestKinds, OneMoves DEF UnlinkRemovedJournal, TypeOK
<1>1. /\ n.step = r.step /\ n.on = None /\ n.removed = r.removed
      /\ n.ids = r.ids \ {t} /\ r.on = None
  BY <1>0 DEF RemovalRequest
<1>. HIDE DEF n
<1>2. /\ \A x \in RequestIds : /\ removedBy(requests'[x]) = removedBy(requests[x])
                               /\ tasksOf(requests'[x]) = tasksOf(requests[x])
  BY <1>0, <1>1, WorksOn DEF onlyMoves, removingSteps
<1>a. overtaken \subseteq overtaken' /\ OneAtATime'
  BY Recorded
<1>b. project # "absent"
  BY <1>0 DEF AbsentInv, sweepingSteps
<1>3. RowsInv' /\ AbsentInv'
  BY <1>0, <1>b DEF RowsInv, AbsentInv
<1>4. UnlinksInv'
  BY <1>0, <1>1 DEF UnlinksInv, onlyMoves, commentsOf
<1>5. BodiesInv'
  BY <1>0, <1>1, <1>2 DEF BodiesInv, waitsFor, onlyMoves
<1>6. PutBackInv' /\ RequestsAreOnChart'
  BY <1>0, <1>2, <1>a DEF PutBackInv, RequestsAreOnChart
<1>7. StoredInv'
  <2>. SUFFICES ASSUME project = "present", ~ failed
                PROVE  StoredInv'
    BY <1>0 DEF StoredInv
  <2>1. \A x \in RequestIds : LET q == requests'[x] IN
           /\ q.step \in {"writeJournal", "writeFirstJournal"} =>
                 q.on \in live' \cup overtaken'
           /\ q.step = "writeBody" =>
                 q.on \in live' \/ TaskOf[q.on] \in overtaken'
    BY <1>0, <1>1, <1>a DEF StoredInv, onlyMoves
  <2>2. \A k \in ChartTasks \cap live' :
           \/ k \in chart' \cup overtaken'
           \/ \E x \in RequestIds : k \in removedBy(requests'[x])
    BY <1>0, <1>2, <1>a DEF StoredInv
  <2>3. \A k \in bodies' :
           \/ k \in live' \/ TaskOf[k] \in overtaken'
           \/ \E x \in RequestIds :
                 requests'[x].step = "unlinkBody" /\ requests'[x].on = k
    BY <1>0, <1>a DEF StoredInv, onlyMoves
  <2>. QED
    BY <1>0, <1>a, <2>1, <2>2, <2>3 DEF StoredInv
<1>8. RemovalsInv'
  BY <1>0, <1>1, <1>a DEF RemovalsInv, onlyMoves, commentsOf
<1>. QED
  BY <1>a, <1>3, <1>4, <1>5, <1>6, <1>7, <1>8

\* With the last journal go the rows of all removed tasks.
LEMMA UnlinkLastJournalInv ==
    ASSUME TypeOK, TypeOK', TaskInv, recordOvertaken, NEW id \in RequestIds,
           NEW t \in ChartTasks, UnlinkRemovedJournal(id, t),
           requests[id].ids = {t}
    PROVE  TaskInv'
<1>. USE DEF TaskInv
<1>. DEFINE r == requests[id]
            removed == r.removed
<1>0. /\ r \in RemovalRequest /\ r.step = "unlinkJournals"
      /\ UNCHANGED <<used, failed, project, chart, bodies>>
      /\ journals' = journals \ {t}
      /\ live' = live \ (removed \cup commentsOf(removed))
      /\ sweepOrphans(id, linkedTo')
  BY RequestKinds DEF UnlinkRemovedJournal, TypeOK, deleteRows
<1>1. PICK n \in {idle} \cup SweepRequest : onlyMoves(id, n)
  BY <1>0, SweepKinds, OneMoves
<1>2. /\ n.step \in {"idle"} \cup sweepingSteps /\ n.on = None
      /\ removedBy(n) = {} /\ tasksOf(n) = {}
  <2>1. n.step \in {"idle"} \cup sweepingSteps /\ n.on = None
    BY IdleIsRequest DEF SweepRequest, sweepingSteps
  <2>. QED
    BY <2>1, WorksOn DEF removingSteps, sweepingSteps
<1>3. /\ removed \subseteq ChartTasks /\ removedBy(r) = removed
      /\ commentsOf(removed) \subseteq Comments /\ r.on = None
  BY <1>0, WorksOn DEF RemovalRequest, removingSteps, commentsOf
<1>a. overtaken \subseteq overtaken' /\ OneAtATime'
  BY Recorded
<1>b. \A x \in RequestIds \ {id} :
         /\ requests'[x] = requests[x]
         /\ removed \cap tasksOf(requests[x]) \subseteq overtaken
  BY <1>1, <1>3 DEF onlyMoves, OneAtATime
<1>c. requests'[id] = n
  BY <1>1 DEF onlyMoves
<1>d. project # "absent"
  BY <1>0 DEF AbsentInv, sweepingSteps
<1>4. RowsInv'
  BY <1>0, <1>3, TaskContainers, TaskForeignKeys DEF RowsInv, commentsOf
<1>5. UnlinksInv'
  BY <1>0, <1>2, <1>b, <1>c DEF UnlinksInv, commentsOf, sweepingSteps
<1>6. BodiesInv'
  <2>. SUFFICES ASSUME ~ failed, NEW c \in Comments \cap live', c \notin bodies
                PROVE  \E x \in RequestIds : waitsFor(c, requests'[x])
    BY <1>0 DEF BodiesInv, waitsFor
  <2>1. PICK x \in RequestIds : waitsFor(c, requests[x])
    BY <1>0 DEF BodiesInv
  <2>2. TaskOf[c] \notin removed
    BY <1>0 DEF commentsOf
  <2>3. x # id
    BY <1>0, <1>3, <2>1, <2>2 DEF waitsFor
  <2>. QED
    BY <1>b, <2>1, <2>3
<1>7. AbsentInv'
  BY <1>0, <1>d DEF AbsentInv
<1>8. PutBackInv' /\ RequestsAreOnChart'
  BY <1>0, <1>2, <1>a, <1>b, <1>c DEF PutBackInv, RequestsAreOnChart
<1>9. StoredInv'
  <2>. SUFFICES ASSUME project = "present", ~ failed
                PROVE  StoredInv'
    BY <1>0 DEF StoredInv
  <2>1. ASSUME NEW x \in RequestIds
        PROVE  LET q == requests'[x] IN
               /\ q.step \in {"writeJournal", "writeFirstJournal"} =>
                     q.on \in live' \cup overtaken'
               /\ q.step = "writeBody" =>
                     q.on \in live' \/ TaskOf[q.on] \in overtaken'
    <3>1. CASE x = id
      BY <1>2, <1>c, <3>1 DEF sweepingSteps
    <3>2. CASE x # id
      <4>. DEFINE q == requests[x]
      <4>1. q \in Request /\ requests'[x] = q
        BY <1>b, <3>2 DEF TypeOK
      <4>2. ASSUME q.step \in {"writeJournal", "writeFirstJournal"}
            PROVE  q.on \in live' \cup overtaken'
        <5>1. q.on \in ChartTasks /\ q.on \in tasksOf(q)
          BY <4>1, <4>2, RequestKinds, WorksOn
        <5>2. q.on \notin commentsOf(removed)
          BY <5>1, TaskContainers DEF commentsOf
        <5>. QED
          BY <1>0, <1>a, <1>b, <3>2, <4>2, <5>1, <5>2 DEF StoredInv
      <4>3. ASSUME q.step = "writeBody"
            PROVE  q.on \in live' \/ TaskOf[q.on] \in overtaken'
        <5>1. q.on \in Comments /\ TaskOf[q.on] \in tasksOf(q)
          BY <4>1, <4>3, RequestKinds, WorksOn DEF BodyRequest
        <5>2. q.on \notin removed
          BY <1>3, <5>1, TaskContainers
        <5>3. q.on \in commentsOf(removed) => TaskOf[q.on] \in removed
          BY DEF commentsOf
        <5>. QED
          BY <1>0, <1>a, <1>b, <3>2, <4>3, <5>1, <5>2, <5>3 DEF StoredInv
      <4>. QED
        BY <4>1, <4>2, <4>3
    <3>. QED
      BY <3>1, <3>2
  <2>2. \A k \in ChartTasks \cap live' :
           \/ k \in chart' \cup overtaken'
           \/ \E x \in RequestIds : k \in removedBy(requests'[x])
    BY <1>0, <1>3, <1>a, <1>b DEF StoredInv
  <2>3. journals' \subseteq live' \cup overtaken'
    <3>1. journals \cap removed \subseteq {t} \cup overtaken
      BY <1>0 DEF RemovalsInv
    <3>2. journals \cap commentsOf(removed) = {}
      BY TaskContainers DEF TypeOK, commentsOf
    <3>. QED
      BY <1>0, <1>a, <3>1, <3>2 DEF StoredInv
  <2>4. ASSUME NEW c \in bodies
        PROVE  \/ c \in live' \/ TaskOf[c] \in overtaken'
               \/ \E x \in RequestIds :
                     requests'[x].step = "unlinkBody" /\ requests'[x].on = c
    <3>1. CASE c \in live
      <4>1. c \in removed \cup commentsOf(removed) => TaskOf[c] \in overtaken
        BY <1>0, <1>3, TaskContainers DEF RemovalsInv, TypeOK
      <4>. QED
        BY <1>0, <1>a, <3>1, <4>1
    <3>2. CASE TaskOf[c] \in overtaken
      BY <1>a, <3>2
    <3>3. CASE \E x \in RequestIds :
                  requests[x].step = "unlinkBody" /\ requests[x].on = c
      BY <1>0, <1>b, <3>3
    <3>. QED
      BY <3>1, <3>2, <3>3 DEF StoredInv
  <2>. QED
    BY <1>0, <2>1, <2>2, <2>3, <2>4 DEF StoredInv
<1>10. RemovalsInv'
  BY <1>0, <1>2, <1>a, <1>b, <1>c
  DEF RemovalsInv, commentsOf, sweepingSteps
<1>. QED
  BY <1>a, <1>4, <1>5, <1>6, <1>7, <1>8, <1>9, <1>10

-----------------------------------------------------------------------------
(***************************************************************************)
(* Files of journals and bodies that are written or unlinked               *)
(***************************************************************************)
\* A journal or a body is written: its row is there, or the task is overtaken.
LEMMA WriteInv ==
    ASSUME TypeOK, TypeOK', TaskInv, recordOvertaken, NEW id \in RequestIds,
           WriteTaskJournal(id) \/ WriteBody(id)
    PROVE  TaskInv'
<1>. USE DEF TaskInv
<1>. DEFINE r == requests[id]
<1>0. /\ r \in Request /\ r.step \in writingSteps /\ onlyMoves(id, idle)
      /\ UNCHANGED <<live, used, failed, project, chart>>
      /\ \/ /\ r.step # "writeBody" /\ bodies' = bodies
            /\ journals' = journals \cup {r.on}
         \/ /\ r.step = "writeBody" /\ journals' = journals
            /\ bodies' = bodies \cup {r.on}
  BY OneMoves DEF WriteTaskJournal, WriteBody, TypeOK, end, writingSteps
<1>1. /\ removedBy(r) = {} /\ removedBy(idle) = {} /\ tasksOf(idle) = {}
      /\ idle.step = "idle"
      /\ r.step # "writeBody" => r.on \in ChartTasks /\ r.on \in tasksOf(r)
      /\ r.step = "writeBody" => r.on \in Comments /\ TaskOf[r.on] \in tasksOf(r)
  BY <1>0, IdleIsRequest, RequestKinds, WorksOn
  DEF writingSteps, removingSteps, BodyRequest
<1>a. overtaken \subseteq overtaken' /\ OneAtATime'
  BY Recorded
<1>b. \A x \in RequestIds \ {id} :
         removedBy(requests[x]) \cap tasksOf(r) \subseteq overtaken
  BY DEF OneAtATime
<1>c. \A x \in RequestIds : removedBy(requests'[x]) = removedBy(requests[x])
  BY <1>0, <1>1 DEF onlyMoves
<1>2. RowsInv' /\ AbsentInv'
  BY <1>0 DEF RowsInv, AbsentInv, writingSteps, sweepingSteps
<1>3. UnlinksInv'
  BY <1>0, <1>1 DEF UnlinksInv, onlyMoves, commentsOf
<1>4. BodiesInv'
  <2>. SUFFICES ASSUME ~ failed, NEW c \in Comments \cap live, c \notin bodies'
                PROVE  \E x \in RequestIds : waitsFor(c, requests'[x])
    BY <1>0 DEF BodiesInv, waitsFor
  <2>1. PICK x \in RequestIds : waitsFor(c, requests[x])
    BY <1>0 DEF BodiesInv
  <2>2. x # id
    BY <1>0, <1>1, <2>1 DEF waitsFor
  <2>. QED
    BY <1>0, <2>1, <2>2 DEF onlyMoves
<1>5. PutBackInv' /\ RequestsAreOnChart'
  BY <1>0, <1>1, <1>a, <1>c DEF PutBackInv, RequestsAreOnChart, onlyMoves
<1>6. StoredInv'
  <2>. SUFFICES ASSUME project = "present", ~ failed
                PROVE  StoredInv'
    BY <1>0 DEF StoredInv
  <2>1. \A x \in RequestIds : LET q == requests'[x] IN
           /\ q.step \in {"writeJournal", "writeFirstJournal"} =>
                 q.on \in live' \cup overtaken'
           /\ q.step = "writeBody" =>
                 q.on \in live' \/ TaskOf[q.on] \in overtaken'
    BY <1>0, <1>1, <1>a DEF StoredInv, onlyMoves
  <2>2. \A k \in ChartTasks \cap live' :
           \/ k \in chart' \cup overtaken'
           \/ \E x \in RequestIds : k \in removedBy(requests'[x])
    BY <1>0, <1>a, <1>c DEF StoredInv
  <2>3. journals' \subseteq live' \cup overtaken'
    BY <1>0, <1>a DEF StoredInv, writingSteps
  <2>4. \A c \in bodies' :
           \/ c \in live' \/ TaskOf[c] \in overtaken'
           \/ \E x \in RequestIds :
                 requests'[x].step = "unlinkBody" /\ requests'[x].on = c
    BY <1>0, <1>a DEF StoredInv, onlyMoves, writingSteps
  <2>. QED
    BY <1>0, <2>1, <2>2, <2>3, <2>4 DEF StoredInv
<1>7. RemovalsInv'
  <2>. SUFFICES ASSUME project = "present", ~ failed, NEW x \in RequestIds
                PROVE  LET q == requests'[x] IN
                       /\ q.step = "unlinkBodies" =>
                             \A c \in commentsOf(q.removed) \cap bodies' :
                                 c \in q.ids \/ TaskOf[c] \in overtaken'
                       /\ q.step = "unlinkJournals" =>
                             /\ \A c \in commentsOf(q.removed) \cap bodies' :
                                   TaskOf[c] \in overtaken'
                             /\ q.removed \cap journals' \subseteq
                                   q.ids \cup overtaken'
    BY <1>0 DEF RemovalsInv, commentsOf
  <2>1. CASE x = id
    BY <1>0, <1>1, <2>1 DEF onlyMoves
  <2>2. CASE x # id
    <3>1. requests'[x] = requests[x]
      BY <1>0, <2>2 DEF onlyMoves
    <3>2. requests[x].step \in removingSteps =>
             removedBy(requests[x]) = requests[x].removed
      BY WorksOn
    <3>3. r.step = "writeBody" /\ r.on \in commentsOf(requests[x].removed)
             => TaskOf[r.on] \in requests[x].removed
      BY DEF commentsOf
    <3>. QED
      BY <1>0, <1>1, <1>a, <1>b, <2>2, <3>1, <3>2, <3>3
      DEF RemovalsInv, removingSteps
  <2>. QED
    BY <2>1, <2>2
<1>. QED
  BY <1>a, <1>2, <1>3, <1>4, <1>5, <1>6, <1>7

LEMMA DeleteCommentInv ==
    ASSUME TypeOK, TypeOK', TaskInv, recordOvertaken, NEW id \in RequestIds,
           NEW c \in Comments, DeleteComment(id, c)
    PROVE  TaskInv'
<1>. USE DEF TaskInv
<1>. DEFINE n == [idle EXCEPT !.step = "unlinkBody", !.on = c]
<1>0. /\ onlyMoves(id, n) /\ n.step = "unlinkBody" /\ n.on = c
      /\ requests[id] = idle /\ project = "present"
      /\ c \in live /\ TaskOf[c] \in chart
      /\ UNCHANGED <<used, failed, project, chart, journals, bodies>>
  BY OneMoves
  DEF DeleteComment, idle, isFree, commentReadable, taskReadable, taskVars
<1>. HIDE DEF n
<1>1. live' = live \ {c}
  BY TaskContainers, TaskForeignKeys
  DEF DeleteComment, deleteRows, commentsOf
<1>2. /\ removedBy(idle) = {} /\ idle.step = "idle"
      /\ removedBy(n) = {} /\ tasksOf(n) \subseteq chart
  <2>1. removedBy(idle) = {} /\ idle.step = "idle"
    BY IdleIsRequest, WorksOn DEF removingSteps
  <2>2. removedBy(n) = {}
    BY <1>0, WorksOn DEF removingSteps
  <2>3. c \notin ChartTasks
    BY TaskContainers
  <2>4. tasksOf(n) \subseteq {TaskOf[c]}
    BY <1>0, <2>2, <2>3 DEF tasksOf, commentsOf
  <2>. QED
    BY <1>0, <2>1, <2>2, <2>4
<1>a. /\ overtaken \subseteq overtaken' /\ OneAtATime'
      /\ \A x \in RequestIds \ {id} :
            requests'[x].on = c => TaskOf[c] \in overtaken'
  BY <1>0, Recorded DEF onlyMoves
<1>b. /\ \A x \in RequestIds : removedBy(requests'[x]) = removedBy(requests[x])
      /\ \A x \in RequestIds \ {id} : requests'[x] = requests[x]
      /\ requests'[id] = n
  BY <1>0, <1>2 DEF onlyMoves
<1>3. RowsInv' /\ AbsentInv'
  BY <1>0, <1>1, TaskContainers, TaskForeignKeys DEF RowsInv, AbsentInv
<1>4. UnlinksInv'
  BY <1>0, <1>1, <1>b DEF UnlinksInv, RowsInv, commentsOf
<1>5. BodiesInv'
  <2>. SUFFICES ASSUME ~ failed, NEW k \in Comments \cap live, k \notin bodies
                PROVE  \E x \in RequestIds : waitsFor(k, requests'[x])
    BY <1>0, <1>1 DEF BodiesInv, waitsFor
  <2>1. PICK x \in RequestIds : waitsFor(k, requests[x])
    BY DEF BodiesInv
  <2>. QED
    BY <1>0, <1>2, <1>b, <2>1 DEF waitsFor
<1>6. PutBackInv' /\ RequestsAreOnChart'
  BY <1>0, <1>2, <1>a, <1>b DEF PutBackInv, RequestsAreOnChart
<1>7. StoredInv'
  <2>. SUFFICES ASSUME ~ failed
                PROVE  StoredInv'
    BY <1>0 DEF StoredInv
  <2>1. ASSUME NEW x \in RequestIds
        PROVE  LET q == requests'[x] IN
               /\ q.step \in {"writeJournal", "writeFirstJournal"} =>
                     q.on \in live' \cup overtaken'
               /\ q.step = "writeBody" =>
                     q.on \in live' \/ TaskOf[q.on] \in overtaken'
    <3>1. CASE x = id
      BY <1>0, <1>b, <3>1
    <3>2. CASE x # id
      <4>1. requests[x] \in Request /\ requests'[x] = requests[x]
        BY <1>b, <3>2 DEF TypeOK
      <4>2. requests[x].step \in {"writeJournal", "writeFirstJournal"}
              => requests[x].on # c
        BY <4>1, RequestKinds, TaskContainers
      <4>. QED
        BY <1>0, <1>1, <1>a, <3>2, <4>1, <4>2 DEF StoredInv
    <3>. QED
      BY <3>1, <3>2
  <2>2. \A k \in ChartTasks \cap live' :
           \/ k \in chart' \cup overtaken'
           \/ \E x \in RequestIds : k \in removedBy(requests'[x])
    BY <1>0, <1>1, <1>a, <1>b DEF StoredInv
  <2>3. journals' \subseteq live' \cup overtaken'
    BY <1>0, <1>1, <1>a, TaskContainers DEF StoredInv, TypeOK
  <2>4. \A k \in bodies' :
           \/ k \in live' \/ TaskOf[k] \in overtaken'
           \/ \E x \in RequestIds :
                 requests'[x].step = "unlinkBody" /\ requests'[x].on = k
    BY <1>0, <1>1, <1>2, <1>a, <1>b DEF StoredInv
  <2>. QED
    BY <1>0, <2>1, <2>2, <2>3, <2>4 DEF StoredInv
<1>8. RemovalsInv'
  BY <1>0, <1>a, <1>b DEF RemovalsInv, commentsOf
<1>. QED
  BY <1>a, <1>3, <1>4, <1>5, <1>6, <1>7, <1>8

LEMMA UnlinkBodyInv ==
    ASSUME TypeOK, TypeOK', TaskInv, recordOvertaken, NEW id \in RequestIds,
           UnlinkBody(id)
    PROVE  TaskInv'
<1>. USE DEF TaskInv
<1>. DEFINE r == requests[id]
<1>0. /\ r.step = "unlinkBody" /\ bodies' = bodies \ {r.on}
      /\ UNCHANGED <<live, used, failed, project, chart, journals>>
      /\ r.on \notin live /\ removedBy(r) = {}
  BY WorksOn DEF UnlinkBody, UnlinksInv, removingSteps
<1>1. PICK n \in {idle} \cup SweepRequest : onlyMoves(id, n)
  BY SweepKinds, OneMoves DEF UnlinkBody
<1>2. /\ n.step \in {"idle"} \cup sweepingSteps
      /\ removedBy(n) = {} /\ tasksOf(n) = {}
  <2>1. n.step \in {"idle"} \cup sweepingSteps /\ n.on = None
    BY IdleIsRequest DEF SweepRequest, sweepingSteps
  <2>. QED
    BY <2>1, WorksOn DEF removingSteps, sweepingSteps
<1>a. overtaken \subseteq overtaken' /\ OneAtATime'
  BY Recorded
<1>b. /\ \A x \in RequestIds : removedBy(requests'[x]) = removedBy(requests[x])
      /\ \A x \in RequestIds \ {id} : requests'[x] = requests[x]
      /\ requests'[id] = n
  BY <1>0, <1>1, <1>2 DEF onlyMoves
<1>3. RowsInv' /\ AbsentInv'
  BY <1>0 DEF RowsInv, AbsentInv, sweepingSteps
<1>4. UnlinksInv'
  BY <1>0, <1>2, <1>b DEF UnlinksInv, commentsOf, sweepingSteps
<1>5. BodiesInv'
  <2>. SUFFICES ASSUME ~ failed, NEW k \in Comments \cap live, k \notin bodies
                PROVE  \E x \in RequestIds : waitsFor(k, requests'[x])
    BY <1>0 DEF BodiesInv, waitsFor
  <2>1. PICK x \in RequestIds : waitsFor(k, requests[x])
    BY DEF BodiesInv
  <2>. QED
    BY <1>0, <1>b, <2>1 DEF waitsFor
<1>6. PutBackInv' /\ RequestsAreOnChart'
  BY <1>0, <1>2, <1>a, <1>b DEF PutBackInv, RequestsAreOnChart
<1>7. StoredInv'
  <2>. SUFFICES ASSUME project = "present", ~ failed
                PROVE  StoredInv'
    BY <1>0 DEF StoredInv
  <2>1. \A x \in RequestIds : LET q == requests'[x] IN
           /\ q.step \in {"writeJournal", "writeFirstJournal"} =>
                 q.on \in live' \cup overtaken'
           /\ q.step = "writeBody" =>
                 q.on \in live' \/ TaskOf[q.on] \in overtaken'
    BY <1>0, <1>2, <1>a, <1>b DEF StoredInv, sweepingSteps
  <2>2. \A k \in ChartTasks \cap live' :
           \/ k \in chart' \cup overtaken'
           \/ \E x \in RequestIds : k \in removedBy(requests'[x])
    BY <1>0, <1>a, <1>b DEF StoredInv
  <2>3. \A k \in bodies' :
           \/ k \in live' \/ TaskOf[k] \in overtaken'
           \/ \E x \in RequestIds :
                 requests'[x].step = "unlinkBody" /\ requests'[x].on = k
    BY <1>0, <1>a, <1>b DEF StoredInv
  <2>. QED
    BY <1>0, <1>a, <2>1, <2>2, <2>3 DEF StoredInv
<1>8. RemovalsInv'
  BY <1>0, <1>2, <1>a, <1>b DEF RemovalsInv, commentsOf, sweepingSteps
<1>. QED
  BY <1>a, <1>3, <1>4, <1>5, <1>6, <1>7, <1>8

-----------------------------------------------------------------------------
(***************************************************************************)
(* All handlers                                                            *)
(***************************************************************************)
LEMMA ChartHandlersInv ==
    ASSUME TypeOK, TypeOK', TaskInv, recordOvertaken, NEW id \in RequestIds,
           ChartHandlers(id)
    PROVE  TaskInv'
<1>. DEFINE r == requests[id]
<1>1. CASE WriteProjectJournal(id)
  <2>1. /\ onlyMoves(id, idle) /\ idle.step = "idle" /\ tasksOf(idle) = {}
        /\ r.step = "createProjectJournal"
        /\ UNCHANGED <<live, used, failed, project, chart, journals, bodies>>
    BY <1>1, OneMoves, IdleIsRequest, WorksOn
    DEF WriteProjectJournal, end, taskVars, removingSteps
  <2>2. live \cap Comments \subseteq used
    BY DEF TaskInv, RowsInv
  <2>. QED
    BY <2>1, <2>2, CalmStep DEF writingSteps, removingSteps
<1>2. CASE WriteProjectJournalFails(id)
  <2>1. /\ onlyMoves(id, idle) /\ failed' /\ used' = used
        /\ live' = {} /\ chart' = {} /\ project' = "deleted"
        /\ UNCHANGED <<journals, bodies>>
    BY <1>2, OneMoves, ProjectTakesAll DEF WriteProjectJournalFails, end
  <2>. QED
    BY <2>1, FailingStep DEF onlyMoves
<1>3. ASSUME NEW t \in ChartTasks, UnlinkRemovedJournal(id, t)
      PROVE  TaskInv'
  BY <1>3, UnlinkNextJournalInv, UnlinkLastJournalInv
<1>. QED
  BY <1>1, <1>2, <1>3, CreateProjectInv, DeleteProjectInv, SaveChartInv,
     UnlinkRemovedBodyInv DEF ChartHandlers

LEMMA TaskHandlersInv ==
    ASSUME TypeOK, TypeOK', TaskInv, recordOvertaken, NEW id \in RequestIds,
           TaskHandlers(id)
    PROVE  TaskInv'
<1>. DEFINE r == requests[id]
<1>a. /\ r \in Request /\ idle.step = "idle" /\ tasksOf(idle) = {}
      /\ live \cap Comments \subseteq used
      /\ \A c \in Comments \cap live : TaskOf[c] \in live
  BY IdleIsRequest, WorksOn DEF TypeOK, removingSteps, TaskInv, RowsInv
<1>. USE TaskContainers
<1>1. ASSUME NEW t \in ChartTasks, UpdateTaskJournal(id, t)
      PROVE  TaskInv'
  <2>. DEFINE n == [idle EXCEPT !.step = "readJournal", !.on = t]
  <2>1. /\ onlyMoves(id, n) /\ n.step = "readJournal" /\ n.on = t
        /\ r.step = "idle" /\ t \in chart /\ project = "present"
        /\ UNCHANGED <<live, used, failed, project, chart, journals, bodies>>
    BY <1>1, OneMoves DEF UpdateTaskJournal, taskReadable, isFree, idle, taskVars
  <2>. HIDE DEF n
  <2>2. tasksOf(n) \subseteq chart
    BY <2>1, WorksOn DEF removingSteps
  <2>. QED
    BY <1>a, <2>1, <2>2, CalmStep DEF writingSteps, removingSteps
<1>2. ASSUME NEW t \in ChartTasks, NEW a \in Attachments,
             UploadTaskAttachment(id, t, a)
      PROVE  TaskInv'
  <2>. DEFINE n == [idle EXCEPT !.step = "writeBlob", !.on = t, !.attachment = a]
  <2>1. /\ onlyMoves(id, n) \/ onlyMoves(id, idle)
        /\ n.step = "writeBlob" /\ n.on = t
        /\ r.step = "idle" /\ t \in chart /\ project = "present"
        /\ live' = live \cup {t} /\ used \subseteq used'
        /\ UNCHANGED <<failed, project, chart, journals, bodies>>
    BY <1>2, OneMoves, StaysFree
    DEF UploadTaskAttachment, taskReadable, isFree, idle, taskVars, end
  <2>. HIDE DEF n
  <2>2. tasksOf(n) \subseteq chart
    BY <2>1, WorksOn DEF removingSteps
  <2>3. CASE onlyMoves(id, n)
    BY <1>a, <2>1, <2>2, <2>3, CalmStep DEF writingSteps, removingSteps
  <2>4. CASE onlyMoves(id, idle)
    BY <1>a, <2>1, <2>4, CalmStep DEF writingSteps, removingSteps
  <2>. QED
    BY <2>1, <2>3, <2>4
<1>3. CASE MirrorForJournal(id)
  <2>1. /\ r.step = "readJournal" /\ r \in JournalRequest /\ r.on \in ChartTasks
        /\ r.on \in tasksOf(r) /\ removedBy(r) = {} /\ r.on \notin Comments
        /\ UNCHANGED <<used, failed, project, chart, journals, bodies>>
    BY <1>3, <1>a, RequestKinds, WorksOn
    DEF MirrorForJournal, taskVars, removingSteps
  <2>2. project # "absent"
    BY <2>1 DEF TaskInv, AbsentInv, sweepingSteps
  <2>3. ASSUME project # "present"
        PROVE  live = {}
    BY <2>3 DEF TaskInv, RowsInv
  <2>4. ASSUME NEW step \in {"writeJournal", "writeFirstJournal"},
               onlyMoves(id, [r EXCEPT !.step = step]),
               project = "present", live' = live \cup {r.on}
        PROVE  TaskInv'
    <3>. DEFINE n == [r EXCEPT !.step = step]
    <3>1. n.step = step /\ n.on = r.on
      BY <2>1 DEF JournalRequest
    <3>2. onlyMoves(id, n)
      BY <2>4
    <3>. HIDE DEF n
    <3>3. tasksOf(n) \subseteq tasksOf(r)
      BY <2>1, <3>1, WorksOn DEF removingSteps
    <3>4. r.on \in chart \cup overtaken
      BY <2>1, <2>4 DEF TaskInv, RequestsAreOnChart
    <3>. QED
      BY <1>a, <2>1, <2>4, <3>1, <3>2, <3>3, <3>4, CalmStep
      DEF writingSteps, removingSteps
  <2>5. CASE onlyMoves(id, idle) /\ UNCHANGED live
    BY <1>a, <2>1, <2>2, <2>5, CalmStep DEF writingSteps, removingSteps
  <2>6. \/ /\ onlyMoves(id, [r EXCEPT !.step = "writeJournal"])
           /\ r.on \in live /\ live' = live
        \/ /\ onlyMoves(id, [r EXCEPT !.step = "writeFirstJournal"])
           /\ project = "present" /\ live' = live \cup {r.on}
        \/ onlyMoves(id, idle) /\ UNCHANGED live
    BY <1>3, OneMoves DEF MirrorForJournal, end
  <2>. QED
    BY <2>3, <2>4, <2>5, <2>6
<1>4. CASE WriteTaskJournalFails(id)
  <2>1. /\ onlyMoves(id, idle) /\ failed' /\ used' = used
        /\ UNCHANGED <<project, chart, bodies>> /\ r.on \in ChartTasks
        /\ r.step \in {"writeJournal", "writeFirstJournal"}
        /\ live' = live \/ live' = live \ ({r.on} \cup commentsOf({r.on}))
    BY <1>4, <1>a, OneMoves, RequestKinds
    DEF WriteTaskJournalFails, end, deleteRows
  <2>2. \A c \in Comments \cap live' : TaskOf[c] \in live'
    BY <1>a, <2>1, TaskForeignKeys DEF commentsOf
  <2>3. project # "absent"
    BY <2>1 DEF TaskInv, AbsentInv, sweepingSteps
  <2>. QED
    BY <2>1, <2>2, <2>3, FailingStep DEF onlyMoves
<1>5. CASE ReadOrUnlinkFails(id)
  <2>1. /\ onlyMoves(id, idle) /\ failed'
        /\ UNCHANGED <<live, used, project, chart, journals, bodies>>
    BY <1>5, OneMoves DEF ReadOrUnlinkFails, end, taskVars
  <2>. QED
    BY <1>a, <2>1, FailingStep DEF onlyMoves
<1>. QED
  BY <1>1, <1>2, <1>3, <1>4, <1>5, WriteInv DEF TaskHandlers

LEMMA TaskCommentHandlersInv ==
    ASSUME TypeOK, TypeOK', TaskInv, recordOvertaken, NEW id \in RequestIds,
           TaskCommentHandlers(id)
    PROVE  TaskInv'
<1>. DEFINE r == requests[id]
<1>a. /\ r \in Request /\ idle.step = "idle" /\ tasksOf(idle) = {}
      /\ live \cap Comments \subseteq used
      /\ \A c \in Comments \cap live : TaskOf[c] \in live
  BY IdleIsRequest, WorksOn DEF TypeOK, removingSteps, TaskInv, RowsInv
<1>. USE TaskContainers, TaskForeignKeys
<1>1. ASSUME NEW c \in Comments, CreateComment(id, c)
      PROVE  TaskInv'
  <2>. DEFINE n == [idle EXCEPT !.step = "writeBody", !.on = c]
  <2>1. /\ onlyMoves(id, n) /\ n.step = "writeBody" /\ n.on = c
        /\ r.step = "idle" /\ TaskOf[c] \in chart /\ project = "present"
        /\ c \notin used /\ used' = used \cup {c}
        /\ live' = live \cup {TaskOf[c], c}
        /\ UNCHANGED <<failed, project, chart, journals, bodies>>
    BY <1>1, OneMoves DEF CreateComment, taskReadable, isFree, idle, taskVars
  <2>. HIDE DEF n
  <2>2. tasksOf(n) \subseteq chart
    BY <2>1, WorksOnComment DEF removingSteps
  <2>3. waitsFor(c, n)
    BY <2>1 DEF waitsFor
  <2>. QED
    BY <1>a, <2>1, <2>2, <2>3, CalmStep DEF writingSteps, removingSteps
<1>2. ASSUME NEW c \in Comments, UpdateComment(id, c)
      PROVE  TaskInv'
  <2>. DEFINE n == [idle EXCEPT !.step = "writeBody", !.on = c]
  <2>1. /\ onlyMoves(id, n) /\ n.step = "writeBody" /\ n.on = c
        /\ r.step = "idle" /\ TaskOf[c] \in chart /\ project = "present"
        /\ c \in live
        /\ UNCHANGED <<live, used, failed, project, chart, journals, bodies>>
    BY <1>2, OneMoves
    DEF UpdateComment, commentReadable, taskReadable, isFree, idle, taskVars
  <2>. HIDE DEF n
  <2>2. tasksOf(n) \subseteq chart
    BY <2>1, WorksOnComment DEF removingSteps
  <2>. QED
    BY <1>a, <2>1, <2>2, CalmStep DEF writingSteps, removingSteps
<1>3. ASSUME NEW c \in Comments, NEW a \in Attachments,
             UploadCommentAttachment(id, c, a)
      PROVE  TaskInv'
  <2>. DEFINE n == [idle EXCEPT !.step = "writeBlob", !.on = c, !.attachment = a]
  <2>1. /\ onlyMoves(id, n) /\ n.step = "writeBlob" /\ n.on = c
        /\ r.step = "idle" /\ TaskOf[c] \in chart /\ project = "present"
        /\ used \subseteq used'
        /\ UNCHANGED <<live, failed, project, chart, journals, bodies>>
    BY <1>3, OneMoves DEF UploadCommentAttachment, BeginUpload, commentReadable,
       taskReadable, isFree, idle, taskVars
  <2>. HIDE DEF n
  <2>2. tasksOf(n) \subseteq chart
    BY <2>1, WorksOnComment DEF removingSteps
  <2>. QED
    BY <1>a, <2>1, <2>2, CalmStep DEF writingSteps, removingSteps
<1>4. ASSUME NEW a \in Attachments, DeleteTaskAttachment(id, a)
      PROVE  TaskInv'
  <2>1. PICK n \in {idle} \cup SweepRequest : onlyMoves(id, n)
    BY <1>4, SweepKinds, OneMoves DEF DeleteTaskAttachment, DeleteAttachmentLink
  <2>2. n.step \in {"idle"} \cup sweepingSteps /\ n.on = None
    BY IdleIsRequest DEF SweepRequest, sweepingSteps
  <2>3. tasksOf(n) = {}
    BY <2>2, WorksOn DEF removingSteps, sweepingSteps
  <2>4. /\ r.step = "idle"
        /\ UNCHANGED <<live, used, failed, project, chart, journals, bodies>>
    BY <1>4 DEF DeleteTaskAttachment, DeleteAttachmentLink, isFree, idle, taskVars
  <2>. QED
    BY <1>a, <2>1, <2>2, <2>3, <2>4, CalmStep
    DEF writingSteps, removingSteps, sweepingSteps
<1>5. CASE WriteBodyFails(id)
  <2>1. /\ onlyMoves(id, idle) /\ failed' /\ r.step = "writeBody"
        /\ UNCHANGED <<live, used, project, chart, journals>>
    BY <1>5, OneMoves DEF WriteBodyFails, end
  <2>2. project # "absent"
    BY <2>1 DEF TaskInv, AbsentInv, sweepingSteps
  <2>. QED
    BY <1>a, <2>1, <2>2, FailingStep DEF onlyMoves
<1>. QED
  BY <1>1, <1>2, <1>3, <1>4, <1>5, WriteInv, DeleteCommentInv, UnlinkBodyInv
  DEF TaskCommentHandlers

\* Uploads and sweeps under way stay with their containers.
LEMMA AttachmentStepsInv ==
    ASSUME TypeOK, TypeOK', TaskInv, recordOvertaken, NEW id \in RequestIds,
           AttachmentSteps(id), UNCHANGED taskVars
    PROVE  TaskInv'
<1>. DEFINE r == requests[id]
<1>1. PICK n \in {idle} \cup UploadRequest \cup SweepRequest :
         /\ goOn(id, n)
         /\ r.step \in {"idle"} \cup uploadingSteps \cup sweepingSteps
         /\ n.on = None \/ n.on = r.on
  BY TypesOfAttachments, AttachmentStepTypes DEF TypeOK
<1>2. UNCHANGED <<live, used>> /\ (failed => failed')
  BY TypesOfAttachments, AttachmentStepTypes DEF TypeOK
<1>3. /\ n.step \in {"idle"} \cup uploadingSteps \cup sweepingSteps
      /\ onlyMoves(id, n)
  BY <1>1, IdleIsRequest, OneMoves
  DEF UploadRequest, SweepRequest, uploadingSteps, sweepingSteps
<1>4. tasksOf(n) \subseteq tasksOf(r)
  BY <1>1, <1>3, WorksOnNoMore DEF removingSteps, uploadingSteps, sweepingSteps
<1>5. project = "absent" => n.step \in {"idle"} \cup sweepingSteps
  <2>. SUFFICES ASSUME project = "absent", n \in UploadRequest
                PROVE  FALSE
    BY <1>1, IdleIsRequest DEF SweepRequest, sweepingSteps
  <2>1. r.step \in {"idle"} \cup sweepingSteps /\ r \in Request
    BY DEF TaskInv, AbsentInv, TypeOK
  <2>2. r.on = None
    BY <2>1, RequestKinds, NoneIsNothing, TaskContainers
    DEF Request, idle, UploadRequest, SweepRequest, RemovalRequest,
        JournalRequest, BodyRequest, sweepingSteps
  <2>. QED
    BY <1>1, <2>2, NoneIsNothing DEF UploadRequest
<1>6. live \cap Comments \subseteq used
  BY DEF TaskInv, RowsInv
<1>. QED
  BY <1>1, <1>2, <1>3, <1>4, <1>5, <1>6, CalmStep
  DEF taskVars, writingSteps, removingSteps, uploadingSteps, sweepingSteps

LEMMA NextTaskInv == TypeOK /\ TaskInv /\ [Next]_vars => TaskInv'
<1>. SUFFICES ASSUME TypeOK, TaskInv, [Next]_vars
              PROVE  TaskInv'
  OBVIOUS
<1>1. CASE UNCHANGED vars
  BY <1>1 DEF vars, attachmentVars, taskVars, TaskInv, RowsInv, UnlinksInv,
     BodiesInv, AbsentInv, PutBackInv, OneAtATime, RequestsAreOnChart, StoredInv,
     RemovalsInv, waitsFor, commentsOf
<1>2. CASE Next
  <2>1. TypeOK' /\ recordOvertaken
    BY <1>2, NextTypeOK DEF Next
  <2>2. CASE Crash /\ UNCHANGED taskVars
    <3>1. \A c \in Comments \cap live : TaskOf[c] \in live
      BY DEF TaskInv, RowsInv
    <3>. QED
      BY <2>1, <2>2, <3>1, FailingStep DEF Crash, taskVars
  <2>. QED
    BY <1>2, <2>1, <2>2, ChartHandlersInv, TaskHandlersInv,
       TaskCommentHandlersInv, AttachmentStepsInv DEF Next
<1>. QED
  BY <1>1, <1>2

LEMMA InitTaskInv == Init => TaskInv
<1>1. idle.step = "idle" /\ removedBy(idle) = {} /\ tasksOf(idle) = {}
  BY IdleIsRequest, WorksOn DEF removingSteps
<1>. QED
  BY <1>1 DEF Init, TaskInv, RowsInv, UnlinksInv, BodiesInv, AbsentInv, PutBackInv,
     OneAtATime, RequestsAreOnChart, StoredInv, RemovalsInv

LEMMA TaskInvariants == Spec => [](TypeOK /\ AttachmentInv /\ TaskInv)
<1>1. Init => TypeOK /\ AttachmentInv /\ TaskInv
  BY InitTypeOK, InitTaskInv, NoAttachments DEF Init
<1>2. TypeOK /\ AttachmentInv /\ TaskInv /\ [Next]_vars
        => (TypeOK /\ AttachmentInv /\ TaskInv)'
  BY NextTypeOK, NextAttachmentInv, NextTaskInv
<1>. QED
  BY <1>1, <1>2, PTL DEF Spec

\* For every chart: what is listed with a task can be read, whatever removals,
\* uploads, sweeps and failures have met.
THEOREM TaskContentStored == Spec => []TaskContentIsStored
<1>1. AttachmentInv /\ TaskInv => TaskContentIsStored
  BY DEF AttachmentInv, TaskInv, BodiesInv, waitsFor, TaskContentIsStored
<1>. QED
  BY <1>1, TaskInvariants, PTL

\* Saving a chart without a task leaves nothing of the task behind, if nothing
\* failed and no request overtook deleteRemovedTaskMirrorData.
THEOREM NothingIsLeft == Spec => []RemovedTasksLeaveNothing
<1>1. TypeOK /\ TaskInv => RemovedTasksLeaveNothing
  <2>. SUFFICES ASSUME TypeOK, TaskInv, project = "present", ~ failed,
                       NEW t \in ChartTasks \ overtaken,
                       \A id \in RequestIds : t \notin tasksOf(requests[id])
                PROVE  /\ t \notin chart => t \notin live
                       /\ t \notin live =>
                             /\ t \notin journals
                             /\ commentsOf({t}) \cap (live \cup bodies) = {}
    BY DEF RemovedTasksLeaveNothing
  <2>1. t \notin chart => t \notin live
    BY WorksOn DEF TaskInv, StoredInv
  <2>2. t \notin live => t \notin journals
    BY DEF TaskInv, StoredInv
  <2>3. ASSUME t \notin live, NEW c \in Comments, TaskOf[c] = t
        PROVE  c \notin live \cup bodies
    BY <2>3, WorksOn DEF TaskInv, StoredInv, RowsInv
  <2>. QED
    BY <2>1, <2>2, <2>3 DEF commentsOf
<1>. QED
  BY <1>1, TaskInvariants, PTL

\* A step keeps what it must keep of a task that stays in the chart.
keepsTask(t) ==
    \/ isBeingRemoved(t)
    \/ /\ t \in live => t \in live'
       /\ t \in journals => t \in journals'
       /\ \A c \in commentsOf({t}) \cap live' : c \in bodies => c \in bodies'
    \/ failed' /\ \E id \in RequestIds :
          requests[id].step = "writeFirstJournal" /\ requests[id].on = t

\* deleteRemovedTaskMirrorData and the clean-up of task-mirror.service never
\* take from a task of the chart that no removal names.
THEOREM KeptTasksKeep == Spec => KeptTasksKeepTheirData
<1>1. ASSUME TypeOK, TaskInv, Next, NEW t \in chart \cap chart'
      PROVE  keepsTask(t)
  <2>. t \in ChartTasks
    BY <1>1 DEF TypeOK
  <2>. USE <1>1 DEF attachmentsStay, taskVars, keepsTask
  <2>1. ASSUME UNCHANGED <<live, journals, bodies>>
        PROVE  keepsTask(t)
    BY <2>1
  <2>2. ASSUME NEW id \in RequestIds, ChartHandlers(id)
        PROVE  keepsTask(t)
    <3>. DEFINE r == requests[id]
    <3>1. CASE WriteProjectJournalFails(id) \/ DeleteProject(id)
      BY <3>1, ProjectTakesAll DEF WriteProjectJournalFails, DeleteProject
    <3>2. ASSUME NEW c \in Comments, UnlinkRemovedBody(id, c)
          PROVE  keepsTask(t)
      <4>1. c \in commentsOf(r.removed) /\ removedBy(r) = r.removed
        BY <3>2, WorksOn
        DEF UnlinkRemovedBody, TaskInv, UnlinksInv, removingSteps
      <4>2. c \in commentsOf({t}) => t \in removedBy(r)
        BY <4>1 DEF commentsOf
      <4>. QED
        BY <3>2, <4>2 DEF UnlinkRemovedBody, isBeingRemoved
    <3>3. ASSUME NEW k \in ChartTasks, UnlinkRemovedJournal(id, k)
          PROVE  keepsTask(t)
      <4>1. /\ k \in r.removed /\ removedBy(r) = r.removed
            /\ r.removed \subseteq ChartTasks
        BY <3>3, RequestKinds, WorksOn DEF UnlinkRemovedJournal, TaskInv,
           UnlinksInv, TypeOK, removingSteps, RemovalRequest
      <4>2. CASE t \in r.removed
        BY <4>1, <4>2 DEF isBeingRemoved
      <4>3. CASE t \notin r.removed
        <5>1. t \notin commentsOf(r.removed)
          BY TaskContainers DEF commentsOf
        <5>. QED
          BY <3>3, <4>1, <4>3, <5>1 DEF UnlinkRemovedJournal, deleteRows
      <4>. QED
        BY <4>2, <4>3
    <3>. QED
      BY <2>1, <2>2, <3>1, <3>2, <3>3
      DEF ChartHandlers, CreateProject, WriteProjectJournal, SaveChart
  <2>3. ASSUME NEW id \in RequestIds, TaskHandlers(id)
        PROVE  keepsTask(t)
    <3>. DEFINE r == requests[id]
    <3>1. CASE WriteTaskJournalFails(id)
      <4>1. r.on \in ChartTasks /\ t \notin commentsOf({r.on})
        BY <3>1, RequestKinds, TaskContainers
        DEF WriteTaskJournalFails, TypeOK, commentsOf
      <4>2. CASE r.on = t /\ r.step = "writeFirstJournal"
        BY <3>1, <4>2 DEF WriteTaskJournalFails
      <4>3. CASE r.on # t \/ r.step # "writeFirstJournal"
        BY <3>1, <4>1, <4>3 DEF WriteTaskJournalFails, deleteRows
      <4>. QED
        BY <4>2, <4>3
    <3>2. ASSUME NEW k \in ChartTasks, NEW a \in Attachments,
                 UploadTaskAttachment(id, k, a)
          PROVE  keepsTask(t)
      BY <3>2 DEF UploadTaskAttachment
    <3>3. CASE MirrorForJournal(id)
      BY <3>3 DEF MirrorForJournal
    <3>4. CASE WriteTaskJournal(id) \/ ReadOrUnlinkFails(id)
      BY <3>4 DEF WriteTaskJournal, ReadOrUnlinkFails
    <3>5. ASSUME NEW k \in ChartTasks, UpdateTaskJournal(id, k)
          PROVE  keepsTask(t)
      BY <3>5 DEF UpdateTaskJournal
    <3>. QED
      BY <2>3, <3>1, <3>2, <3>3, <3>4, <3>5 DEF TaskHandlers
  <2>4. ASSUME NEW id \in RequestIds, TaskCommentHandlers(id)
        PROVE  keepsTask(t)
    <3>. DEFINE r == requests[id]
    <3>1. ASSUME NEW c \in Comments, DeleteComment(id, c)
          PROVE  keepsTask(t)
      BY <3>1, TaskContainers, TaskForeignKeys
      DEF DeleteComment, deleteRows, commentsOf
    <3>2. CASE UnlinkBody(id)
      BY <3>2 DEF UnlinkBody, TaskInv, UnlinksInv
    <3>3. ASSUME NEW c \in Comments, CreateComment(id, c)
          PROVE  keepsTask(t)
      BY <3>3 DEF CreateComment
    <3>4. ASSUME NEW c \in Comments, UpdateComment(id, c)
          PROVE  keepsTask(t)
      BY <3>4 DEF UpdateComment
    <3>5. ASSUME NEW c \in Comments, NEW a \in Attachments,
                 UploadCommentAttachment(id, c, a)
          PROVE  keepsTask(t)
      BY <3>5 DEF UploadCommentAttachment, BeginUpload
    <3>6. ASSUME NEW a \in Attachments, DeleteTaskAttachment(id, a)
          PROVE  keepsTask(t)
      BY <3>6 DEF DeleteTaskAttachment, DeleteAttachmentLink
    <3>7. CASE WriteBody(id) \/ WriteBodyFails(id)
      BY <3>7 DEF WriteBody, WriteBodyFails
    <3>. QED
      BY <2>4, <3>1, <3>2, <3>3, <3>4, <3>5, <3>6, <3>7
      DEF TaskCommentHandlers
  <2>5. ASSUME NEW id \in RequestIds, AttachmentSteps(id), UNCHANGED taskVars
        PROVE  keepsTask(t)
    BY <2>5, TypesOfAttachments, AttachmentStepTypes DEF TypeOK
  <2>6. CASE Crash /\ UNCHANGED taskVars
    BY <2>6 DEF Crash
  <2>. QED
    BY <2>2, <2>3, <2>4, <2>5, <2>6 DEF Next
<1>2. TypeOK /\ TaskInv /\ [Next]_vars =>
        [\A t \in chart \cap chart' : keepsTask(t)]_vars
  BY <1>1
<1>3. KeptTasksKeepTheirData <=> [][\A t \in chart \cap chart' : keepsTask(t)]_vars
  BY DEF KeptTasksKeepTheirData, keepsTask
<1>. QED
  BY <1>2, <1>3, TaskInvariants, PTL DEF Spec
=============================================================================
