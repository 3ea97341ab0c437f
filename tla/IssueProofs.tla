---------------------------- MODULE IssueProofs ----------------------------
(***************************************************************************)
(* What holds of the content of a project for every number of issues,      *)
(* comments, attachments and requests under way; and what the service      *)
(* makes of the status of an issue, for all statuses, reasons and partial  *)
(* requests.                                                               *)
(***************************************************************************)
EXTENDS Issues, IssueStates, AttachmentProofs

-----------------------------------------------------------------------------
\* A request goes on to a request.
LEMMA GoOnType ==
    ASSUME TypeOK, NEW id \in RequestIds, NEW r \in Request, goOn(id, r)
    PROVE  requests' \in [RequestIds -> Request]
BY DEF TypeOK, goOn

\* A free slot is a request too.
LEMMA IdleIsRequest == idle \in Request
BY DEF Request

\* A request's step tells what it carries.
LEMMA RequestKinds ==
    ASSUME NEW r \in Request
    PROVE  /\ r.step \in {"writeBlob", "insertAttachment", "unlinkBlob"}
                => r \in UploadRequest
           /\ r.step \in {"unlinkOrphan", "deleteOrphan"} => r \in SweepRequest
           /\ r.step \in {"createJournal", "writeJournal", "unlinkJournal"}
                => r \in JournalRequest
           /\ r.step = "unlinkBodies" => r \in DeleteIssueRequest
           /\ r.step \in {"writeBody", "unlinkBody"} => r \in BodyRequest
BY DEF Request, idle, UploadRequest, SweepRequest, JournalRequest,
   DeleteIssueRequest, BodyRequest

\* A sweep that is begun is a request.
LEMMA SweepType ==
    ASSUME TypeOK, NEW id \in RequestIds, NEW links, sweepOrphans(id, links)
    PROVE  requests' \in [RequestIds -> Request]
<1>. DEFINE orphanIds == {a \in attachments : links[a] = None}
            r == [idle EXCEPT !.step = "unlinkOrphan", !.ids = orphanIds]
<1>1. r \in Request
  BY DEF idle, Request, SweepRequest, TypeOK
<1>2. goOn(id, idle) \/ goOn(id, r)
  BY DEF sweepOrphans, end
<1>. QED
  BY <1>1, <1>2, GoOnType, IdleIsRequest

\* The first state has the types.
LEMMA InitTypeOK == Init => TypeOK
BY IdleIsRequest, ContainerKinds DEF Init, TypeOK

\* The part of the types that the lemmas on attachments need.
LEMMA TypesOfAttachments == TypeOK => AttachmentTypes
<1>. SUFFICES ASSUME TypeOK
              PROVE  AttachmentTypes
  OBVIOUS
<1>1. \A id \in RequestIds : requests[id] \in Request
  BY DEF TypeOK
<1>. QED
  BY <1>1, RequestKinds DEF AttachmentTypes, TypeOK, uploadingSteps, sweepingSteps

\* Uploads, unlinking and sweeps keep the types.
LEMMA AttachmentHandlersTypeOK ==
    ASSUME TypeOK, AttachmentHandlers, UNCHANGED <<journals, bodies>>
    PROVE  TypeOK'
<1>1. ASSUME NEW id \in RequestIds, NEW a \in Attachments, NEW c \in Containers,
             BeginUpload(id, c, a)
      PROVE  TypeOK'
  <2>1. [idle EXCEPT !.step = "writeBlob", !.on = c, !.attachment = a] \in Request
    BY DEF idle, Request, UploadRequest
  <2>. QED
    BY <1>1, <2>1, GoOnType DEF BeginUpload, TypeOK
<1>2. ASSUME NEW id \in RequestIds, NEW a \in Attachments,
             DeleteAttachmentLink(id, a)
      PROVE  TypeOK'
  BY <1>2, SweepType DEF DeleteAttachmentLink, TypeOK
<1>3. ASSUME NEW id \in RequestIds, AttachmentSteps(id)
      PROVE  TypeOK'
  <2>1. PICK n \in {idle} \cup UploadRequest \cup SweepRequest : goOn(id, n)
    BY <1>3, TypesOfAttachments, AttachmentStepTypes DEF TypeOK
  <2>2. requests' \in [RequestIds -> Request]
    BY <2>1, GoOnType DEF Request
  <2>. QED
    BY <1>3, <2>2, TypesOfAttachments, AttachmentStepTypes DEF TypeOK
<1>. QED
  BY <1>1, <1>2, <1>3 DEF AttachmentHandlers

\* Requests on issues and journals keep the types.
LEMMA IssueHandlersTypeOK ==
    ASSUME TypeOK, NEW id \in RequestIds, IssueHandlers(id)
    PROVE  TypeOK'
<1>. DEFINE r == requests[id]
<1>0. r \in Request
  BY DEF TypeOK
<1>. USE <1>0, ContainerKinds DEF attachmentsStay
<1>1. ASSUME NEW i \in Issues, CreateIssue(id, i)
      PROVE  TypeOK'
  <2>1. [idle EXCEPT !.step = "createJournal", !.on = i] \in Request
    BY DEF idle, Request, JournalRequest
  <2>2. requests' \in [RequestIds -> Request]
    BY <1>1, <2>1, GoOnType DEF CreateIssue
  <2>. QED
    BY <1>1, <2>2 DEF CreateIssue, insertRow, TypeOK
<1>2. ASSUME NEW i \in Issues, BeginDeleteIssue(id, i)
      PROVE  TypeOK'
  <2>1. [idle EXCEPT !.step = "unlinkBodies", !.on = i, !.ids = commentsOf(i)]
          \in Request
    BY DEF idle, Request, DeleteIssueRequest, commentsOf
  <2>2. requests' \in [RequestIds -> Request]
    BY <1>2, <2>1, GoOnType DEF BeginDeleteIssue
  <2>. QED
    BY <1>2, <2>2 DEF BeginDeleteIssue, TypeOK
<1>3. ASSUME NEW c \in Containers, UpdateJournal(id, c)
      PROVE  TypeOK'
  <2>1. c \in {Project} \cup Issues
    BY <1>3 DEF UpdateJournal
  <2>2. [idle EXCEPT !.step = "writeJournal", !.on = c] \in Request
    BY <2>1 DEF idle, Request, JournalRequest
  <2>3. requests' \in [RequestIds -> Request]
    BY <1>3, <2>2, GoOnType DEF UpdateJournal
  <2>. QED
    BY <1>3, <2>3 DEF UpdateJournal, TypeOK
<1>4. CASE WriteJournal(id) \/ WriteJournalFails(id)
  <2>1. r \in JournalRequest
    BY <1>4, RequestKinds DEF WriteJournal, WriteJournalFails
  <2>2. requests' \in [RequestIds -> Request] /\ r.on \in {Project} \cup Issues
    BY <1>4, <2>1, GoOnType, IdleIsRequest
    DEF WriteJournal, WriteJournalFails, end, JournalRequest
  <2>. QED
    BY <1>4, <2>2
    DEF WriteJournal, WriteJournalFails, deleteRows, linksWithout, TypeOK
<1>5. ASSUME NEW c \in Comments, UnlinkNextBody(id, c)
      PROVE  TypeOK'
  <2>1. r \in DeleteIssueRequest
    BY <1>5, RequestKinds DEF UnlinkNextBody
  <2>2. [r EXCEPT !.ids = @ \ {c}] \in Request
    BY <2>1 DEF Request, DeleteIssueRequest
  <2>3. requests' \in [RequestIds -> Request]
    BY <1>5, <2>2, GoOnType DEF UnlinkNextBody
  <2>. QED
    BY <1>5, <2>3 DEF UnlinkNextBody, TypeOK
<1>6. CASE DeleteIssueRow(id)
  <2>1. r \in DeleteIssueRequest /\ r.ids = {}
    BY <1>6, RequestKinds DEF DeleteIssueRow
  <2>2. [r EXCEPT !.step = "unlinkJournal"] \in Request
    BY <2>1 DEF Request, DeleteIssueRequest, JournalRequest
  <2>3. requests' \in [RequestIds -> Request]
    BY <1>6, <2>2, GoOnType DEF DeleteIssueRow
  <2>. QED
    BY <1>6, <2>3 DEF DeleteIssueRow, deleteRows, linksWithout, TypeOK
<1>7. CASE UnlinkJournal(id)
  <2>1. requests' \in [RequestIds -> Request]
    BY <1>7, GoOnType, SweepType, IdleIsRequest DEF UnlinkJournal, end
  <2>. QED
    BY <1>7, <2>1 DEF UnlinkJournal, TypeOK
<1>8. CASE DeleteProject(id)
  <2>1. [idle EXCEPT !.step = "unlinkJournal", !.on = Project] \in Request
    BY DEF idle, Request, JournalRequest
  <2>2. requests' \in [RequestIds -> Request]
    BY <1>8, <2>1, GoOnType DEF DeleteProject
  <2>. QED
    BY <1>8, <2>2 DEF DeleteProject, deleteRows, linksWithout, TypeOK
<1>. QED
  BY <1>1, <1>2, <1>3, <1>4, <1>5, <1>6, <1>7, <1>8 DEF IssueHandlers

\* Requests on comments keep the types.
LEMMA CommentHandlersTypeOK ==
    ASSUME TypeOK, NEW id \in RequestIds, CommentHandlers(id)
    PROVE  TypeOK'
<1>. DEFINE r == requests[id]
<1>0. r \in Request
  BY DEF TypeOK
<1>. USE <1>0, ContainerKinds DEF attachmentsStay
<1>1. ASSUME NEW c \in Comments,
             CreateComment(id, c) \/ UpdateComment(id, c) \/ DeleteComment(id, c)
      PROVE  TypeOK'
  <2>1. /\ [idle EXCEPT !.step = "writeBody", !.on = c] \in Request
        /\ [idle EXCEPT !.step = "unlinkBody", !.on = c] \in Request
    BY DEF idle, Request, BodyRequest
  <2>2. requests' \in [RequestIds -> Request]
    BY <1>1, <2>1, GoOnType DEF CreateComment, UpdateComment, DeleteComment
  <2>. QED
    BY <1>1, <2>2 DEF CreateComment, UpdateComment, DeleteComment, insertRow,
       deleteRows, linksWithout, TypeOK
<1>2. CASE WriteBody(id) \/ WriteBodyFails(id)
  <2>1. r \in BodyRequest
    BY <1>2, RequestKinds DEF WriteBody, WriteBodyFails
  <2>2. requests' \in [RequestIds -> Request] /\ r.on \in Comments
    BY <1>2, <2>1, GoOnType, IdleIsRequest
    DEF WriteBody, WriteBodyFails, end, BodyRequest
  <2>. QED
    BY <1>2, <2>2 DEF WriteBody, WriteBodyFails, TypeOK
<1>3. CASE UnlinkBody(id)
  BY <1>3, SweepType DEF UnlinkBody, TypeOK
<1>4. CASE UnlinkFileFails(id)
  BY <1>4, GoOnType, IdleIsRequest DEF UnlinkFileFails, end, TypeOK
<1>. QED
  BY <1>1, <1>2, <1>3, <1>4 DEF CommentHandlers

\* Every step keeps the types, a crash included.
LEMMA NextTypeOK == TypeOK /\ [Next]_vars => TypeOK'
<1>. SUFFICES ASSUME TypeOK, [Next]_vars
              PROVE  TypeOK'
  OBVIOUS
<1>1. CASE Crash /\ UNCHANGED <<journals, bodies>>
  BY <1>1, IdleIsRequest DEF Crash, TypeOK
<1>2. CASE UNCHANGED vars
  BY <1>2 DEF vars, attachmentVars, TypeOK
<1>. QED
  BY <1>1, <1>2, AttachmentHandlersTypeOK, IssueHandlersTypeOK,
     CommentHandlersTypeOK DEF Next

\* The tables, the files and the requests under way keep their types.
THEOREM IssueTypes == Spec => []TypeOK
BY InitTypeOK, NextTypeOK, PTL DEF Spec

-----------------------------------------------------------------------------
\* With deleted rows go their links, and no link is made.
LEMMA RowsTakeTheirLinks ==
    ASSUME TypeOK, AttachmentInv, NEW c, deleteRows(c)
    PROVE  linksOnlyGo
BY DEF deleteRows, linksWithout, linksOnlyGo, TypeOK, AttachmentInv,
   LinkedAttachmentsAreStored

\* Only uploads and sweeps have attachments in hand.
LEMMA OthersHoldNothing ==
    ASSUME NEW r \in JournalRequest \cup DeleteIssueRequest \cup BodyRequest
    PROVE  heldBy(r) = {} /\ r.step \notin uploadSteps
<1>1. Comments \cap Attachments = {}
  BY ContainerKinds, IdsDoNotMix
<1>. QED
  BY <1>1, NoneIsNothing
  DEF heldBy, uploadSteps, JournalRequest, DeleteIssueRequest, BodyRequest

\* Requests on issues and journals keep the invariant.
LEMMA IssueHandlersInv ==
    ASSUME TypeOK, AttachmentInv, NEW id \in RequestIds, IssueHandlers(id)
    PROVE  AttachmentInv'
<1>. DEFINE r == requests[id]
            others == JournalRequest \cup DeleteIssueRequest \cup BodyRequest
<1>. AttachmentTypes
  BY TypesOfAttachments
<1>0. r \in Request
  BY DEF TypeOK
<1>a. ASSUME NEW n \in others, goOn(id, n), linksOnlyGo, used \subseteq used',
             attachments' = attachments, blobs' = blobs
      PROVE  AttachmentInv'
  BY <1>a, QuietStep, OthersHoldNothing
<1>b. ASSUME end(id), linksOnlyGo, used \subseteq used',
             attachments' = attachments, blobs' = blobs
      PROVE  AttachmentInv'
  BY <1>b, QuietStep, IdleHoldsNothing DEF end
<1>. USE <1>0, ContainerKinds DEF attachmentsStay
<1>1. ASSUME NEW i \in Issues, CreateIssue(id, i)
      PROVE  AttachmentInv'
  <2>1. [idle EXCEPT !.step = "createJournal", !.on = i] \in others
    BY DEF idle, JournalRequest
  <2>. QED
    BY <1>1, <1>a, <2>1, LinksStay DEF CreateIssue, insertRow
<1>2. ASSUME NEW i \in Issues, BeginDeleteIssue(id, i)
      PROVE  AttachmentInv'
  <2>1. [idle EXCEPT !.step = "unlinkBodies", !.on = i, !.ids = commentsOf(i)]
          \in others
    BY DEF idle, DeleteIssueRequest, commentsOf
  <2>. QED
    BY <1>2, <1>a, <2>1, LinksStay DEF BeginDeleteIssue
<1>3. ASSUME NEW c \in Containers, UpdateJournal(id, c)
      PROVE  AttachmentInv'
  <2>1. c \in {Project} \cup Issues
    BY <1>3 DEF UpdateJournal
  <2>2. [idle EXCEPT !.step = "writeJournal", !.on = c] \in others
    BY <2>1 DEF idle, JournalRequest
  <2>. QED
    BY <1>3, <1>a, <2>2, LinksStay DEF UpdateJournal
<1>4. CASE WriteJournal(id)
  BY <1>4, <1>b, LinksStay DEF WriteJournal
<1>5. CASE WriteJournalFails(id)
  <2>1. linksOnlyGo
    BY <1>5, LinksStay, RowsTakeTheirLinks DEF WriteJournalFails
  <2>. QED
    BY <1>5, <1>b, <2>1 DEF WriteJournalFails
<1>6. ASSUME NEW c \in Comments, UnlinkNextBody(id, c)
      PROVE  AttachmentInv'
  <2>1. r \in DeleteIssueRequest
    BY <1>6, RequestKinds DEF UnlinkNextBody
  <2>2. [r EXCEPT !.ids = @ \ {c}] \in others
    BY <2>1 DEF DeleteIssueRequest
  <2>. QED
    BY <1>6, <1>a, <2>2, LinksStay DEF UnlinkNextBody
<1>7. CASE DeleteIssueRow(id)
  <2>1. r \in DeleteIssueRequest /\ r.ids = {}
    BY <1>7, RequestKinds DEF DeleteIssueRow
  <2>2. [r EXCEPT !.step = "unlinkJournal"] \in others
    BY <2>1 DEF DeleteIssueRequest, JournalRequest
  <2>. QED
    BY <1>7, <1>a, <2>2, RowsTakeTheirLinks DEF DeleteIssueRow
<1>8. CASE UnlinkJournal(id)
  <2>1. linksOnlyGo
    BY <1>8, LinksStay DEF UnlinkJournal
  <2>2. CASE r.on = Project
    BY <1>8, <1>b, <2>1, <2>2 DEF UnlinkJournal
  <2>3. CASE r.on # Project
    BY <1>8, <2>1, <2>3, SweepStep DEF UnlinkJournal, TypeOK
  <2>. QED
    BY <2>2, <2>3
<1>9. CASE DeleteProject(id)
  <2>1. [idle EXCEPT !.step = "unlinkJournal", !.on = Project] \in others
    BY DEF idle, JournalRequest
  <2>. QED
    BY <1>9, <1>a, <2>1, RowsTakeTheirLinks DEF DeleteProject
<1>. QED
  BY <1>1, <1>2, <1>3, <1>4, <1>5, <1>6, <1>7, <1>8, <1>9 DEF IssueHandlers

\* Requests on comments keep the invariant.
LEMMA CommentHandlersInv ==
    ASSUME TypeOK, AttachmentInv, NEW id \in RequestIds, CommentHandlers(id)
    PROVE  AttachmentInv'
<1>. AttachmentTypes
  BY TypesOfAttachments
<1>. USE DEF attachmentsStay
<1>1. ASSUME NEW c \in Comments,
             CreateComment(id, c) \/ UpdateComment(id, c) \/ DeleteComment(id, c)
      PROVE  AttachmentInv'
  <2>1. /\ [idle EXCEPT !.step = "writeBody", !.on = c] \in BodyRequest
        /\ [idle EXCEPT !.step = "unlinkBody", !.on = c] \in BodyRequest
    BY DEF idle, BodyRequest
  <2>2. linksOnlyGo
    BY <1>1, LinksStay, RowsTakeTheirLinks
    DEF CreateComment, UpdateComment, DeleteComment, insertRow
  <2>. QED
    BY <1>1, <2>1, <2>2, QuietStep, OthersHoldNothing
    DEF CreateComment, UpdateComment, DeleteComment, insertRow
<1>2. CASE WriteBody(id) \/ WriteBodyFails(id) \/ UnlinkFileFails(id)
  BY <1>2, QuietStep, IdleHoldsNothing, LinksStay
  DEF WriteBody, WriteBodyFails, UnlinkFileFails, end
<1>3. CASE UnlinkBody(id)
  BY <1>3, SweepStep, LinksStay DEF UnlinkBody, TypeOK
<1>. QED
  BY <1>1, <1>2, <1>3 DEF CommentHandlers

\* The first state has no attachment and nothing in hand.
LEMMA InitAttachmentInv == Init => AttachmentInv
BY NoAttachments DEF Init

\* The invariant is inductive with the types.
LEMMA NextAttachmentInv ==
    TypeOK /\ AttachmentInv /\ [Next]_vars => AttachmentInv'
BY TypesOfAttachments, AttachmentHandlersInv, IssueHandlersInv,
   CommentHandlersInv, CrashKeepsAttachments, AttachmentsStay DEF Next, vars

\* The row, the blob and the container of a linked attachment are always
\* there, whatever uploads, deletes and sweeps of discussion-attachment.service
\* have met, and whichever of them failed.
THEOREM LinkedAreStored == Spec => []LinkedAttachmentsAreStored
<1>1. TypeOK /\ AttachmentInv /\ [Next]_vars => (TypeOK /\ AttachmentInv)'
  BY NextTypeOK, NextAttachmentInv
<1>2. AttachmentInv => LinkedAttachmentsAreStored
  BY DEF AttachmentInv
<1>. QED
  BY <1>1, <1>2, InitTypeOK, InitAttachmentInv, PTL DEF Spec

-----------------------------------------------------------------------------
(***************************************************************************)
(* Blobs, as long as no file operation fails and the server does not crash *)
(***************************************************************************)

\* A request that holds the name of a blob without a row.
transientSteps == {"insertAttachment", "unlinkBlob"}

\* A sweep deletes a row when its blob is gone.
SweptBlobsAreGone ==
    \A id \in RequestIds :
        requests[id].step = "deleteOrphan" => requests[id].attachment \notin blobs

BlobInv == SweptBlobsAreGone /\ UnnamedBlobsAreTransient

\* A blob without a row keeps the request that has its name.
LEMMA NamesStay ==
    ASSUME UnnamedBlobsAreTransient, failed' = failed, NEW id \in RequestIds,
           NEW n,
           \A x \in RequestIds : requests'[x] = IF x = id THEN n ELSE requests[x],
           \A b \in blobs' \ attachments' :
              \/ n.step \in transientSteps /\ n.attachment = b
              \/ /\ b \in blobs \ attachments
                 /\ \/ requests[id].step \notin transientSteps
                    \/ requests[id].attachment # b
    PROVE  UnnamedBlobsAreTransient'
<1>. SUFFICES ASSUME ~ failed, NEW b \in blobs' \ attachments'
              PROVE  \E x \in RequestIds :
                        /\ requests'[x].attachment = b
                        /\ requests'[x].step \in transientSteps
  BY DEF UnnamedBlobsAreTransient, transientSteps
<1>1. CASE n.step \in transientSteps /\ n.attachment = b
  BY <1>1
<1>2. CASE /\ b \in blobs \ attachments
           /\ \/ requests[id].step \notin transientSteps
              \/ requests[id].attachment # b
  <2>1. PICK x \in RequestIds : /\ requests[x].attachment = b
                               /\ requests[x].step \in transientSteps
    BY <1>2 DEF UnnamedBlobsAreTransient, transientSteps
  <2>. QED
    BY <1>2, <2>1
<1>. QED
  BY <1>1, <1>2

\* A step that stores no blob, drops no row and does not end an upload.
LEMMA QuietBlobs ==
    ASSUME TypeOK, BlobInv, NEW id \in RequestIds, NEW n, goOn(id, n),
           n.step # "deleteOrphan",
           \/ failed'
           \/ failed' = failed /\ requests[id].step \notin transientSteps,
           blobs' \subseteq blobs, attachments \subseteq attachments'
    PROVE  BlobInv'
<1>1. \A x \in RequestIds : requests'[x] = IF x = id THEN n ELSE requests[x]
  BY DEF goOn, TypeOK
<1>2. SweptBlobsAreGone'
  BY <1>1 DEF BlobInv, SweptBlobsAreGone
<1>3. CASE failed'
  BY <1>2, <1>3 DEF BlobInv, UnnamedBlobsAreTransient
<1>4. CASE failed' = failed /\ requests[id].step \notin transientSteps
  BY <1>1, <1>2, <1>4 DEF BlobInv, UnnamedBlobsAreTransient, transientSteps
<1>. QED
  BY <1>3, <1>4

\* The begin of a sweep is such a step.
LEMMA SweepKeepsBlobs ==
    ASSUME TypeOK, BlobInv, NEW id \in RequestIds, NEW links,
           sweepOrphans(id, links), requests[id].step \notin transientSteps,
           failed' = failed, blobs' = blobs, attachments' = attachments
    PROVE  BlobInv'
<1>. DEFINE n == [idle EXCEPT !.step = "unlinkOrphan",
                              !.ids = {a \in attachments : links[a] = None}]
<1>1. idle.step # "deleteOrphan" /\ n.step # "deleteOrphan"
  BY DEF idle
<1>2. goOn(id, idle) \/ goOn(id, n)
  BY DEF sweepOrphans, end
<1>. QED
  BY <1>1, <1>2, QuietBlobs

\* Uploads, unlinking and sweeps: a blob is named by its upload until it is
\* named by its row, and a row goes after its blob.
LEMMA AttachmentHandlersKeepBlobs ==
    ASSUME TypeOK, AttachmentInv, BlobInv, AttachmentHandlers
    PROVE  BlobInv'
<1>. PICK id \in RequestIds :
        \/ \E a \in Attachments :
              \/ \E c \in Containers : BeginUpload(id, c, a)
              \/ DeleteAttachmentLink(id, a)
              \/ UnlinkOrphan(id, a)
        \/ WriteBlob(id)
        \/ InsertAttachment(id)
        \/ UnlinkBlob(id)
        \/ DeleteOrphan(id)
        \/ SweepElsewhere(id)
        \/ WriteBlobFails(id)
        \/ UnlinkFails(id)
  BY DEF AttachmentHandlers, AttachmentSteps
<1>. DEFINE r == requests[id]
            others(n) == \A x \in RequestIds :
                            requests'[x] = IF x = id THEN n ELSE requests[x]
<1>a. r \in Request
  BY DEF TypeOK
<1>b. ASSUME NEW n, goOn(id, n)
      PROVE  others(n)
  BY <1>b DEF goOn, TypeOK
<1>c. ASSUME NEW x \in RequestIds, requests[x].step = "deleteOrphan"
      PROVE  requests[x].attachment \in heldBy(requests[x])
  BY <1>c, RequestKinds DEF TypeOK, SweepRequest, heldBy
<1>d. ASSUME r.step = "writeBlob",
             NEW x \in RequestIds \ {id}, requests[x].step = "deleteOrphan"
      PROVE  requests[x].attachment # r.attachment
  BY <1>c, <1>d DEF AttachmentInv, UploadsOwnTheirId, uploadSteps
<1>1. ASSUME NEW a \in Attachments, NEW c \in Containers, BeginUpload(id, c, a)
      PROVE  BlobInv'
  <2>. DEFINE n == [idle EXCEPT !.step = "writeBlob", !.on = c, !.attachment = a]
  <2>1. goOn(id, n) /\ r = idle
    BY <1>1 DEF BeginUpload, isFree
  <2>2. n.step = "writeBlob" /\ idle.step = "idle"
    BY DEF idle
  <2>. QED
    BY <1>1, <2>1, <2>2, QuietBlobs DEF BeginUpload, transientSteps
<1>2. ASSUME NEW a \in Attachments, DeleteAttachmentLink(id, a)
      PROVE  BlobInv'
  BY <1>2, SweepKeepsBlobs DEF DeleteAttachmentLink, isFree, idle, transientSteps
<1>3. ASSUME NEW a \in Attachments, UnlinkOrphan(id, a)
      PROVE  BlobInv'
  <2>. DEFINE n == [r EXCEPT !.step = "deleteOrphan", !.attachment = a,
                             !.ids = @ \ {a}]
  <2>1. others(n) /\ r \in SweepRequest /\ r.step = "unlinkOrphan"
    BY <1>3, <1>a, <1>b, RequestKinds DEF UnlinkOrphan
  <2>2. n.attachment = a
    BY <2>1 DEF SweepRequest
  <2>3. SweptBlobsAreGone'
    BY <1>3, <2>1, <2>2 DEF BlobInv, SweptBlobsAreGone, UnlinkOrphan
  <2>4. UnnamedBlobsAreTransient'
    BY <1>3, <2>1, NamesStay DEF BlobInv, UnlinkOrphan, transientSteps
  <2>. QED
    BY <2>3, <2>4 DEF BlobInv
<1>4. CASE WriteBlob(id)
  <2>. DEFINE n == [r EXCEPT !.step = "insertAttachment"]
  <2>1. others(n) /\ r \in UploadRequest /\ r.step = "writeBlob"
    BY <1>4, <1>a, <1>b, RequestKinds DEF WriteBlob
  <2>2. n.attachment = r.attachment /\ n.step = "insertAttachment"
    BY <2>1 DEF UploadRequest
  <2>3. SweptBlobsAreGone'
    BY <1>4, <1>d, <2>1, <2>2 DEF BlobInv, SweptBlobsAreGone, WriteBlob
  <2>4. UnnamedBlobsAreTransient'
    BY <1>4, <2>1, <2>2, NamesStay DEF BlobInv, WriteBlob, transientSteps
  <2>. QED
    BY <2>3, <2>4 DEF BlobInv
<1>5. CASE InsertAttachment(id)
  <2>. DEFINE n == [r EXCEPT !.step = "unlinkBlob"]
  <2>1. r \in UploadRequest /\ r.step = "insertAttachment"
    BY <1>5, <1>a, RequestKinds DEF InsertAttachment
  <2>2. n.attachment = r.attachment /\ n.step = "unlinkBlob"
    BY <2>1 DEF UploadRequest
  <2>3. blobs' = blobs /\ failed' = failed /\ idle.step = "idle"
    BY <1>5 DEF InsertAttachment, idle
  <2>4. CASE attachments' = attachments \cup {r.attachment} /\ others(idle)
    <3>1. SweptBlobsAreGone'
      BY <2>3, <2>4 DEF BlobInv, SweptBlobsAreGone
    <3>2. UnnamedBlobsAreTransient'
      BY <2>3, <2>4, NamesStay DEF BlobInv, transientSteps
    <3>. QED
      BY <3>1, <3>2 DEF BlobInv
  <2>5. CASE attachments \subseteq attachments' /\ others(n)
    <3>1. SweptBlobsAreGone'
      BY <2>2, <2>3, <2>5 DEF BlobInv, SweptBlobsAreGone
    <3>2. UnnamedBlobsAreTransient'
      BY <2>2, <2>3, <2>5, NamesStay DEF BlobInv, transientSteps
    <3>. QED
      BY <3>1, <3>2 DEF BlobInv
  <2>6. \/ attachments' = attachments \cup {r.attachment} /\ others(idle)
        \/ attachments \subseteq attachments' /\ others(n)
    BY <1>5, <1>b DEF InsertAttachment, end
  <2>. QED
    BY <2>4, <2>5, <2>6
<1>6. CASE UnlinkBlob(id)
  <2>1. others(idle) /\ idle.step # "deleteOrphan"
    BY <1>6, <1>b DEF UnlinkBlob, end, idle
  <2>2. SweptBlobsAreGone'
    BY <1>6, <2>1 DEF BlobInv, SweptBlobsAreGone, UnlinkBlob
  <2>3. UnnamedBlobsAreTransient'
    BY <1>6, <2>1 DEF BlobInv, UnnamedBlobsAreTransient, UnlinkBlob
  <2>. QED
    BY <2>2, <2>3 DEF BlobInv
<1>7. CASE DeleteOrphan(id)
  <2>1. PICK n : others(n) /\ n.step # "deleteOrphan"
    <3>1. r \in SweepRequest /\ r.step = "deleteOrphan"
      BY <1>7, <1>a, RequestKinds DEF DeleteOrphan
    <3>2. /\ idle.step # "deleteOrphan"
          /\ [r EXCEPT !.step = "unlinkOrphan", !.attachment = None].step
               # "deleteOrphan"
      BY <3>1 DEF idle, SweepRequest
    <3>. QED
      BY <1>7, <1>b, <3>2 DEF DeleteOrphan
  <2>2. r.attachment \notin blobs
    BY <1>7 DEF BlobInv, SweptBlobsAreGone, DeleteOrphan
  <2>3. SweptBlobsAreGone'
    BY <1>7, <2>1 DEF BlobInv, SweptBlobsAreGone, DeleteOrphan
  <2>4. UnnamedBlobsAreTransient'
    BY <1>7, <2>1, <2>2 DEF BlobInv, UnnamedBlobsAreTransient, DeleteOrphan
  <2>. QED
    BY <2>3, <2>4 DEF BlobInv
<1>8. CASE SweepElsewhere(id)
  BY <1>8, SweepKeepsBlobs DEF SweepElsewhere, isFree, idle, transientSteps
<1>9. CASE WriteBlobFails(id)
  <2>1. others(idle) /\ idle.step # "deleteOrphan"
    BY <1>9, <1>b DEF WriteBlobFails, end, idle
  <2>. QED
    BY <1>9, <1>d, <2>1
    DEF BlobInv, SweptBlobsAreGone, UnnamedBlobsAreTransient, WriteBlobFails
<1>10. CASE UnlinkFails(id)
  BY <1>10, QuietBlobs DEF UnlinkFails, end, idle
<1>. QED
  BY <1>1, <1>2, <1>3, <1>4, <1>5, <1>6, <1>7, <1>8, <1>9, <1>10

\* Requests on issues, journals and comments leave uploads and blobs alone.
LEMMA OtherHandlersKeepBlobs ==
    ASSUME TypeOK, BlobInv, NEW id \in RequestIds,
           IssueHandlers(id) \/ CommentHandlers(id)
    PROVE  BlobInv'
<1>. DEFINE r == requests[id]
<1>a. r \in Request /\ idle.step = "idle"
  BY DEF TypeOK, idle
<1>. USE <1>a DEF attachmentsStay, transientSteps
<1>1. ASSUME NEW i \in Issues, CreateIssue(id, i) \/ BeginDeleteIssue(id, i)
      PROVE  BlobInv'
  <2>1. /\ [idle EXCEPT !.step = "createJournal", !.on = i].step # "deleteOrphan"
        /\ [idle EXCEPT !.step = "unlinkBodies", !.on = i,
                         !.ids = commentsOf(i)].step # "deleteOrphan"
    BY DEF idle
  <2>. QED
    BY <1>1, <2>1, QuietBlobs DEF CreateIssue, BeginDeleteIssue, isFree
<1>2. ASSUME NEW c \in Containers, UpdateJournal(id, c)
      PROVE  BlobInv'
  <2>1. [idle EXCEPT !.step = "writeJournal", !.on = c].step # "deleteOrphan"
    BY DEF idle
  <2>. QED
    BY <1>2, <2>1, QuietBlobs DEF UpdateJournal, isFree
<1>3. CASE WriteJournal(id) \/ WriteJournalFails(id)
  BY <1>3, QuietBlobs DEF WriteJournal, WriteJournalFails, end
<1>4. ASSUME NEW c \in Comments, UnlinkNextBody(id, c)
      PROVE  BlobInv'
  <2>1. r \in DeleteIssueRequest
    BY <1>4, RequestKinds DEF UnlinkNextBody
  <2>2. [r EXCEPT !.ids = @ \ {c}].step # "deleteOrphan"
    BY <2>1 DEF DeleteIssueRequest
  <2>. QED
    BY <1>4, <2>2, QuietBlobs DEF UnlinkNextBody
<1>5. CASE DeleteIssueRow(id)
  <2>1. r \in DeleteIssueRequest
    BY <1>5, RequestKinds DEF DeleteIssueRow
  <2>2. [r EXCEPT !.step = "unlinkJournal"].step # "deleteOrphan"
    BY <2>1 DEF DeleteIssueRequest
  <2>. QED
    BY <1>5, <2>2, QuietBlobs DEF DeleteIssueRow
<1>6. CASE UnlinkJournal(id)
  BY <1>6, QuietBlobs, SweepKeepsBlobs DEF UnlinkJournal, end
<1>7. CASE DeleteProject(id)
  <2>1. [idle EXCEPT !.step = "unlinkJournal", !.on = Project].step
          # "deleteOrphan"
    BY DEF idle
  <2>. QED
    BY <1>7, <2>1, QuietBlobs DEF DeleteProject, isFree
<1>8. ASSUME NEW c \in Comments,
             CreateComment(id, c) \/ UpdateComment(id, c) \/ DeleteComment(id, c)
      PROVE  BlobInv'
  <2>1. /\ [idle EXCEPT !.step = "writeBody", !.on = c].step # "deleteOrphan"
        /\ [idle EXCEPT !.step = "unlinkBody", !.on = c].step # "deleteOrphan"
    BY DEF idle
  <2>. QED
    BY <1>8, <2>1, QuietBlobs
    DEF CreateComment, UpdateComment, DeleteComment, isFree
<1>9. CASE WriteBody(id) \/ WriteBodyFails(id) \/ UnlinkFileFails(id)
  BY <1>9, QuietBlobs DEF WriteBody, WriteBodyFails, UnlinkFileFails, end
<1>10. CASE UnlinkBody(id)
  BY <1>10, SweepKeepsBlobs DEF UnlinkBody
<1>. QED
  BY <1>1, <1>2, <1>3, <1>4, <1>5, <1>6, <1>7, <1>8, <1>9, <1>10
  DEF IssueHandlers, CommentHandlers

\* BlobInv is inductive with the invariant of IssueProofs.
LEMMA NextBlobInv ==
    TypeOK /\ AttachmentInv /\ BlobInv /\ [Next]_vars => BlobInv'
<1>. SUFFICES ASSUME TypeOK, AttachmentInv, BlobInv, [Next]_vars
              PROVE  BlobInv'
  OBVIOUS
<1>1. CASE Crash
  BY <1>1 DEF Crash, BlobInv, SweptBlobsAreGone, UnnamedBlobsAreTransient, idle
<1>2. CASE UNCHANGED vars
  BY <1>2 DEF vars, attachmentVars, BlobInv, SweptBlobsAreGone,
     UnnamedBlobsAreTransient
<1>. QED
  BY <1>1, <1>2, AttachmentHandlersKeepBlobs, OtherHandlersKeepBlobs DEF Next

\* While no file operation fails, removeOrphanAttachmentsAndFiles and
\* persistAttachmentAndInsert leave no blob behind that nothing names.
THEOREM UnnamedAreTransient == Spec => []UnnamedBlobsAreTransient
<1>1. TypeOK /\ AttachmentInv /\ BlobInv /\ [Next]_vars
        => (TypeOK /\ AttachmentInv /\ BlobInv)'
  BY NextTypeOK, NextAttachmentInv, NextBlobInv
<1>2. Init => BlobInv
  BY DEF Init, BlobInv, SweptBlobsAreGone, UnnamedBlobsAreTransient, idle
<1>3. BlobInv => UnnamedBlobsAreTransient
  BY DEF BlobInv
<1>. QED
  BY <1>1, <1>2, <1>3, InitTypeOK, InitAttachmentInv, PTL DEF Spec

-----------------------------------------------------------------------------
(***************************************************************************)
(* Journals and bodies.                                                    *)
(***************************************************************************)

\* A request that unlinks a file has deleted the row, or is about to delete it
\* with the issue; ids are not used again, so no new row comes to miss the file.
UnlinkedAreGone ==
    \A id \in RequestIds : LET r == requests[id] IN
        /\ r.step = "unlinkBodies" =>
              /\ r.on \in used
              /\ r.ids \subseteq {c \in Comments : IssueOf[c] = r.on}
        /\ r.step \in {"unlinkBody", "unlinkJournal"} => r.on \in used \ live

ContentInv ==
    /\ live \subseteq used
    /\ UnlinkedAreGone
    /\ SettledContentIsStored

writingSteps == {"writeBody", "unlinkBodies", "createJournal"}

unlinkingSteps == {"unlinkBodies", "unlinkBody", "unlinkJournal"}

\* A row waits for a request, until there is its file.
bodyIsOn(c, r) ==
    \/ r.step = "writeBody" /\ r.on = c
    \/ r.step = "unlinkBodies" /\ r.on = IssueOf[c]

journalIsOn(i, r) == r.step = "createJournal" /\ r.on = i

\* A step of one request keeps content settled if it provides for the rows that
\* it adds, for those whose file it unlinks, and for those that wait for it.
LEMMA ContentStays ==
    ASSUME SettledContentIsStored, failed' = failed, NEW id \in RequestIds,
           NEW n,
           \A x \in RequestIds : requests'[x] = IF x = id THEN n ELSE requests[x],
           \A c \in Comments \cap live' :
              \/ c \in bodies' \/ bodyIsOn(c, n)
              \/ /\ c \in live /\ (c \in bodies => c \in bodies')
                 /\ ~ bodyIsOn(c, requests[id]),
           \A i \in Issues \cap live' :
              \/ i \in journals' \/ journalIsOn(i, n)
              \/ /\ i \in live /\ (i \in journals => i \in journals')
                 /\ ~ journalIsOn(i, requests[id])
    PROVE  SettledContentIsStored'
<1>1. ASSUME ~ failed, NEW c \in Comments \cap live', c \notin bodies'
      PROVE  \E x \in RequestIds : bodyIsOn(c, requests'[x])
  <2>1. CASE bodyIsOn(c, n)
    BY <2>1
  <2>2. CASE /\ c \in live /\ c \notin bodies
             /\ ~ bodyIsOn(c, requests[id])
    <3>1. PICK x \in RequestIds : bodyIsOn(c, requests[x])
      BY <1>1, <2>2 DEF SettledContentIsStored, bodyIsOn
    <3>. QED
      BY <2>2, <3>1
  <2>. QED
    BY <1>1, <2>1, <2>2
<1>2. ASSUME ~ failed, NEW i \in Issues \cap live', i \notin journals'
      PROVE  \E x \in RequestIds : journalIsOn(i, requests'[x])
  <2>1. CASE journalIsOn(i, n)
    BY <2>1
  <2>2. CASE /\ i \in live /\ i \notin journals
             /\ ~ journalIsOn(i, requests[id])
    <3>1. PICK x \in RequestIds : journalIsOn(i, requests[x])
      BY <1>2, <2>2 DEF SettledContentIsStored, journalIsOn
    <3>. QED
      BY <2>2, <3>1
  <2>. QED
    BY <1>2, <2>1, <2>2
<1>. QED
  BY <1>1, <1>2 DEF SettledContentIsStored, bodyIsOn, journalIsOn

\* A step that adds no row, unlinks nothing, and ends no request that a row
\* waits for, unless it fails.
LEMMA QuietContent ==
    ASSUME TypeOK, ContentInv, NEW id \in RequestIds, NEW n, goOn(id, n),
           n.step \notin unlinkingSteps,
           \/ failed'
           \/ failed' = failed /\ requests[id].step \notin writingSteps,
           live' \subseteq live, used \subseteq used',
           bodies \subseteq bodies', journals \subseteq journals'
    PROVE  ContentInv'
<1>1. \A x \in RequestIds : requests'[x] = IF x = id THEN n ELSE requests[x]
  BY DEF goOn, TypeOK
<1>2. UnlinkedAreGone'
  BY <1>1 DEF ContentInv, UnlinkedAreGone, unlinkingSteps
<1>3. SettledContentIsStored'
  <2>1. CASE failed'
    BY <2>1 DEF SettledContentIsStored
  <2>2. CASE failed' = failed /\ requests[id].step \notin writingSteps
    BY <1>1, <2>2 DEF ContentInv, SettledContentIsStored, writingSteps
  <2>. QED
    BY <2>1, <2>2
<1>. QED
  BY <1>2, <1>3 DEF ContentInv

\* The begin of a sweep is such a step, whatever file was unlinked with it.
LEMMA SweepIsQuiet ==
    ASSUME TypeOK, NEW id \in RequestIds, NEW links, sweepOrphans(id, links)
    PROVE  \E n : goOn(id, n) /\ n.step \notin unlinkingSteps \cup writingSteps
<1>. DEFINE n == [idle EXCEPT !.step = "unlinkOrphan",
                              !.ids = {a \in attachments : links[a] = None}]
<1>1. goOn(id, idle) \/ goOn(id, n)
  BY DEF sweepOrphans, end
<1>2. idle.step = "idle" /\ n.step = "unlinkOrphan"
  BY DEF idle
<1>. QED
  BY <1>1, <1>2 DEF unlinkingSteps, writingSteps

\* Uploads and sweeps touch neither rows of containers nor their files.
LEMMA AttachmentHandlersKeepContent ==
    ASSUME TypeOK, ContentInv, AttachmentHandlers, UNCHANGED <<journals, bodies>>
    PROVE  ContentInv'
<1>. PICK id \in RequestIds :
        \/ \E a \in Attachments :
              \/ \E c \in Containers : BeginUpload(id, c, a)
              \/ DeleteAttachmentLink(id, a)
              \/ UnlinkOrphan(id, a)
        \/ WriteBlob(id)
        \/ InsertAttachment(id)
        \/ UnlinkBlob(id)
        \/ DeleteOrphan(id)
        \/ SweepElsewhere(id)
        \/ WriteBlobFails(id)
        \/ UnlinkFails(id)
  BY DEF AttachmentHandlers, AttachmentSteps
<1>. DEFINE r == requests[id]
<1>a. r \in Request /\ idle.step = "idle"
  BY DEF TypeOK, idle
<1>. USE <1>a DEF unlinkingSteps, writingSteps
<1>1. ASSUME NEW a \in Attachments, NEW c \in Containers, BeginUpload(id, c, a)
      PROVE  ContentInv'
  <2>1. [idle EXCEPT !.step = "writeBlob", !.on = c, !.attachment = a].step
          = "writeBlob"
    BY DEF idle
  <2>. QED
    BY <1>1, <2>1, QuietContent DEF BeginUpload, isFree
<1>2. ASSUME NEW a \in Attachments, DeleteAttachmentLink(id, a)
      PROVE  ContentInv'
  BY <1>2, SweepIsQuiet, QuietContent DEF DeleteAttachmentLink, isFree
<1>3. CASE \/ \E a \in Attachments : UnlinkOrphan(id, a)
           \/ DeleteOrphan(id)
  <2>1. r \in SweepRequest
    BY <1>3, RequestKinds DEF UnlinkOrphan, DeleteOrphan
  <2>2. /\ \A a : [r EXCEPT !.step = "deleteOrphan", !.attachment = a,
                            !.ids = @ \ {a}].step = "deleteOrphan"
        /\ [r EXCEPT !.step = "unlinkOrphan", !.attachment = None].step
             = "unlinkOrphan"
    BY <2>1 DEF SweepRequest
  <2>. QED
    BY <1>3, <2>2, QuietContent DEF UnlinkOrphan, DeleteOrphan
<1>4. CASE WriteBlob(id) \/ InsertAttachment(id)
  <2>1. r \in UploadRequest
    BY <1>4, RequestKinds DEF WriteBlob, InsertAttachment
  <2>2. /\ [r EXCEPT !.step = "insertAttachment"].step = "insertAttachment"
        /\ [r EXCEPT !.step = "unlinkBlob"].step = "unlinkBlob"
    BY <2>1 DEF UploadRequest
  <2>. QED
    BY <1>4, <2>2, QuietContent DEF WriteBlob, InsertAttachment, end
<1>5. CASE UnlinkBlob(id) \/ WriteBlobFails(id) \/ UnlinkFails(id)
  BY <1>5, QuietContent DEF UnlinkBlob, WriteBlobFails, UnlinkFails, end
<1>6. CASE SweepElsewhere(id)
  BY <1>6, SweepIsQuiet, QuietContent DEF SweepElsewhere, isFree
<1>. QED
  BY <1>1, <1>2, <1>3, <1>4, <1>5, <1>6

\* Requests on issues and journals.
LEMMA IssueHandlersKeepContent ==
    ASSUME TypeOK, ContentInv, NEW id \in RequestIds, IssueHandlers(id)
    PROVE  ContentInv'
<1>. DEFINE r == requests[id]
            others(n) == \A x \in RequestIds :
                            requests'[x] = IF x = id THEN n ELSE requests[x]
<1>a. r \in Request /\ idle.step = "idle"
  BY DEF TypeOK, idle
<1>b. ASSUME NEW n, goOn(id, n)
      PROVE  others(n)
  BY <1>b DEF goOn, TypeOK
<1>. USE <1>a, ContainerKinds DEF unlinkingSteps, writingSteps
<1>1. ASSUME NEW i \in Issues, CreateIssue(id, i)
      PROVE  ContentInv'
  <2>. DEFINE n == [idle EXCEPT !.step = "createJournal", !.on = i]
  <2>1. others(n) /\ n.step = "createJournal" /\ n.on = i /\ r.step = "idle"
    BY <1>1, <1>b DEF CreateIssue, isFree, idle
  <2>2. /\ live' = live \cup {i} /\ used' = used \cup {i} /\ i \notin used
        /\ UNCHANGED <<journals, bodies, failed>>
    BY <1>1 DEF CreateIssue, insertRow
  <2>3. UnlinkedAreGone'
    BY <2>1, <2>2 DEF ContentInv, UnlinkedAreGone
  <2>4. SettledContentIsStored'
    <3>1. \A c \in Comments \cap live' :
              c \in live /\ bodies' = bodies /\ ~ bodyIsOn(c, r)
      BY <2>1, <2>2 DEF bodyIsOn
    <3>2. \A x \in Issues \cap live' :
              \/ journalIsOn(x, n)
              \/ x \in live /\ journals' = journals /\ ~ journalIsOn(x, r)
      BY <2>1, <2>2 DEF journalIsOn
    <3>3. SettledContentIsStored /\ failed' = failed
      BY <2>2 DEF ContentInv
    <3>. HIDE DEF n
    <3>. QED
      BY <2>1, <3>1, <3>2, <3>3, ContentStays
  <2>. QED
    BY <2>2, <2>3, <2>4 DEF ContentInv
<1>2. ASSUME NEW i \in Issues, BeginDeleteIssue(id, i)
      PROVE  ContentInv'
  <2>. DEFINE n == [idle EXCEPT !.step = "unlinkBodies", !.on = i,
                                !.ids = commentsOf(i)]
  <2>1. /\ others(n) /\ n.step = "unlinkBodies" /\ n.on = i
        /\ n.ids = commentsOf(i) /\ r.step = "idle" /\ i \in live
    BY <1>2, <1>b DEF BeginDeleteIssue, isFree, idle
  <2>2. UNCHANGED <<live, used, journals, bodies, failed>>
    BY <1>2 DEF BeginDeleteIssue
  <2>3. UnlinkedAreGone'
    <3>1. commentsOf(i) \subseteq {c \in Comments : IssueOf[c] = i} /\ i \in used
      BY <2>1 DEF ContentInv, commentsOf
    <3>2. n.ids \subseteq {c \in Comments : IssueOf[c] = n.on} /\ n.on \in used
      BY <2>1, <3>1
    <3>. HIDE DEF n
    <3>. QED
      BY <2>1, <2>2, <3>2 DEF ContentInv, UnlinkedAreGone
  <2>4. SettledContentIsStored'
    BY <2>1, <2>2, ContentStays DEF ContentInv, bodyIsOn, journalIsOn
  <2>. QED
    BY <2>2, <2>3, <2>4 DEF ContentInv
<1>3. ASSUME NEW c \in Containers, UpdateJournal(id, c)
      PROVE  ContentInv'
  <2>1. [idle EXCEPT !.step = "writeJournal", !.on = c].step = "writeJournal"
    BY DEF idle
  <2>. QED
    BY <1>3, <2>1, QuietContent DEF UpdateJournal, isFree
<1>4. CASE WriteJournal(id)
  <2>1. others(idle) /\ UNCHANGED <<live, used, bodies, failed>>
    BY <1>4, <1>b DEF WriteJournal, end
  <2>2. /\ journals' = journals \cup {r.on}
        /\ r.step \in {"createJournal", "writeJournal"}
    BY <1>4 DEF WriteJournal
  <2>3. UnlinkedAreGone'
    BY <2>1 DEF ContentInv, UnlinkedAreGone
  <2>4. SettledContentIsStored'
    BY <2>1, <2>2, ContentStays DEF ContentInv, bodyIsOn, journalIsOn
  <2>. QED
    BY <2>1, <2>3, <2>4 DEF ContentInv
<1>5. CASE WriteJournalFails(id)
  BY <1>5, QuietContent DEF WriteJournalFails, deleteRows, end
<1>6. ASSUME NEW c \in Comments, UnlinkNextBody(id, c)
      PROVE  ContentInv'
  <2>. DEFINE n == [r EXCEPT !.ids = @ \ {c}]
  <2>1. r \in DeleteIssueRequest /\ r.step = "unlinkBodies" /\ c \in r.ids
    BY <1>6, RequestKinds DEF UnlinkNextBody
  <2>2. n.step = "unlinkBodies" /\ n.on = r.on /\ n.ids = r.ids \ {c}
    BY <2>1 DEF DeleteIssueRequest
  <2>3. /\ others(n) /\ bodies' = bodies \ {c}
        /\ UNCHANGED <<live, used, journals, failed>>
    BY <1>6, <1>b DEF UnlinkNextBody
  <2>4. IssueOf[c] = r.on
    BY <2>1 DEF ContentInv, UnlinkedAreGone
  <2>5. UnlinkedAreGone'
    BY <2>1, <2>2, <2>3 DEF ContentInv, UnlinkedAreGone
  <2>6. SettledContentIsStored'
    BY <2>1, <2>2, <2>3, <2>4, ContentStays
    DEF ContentInv, bodyIsOn, journalIsOn
  <2>. QED
    BY <2>3, <2>5, <2>6 DEF ContentInv
<1>7. CASE DeleteIssueRow(id)
  <2>. DEFINE n == [r EXCEPT !.step = "unlinkJournal"]
  <2>1. r \in DeleteIssueRequest /\ r.step = "unlinkBodies"
    BY <1>7, RequestKinds DEF DeleteIssueRow
  <2>2. n.step = "unlinkJournal" /\ n.on = r.on /\ r.on \in Issues
    BY <2>1 DEF DeleteIssueRequest
  <2>3. /\ others(n) /\ live' = live \ cascade(r.on)
        /\ UNCHANGED <<used, journals, bodies, failed>>
    BY <1>7, <1>b DEF DeleteIssueRow, deleteRows
  <2>4. cascade(r.on) = {r.on} \cup {x \in Comments : IssueOf[x] = r.on}
    BY <2>2 DEF cascade
  <2>5. UnlinkedAreGone'
    BY <2>1, <2>2, <2>3, <2>4 DEF ContentInv, UnlinkedAreGone
  <2>6. SettledContentIsStored'
    BY <2>1, <2>2, <2>3, <2>4, ContentStays
    DEF ContentInv, bodyIsOn, journalIsOn
  <2>. QED
    BY <2>3, <2>5, <2>6 DEF ContentInv
<1>8. CASE UnlinkJournal(id)
  <2>1. PICK n : goOn(id, n) /\ n.step \notin unlinkingSteps \cup writingSteps
    BY <1>8, SweepIsQuiet DEF UnlinkJournal, end
  <2>2. /\ others(n) /\ journals' = journals \ {r.on}
        /\ r.step = "unlinkJournal" /\ r.on \notin live
        /\ UNCHANGED <<live, used, bodies, failed>>
    BY <1>8, <1>b, <2>1 DEF UnlinkJournal, ContentInv, UnlinkedAreGone
  <2>3. UnlinkedAreGone'
    BY <2>1, <2>2 DEF ContentInv, UnlinkedAreGone
  <2>4. SettledContentIsStored'
    BY <2>1, <2>2, ContentStays DEF ContentInv, bodyIsOn, journalIsOn
  <2>. QED
    BY <2>2, <2>3, <2>4 DEF ContentInv
<1>9. CASE DeleteProject(id)
  <2>. DEFINE n == [idle EXCEPT !.step = "unlinkJournal", !.on = Project]
  <2>1. others(n) /\ n.step = "unlinkJournal" /\ n.on = Project /\ r.step = "idle"
    BY <1>9, <1>b DEF DeleteProject, isFree, idle
  <2>2. /\ Project \in live /\ live' = live \ Containers
        /\ UNCHANGED <<used, journals, bodies, failed>>
    BY <1>9 DEF DeleteProject, deleteRows, cascade
  <2>3. UnlinkedAreGone'
    BY <2>1, <2>2 DEF ContentInv, UnlinkedAreGone
  <2>4. SettledContentIsStored'
    BY <2>1, <2>2, ContentStays DEF ContentInv, bodyIsOn, journalIsOn
  <2>. QED
    BY <2>2, <2>3, <2>4 DEF ContentInv
<1>. QED
  BY <1>1, <1>2, <1>3, <1>4, <1>5, <1>6, <1>7, <1>8, <1>9 DEF IssueHandlers

\* Requests on comments.
LEMMA CommentHandlersKeepContent ==
    ASSUME TypeOK, ContentInv, NEW id \in RequestIds, CommentHandlers(id)
    PROVE  ContentInv'
<1>. DEFINE r == requests[id]
            others(n) == \A x \in RequestIds :
                            requests'[x] = IF x = id THEN n ELSE requests[x]
<1>a. r \in Request /\ idle.step = "idle"
  BY DEF TypeOK, idle
<1>b. ASSUME NEW n, goOn(id, n)
      PROVE  others(n)
  BY <1>b DEF goOn, TypeOK
<1>. USE <1>a, ContainerKinds DEF unlinkingSteps, writingSteps
<1>1. ASSUME NEW c \in Comments, CreateComment(id, c)
      PROVE  ContentInv'
  <2>. DEFINE n == [idle EXCEPT !.step = "writeBody", !.on = c]
  <2>1. others(n) /\ n.step = "writeBody" /\ n.on = c /\ r.step = "idle"
    BY <1>1, <1>b DEF CreateComment, isFree, idle
  <2>. HIDE DEF n
  <2>2. /\ live' = live \cup {c} /\ used' = used \cup {c} /\ c \notin used
        /\ UNCHANGED <<journals, bodies, failed>>
    BY <1>1 DEF CreateComment, insertRow
  <2>3. UnlinkedAreGone'
    BY <2>1, <2>2 DEF ContentInv, UnlinkedAreGone
  <2>4. SettledContentIsStored'
    BY <2>1, <2>2, ContentStays DEF ContentInv, bodyIsOn, journalIsOn
  <2>. QED
    BY <2>2, <2>3, <2>4 DEF ContentInv
<1>2. ASSUME NEW c \in Comments, UpdateComment(id, c)
      PROVE  ContentInv'
  <2>1. [idle EXCEPT !.step = "writeBody", !.on = c].step = "writeBody"
    BY DEF idle
  <2>. QED
    BY <1>2, <2>1, QuietContent DEF UpdateComment, isFree
<1>3. ASSUME NEW c \in Comments, DeleteComment(id, c)
      PROVE  ContentInv'
  <2>. DEFINE n == [idle EXCEPT !.step = "unlinkBody", !.on = c]
  <2>1. others(n) /\ n.step = "unlinkBody" /\ n.on = c /\ r.step = "idle"
    BY <1>3, <1>b DEF DeleteComment, isFree, idle
  <2>. HIDE DEF n
  <2>2. /\ c \in live /\ live' = live \ {c}
        /\ UNCHANGED <<used, journals, bodies, failed>>
    BY <1>3 DEF DeleteComment, deleteRows, cascade
  <2>3. UnlinkedAreGone'
    BY <2>1, <2>2 DEF ContentInv, UnlinkedAreGone
  <2>4. SettledContentIsStored'
    BY <2>1, <2>2, ContentStays DEF ContentInv, bodyIsOn, journalIsOn
  <2>. QED
    BY <2>2, <2>3, <2>4 DEF ContentInv
<1>4. CASE WriteBody(id)
  <2>1. others(idle) /\ UNCHANGED <<live, used, journals, failed>>
    BY <1>4, <1>b DEF WriteBody, end
  <2>2. bodies' = bodies \cup {r.on} /\ r.step = "writeBody"
    BY <1>4 DEF WriteBody
  <2>3. UnlinkedAreGone'
    BY <2>1 DEF ContentInv, UnlinkedAreGone
  <2>4. SettledContentIsStored'
    BY <2>1, <2>2, ContentStays DEF ContentInv, bodyIsOn, journalIsOn
  <2>. QED
    BY <2>1, <2>3, <2>4 DEF ContentInv
<1>5. CASE UnlinkBody(id)
  <2>1. PICK n : goOn(id, n) /\ n.step \notin unlinkingSteps \cup writingSteps
    BY <1>5, SweepIsQuiet DEF UnlinkBody
  <2>2. /\ others(n) /\ bodies' = bodies \ {r.on}
        /\ r.step = "unlinkBody" /\ r.on \notin live
        /\ UNCHANGED <<live, used, journals, failed>>
    BY <1>5, <1>b, <2>1 DEF UnlinkBody, ContentInv, UnlinkedAreGone
  <2>3. UnlinkedAreGone'
    BY <2>1, <2>2 DEF ContentInv, UnlinkedAreGone
  <2>4. SettledContentIsStored'
    BY <2>1, <2>2, ContentStays DEF ContentInv, bodyIsOn, journalIsOn
  <2>. QED
    BY <2>2, <2>3, <2>4 DEF ContentInv
<1>6. CASE WriteBodyFails(id) \/ UnlinkFileFails(id)
  BY <1>6, QuietContent DEF WriteBodyFails, UnlinkFileFails, end
<1>. QED
  BY <1>1, <1>2, <1>3, <1>4, <1>5, <1>6 DEF CommentHandlers

\* ContentInv is inductive.
LEMMA NextContentInv == TypeOK /\ ContentInv /\ [Next]_vars => ContentInv'
<1>. SUFFICES ASSUME TypeOK, ContentInv, [Next]_vars
              PROVE  ContentInv'
  OBVIOUS
<1>1. CASE Crash /\ UNCHANGED <<journals, bodies>>
  BY <1>1 DEF Crash, ContentInv, UnlinkedAreGone, SettledContentIsStored, idle
<1>2. CASE UNCHANGED vars
  BY <1>2 DEF vars, attachmentVars, ContentInv, UnlinkedAreGone,
     SettledContentIsStored
<1>. QED
  BY <1>1, <1>2, AttachmentHandlersKeepContent, IssueHandlersKeepContent,
     CommentHandlersKeepContent DEF Next

\* While no file operation fails, issues.service and issue-comment.service show
\* no comment without its body and no issue without its journal, but for those
\* being written or deleted.
THEOREM SettledIsStored == Spec => []SettledContentIsStored
<1>1. TypeOK /\ ContentInv /\ [Next]_vars => (TypeOK /\ ContentInv)'
  BY NextTypeOK, NextContentInv
<1>2. Init => ContentInv
  BY ContainerKinds
  DEF Init, ContentInv, UnlinkedAreGone, SettledContentIsStored, idle
<1>3. ContentInv => SettledContentIsStored
  BY DEF ContentInv
<1>. QED
  BY <1>1, <1>2, <1>3, InitTypeOK, PTL DEF Spec
-----------------------------------------------------------------------------
(* The status of an issue *)


\* createIssueStateValues either refuses or returns a consistent state: the
\* one it was asked for, closed now if it is closed.
LEMMA StateValues ==
  ASSUME NEW status \in Statuses, NEW reason \in Reasons \cup {Null},
         NEW description \in Texts \cup {Null}, NEW now \in Nat,
         createIssueStateValues(status, reason, description, now) # Rejected
  PROVE  Consistent(createIssueStateValues(status, reason, description, now))
<1>. DEFINE issue == createIssueStateValues(status, reason, description, now)
<1>1. /\ (status = Closed) <=> (reason # Null)
      /\ status # Closed => description = Null
      /\ issue = [status |-> status, closedReason |-> reason,
                  closedReasonDescription |-> description,
                  closedAt |-> IF status = Closed THEN now ELSE Null]
  BY DEF createIssueStateValues
<1>2. issue \in State
  BY <1>1 DEF State
<1>3. now # Null
  BY NullIsNoValue
<1>. QED
  BY <1>1, <1>2, <1>3 DEF Consistent

\* createIssue stores a consistent issue, whatever fields the request has.
THEOREM IssuesStartConsistent ==
  ASSUME NEW payload \in Payload, NEW now \in Nat,
         createIssueInsertValues(payload, now) # Rejected
  PROVE  Consistent(createIssueInsertValues(payload, now))
<1>1. /\ given(payload.status, Open) \in Statuses
      /\ given(payload.closedReason, Null) \in Reasons \cup {Null}
      /\ given(payload.closedReasonDescription, Null) \in Texts \cup {Null}
  BY StatusesDiffer DEF given, Payload
<1>. QED
  BY <1>1, StateValues DEF createIssueInsertValues

\* updateIssue keeps an issue consistent, although the fields that a request
\* leaves out are taken from the row: no sequence of partial requests leaves a
\* reason on an open issue, or a closed one without.
THEOREM IssuesStayConsistent ==
  ASSUME NEW current, Consistent(current), NEW payload \in Payload, NEW now \in Nat,
         createIssueUpdateValues(payload, current, now) # Rejected
  PROVE  Consistent(createIssueUpdateValues(payload, current, now))
<1>1. /\ given(payload.status, current.status) \in Statuses
      /\ given(payload.closedReason, current.closedReason) \in Reasons \cup {Null}
      /\ given(payload.closedReasonDescription, current.closedReasonDescription)
           \in Texts \cup {Null}
  BY DEF given, Payload, Consistent, State
<1>. QED
  BY <1>1, StateValues DEF createIssueUpdateValues

\* The service has no dead end: from every consistent issue one request leads
\* to any status, any reason and any description that are consistent.
THEOREM EveryStateIsOneRequestAway ==
  ASSUME NEW current, Consistent(current), NEW goal, Consistent(goal),
         NEW now \in Nat
  PROVE  \E payload \in Payload :
           createIssueUpdateValues(payload, current, now)
             = [goal EXCEPT !.closedAt = IF goal.status = Closed THEN now ELSE Null]
<1>. DEFINE payload == createIssueFormState(goal)
<1>1. payload \in Payload
  BY DEF createIssueFormState, Payload, Consistent, State
<1>2. /\ given(payload.status, current.status) = goal.status
      /\ given(payload.closedReason, current.closedReason) = goal.closedReason
      /\ given(payload.closedReasonDescription, current.closedReasonDescription)
           = goal.closedReasonDescription
  BY AbsentIsNoValue DEF given, createIssueFormState, Consistent, State
<1>3. createIssueUpdateValues(payload, current, now)
        = [status |-> goal.status, closedReason |-> goal.closedReason,
           closedReasonDescription |-> goal.closedReasonDescription,
           closedAt |-> IF goal.status = Closed THEN now ELSE Null]
  BY <1>2 DEF createIssueUpdateValues, createIssueStateValues, Consistent
<1>4. [goal EXCEPT !.closedAt = IF goal.status = Closed THEN now ELSE Null]
        = [status |-> goal.status, closedReason |-> goal.closedReason,
           closedReasonDescription |-> goal.closedReasonDescription,
           closedAt |-> IF goal.status = Closed THEN now ELSE Null]
  BY DEF Consistent, State
<1>. QED
  BY <1>1, <1>3, <1>4

\* The board cannot close an issue, nor open one again: a card moved into the
\* last column, or out of it, is refused and moves back.
THEOREM CardsDoNotCrossClosed ==
  ASSUME NEW current, Consistent(current), NEW status \in Statuses, NEW now \in Nat,
         (current.status = Closed) # (status = Closed)
  PROVE  createIssueUpdateValues(MoveCard(status), current, now) = Rejected
<1>1. /\ given(MoveCard(status).status, current.status) = status
      /\ given(MoveCard(status).closedReason, current.closedReason)
           = current.closedReason
  BY AbsentIsNoValue DEF given, MoveCard
<1>2. (status = Closed) # (current.closedReason # Null)
  BY DEF Consistent
<1>. QED
  BY <1>1, <1>2 DEF createIssueUpdateValues, createIssueStateValues

\* The edit form opens no closed issue again while its disabled reason field
\* still holds the reason.
THEOREM FormsKeepIssuesClosed ==
  ASSUME NEW current, Consistent(current), current.status = Closed,
         NEW status \in Statuses \ {Closed}, NEW now \in Nat
  PROVE  createIssueUpdateValues(
           [createIssueFormState(current) EXCEPT !.status = status], current, now)
             = Rejected
<1>. DEFINE form == [createIssueFormState(current) EXCEPT !.status = status]
<1>1. form.status = status /\ form.closedReason = current.closedReason
  BY DEF createIssueFormState
<1>2. /\ given(form.status, current.status) = status
      /\ given(form.closedReason, current.closedReason) = current.closedReason
  BY <1>1, AbsentIsNoValue DEF given, Consistent, State
<1>3. current.closedReason # Null
  BY DEF Consistent
<1>. QED
  BY <1>2, <1>3 DEF createIssueUpdateValues, createIssueStateValues

=============================================================================
