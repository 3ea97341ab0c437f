---------------------------- MODULE Attachments ----------------------------
(***************************************************************************)
(* discussion-attachment.service: attachment rows, the rows that link them *)
(* to a project, an issue, a task or a comment (a container), and the      *)
(* blobs on disk that no transaction covers.                               *)
(*                                                                         *)
(* Every file operation is awaited, so each request is a sequence of       *)
(* steps with other requests in between: requests[id] holds what a request *)
(* does next.  Who may upload and delete is the matter of AccessControl;   *)
(* the size and the type of a file are checked before anything is written. *)
(***************************************************************************)
EXTENDS Integers, FiniteSets

CONSTANTS
    Containers,     \* ids of rows that attachments are linked to
    Attachments,    \* ids of Attachments rows, which also name the blobs
    None,           \* no container, no attachment
    RequestIds,     \* bounds the requests under way at once
    Limit           \* maxAttachmentsPerIssueOrComment

ASSUME NoneIsNothing == None \notin Containers \cup Attachments
ASSUME LimitIsPositive == Limit \in Nat \ {0}

VARIABLES
    live,           \* the rows of containers that exist
    used,           \* AUTOINCREMENT ids and random UUIDs handed out so far
    attachments,    \* Attachments
    linkedTo,       \* the link tables: the container of each attachment
    blobs,          \* the files of untrustedContentAttachmentsDir
    requests,       \* the requests under way
    failed          \* a file operation failed, or the server crashed

attachmentVars == <<live, used, attachments, linkedTo, blobs, requests, failed>>

idle == [step |-> "idle", on |-> None, attachment |-> None, ids |-> {}]

\* An upload of an attachment to a container.
UploadRequest ==
    [step : {"writeBlob", "insertAttachment", "unlinkBlob"}, on : Containers,
     attachment : Attachments, ids : {{}}]

\* A sweep that is about to unlink a blob, or to delete its row.
SweepRequest ==
    [step : {"unlinkOrphan"}, on : {None}, attachment : {None},
     ids : SUBSET Attachments]
    \cup [step : {"deleteOrphan"}, on : {None}, attachment : Attachments,
          ids : SUBSET Attachments]

isFree(id) == requests[id] = idle

goOn(id, request) == requests' = [requests EXCEPT ![id] = request]

\* The request answers or throws.
end(id) == goOn(id, idle)

-----------------------------------------------------------------------------
(***************************************************************************)
(* removeOrphanAttachmentsAndFiles                                         *)
(***************************************************************************)

\* The rows without a link are selected at once, in the step of the caller
\* that leaves the link tables as links.
sweepOrphans(id, links) ==
    LET orphanIds == {a \in attachments : links[a] = None}
    IN  IF orphanIds = {} THEN end(id)
        ELSE goOn(id, [idle EXCEPT !.step = "unlinkOrphan", !.ids = orphanIds])

\* The query gives no order.  A blob that is already gone is no error.
UnlinkOrphan(id, a) ==
    /\ requests[id].step = "unlinkOrphan"
    /\ a \in requests[id].ids
    /\ blobs' = blobs \ {a}
    /\ goOn(id, [requests[id] EXCEPT !.step = "deleteOrphan", !.attachment = a,
                                     !.ids = @ \ {a}])
    /\ UNCHANGED <<live, used, attachments, linkedTo, failed>>

\* Slip: the rows of all orphans are deleted before their files are gone.
DeleteOrphansAtOnce(id) ==
    LET r == requests[id] IN
    /\ r.step = "deleteOrphan"
    /\ attachments' = attachments \ (r.ids \cup {r.attachment})
    /\ linkedTo' = [a \in Attachments |->
                      IF a \in attachments' THEN linkedTo[a] ELSE None]
    /\ goOn(id, IF r.ids = {} THEN idle
                ELSE [r EXCEPT !.step = "unlinkOrphan", !.attachment = None])
    /\ UNCHANGED <<live, used, blobs, failed>>

\* Link rows would go with the attachment row (ON DELETE CASCADE).
DeleteOrphan(id) ==
    LET r == requests[id] IN
    /\ r.step = "deleteOrphan"
    /\ attachments' = attachments \ {r.attachment}
    /\ linkedTo' = [linkedTo EXCEPT ![r.attachment] = None]
    /\ goOn(id, IF r.ids = {} THEN idle
                ELSE [r EXCEPT !.step = "unlinkOrphan", !.attachment = None])
    /\ UNCHANGED <<live, used, blobs, failed>>

\* The sweep at the end of a handler of another project or of a task.
SweepElsewhere(id) ==
    /\ isFree(id)
    /\ sweepOrphans(id, linkedTo)
    /\ UNCHANGED <<live, used, attachments, linkedTo, blobs, failed>>

-----------------------------------------------------------------------------
(***************************************************************************)
(* Uploads: createAttachmentAndLinkTo... and persistAttachmentAndInsert    *)
(***************************************************************************)
attachmentsOf(c) == {a \in Attachments : linkedTo[a] = c}

assertWithinAttachmentLimit(c) == Cardinality(attachmentsOf(c)) < Limit

BeginUpload(id, c, a) ==
    /\ isFree(id)
    /\ c \in live
    /\ assertWithinAttachmentLimit(c)
    /\ a \notin used
    /\ used' = used \cup {a}
    /\ goOn(id, [idle EXCEPT !.step = "writeBlob", !.on = c, !.attachment = a])
    /\ UNCHANGED <<live, attachments, linkedTo, blobs, failed>>

\* Slip: the row is inserted before the file is written.
WriteBlobAfterRow(id) ==
    /\ requests[id].step = "writeBlob"
    /\ attachments' = attachments \cup {requests[id].attachment}
    /\ blobs' = blobs \cup {requests[id].attachment}
    /\ goOn(id, [requests[id] EXCEPT !.step = "insertAttachment"])
    /\ UNCHANGED <<live, used, linkedTo, failed>>

WriteBlob(id) ==
    /\ requests[id].step = "writeBlob"
    /\ blobs' = blobs \cup {requests[id].attachment}
    /\ goOn(id, [requests[id] EXCEPT !.step = "insertAttachment"])
    /\ UNCHANGED <<live, used, attachments, linkedTo, failed>>

\* The two inserts are no transaction.  The first fails when the uploader was
\* deleted meanwhile, the second when the container was: its foreign key.
InsertAttachment(id) ==
    LET r == requests[id] IN
    /\ r.step = "insertAttachment"
    /\ \/ /\ r.on \in live
          /\ attachments' = attachments \cup {r.attachment}
          /\ linkedTo' = [linkedTo EXCEPT ![r.attachment] = r.on]
          /\ end(id)
       \/ /\ r.on \notin live
          /\ attachments' = attachments \cup {r.attachment}
          /\ goOn(id, [r EXCEPT !.step = "unlinkBlob"])
          /\ UNCHANGED linkedTo
       \/ /\ goOn(id, [r EXCEPT !.step = "unlinkBlob"])
          /\ UNCHANGED <<attachments, linkedTo>>
    /\ UNCHANGED <<live, used, blobs, failed>>

UnlinkBlob(id) ==
    /\ requests[id].step = "unlinkBlob"
    /\ blobs' = blobs \ {requests[id].attachment}
    /\ end(id)
    /\ UNCHANGED <<live, used, attachments, linkedTo, failed>>

-----------------------------------------------------------------------------
\* The five delete...AttachmentLink methods.
DeleteAttachmentLink(id, a) ==
    /\ isFree(id)
    /\ linkedTo[a] \in live
    /\ linkedTo' = [linkedTo EXCEPT ![a] = None]
    /\ sweepOrphans(id, linkedTo')
    /\ UNCHANGED <<live, used, attachments, blobs, failed>>

\* A write that fails may leave a part of the file; nothing removes it.
WriteBlobFails(id) ==
    /\ requests[id].step = "writeBlob"
    /\ blobs' \in {blobs, blobs \cup {requests[id].attachment}}
    /\ end(id)
    /\ failed' = TRUE
    /\ UNCHANGED <<live, used, attachments, linkedTo>>

UnlinkFails(id) ==
    /\ requests[id].step \in {"unlinkOrphan", "unlinkBlob"}
    /\ end(id)
    /\ failed' = TRUE
    /\ UNCHANGED <<live, used, attachments, linkedTo, blobs>>

\* Rows and files stay, requests are lost.
Crash ==
    /\ requests' = [id \in RequestIds |-> idle]
    /\ failed' = TRUE
    /\ UNCHANGED <<live, used, attachments, linkedTo, blobs>>

\* What uploads and sweeps do once they are under way, and sweeps elsewhere.
AttachmentSteps(id) ==
    \/ \E a \in Attachments : UnlinkOrphan(id, a)
    \/ WriteBlob(id)
    \/ InsertAttachment(id)
    \/ UnlinkBlob(id)
    \/ DeleteOrphan(id)
    \/ SweepElsewhere(id)
    \/ WriteBlobFails(id)
    \/ UnlinkFails(id)

AttachmentHandlers ==
    \E id \in RequestIds :
        \/ \E a \in Attachments :
              \/ \E c \in Containers : BeginUpload(id, c, a)
              \/ DeleteAttachmentLink(id, a)
        \/ AttachmentSteps(id)

-----------------------------------------------------------------------------
\* An attachment that a list shows can be downloaded, whatever uploads,
\* deletes, sweeps and failures have met: the row, the blob and the container
\* of a link are there.
LinkedAttachmentsAreStored ==
    \A a \in Attachments : linkedTo[a] # None =>
        /\ linkedTo[a] \in live
        /\ a \in attachments
        /\ a \in blobs
=============================================================================
