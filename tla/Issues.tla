------------------------------- MODULE Issues -------------------------------
(***************************************************************************)
(* issues.service and issue-comment.service over the rows of one project:  *)
(* its issues, their comments and journals, the attachments of all three,  *)
(* and the files that hold journals and comment bodies.                    *)
(*                                                                         *)
(* Fields of an issue, authors and notifications are left out.             *)
(***************************************************************************)
EXTENDS Attachments

CONSTANTS
    Project,        \* the project's id
    Issues,         \* ids of Issues rows
    Comments,       \* ids of IssueComments rows
    IssueOf,        \* issueId of a comment
    ParentComment   \* parentCommentId of a comment, or None

ASSUME ContainerKinds ==
    /\ Containers = {Project} \cup Issues \cup Comments
    /\ Project \notin Issues \cup Comments
    /\ Issues \cap Comments = {}
ASSUME ForeignKeys ==
    /\ IssueOf \in [Comments -> Issues]
    /\ ParentComment \in [Comments -> Comments \cup {None}]
ASSUME IdsDoNotMix == Containers \cap Attachments = {}

VARIABLES
    journals,       \* journal files, of the project and of issues
    bodies          \* comment body files

vars == <<attachmentVars, journals, bodies>>

JournalRequest ==
    [step : {"createJournal"}, on : Issues, attachment : {None}, ids : {{}}]
    \cup [step : {"writeJournal", "unlinkJournal"}, on : {Project} \cup Issues,
          attachment : {None}, ids : {{}}]

\* The comments whose bodies are still to go, of an issue that is deleted.
DeleteIssueRequest ==
    [step : {"unlinkBodies"}, on : Issues, attachment : {None},
     ids : SUBSET Comments]

BodyRequest ==
    [step : {"writeBody", "unlinkBody"}, on : Comments, attachment : {None},
     ids : {{}}]

Request ==
    {idle} \cup UploadRequest \cup SweepRequest \cup JournalRequest
        \cup DeleteIssueRequest \cup BodyRequest

\* Every variable has its type.
TypeOK ==
    /\ live \subseteq Containers
    /\ used \subseteq Containers \cup Attachments
    /\ attachments \subseteq Attachments
    /\ linkedTo \in [Attachments -> Containers \cup {None}]
    /\ blobs \subseteq Attachments
    /\ requests \in [RequestIds -> Request]
    /\ failed \in BOOLEAN
    /\ journals \subseteq {Project} \cup Issues
    /\ bodies \subseteq Comments

-----------------------------------------------------------------------------
\* What ON DELETE CASCADE takes along.  parentCommentId is no foreign key.
cascade(c) ==
    CASE c = Project -> Containers
      [] c \in Issues -> {c} \cup {x \in Comments : IssueOf[x] = c}
      [] OTHER -> {c}

linksWithout(gone) ==
    [a \in Attachments |-> IF linkedTo[a] \in gone THEN None ELSE linkedTo[a]]

deleteRows(c) ==
    /\ live' = live \ cascade(c)
    /\ linkedTo' = linksWithout(cascade(c))

insertRow(c) ==
    /\ c \notin used
    /\ live' = live \cup {c}
    /\ used' = used \cup {c}

commentsOf(i) == {c \in Comments \cap live : IssueOf[c] = i}

\* What a step of this module leaves alone of the attachments.
attachmentsStay == UNCHANGED <<attachments, blobs>>

-----------------------------------------------------------------------------
(***************************************************************************)
(* Journals and issues                                                     *)
(***************************************************************************)
CreateIssue(id, i) ==
    /\ isFree(id)
    /\ Project \in live
    /\ insertRow(i)
    /\ goOn(id, [idle EXCEPT !.step = "createJournal", !.on = i])
    /\ attachmentsStay /\ UNCHANGED <<linkedTo, failed, journals, bodies>>

\* updateIssueJournal and updateProjectJournal; the row is not looked at again.
UpdateJournal(id, c) ==
    /\ isFree(id)
    /\ c \in live \ Comments
    /\ goOn(id, [idle EXCEPT !.step = "writeJournal", !.on = c])
    /\ attachmentsStay
    /\ UNCHANGED <<live, used, linkedTo, failed, journals, bodies>>

WriteJournal(id) ==
    /\ requests[id].step \in {"createJournal", "writeJournal"}
    /\ journals' = journals \cup {requests[id].on}
    /\ end(id)
    /\ attachmentsStay
    /\ UNCHANGED <<live, used, linkedTo, failed, bodies>>

\* createIssue takes its row back, with what others added to it meanwhile.
WriteJournalFails(id) ==
    LET r == requests[id] IN
    /\ r.step \in {"createJournal", "writeJournal"}
    /\ IF r.step = "createJournal" THEN deleteRows(r.on)
       ELSE UNCHANGED <<live, linkedTo>>
    /\ journals' \in {journals, journals \cup {r.on}}
    /\ end(id)
    /\ failed' = TRUE
    /\ attachmentsStay /\ UNCHANGED <<used, bodies>>

\* deleteAllCommentBodiesForIssue selects the comments at once.
BeginDeleteIssue(id, i) ==
    /\ isFree(id)
    /\ i \in live
    /\ goOn(id, [idle EXCEPT !.step = "unlinkBodies", !.on = i,
                             !.ids = commentsOf(i)])
    /\ attachmentsStay
    /\ UNCHANGED <<live, used, linkedTo, failed, journals, bodies>>

UnlinkNextBody(id, c) ==
    /\ requests[id].step = "unlinkBodies"
    /\ c \in requests[id].ids
    /\ bodies' = bodies \ {c}
    /\ goOn(id, [requests[id] EXCEPT !.ids = @ \ {c}])
    /\ attachmentsStay
    /\ UNCHANGED <<live, used, linkedTo, failed, journals>>

DeleteIssueRow(id) ==
    LET r == requests[id] IN
    /\ r.step = "unlinkBodies"
    /\ r.ids = {}
    /\ deleteRows(r.on)
    /\ goOn(id, [r EXCEPT !.step = "unlinkJournal"])
    /\ attachmentsStay /\ UNCHANGED <<used, failed, journals, bodies>>

\* deleteProject ends here: it leaves the attachments to a later sweep, and
\* the journals and bodies of its issues to nobody.
UnlinkJournal(id) ==
    LET r == requests[id] IN
    /\ r.step = "unlinkJournal"
    /\ journals' = journals \ {r.on}
    /\ IF r.on = Project THEN end(id) ELSE sweepOrphans(id, linkedTo)
    /\ attachmentsStay
    /\ UNCHANGED <<live, used, linkedTo, failed, bodies>>

DeleteProject(id) ==
    /\ isFree(id)
    /\ Project \in live
    /\ deleteRows(Project)
    /\ goOn(id, [idle EXCEPT !.step = "unlinkJournal", !.on = Project])
    /\ attachmentsStay /\ UNCHANGED <<used, failed, journals, bodies>>

-----------------------------------------------------------------------------
(***************************************************************************)
(* Comments                                                                *)
(***************************************************************************)
CreateComment(id, c) ==
    /\ isFree(id)
    /\ IssueOf[c] \in live
    /\ ParentComment[c] # None =>
          /\ ParentComment[c] \in live
          /\ IssueOf[ParentComment[c]] = IssueOf[c]
    /\ insertRow(c)
    /\ goOn(id, [idle EXCEPT !.step = "writeBody", !.on = c])
    /\ attachmentsStay /\ UNCHANGED <<linkedTo, failed, journals, bodies>>

UpdateComment(id, c) ==
    /\ isFree(id)
    /\ c \in live
    /\ goOn(id, [idle EXCEPT !.step = "writeBody", !.on = c])
    /\ attachmentsStay
    /\ UNCHANGED <<live, used, linkedTo, failed, journals, bodies>>

WriteBody(id) ==
    /\ requests[id].step = "writeBody"
    /\ bodies' = bodies \cup {requests[id].on}
    /\ end(id)
    /\ attachmentsStay
    /\ UNCHANGED <<live, used, linkedTo, failed, journals>>

\* Slip: the body is unlinked first, and the row deleted after the await.
DeleteCommentAfterBody(id, c) ==
    /\ isFree(id)
    /\ c \in live
    /\ \A x \in Comments \cap live : ParentComment[x] # c
    /\ bodies' = bodies \ {c}
    /\ goOn(id, [idle EXCEPT !.step = "unlinkBody", !.on = c])
    /\ attachmentsStay /\ UNCHANGED <<live, used, linkedTo, failed, journals>>

\* Replies keep a comment; its body is unlinked when the row is gone.
DeleteComment(id, c) ==
    /\ isFree(id)
    /\ c \in live
    /\ \A x \in Comments \cap live : ParentComment[x] # c
    /\ deleteRows(c)
    /\ goOn(id, [idle EXCEPT !.step = "unlinkBody", !.on = c])
    /\ attachmentsStay /\ UNCHANGED <<used, failed, journals, bodies>>

UnlinkBody(id) ==
    /\ requests[id].step = "unlinkBody"
    /\ bodies' = bodies \ {requests[id].on}
    /\ sweepOrphans(id, linkedTo)
    /\ attachmentsStay
    /\ UNCHANGED <<live, used, linkedTo, failed, journals>>

\* A part of the file may be left.  The comment stays.
WriteBodyFails(id) ==
    /\ requests[id].step = "writeBody"
    /\ bodies' \in {bodies, bodies \cup {requests[id].on}}
    /\ end(id)
    /\ failed' = TRUE
    /\ attachmentsStay /\ UNCHANGED <<live, used, linkedTo, journals>>

UnlinkFileFails(id) ==
    /\ requests[id].step \in {"unlinkBodies", "unlinkBody", "unlinkJournal"}
    /\ end(id)
    /\ failed' = TRUE
    /\ attachmentsStay
    /\ UNCHANGED <<live, used, linkedTo, journals, bodies>>

-----------------------------------------------------------------------------
Init ==
    /\ live = {Project}
    /\ used = {Project}
    /\ attachments = {}
    /\ linkedTo = [a \in Attachments |-> None]
    /\ blobs = {}
    /\ requests = [id \in RequestIds |-> idle]
    /\ failed = FALSE
    /\ journals = {Project}
    /\ bodies = {}

IssueHandlers(id) ==
    \/ \E i \in Issues : CreateIssue(id, i) \/ BeginDeleteIssue(id, i)
    \/ \E c \in Containers : UpdateJournal(id, c)
    \/ WriteJournal(id)
    \/ WriteJournalFails(id)
    \/ \E c \in Comments : UnlinkNextBody(id, c)
    \/ DeleteIssueRow(id)
    \/ UnlinkJournal(id)
    \/ DeleteProject(id)

CommentHandlers(id) ==
    \/ \E c \in Comments :
          CreateComment(id, c) \/ UpdateComment(id, c) \/ DeleteComment(id, c)
    \/ WriteBody(id)
    \/ UnlinkBody(id)
    \/ WriteBodyFails(id)
    \/ UnlinkFileFails(id)

Next ==
    \/ AttachmentHandlers /\ UNCHANGED <<journals, bodies>>
    \/ Crash /\ UNCHANGED <<journals, bodies>>
    \/ \E id \in RequestIds : IssueHandlers(id) \/ CommentHandlers(id)

Spec == Init /\ [][Next]_vars

-----------------------------------------------------------------------------
\* As long as no file operation fails, a blob without a row belongs to an
\* upload under way: the sweep, which finds blobs by their rows, misses none.
UnnamedBlobsAreTransient ==
    ~ failed =>
        \A a \in blobs \ attachments :
            \E id \in RequestIds :
                /\ requests[id].attachment = a
                /\ requests[id].step \in {"insertAttachment", "unlinkBlob"}

\* As long as no file operation fails, a comment has its body and an issue its
\* journal, except while the request that writes it, or the one that deletes
\* the issue, is under way.
SettledContentIsStored ==
    ~ failed =>
        /\ \A c \in Comments \cap live :
              \/ c \in bodies
              \/ \E id \in RequestIds :
                    \/ requests[id].step = "writeBody" /\ requests[id].on = c
                    \/ requests[id].step = "unlinkBodies"
                       /\ requests[id].on = IssueOf[c]
        /\ \A i \in Issues \cap live :
              \/ i \in journals
              \/ \E id \in RequestIds :
                    requests[id].step = "createJournal" /\ requests[id].on = i
=============================================================================
