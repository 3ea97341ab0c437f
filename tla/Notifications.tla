---------------------------- MODULE Notifications ----------------------------
(***************************************************************************)
(* notifications.service, and the handlers that call it: comments and      *)
(* journals of one project are written, those who may open the project     *)
(* are told, and users whom a text mentions for the first time get a       *)
(* notification of their own.                                              *)
(*                                                                         *)
(* A file is awaited, and other requests run meanwhile.  What follows, the *)
(* statements of the notification, never leaves the thread: thread is the  *)
(* request that holds it.  The statements are no transaction, so a crash   *)
(* may fall between two of them.                                           *)
(*                                                                         *)
(* A text is the set of users it mentions; that of a comment is not kept.  *)
(* Who may open the project is the matter of AccessControl.  Messages and  *)
(* targets are left out, and so are events whose fan-out is that of a      *)
(* comment: issues, attachments and changes of status.                     *)
(***************************************************************************)
EXTENDS Integers

CONSTANTS
    Users,
    Issues,
    Comments,       \* mention containers that have a row
    Journals,       \* mention containers that are a file only
    IssueOf,        \* the issue of a container; None: the project, or a task
    None,
    Bodies,         \* the texts that are written: the users each mentions
    RequestIds,     \* bounds the requests under way at once
    MaxRequests     \* bounds the requests ever begun

ASSUME NoneIsNobody ==
    None \notin Users \cup Issues \cup Comments \cup Journals \cup RequestIds
ASSUME BothAreContainers ==
    /\ Comments \cap Journals = {}
    /\ Issues \cap (Comments \cup Journals) = {}
ASSUME IssueOfContainers ==
    IssueOf \in [Comments \cup Journals -> Issues \cup {None}]
ASSUME BodiesMentionUsers == Bodies \subseteq SUBSET Users
ASSUME MaxRequestsIsNatural == MaxRequests \in Nat

Containers == Comments \cup Journals

VARIABLES
    users,          \* active users
    access,         \* the users who may open the project
    live,           \* rows: issues and comments
    project,        \* the project's row exists
    author,         \* createdByUserId of comments
    used,           \* ids of comments handed out so far
    text,           \* the files of journals
    notifications,  \* Notifications
    inbox,          \* Users_Notifications
    mentions,       \* Mentions: a container, the user mentioned, the speaker
    requests,       \* the requests under way
    thread,         \* the request whose statements run, or None
    begun,          \* the number of requests begun
    failed,         \* a file operation failed, or the server crashed
    announced       \* history: the texts of containers that were announced

rows == <<users, access, live, project, author, used>>
vars == <<rows, text, notifications, inbox, mentions, requests, thread, begun,
          failed, announced>>

idle == [step |-> "idle"]

threadSteps == {"insertEvent", "fanOut", "collect", "insertMention", "deliver"}

RequestAt(steps, containers) ==
    [step : steps, number : 1 .. MaxRequests, actor : Users, on : containers,
     body : SUBSET Users, previous : SUBSET Users, tell : SUBSET Users]

Request ==
    {idle} \cup RequestAt({"writeFirst", "writeAgain"}, Comments)
        \cup RequestAt({"readJournal", "writeJournal"}, Journals)
        \cup RequestAt(threadSteps, Containers)

Notification ==
    [request : 1 .. MaxRequests, event : {"written"}, on : Containers,
     actor : Users, mentioned : {None}]
    \cup [request : 1 .. MaxRequests, event : {"mentioned"}, on : Containers,
          actor : Users, mentioned : Users]

\* Every variable has its type.
TypeOK ==
    /\ users \subseteq Users
    /\ access \subseteq Users
    /\ live \subseteq Issues \cup Comments
    /\ project \in BOOLEAN
    /\ author \in [Comments -> Users \cup {None}]
    /\ used \subseteq Comments
    /\ text \in [Journals -> SUBSET Users]
    /\ notifications \subseteq Notification
    /\ inbox \subseteq Users \X notifications
    /\ mentions \subseteq Containers \X Users \X Users
    /\ requests \in [RequestIds -> Request]
    /\ thread \in RequestIds \cup {None}
    /\ begun \in 0 .. MaxRequests
    /\ failed \in BOOLEAN
    /\ announced \subseteq Containers \X SUBSET Users

-----------------------------------------------------------------------------
\* Slip: every active user is told.
allActiveUsers(actor) == users \ {actor}

\* hasProjectAccess, of active users.
recipients(actor) == (users \cap access) \ {actor}

\* getIssueContextNames or getProjectNameOrThrow, and getUsernameOrThrow.
namesAreThere(r) ==
    /\ project
    /\ IssueOf[r.on] # None => IssueOf[r.on] \in live
    /\ r.actor \in users

goOn(id, request) == requests' = [requests EXCEPT ![id] = request]

\* The request answers or throws.
end(id) == goOn(id, idle) /\ thread' = None

goOnHolding(id, request) == goOn(id, request) /\ thread' = id

\* A request begins when the thread is free, and leaves it at its first await.
begin(id, step, u, c, body) ==
    /\ thread = None
    /\ requests[id] = idle
    /\ begun < MaxRequests
    /\ begun' = begun + 1
    /\ u \in users \cap access
    /\ project
    /\ goOn(id, [step |-> step, number |-> begun', actor |-> u, on |-> c,
                 body |-> body, previous |-> {}, tell |-> {}])
    /\ UNCHANGED <<text, notifications, inbox, mentions, thread, failed, announced>>

-----------------------------------------------------------------------------
(***************************************************************************)
(* Comments and journals are written                                       *)
(***************************************************************************)
CreateComment(id, u, c, body) ==
    /\ IssueOf[c] # None => IssueOf[c] \in live
    /\ c \notin used
    /\ used' = used \cup {c}
    /\ live' = live \cup {c}
    /\ author' = [author EXCEPT ![c] = u]
    /\ begin(id, "writeFirst", u, c, body)
    /\ UNCHANGED <<users, access, project>>

UpdateComment(id, u, c, body) ==
    /\ c \in live
    /\ begin(id, "writeAgain", u, c, body)
    /\ UNCHANGED rows

UpdateJournal(id, u, j, body) ==
    /\ IssueOf[j] # None => IssueOf[j] \in live
    /\ begin(id, "readJournal", u, j, body)
    /\ UNCHANGED rows

ReadJournal(id) ==
    LET r == requests[id] IN
    /\ thread = None
    /\ r.step = "readJournal"
    /\ goOn(id, [r EXCEPT !.step = "writeJournal", !.previous = text[r.on]])
    /\ UNCHANGED <<rows, text, notifications, inbox, mentions, thread, begun,
                   failed, announced>>

\* Slip: the previous text of a journal is read after it was written.
WriteTextThenRead(id) ==
    LET r == requests[id] IN
    /\ thread = None
    /\ r.step \in {"writeFirst", "writeAgain", "writeJournal"}
    /\ text' = [j \in Journals |-> IF j = r.on THEN r.body ELSE text[j]]
    /\ goOnHolding(id, [r EXCEPT !.previous = {}, !.step =
          IF r.step = "writeFirst" THEN "insertEvent" ELSE "collect"])
    /\ UNCHANGED <<rows, notifications, inbox, mentions, begun, failed,
                   announced>>

\* Slip: a new comment is announced like one that is changed.
WriteTextAsUpdate(id) ==
    LET r == requests[id] IN
    /\ thread = None
    /\ r.step \in {"writeFirst", "writeAgain", "writeJournal"}
    /\ text' = [j \in Journals |-> IF j = r.on THEN r.body ELSE text[j]]
    /\ goOnHolding(id, [r EXCEPT !.previous = {}, !.step =
          IF r.step = "writeJournal" /\ r.previous # r.body
          THEN "insertEvent" ELSE "collect"])
    /\ UNCHANGED <<rows, notifications, inbox, mentions, begun, failed,
                   announced>>

\* An updated comment is announced only to those it mentions, and so is a
\* journal that the request found as it leaves it.
WriteText(id) ==
    LET r == requests[id] IN
    /\ thread = None
    /\ r.step \in {"writeFirst", "writeAgain", "writeJournal"}
    /\ text' = [j \in Journals |-> IF j = r.on THEN r.body ELSE text[j]]
    /\ goOnHolding(id, [r EXCEPT !.previous = {}, !.step =
          IF \/ r.step = "writeFirst"
             \/ r.step = "writeJournal" /\ r.previous # r.body
          THEN "insertEvent" ELSE "collect"])
    /\ UNCHANGED <<rows, notifications, inbox, mentions, begun, failed,
                   announced>>

\* A read or a write fails; a part of the text may be there.
FileFails(id) ==
    /\ thread = None
    /\ requests[id].step \in {"writeFirst", "writeAgain", "readJournal",
                              "writeJournal"}
    /\ end(id)
    /\ failed' = TRUE
    /\ UNCHANGED <<rows, text, notifications, inbox, mentions, begun, announced>>

-----------------------------------------------------------------------------
(***************************************************************************)
(* notify...: the statements, one by one                                   *)
(***************************************************************************)
\* The names are looked up first; the request ends when one is gone.
NamesAreGone(id) ==
    /\ thread = id
    /\ requests[id].step \in {"insertEvent", "collect"}
    /\ ~ namesAreThere(requests[id])
    /\ end(id)
    /\ UNCHANGED <<rows, text, notifications, inbox, mentions, begun, failed,
                   announced>>

InsertEvent(id) ==
    LET r == requests[id] IN
    /\ thread = id
    /\ r.step = "insertEvent"
    /\ namesAreThere(r)
    /\ notifications' = notifications \cup
         {[request |-> r.number, event |-> "written", on |-> r.on,
           actor |-> r.actor, mentioned |-> None]}
    /\ goOnHolding(id, [r EXCEPT !.step = "fanOut", !.tell = recipients(r.actor)])
    /\ announced' = announced \cup {<<r.on, r.body>>}
    /\ UNCHANGED <<rows, text, inbox, mentions, begun, failed>>

FanOut(id) ==
    LET r == requests[id] IN
    /\ thread = id
    /\ r.step = "fanOut"
    /\ inbox' = inbox \cup (r.tell \X
         {n \in notifications : n.request = r.number /\ n.event = "written"})
    /\ goOnHolding(id, [r EXCEPT !.step = "collect", !.tell = {}])
    /\ UNCHANGED <<rows, text, notifications, mentions, begun, failed, announced>>

mentionedIn(c) == {u \in Users : \E speaker \in Users : <<c, u, speaker>> \in mentions}

\* Slip: mentions are looked up by their speaker as well.
CollectPerSpeaker(id) ==
    LET r == requests[id]
        first == {u \in r.body \cap recipients(r.actor) :
                     <<r.on, u, r.actor>> \notin mentions}
    IN
    /\ thread = id
    /\ r.step = "collect"
    /\ namesAreThere(r)
    /\ mentions' = mentions \cup {<<r.on, u, r.actor>> : u \in first}
    /\ IF first = {} THEN end(id)
       ELSE goOnHolding(id, [r EXCEPT !.step = "insertMention", !.body = {},
                                      !.tell = first])
    /\ UNCHANGED <<rows, text, notifications, inbox, begun, failed, announced>>

\* Slip: users who may not open the project are recorded, but not told.
CollectAllMentioned(id) ==
    LET r == requests[id]
        first == (r.body \cap recipients(r.actor)) \ mentionedIn(r.on)
    IN
    /\ thread = id
    /\ r.step = "collect"
    /\ namesAreThere(r)
    /\ mentions' = mentions \cup
         {<<r.on, u, r.actor>> : u \in (r.body \cap users) \ mentionedIn(r.on)}
    /\ IF first = {} THEN end(id)
       ELSE goOnHolding(id, [r EXCEPT !.step = "insertMention", !.body = {},
                                      !.tell = first])
    /\ UNCHANGED <<rows, text, notifications, inbox, begun, failed, announced>>

\* collectFirstTimeMentionUsers records all first mentions before anyone is
\* told.
Collect(id) ==
    LET r == requests[id]
        first == (r.body \cap recipients(r.actor)) \ mentionedIn(r.on)
    IN
    /\ thread = id
    /\ r.step = "collect"
    /\ namesAreThere(r)
    /\ mentions' = mentions \cup {<<r.on, u, r.actor>> : u \in first}
    /\ IF first = {} THEN end(id)
       ELSE goOnHolding(id, [r EXCEPT !.step = "insertMention", !.body = {},
                                      !.tell = first])
    /\ UNCHANGED <<rows, text, notifications, inbox, begun, failed, announced>>

\* In the order of the text, which a set leaves open.
InsertMention(id, u) ==
    LET r == requests[id] IN
    /\ thread = id
    /\ r.step = "insertMention"
    /\ u \in r.tell
    /\ notifications' = notifications \cup
         {[request |-> r.number, event |-> "mentioned", on |-> r.on,
           actor |-> r.actor, mentioned |-> u]}
    /\ goOnHolding(id, [r EXCEPT !.step = "deliver"])
    /\ UNCHANGED <<rows, text, inbox, mentions, begun, failed, announced>>

\* The user is the one whose notification was inserted last.
Deliver(id, u) ==
    LET r == requests[id]
        n == [request |-> r.number, event |-> "mentioned", on |-> r.on,
              actor |-> r.actor, mentioned |-> u]
    IN
    /\ thread = id
    /\ r.step = "deliver"
    /\ u \in r.tell
    /\ n \in notifications
    /\ inbox' = inbox \cup {<<u, n>>}
    /\ IF r.tell = {u} THEN end(id)
       ELSE goOnHolding(id, [r EXCEPT !.step = "insertMention",
                                      !.tell = @ \ {u}])
    /\ UNCHANGED <<rows, text, notifications, mentions, begun, failed, announced>>

-----------------------------------------------------------------------------
(***************************************************************************)
(* Deletions and memberships                                               *)
(***************************************************************************)
\* ON DELETE CASCADE from an issue, the project and a user to notifications,
\* what users got of them, and mentions.
forget(goneNotifications, goneMentions) ==
    /\ notifications' = notifications \ goneNotifications
    /\ inbox' = {e \in inbox : e[2] \in notifications' /\ e[1] \in users'}
    /\ mentions' = mentions \ goneMentions
    /\ UNCHANGED <<text, requests, thread, begun, failed, announced>>

DeleteIssue(i) ==
    /\ thread = None
    /\ i \in live
    /\ live' = live \ ({i} \cup {c \in Comments : IssueOf[c] = i})
    /\ UNCHANGED <<users, access, project, author, used>>
    /\ forget({n \in notifications : IssueOf[n.on] = i},
              {m \in mentions : IssueOf[m[1]] = i})

\* Neither notifications nor mentions refer to the row of a comment.
DeleteComment(c) ==
    /\ thread = None
    /\ c \in live
    /\ live' = live \ {c}
    /\ UNCHANGED <<users, access, project, author, used>>
    /\ UNCHANGED <<text, notifications, inbox, mentions, requests, thread,
                   begun, failed, announced>>

DeleteProject ==
    /\ thread = None
    /\ project
    /\ project' = FALSE
    /\ live' = {}
    /\ access' = {}
    /\ UNCHANGED <<users, author, used>>
    /\ forget(notifications, mentions)

\* The author of a comment and the actor of a notification are declared ON
\* DELETE RESTRICT: the transaction fails, and is no step.  The rows of a user
\* who is mentioned, and the mentions by a speaker, go along.
DeleteUser(u) ==
    /\ thread = None
    /\ u \in users
    /\ \A c \in Comments \cap live : author[c] # u
    /\ \A n \in notifications : n.actor # u
    /\ users' = users \ {u}
    /\ access' = access \ {u}
    /\ UNCHANGED <<live, project, author, used>>
    /\ forget({n \in notifications : n.mentioned = u},
              {m \in mentions : u \in {m[2], m[3]}})

\* Members, teams, organizations and their links change.
ChangeAccess(u) ==
    /\ thread = None
    /\ project
    /\ u \in users
    /\ access' = IF u \in access THEN access \ {u} ELSE access \cup {u}
    /\ UNCHANGED <<users, live, project, author, used, text, notifications,
                   inbox, mentions, requests, thread, begun, failed, announced>>

\* The server stops and is started again.
Crash ==
    /\ requests' = [id \in RequestIds |-> idle]
    /\ thread' = None
    /\ failed' = TRUE
    /\ UNCHANGED <<rows, text, notifications, inbox, mentions, begun, announced>>

-----------------------------------------------------------------------------
Init ==
    /\ users = Users
    /\ access = Users
    /\ live = Issues
    /\ project = TRUE
    /\ author = [c \in Comments |-> None]
    /\ used = {}
    /\ text = [j \in Journals |-> {}]
    /\ notifications = {}
    /\ inbox = {}
    /\ mentions = {}
    /\ requests = [id \in RequestIds |-> idle]
    /\ thread = None
    /\ begun = 0
    /\ failed = FALSE
    /\ announced = {}

\* What the event loop does of a request that has begun.
Continue(id) ==
    \/ ReadJournal(id)
    \/ WriteText(id)
    \/ NamesAreGone(id)
    \/ InsertEvent(id)
    \/ FanOut(id)
    \/ Collect(id)
    \/ \E u \in Users : InsertMention(id, u) \/ Deliver(id, u)

Write(id) ==
    \E u \in Users, body \in Bodies :
        \/ \E c \in Comments :
              CreateComment(id, u, c, body) \/ UpdateComment(id, u, c, body)
        \/ \E j \in Journals : UpdateJournal(id, u, j, body)

Next ==
    \/ \E id \in RequestIds : Write(id) \/ Continue(id) \/ FileFails(id)
    \/ \E i \in Issues : DeleteIssue(i)
    \/ \E c \in Comments : DeleteComment(c)
    \/ DeleteProject
    \/ \E u \in Users : DeleteUser(u) \/ ChangeAccess(u)
    \/ Crash

\* Every file operation is answered, and the thread runs what is due.
Fairness == \A id \in RequestIds : WF_vars(Continue(id))

Spec == Init /\ [][Next]_vars /\ Fairness

-----------------------------------------------------------------------------
toldOfMention(c, u) ==
    {n \in notifications : /\ n.event = "mentioned"
                           /\ n.on = c
                           /\ <<u, n>> \in inbox}

\* An issue that is not live was deleted.
isGone(c, u) ==
    \/ ~ project
    \/ IssueOf[c] \in Issues \ live
    \/ u \notin users

newsOfMentions ==
    [c \in Containers |-> [u \in Users |->
        IF isGone(c, u) THEN "gone"
        ELSE IF \E n, other \in toldOfMention(c, u) : n # other THEN "toldAgain"
        ELSE IF toldOfMention(c, u) # {} THEN "told"
        ELSE "none"]]

Mentions == INSTANCE ToldOnce WITH news <- newsOfMentions

\* However often a text is written, by whomever, through failures and crashes
\* and deletions in between, a user is told of a mention in it at most once.
MentionsAreToldOnce == Mentions!Spec

\* Only a user who may open the project at that moment gets a notification,
\* and never of one's own doing: the recipients are not those of the time when
\* the request began and was authorized.
OnlyReadersAreTold ==
    [][\A e \in inbox' \ inbox : e[1] \in access /\ e[1] # e[2].actor]_vars

\* A mention that is recorded silences all later mentions in the same text, so
\* the user has been told, or is about to be, unless the server crashed.
RecordedMentionsAreTold ==
    \A m \in mentions :
        \/ toldOfMention(m[1], m[2]) # {}
        \/ failed
        \/ thread # None /\ m[2] \in requests[thread].tell

\* What a journal says has been announced at some time, or is about to be,
\* unless a failure or a deletion came first.  A request announces nothing when
\* it leaves what it had read, and others write between its read and its write:
\* whoever wrote last, and whatever was read before, no text comes to stand
\* that nobody was ever told of.
JournalTextsAreAnnounced ==
    \A j \in Journals : text[j] # {} =>
        \/ <<j, text[j]>> \in announced
        \/ failed
        \/ \E u \in Users : isGone(j, u)
        \/ /\ thread # None
           /\ requests[thread].step = "insertEvent"
           /\ requests[thread].on = j

\* A new comment is announced in the end, if no failure, crash or deletion
\* comes first: no request waits for ever, or for another one.
CommentsAreAnnounced ==
    \A c \in Comments :
        c \in live ~> \/ \E n \in notifications : n.on = c /\ n.event = "written"
                      \/ failed
                      \/ \E u \in Users : isGone(c, u)
=============================================================================
