------------------------- MODULE NotificationProofs -------------------------
(***************************************************************************)
(* What holds of Notifications for every number of users, issues, texts    *)
(* and requests: above all that it implements ToldOnce.                    *)
(***************************************************************************)
EXTENDS Notifications, TLAPS

LEMMA IdleIsRequest == idle \in Request
BY DEF Request

LEMMA InitTypeOK == Init => TypeOK
<1>. SUFFICES ASSUME Init
              PROVE  TypeOK
  OBVIOUS
<1>1. project \in BOOLEAN /\ failed \in BOOLEAN
  BY DEF Init
<1>2. begun \in 0 .. MaxRequests
  BY MaxRequestsIsNatural DEF Init
<1>3. requests \in [RequestIds -> Request]
  BY IdleIsRequest DEF Init
<1>. QED
  BY <1>1, <1>2, <1>3 DEF Init, TypeOK

\* A request that goes on is still one of the requests.
LEMMA GoOnType ==
    ASSUME TypeOK, NEW id \in RequestIds, NEW n \in Request, goOn(id, n)
    PROVE  requests' \in [RequestIds -> Request]
BY DEF TypeOK, goOn

\* A request under way is at one of three kinds of steps.
LEMMA RequestKinds ==
    ASSUME TypeOK, NEW id \in RequestIds
    PROVE  LET r == requests[id] IN
           /\ r.step \in {"writeFirst", "writeAgain"} =>
                 r \in RequestAt({"writeFirst", "writeAgain"}, Comments)
           /\ r.step \in {"readJournal", "writeJournal"} =>
                 r \in RequestAt({"readJournal", "writeJournal"}, Journals)
           /\ r.step \in threadSteps => r \in RequestAt(threadSteps, Containers)
BY DEF TypeOK, Request, RequestAt, threadSteps, idle

LEMMA WriteTypeOK ==
    ASSUME TypeOK, NEW id \in RequestIds, Write(id)
    PROVE  TypeOK'
<1>. DEFINE n(step, u, c, body) ==
               [step |-> step, number |-> begun + 1, actor |-> u, on |-> c,
                body |-> body, previous |-> {}, tell |-> {}]
<1>1. ASSUME NEW u \in Users, NEW c \in Containers, NEW body \in Bodies,
             NEW step, begin(id, step, u, c, body),
             \/ step \in {"writeFirst", "writeAgain"} /\ c \in Comments
             \/ step = "readJournal" /\ c \in Journals
      PROVE  /\ requests' \in [RequestIds -> Request]
             /\ begun' \in 0 .. MaxRequests
             /\ UNCHANGED <<text, notifications, inbox, mentions, thread,
                            failed, announced>>
  <2>1. begun' = begun + 1 /\ begun + 1 \in 1 .. MaxRequests
    BY <1>1, MaxRequestsIsNatural DEF begin, TypeOK
  <2>2. n(step, u, c, body) \in Request
    BY <1>1, <2>1, BodiesMentionUsers DEF Request, RequestAt
  <2>3. goOn(id, n(step, u, c, body))
    BY <1>1, <2>1 DEF begin
  <2>. QED
    BY <1>1, <2>1, <2>2, <2>3, GoOnType DEF begin
<1>2. ASSUME NEW u \in Users, NEW body \in Bodies, NEW c \in Comments,
             CreateComment(id, u, c, body)
      PROVE  TypeOK'
  BY <1>1, <1>2 DEF CreateComment, TypeOK, Containers
<1>3. ASSUME NEW u \in Users, NEW body \in Bodies, NEW c \in Comments,
             UpdateComment(id, u, c, body)
      PROVE  TypeOK'
  BY <1>1, <1>3 DEF UpdateComment, TypeOK, Containers, rows
<1>4. ASSUME NEW u \in Users, NEW body \in Bodies, NEW j \in Journals,
             UpdateJournal(id, u, j, body)
      PROVE  TypeOK'
  BY <1>1, <1>4 DEF UpdateJournal, TypeOK, Containers, rows
<1>. QED
  BY <1>2, <1>3, <1>4 DEF Write

LEMMA ContinueTypeOK ==
    ASSUME TypeOK, NEW id \in RequestIds, Continue(id)
    PROVE  TypeOK'
<1>. DEFINE r == requests[id]
<1>. USE DEF rows
<1>1. CASE ReadJournal(id)
  <2>1. [r EXCEPT !.step = "writeJournal", !.previous = text[r.on]] \in Request
    BY <1>1, RequestKinds DEF ReadJournal, Request, RequestAt, TypeOK
  <2>2. requests' \in [RequestIds -> Request]
    BY <1>1, <2>1, GoOnType DEF ReadJournal
  <2>. QED
    BY <1>1, <2>2 DEF ReadJournal, TypeOK
<1>2. CASE WriteText(id)
  <2>. DEFINE n == [r EXCEPT !.previous = {}, !.step =
                      IF \/ r.step = "writeFirst"
                         \/ r.step = "writeJournal" /\ r.previous # r.body
                      THEN "insertEvent" ELSE "collect"]
  <2>1. r.step # "idle" /\ goOnHolding(id, n)
    BY <1>2 DEF WriteText
  <2>2. n \in Request
    BY <1>2, RequestKinds DEF WriteText, Request, RequestAt, Containers, threadSteps
  <2>3. requests' \in [RequestIds -> Request] /\ thread' = id
    BY <2>1, <2>2, GoOnType DEF goOnHolding
  <2>4. text' \in [Journals -> SUBSET Users]
    BY <1>2, RequestKinds DEF WriteText, TypeOK, RequestAt
  <2>. QED
    BY <1>2, <2>3, <2>4 DEF WriteText, TypeOK
<1>3. CASE NamesAreGone(id)
  <2>1. requests' \in [RequestIds -> Request] /\ thread' = None
    BY <1>3, IdleIsRequest, GoOnType DEF NamesAreGone, end
  <2>. QED
    BY <1>3, <2>1 DEF NamesAreGone, TypeOK
<1>4. CASE InsertEvent(id)
  <2>1. [r EXCEPT !.step = "fanOut", !.tell = recipients(r.actor)] \in Request
    <3>1. r \in RequestAt(threadSteps, Containers)
      BY <1>4, RequestKinds DEF InsertEvent, threadSteps
    <3>2. recipients(r.actor) \in SUBSET Users
      BY DEF recipients, TypeOK
    <3>. QED
      BY <3>1, <3>2 DEF Request, RequestAt, threadSteps
  <2>2. [request |-> r.number, event |-> "written", on |-> r.on,
         actor |-> r.actor, mentioned |-> None] \in Notification
    BY <1>4, RequestKinds DEF InsertEvent, Notification, RequestAt, threadSteps
  <2>3. requests' \in [RequestIds -> Request] /\ thread' = id
    BY <1>4, <2>1, GoOnType DEF InsertEvent, goOnHolding
  <2>4. announced' \subseteq Containers \X SUBSET Users
    BY <1>4, RequestKinds DEF InsertEvent, TypeOK, RequestAt, threadSteps
  <2>. QED
    BY <1>4, <2>2, <2>3, <2>4 DEF InsertEvent, TypeOK
<1>5. CASE FanOut(id)
  <2>1. [r EXCEPT !.step = "collect", !.tell = {}] \in Request
    BY <1>5, RequestKinds DEF FanOut, Request, RequestAt, threadSteps
  <2>2. r.tell \subseteq Users
    BY <1>5, RequestKinds DEF FanOut, RequestAt, threadSteps
  <2>3. requests' \in [RequestIds -> Request] /\ thread' = id
    BY <1>5, <2>1, GoOnType DEF FanOut, goOnHolding
  <2>. QED
    BY <1>5, <2>2, <2>3 DEF FanOut, TypeOK
<1>6. CASE Collect(id)
  <2>. DEFINE first == (r.body \cap recipients(r.actor)) \ mentionedIn(r.on)
              n == IF first = {} THEN idle
                   ELSE [r EXCEPT !.step = "insertMention", !.body = {},
                                  !.tell = first]
  <2>1. n \in Request
    BY IdleIsRequest, <1>6, RequestKinds DEF Collect, Request, RequestAt, threadSteps, recipients
  <2>2. goOn(id, n) /\ thread' \in {id, None}
    BY <1>6 DEF Collect, end, goOnHolding
  <2>3. mentions' \subseteq Containers \X Users \X Users
    BY <1>6, RequestKinds DEF Collect, TypeOK, RequestAt, threadSteps
  <2>. HIDE DEF n
  <2>4. requests' \in [RequestIds -> Request]
    BY <2>1, <2>2, GoOnType
  <2>. QED
    BY <1>6, <2>2, <2>3, <2>4 DEF Collect, TypeOK
<1>7. ASSUME NEW u \in Users, InsertMention(id, u)
      PROVE  TypeOK'
  <2>1. [r EXCEPT !.step = "deliver"] \in Request
    BY <1>7, RequestKinds DEF InsertMention, Request, RequestAt, threadSteps
  <2>2. [request |-> r.number, event |-> "mentioned", on |-> r.on,
         actor |-> r.actor, mentioned |-> u] \in Notification
    BY <1>7, RequestKinds DEF InsertMention, Notification, RequestAt, threadSteps
  <2>3. requests' \in [RequestIds -> Request] /\ thread' = id
    BY <1>7, <2>1, GoOnType DEF InsertMention, goOnHolding
  <2>. QED
    BY <1>7, <2>2, <2>3 DEF InsertMention, TypeOK
<1>8. ASSUME NEW u \in Users, Deliver(id, u)
      PROVE  TypeOK'
  <2>. DEFINE n == IF r.tell = {u} THEN idle
                   ELSE [r EXCEPT !.step = "insertMention", !.tell = @ \ {u}]
  <2>1. n \in Request
    BY IdleIsRequest, <1>8, RequestKinds DEF Deliver, Request, RequestAt, threadSteps
  <2>2. goOn(id, n) /\ thread' \in {id, None}
    BY <1>8 DEF Deliver, end, goOnHolding
  <2>. HIDE DEF n
  <2>3. requests' \in [RequestIds -> Request]
    BY <2>1, <2>2, GoOnType
  <2>. QED
    BY <1>8, <2>2, <2>3 DEF Deliver, TypeOK
<1>. QED
  BY <1>1, <1>2, <1>3, <1>4, <1>5, <1>6, <1>7, <1>8 DEF Continue

LEMMA NextTypeOK == TypeOK /\ [Next]_vars => TypeOK'
<1>. SUFFICES ASSUME TypeOK, [Next]_vars
              PROVE  TypeOK'
  OBVIOUS
<1>. USE DEF rows
<1>1. ASSUME NEW id \in RequestIds, FileFails(id)
      PROVE  TypeOK'
  <2>1. requests' \in [RequestIds -> Request] /\ thread' = None
    BY <1>1, IdleIsRequest, GoOnType DEF FileFails, end
  <2>. QED
    BY <1>1, <2>1 DEF FileFails, TypeOK
<1>2. ASSUME NEW i \in Issues, DeleteIssue(i)
      PROVE  TypeOK'
  BY <1>2 DEF DeleteIssue, forget, TypeOK
<1>3. ASSUME NEW c \in Comments, DeleteComment(c)
      PROVE  TypeOK'
  BY <1>3 DEF DeleteComment, TypeOK
<1>4. CASE DeleteProject
  BY <1>4 DEF DeleteProject, forget, TypeOK
<1>5. ASSUME NEW u \in Users, DeleteUser(u)
      PROVE  TypeOK'
  BY <1>5 DEF DeleteUser, forget, TypeOK
<1>6. ASSUME NEW u \in Users, ChangeAccess(u)
      PROVE  TypeOK'
  BY <1>6 DEF ChangeAccess, TypeOK
<1>7. CASE Crash
  BY IdleIsRequest, <1>7 DEF Crash, TypeOK
<1>8. CASE UNCHANGED vars
  BY <1>8 DEF vars, TypeOK
<1>. QED
  BY <1>1, <1>2, <1>3, <1>4, <1>5, <1>6, <1>7, <1>8, WriteTypeOK,
     ContinueTypeOK DEF Next

\* Every variable keeps its type.
THEOREM NotificationTypes == Spec => []TypeOK
BY InitTypeOK, NextTypeOK, PTL DEF Spec

-----------------------------------------------------------------------------
(***************************************************************************)
(* Mentions are told once.                                                 *)
(***************************************************************************)

\* What is gone does not come back: ids are not used again.
LEMMA GoneStays ==
    ASSUME TypeOK, [Next]_vars, NEW c \in Containers, NEW u \in Users, isGone(c, u)
    PROVE  isGone(c, u)'
<1>1. ASSUME NEW id \in RequestIds, Write(id)
      PROVE  isGone(c, u)'
  <2>1. users' = users /\ project' = project /\ live' \subseteq live \cup Comments
    BY <1>1 DEF Write, CreateComment, UpdateComment, UpdateJournal, rows
  <2>. QED
    BY <2>1, BothAreContainers DEF isGone
<1>2. ASSUME NEW id \in RequestIds, Continue(id) \/ FileFails(id)
      PROVE  isGone(c, u)'
  BY <1>2 DEF Continue, FileFails, ReadJournal, WriteText, NamesAreGone,
              InsertEvent, FanOut, Collect, InsertMention, Deliver, rows, isGone
<1>3. ASSUME NEW i \in Issues, DeleteIssue(i)
      PROVE  isGone(c, u)'
  BY <1>3 DEF DeleteIssue, isGone
<1>4. ASSUME NEW d \in Comments, DeleteComment(d)
      PROVE  isGone(c, u)'
  BY <1>4 DEF DeleteComment, isGone
<1>5. CASE DeleteProject
  BY <1>5 DEF DeleteProject, isGone
<1>6. ASSUME NEW v \in Users, DeleteUser(v) \/ ChangeAccess(v)
      PROVE  isGone(c, u)'
  BY <1>6 DEF DeleteUser, ChangeAccess, isGone
<1>7. CASE Crash \/ UNCHANGED vars
  BY <1>7 DEF Crash, vars, rows, isGone
<1>. QED
  BY <1>1, <1>2, <1>3, <1>4, <1>5, <1>6, <1>7 DEF Next

\* Those the thread is about to tell may open the project; those it is about
\* to tell of a mention are recorded, and have not been told.
ThreadTells ==
    thread # None =>
        LET r == requests[thread] IN
        /\ r.step \in threadSteps
        /\ r.step \in {"fanOut", "insertMention", "deliver"} =>
              r.tell \subseteq (users \cap access) \ {r.actor}
        /\ r.step \in {"insertMention", "deliver"} =>
              \A c \in Containers, u \in Users :
                  c = r.on /\ u \in r.tell =>
                      /\ ~ isGone(c, u)
                      /\ toldOfMention(c, u) = {}
                      /\ <<c, u, r.actor>> \in mentions

\* A mention that was told, in a text that is there, is recorded with its
\* speaker, and was told by one notification, made for the user.
ToldIsRecorded ==
    /\ inbox \subseteq users \X notifications
    /\ \A e \in inbox : e[2].event = "mentioned" => e[2].mentioned = e[1]
    /\ \A c \in Containers, u \in Users : ~ isGone(c, u) =>
          /\ \A n \in toldOfMention(c, u) : <<c, u, n.actor>> \in mentions
          /\ \A n, other \in toldOfMention(c, u) : n = other

TellInv == ThreadTells /\ ToldIsRecorded

LEMMA InitTellInv == Init => TellInv
BY DEF Init, TellInv, ThreadTells, ToldIsRecorded, toldOfMention

\* A step that tells nobody, and that leaves the thread free or with a request
\* that has not collected anybody.
LEMMA QuietStep ==
    ASSUME TypeOK, TellInv, [Next]_vars,
           UNCHANGED <<users, notifications, inbox, mentions>>,
           \/ thread' = None
           \/ requests'[thread'].step \in {"insertEvent", "collect"}
    PROVE  TellInv'
<1>1. ThreadTells'
  BY DEF ThreadTells, threadSteps
<1>2. \A c \in Containers, u \in Users :
          /\ isGone(c, u) => isGone(c, u)'
          /\ toldOfMention(c, u)' = toldOfMention(c, u)
  BY GoneStays DEF toldOfMention
<1>3. ToldIsRecorded'
  BY <1>2 DEF TellInv, ToldIsRecorded
<1>. QED
  BY <1>1, <1>3 DEF TellInv

LEMMA ContinueTellInv ==
    ASSUME TypeOK, TellInv, [Next]_vars, NEW id \in RequestIds, Continue(id)
    PROVE  TellInv'
<1>. DEFINE r == requests[id]
<1>. USE DEF rows
<1>1. CASE ReadJournal(id)
  BY <1>1, QuietStep DEF ReadJournal
<1>2. CASE WriteText(id)
  <2>1. requests'[id].step \in {"insertEvent", "collect"} /\ thread' = id
    BY <1>2, RequestKinds DEF WriteText, goOnHolding, goOn, TypeOK, RequestAt
  <2>. QED
    BY <1>2, <2>1, QuietStep DEF WriteText
<1>3. CASE NamesAreGone(id)
  BY <1>3, QuietStep DEF NamesAreGone, end
<1>4. ASSUME thread = id, r.step \in threadSteps
      PROVE  r \in RequestAt(threadSteps, Containers)
  BY <1>4, RequestKinds
<1>5. CASE InsertEvent(id)
  <2>1. /\ requests'[id] = [r EXCEPT !.step = "fanOut", !.tell = recipients(r.actor)]
        /\ r \in RequestAt(threadSteps, Containers)
        /\ thread' = id
    BY <1>4, <1>5 DEF InsertEvent, goOnHolding, goOn, TypeOK, threadSteps
  <2>2. /\ requests'[id].step = "fanOut"
        /\ requests'[id].tell = recipients(r.actor)
        /\ requests'[id].actor = r.actor
    BY <2>1 DEF RequestAt
  <2>3. ThreadTells'
    BY <1>5, <2>1, <2>2 DEF ThreadTells, InsertEvent, recipients, threadSteps
  <2>4. /\ notifications \subseteq notifications'
        /\ \A n \in notifications' \ notifications : n.event = "written"
        /\ UNCHANGED <<rows, inbox, mentions>>
    BY <1>5 DEF InsertEvent
  <2>5. ASSUME NEW c \in Containers, NEW u \in Users
        PROVE  /\ toldOfMention(c, u)' = toldOfMention(c, u)
               /\ isGone(c, u)' = isGone(c, u)
    BY <2>4 DEF toldOfMention, isGone
  <2>6. ToldIsRecorded'
    BY <2>4, <2>5 DEF TellInv, ToldIsRecorded
  <2>. QED
    BY <2>3, <2>6 DEF TellInv
<1>6. CASE FanOut(id)
  <2>1. /\ requests'[id] = [r EXCEPT !.step = "collect", !.tell = {}]
        /\ r \in RequestAt(threadSteps, Containers)
        /\ thread' = id
    BY <1>4, <1>6 DEF FanOut, goOnHolding, goOn, TypeOK, threadSteps
  <2>2. ThreadTells'
    BY <2>1 DEF ThreadTells, RequestAt, threadSteps
  <2>3. r.tell \subseteq users
    BY <1>6, NoneIsNobody DEF TellInv, ThreadTells, FanOut
  <2>4. /\ inbox \subseteq inbox' /\ inbox' \subseteq users \X notifications
        /\ \A e \in inbox' \ inbox : e[2].event = "written"
        /\ UNCHANGED <<rows, notifications, mentions>>
    BY <1>6, <2>3 DEF FanOut, TellInv, ToldIsRecorded
  <2>5. ASSUME NEW c \in Containers, NEW u \in Users
        PROVE  /\ toldOfMention(c, u)' = toldOfMention(c, u)
               /\ isGone(c, u)' = isGone(c, u)
    BY <2>4 DEF toldOfMention, isGone
  <2>6. ToldIsRecorded'
    BY <2>4, <2>5 DEF TellInv, ToldIsRecorded
  <2>. QED
    BY <2>2, <2>6 DEF TellInv
<1>7. CASE Collect(id)
  <2>. DEFINE first == (r.body \cap recipients(r.actor)) \ mentionedIn(r.on)
  <2>1. /\ r \in RequestAt(threadSteps, Containers)
        /\ namesAreThere(r)
        /\ mentions' = mentions \cup {<<r.on, u, r.actor>> : u \in first}
        /\ UNCHANGED <<rows, notifications, inbox>>
    BY <1>4, <1>7 DEF Collect, threadSteps
  <2>2. ASSUME NEW c \in Containers, NEW u \in Users
        PROVE  /\ toldOfMention(c, u)' = toldOfMention(c, u)
               /\ isGone(c, u)' = isGone(c, u)
    BY <2>1 DEF toldOfMention, isGone
  <2>3. ToldIsRecorded'
    BY <2>1, <2>2 DEF TellInv, ToldIsRecorded
  <2>4. CASE first = {}
    <3>1. thread' = None
      BY <1>7, <2>4 DEF Collect, end
    <3>. QED
      BY <2>3, <3>1 DEF TellInv, ThreadTells
  <2>5. CASE first # {}
    <3>1. /\ thread' = id
          /\ requests'[id] = [r EXCEPT !.step = "insertMention", !.body = {},
                                       !.tell = first]
      BY <1>7, <2>5 DEF Collect, goOnHolding, goOn, TypeOK
    <3>2. /\ requests'[id].step = "insertMention" /\ requests'[id].tell = first
          /\ requests'[id].actor = r.actor /\ requests'[id].on = r.on
      BY <2>1, <3>1 DEF RequestAt
    <3>3. ASSUME NEW u \in first
          PROVE  /\ u \in Users /\ u \in users \cap access /\ u # r.actor
                 /\ r.on \in Containers
                 /\ <<r.on, u, r.actor>> \in mentions'
      BY <2>1 DEF recipients, TypeOK, RequestAt
    <3>4. ASSUME NEW c \in Containers, NEW u \in Users, c = r.on, u \in first
          PROVE  ~ isGone(c, u) /\ toldOfMention(c, u) = {}
      <4>1. ~ isGone(c, u)
        BY <2>1, <3>3, <3>4, NoneIsNobody DEF namesAreThere, isGone
      <4>2. ASSUME NEW n \in toldOfMention(c, u)
            PROVE  u \in mentionedIn(c)
        <5>1. n.actor \in Users
          BY <4>2 DEF toldOfMention, TypeOK, Notification
        <5>2. <<c, u, n.actor>> \in mentions
          BY <3>3, <3>4, <4>1, <4>2 DEF TellInv, ToldIsRecorded
        <5>. QED
          BY <5>1, <5>2 DEF mentionedIn
      <4>. QED
        BY <3>4, <4>1, <4>2
    <3>5. /\ first \subseteq (users' \cap access') \ {r.actor}
          /\ \A c \in Containers, u \in Users :
                c = r.on /\ u \in first =>
                    /\ ~ isGone(c, u)'
                    /\ toldOfMention(c, u)' = {}
                    /\ <<c, u, r.actor>> \in mentions'
      BY <2>1, <2>2, <3>3, <3>4
    <3>. HIDE DEF first, r
    <3>6. ThreadTells'
      BY <3>1, <3>2, <3>5 DEF ThreadTells, threadSteps
    <3>. QED
      BY <2>3, <3>6 DEF TellInv
  <2>. QED
    BY <2>4, <2>5
<1>. HIDE DEF r
<1>8. ASSUME NEW u \in Users, InsertMention(id, u)
      PROVE  TellInv'
  <2>1. /\ r \in RequestAt(threadSteps, Containers)
        /\ requests'[id] = [r EXCEPT !.step = "deliver"]
        /\ thread = id /\ thread' = id /\ r.step = "insertMention"
    BY <1>4, <1>8 DEF InsertMention, goOnHolding, goOn, TypeOK, threadSteps, r
  <2>2. /\ requests'[id].step = "deliver" /\ requests'[id].tell = r.tell
        /\ requests'[id].actor = r.actor /\ requests'[id].on = r.on
    BY <2>1 DEF RequestAt
  <2>3. /\ notifications \subseteq notifications'
        /\ UNCHANGED <<rows, inbox, mentions>>
    BY <1>8 DEF InsertMention
  <2>4. ASSUME NEW c, NEW v
        PROVE  /\ toldOfMention(c, v)' = toldOfMention(c, v)
               /\ isGone(c, v)' = isGone(c, v)
    BY <2>3 DEF TellInv, ToldIsRecorded, toldOfMention, isGone
  <2>5. ToldIsRecorded'
    BY <2>3, <2>4 DEF TellInv, ToldIsRecorded
  <2>6. /\ r.tell \subseteq (users \cap access) \ {r.actor}
        /\ \A c \in Containers, v \in Users :
              c = r.on /\ v \in r.tell =>
                  /\ ~ isGone(c, v)
                  /\ toldOfMention(c, v) = {}
                  /\ <<c, v, r.actor>> \in mentions
    BY <2>1, NoneIsNobody DEF TellInv, ThreadTells, r
  <2>7. ThreadTells'
    BY <2>1, <2>2, <2>3, <2>4, <2>6 DEF ThreadTells, threadSteps
  <2>. QED
    BY <2>5, <2>7 DEF TellInv
<1>9. ASSUME NEW u \in Users, Deliver(id, u)
      PROVE  TellInv'
  <2>. DEFINE n == [request |-> r.number, event |-> "mentioned", on |-> r.on,
                    actor |-> r.actor, mentioned |-> u]
  <2>1. /\ r \in RequestAt(threadSteps, Containers)
        /\ thread = id /\ r.step = "deliver" /\ u \in r.tell
        /\ n \in notifications /\ inbox' = inbox \cup {<<u, n>>}
        /\ UNCHANGED <<rows, notifications, mentions>>
    BY <1>4, <1>9 DEF Deliver, threadSteps, r
  <2>2. /\ r.tell \subseteq (users \cap access) \ {r.actor}
        /\ \A c \in Containers, v \in Users :
              c = r.on /\ v \in r.tell =>
                  /\ ~ isGone(c, v)
                  /\ toldOfMention(c, v) = {}
                  /\ <<c, v, r.actor>> \in mentions
    BY <2>1, NoneIsNobody DEF TellInv, ThreadTells, r
  <2>3. n.event = "mentioned" /\ n.on = r.on /\ n.actor = r.actor /\ n.mentioned = u
    OBVIOUS
  <2>. HIDE DEF n
  <2>4. ASSUME NEW c, NEW v
        PROVE  /\ isGone(c, v)' = isGone(c, v)
               /\ c # r.on \/ v # u => toldOfMention(c, v)' = toldOfMention(c, v)
    BY <2>1, <2>3 DEF toldOfMention, isGone
  <2>5. ASSUME NEW c \in Containers, c = r.on
        PROVE  toldOfMention(c, u)' = {n}
    BY <2>1, <2>2, <2>3, <2>5 DEF toldOfMention
  <2>6. ToldIsRecorded'
    <3>1. inbox' \subseteq users' \X notifications'
      BY <2>1, <2>2 DEF TellInv, ToldIsRecorded
    <3>2. \A e \in inbox' : e[2].event = "mentioned" => e[2].mentioned = e[1]
      BY <2>1, <2>3 DEF TellInv, ToldIsRecorded
    <3>3. ASSUME NEW c \in Containers, NEW v \in Users, ~ isGone(c, v)'
          PROVE  /\ \A m \in toldOfMention(c, v)' : <<c, v, m.actor>> \in mentions'
                 /\ \A m, other \in toldOfMention(c, v)' : m = other
      <4>1. CASE c = r.on /\ v = u
        <5>1. toldOfMention(c, v)' = {n} /\ <<c, v, n.actor>> \in mentions
          BY <2>1, <2>2, <2>3, <2>5, <4>1
        <5>. QED
          BY <2>1, <5>1
      <4>2. CASE c # r.on \/ v # u
        BY <2>1, <2>4, <3>3, <4>2 DEF TellInv, ToldIsRecorded
      <4>. QED
        BY <4>1, <4>2
    <3>. QED
      BY <3>1, <3>2, <3>3 DEF ToldIsRecorded
  <2>7. CASE r.tell = {u}
    <3>1. thread' = None
      BY <1>9, <2>7 DEF Deliver, end, r
    <3>. QED
      BY <2>6, <3>1 DEF TellInv, ThreadTells
  <2>8. CASE r.tell # {u}
    <3>1. /\ thread' = id
          /\ requests'[id] = [r EXCEPT !.step = "insertMention", !.tell = @ \ {u}]
      BY <1>9, <2>8 DEF Deliver, goOnHolding, goOn, TypeOK, r
    <3>2. /\ requests'[id].step = "insertMention"
          /\ requests'[id].tell = r.tell \ {u}
          /\ requests'[id].actor = r.actor /\ requests'[id].on = r.on
      BY <2>1, <3>1 DEF RequestAt
    <3>3. ThreadTells'
      BY <2>1, <2>2, <2>4, <3>1, <3>2 DEF ThreadTells, threadSteps
    <3>. QED
      BY <2>6, <3>3 DEF TellInv
  <2>. QED
    BY <2>7, <2>8
<1>. QED
  BY <1>1, <1>2, <1>3, <1>5, <1>6, <1>7, <1>8, <1>9 DEF Continue, r

\* A deletion forgets what was told of what is gone, and a user whom a
\* notification names as its actor cannot be deleted.
LEMMA DeletionTellInv ==
    ASSUME TypeOK, TellInv, [Next]_vars,
           \/ \E i \in Issues : DeleteIssue(i)
           \/ DeleteProject
           \/ \E u \in Users : DeleteUser(u)
    PROVE  TellInv'
<1>1. /\ thread' = None
      /\ inbox' = {e \in inbox : e[2] \in notifications' /\ e[1] \in users'}
      /\ notifications' \subseteq notifications
  BY DEF DeleteIssue, DeleteProject, DeleteUser, forget
<1>2. ASSUME NEW c \in Containers, NEW u \in Users, ~ isGone(c, u)'
      PROVE  /\ ~ isGone(c, u)
             /\ toldOfMention(c, u)' \subseteq toldOfMention(c, u)
  BY <1>1, <1>2, GoneStays DEF toldOfMention
<1>3. ASSUME NEW c \in Containers, NEW u \in Users, ~ isGone(c, u)',
             NEW n \in toldOfMention(c, u)'
      PROVE  <<c, u, n.actor>> \in mentions'
  <2>1. n \in notifications /\ <<c, u, n.actor>> \in mentions
    BY <1>2, <1>3 DEF TellInv, ToldIsRecorded, toldOfMention
  <2>2. ASSUME NEW i \in Issues, DeleteIssue(i)
        PROVE  <<c, u, n.actor>> \in mentions'
    <3>1. IssueOf[c] # i
      BY <1>3, <2>2 DEF DeleteIssue, isGone
    <3>. QED
      BY <2>1, <2>2, <3>1 DEF DeleteIssue, forget
  <2>3. CASE DeleteProject
    BY <1>3, <2>3 DEF DeleteProject, isGone
  <2>4. ASSUME NEW d \in Users, DeleteUser(d)
        PROVE  <<c, u, n.actor>> \in mentions'
    <3>1. u # d
      BY <1>3, <2>4 DEF DeleteUser, isGone
    <3>. QED
      BY <2>1, <2>4, <3>1 DEF DeleteUser, forget
  <2>. QED
    BY <2>2, <2>3, <2>4
<1>4. ToldIsRecorded'
  BY <1>1, <1>2, <1>3 DEF TellInv, ToldIsRecorded
<1>. QED
  BY <1>1, <1>4 DEF TellInv, ThreadTells

LEMMA NextTellInv == TypeOK /\ TellInv /\ [Next]_vars => TellInv'
<1>. SUFFICES ASSUME TypeOK, TellInv, [Next]_vars
              PROVE  TellInv'
  OBVIOUS
<1>. USE DEF rows
<1>1. ASSUME NEW id \in RequestIds, Write(id)
      PROVE  TellInv'
  <2>1. /\ thread' = None
        /\ UNCHANGED <<users, notifications, inbox, mentions>>
    BY <1>1 DEF Write, CreateComment, UpdateComment, UpdateJournal, begin
  <2>. QED
    BY <2>1, QuietStep
<1>2. ASSUME NEW id \in RequestIds, FileFails(id)
      PROVE  TellInv'
  BY <1>2, QuietStep DEF FileFails, end
<1>3. ASSUME NEW c \in Comments, DeleteComment(c)
      PROVE  TellInv'
  BY <1>3, QuietStep DEF DeleteComment
<1>4. ASSUME NEW u \in Users, ChangeAccess(u)
      PROVE  TellInv'
  BY <1>4, QuietStep DEF ChangeAccess
<1>5. CASE Crash
  BY <1>5, QuietStep DEF Crash
<1>6. CASE UNCHANGED vars
  <2>1. \A c \in Containers, u \in Users :
            /\ isGone(c, u)' = isGone(c, u)
            /\ toldOfMention(c, u)' = toldOfMention(c, u)
    BY <1>6 DEF vars, isGone, toldOfMention
  <2>2. ToldIsRecorded'
    BY <1>6, <2>1 DEF vars, TellInv, ToldIsRecorded
  <2>3. ThreadTells'
    BY <1>6, <2>1 DEF vars, TellInv, ThreadTells
  <2>. QED
    BY <2>2, <2>3 DEF TellInv
<1>. QED
  BY <1>1, <1>2, <1>3, <1>4, <1>5, <1>6, ContinueTellInv, DeletionTellInv
  DEF Next

LEMMA TellInvariant == Spec => [](TypeOK /\ TellInv)
<1>1. Init => TypeOK /\ TellInv
  BY InitTypeOK, InitTellInv
<1>2. TypeOK /\ TellInv /\ [Next]_vars => (TypeOK /\ TellInv)'
  BY NextTypeOK, NextTellInv
<1>. QED
  BY <1>1, <1>2, PTL DEF Spec

\* Of a text that is there a user is never told twice, so that the news of a
\* mention are one of three.
known(c, u) ==
    IF isGone(c, u) THEN "gone"
    ELSE IF toldOfMention(c, u) # {} THEN "told" ELSE "none"

KnownNews == newsOfMentions = [c \in Containers |-> [u \in Users |-> known(c, u)]]

LEMMA NewsAreKnown == TypeOK /\ TellInv => KnownNews
<1>. SUFFICES ASSUME TypeOK, TellInv
              PROVE  newsOfMentions = [c \in Containers |-> [u \in Users |-> known(c, u)]]
  BY DEF KnownNews
<1>. DEFINE news(c, u) ==
              IF isGone(c, u) THEN "gone"
              ELSE IF \E n, other \in toldOfMention(c, u) : n # other THEN "toldAgain"
              ELSE IF toldOfMention(c, u) # {} THEN "told"
              ELSE "none"
<1>1. ASSUME NEW c \in Containers, NEW u \in Users
      PROVE  news(c, u) = known(c, u)
  BY DEF known, TellInv, ToldIsRecorded
<1>2. newsOfMentions = [c \in Containers |-> [u \in Users |-> news(c, u)]]
  BY DEF newsOfMentions
<1>. HIDE DEF news
<1>. QED
  BY <1>1, <1>2

LEMMA NewsStayKnown == (TypeOK /\ TellInv)' => KnownNews'
BY NewsAreKnown, PTL

\* Every initial state, and every step, is one of ToldOnce.
LEMMA InitImplements == Init => Mentions!Init
<1>. SUFFICES ASSUME Init
              PROVE  newsOfMentions = [c \in Containers |-> [u \in Users |-> "none"]]
  BY DEF Mentions!Init
<1>1. ASSUME NEW c \in Containers, NEW u \in Users
      PROVE  ~ isGone(c, u) /\ toldOfMention(c, u) = {}
  BY DEF Init, isGone, toldOfMention
<1>. QED
  BY <1>1 DEF newsOfMentions

\* The user who is delivered a notification of a mention is told.
LEMMA DeliverTells ==
    ASSUME TypeOK, TellInv, TypeOK', TellInv', NEW id \in RequestIds,
           NEW u \in Users, Deliver(id, u)
    PROVE  \E c \in Containers : Mentions!Tell(c, u)
<1>. DEFINE r == requests[id]
            n == [request |-> r.number, event |-> "mentioned", on |-> r.on,
                  actor |-> r.actor, mentioned |-> u]
<1>1. /\ r \in RequestAt(threadSteps, Containers)
      /\ thread = id /\ r.step = "deliver" /\ u \in r.tell
      /\ n \in notifications /\ inbox' = inbox \cup {<<u, n>>}
      /\ UNCHANGED <<rows, notifications, mentions>>
  BY RequestKinds DEF Deliver, threadSteps
<1>2. n.event = "mentioned" /\ n.on = r.on
  OBVIOUS
<1>. HIDE DEF n
<1>3. PICK c \in Containers : c = r.on
  BY <1>1 DEF RequestAt
<1>4. ~ isGone(c, u) /\ toldOfMention(c, u) = {}
  BY <1>1, <1>3, NoneIsNobody DEF TellInv, ThreadTells
<1>5. n \in toldOfMention(c, u)'
  BY <1>1, <1>2, <1>3 DEF toldOfMention
<1>6. ASSUME NEW d \in Containers, NEW v \in Users
      PROVE  /\ isGone(d, v)' = isGone(d, v)
             /\ d # c \/ v # u => toldOfMention(d, v)' = toldOfMention(d, v)
  BY <1>1, <1>2, <1>3 DEF rows, isGone, toldOfMention
<1>7. newsOfMentions[c][u] = "none" /\ newsOfMentions'[c][u] = "told"
  BY <1>4, <1>5, <1>6, NewsAreKnown, NewsStayKnown DEF KnownNews, known
<1>8. newsOfMentions' = [newsOfMentions EXCEPT ![c][u] = "told"]
  <2>1. ASSUME NEW d \in Containers, NEW v \in Users, d # c \/ v # u
        PROVE  known(d, v)' = known(d, v)
    BY <1>6, <2>1 DEF known
  <2>2. known(c, u)' = "told"
    BY <1>4, <1>5, <1>6 DEF known
  <2>3. /\ newsOfMentions = [d \in Containers |-> [v \in Users |-> known(d, v)]]
        /\ newsOfMentions' = [d \in Containers |-> [v \in Users |-> known(d, v)']]
    BY NewsAreKnown, NewsStayKnown DEF KnownNews
  <2>. QED
    BY <2>1, <2>2, <2>3
<1>. QED
  BY <1>7, <1>8 DEF Mentions!Tell

\* A step that deletes nothing, and that gives users no notification but of
\* what was written, is no news of mentions.
LEMMA OtherStepsStutter ==
    ASSUME TypeOK, TellInv, TypeOK', TellInv',
           UNCHANGED <<users, project>>,
           Issues \ live' = Issues \ live,
           notifications \subseteq notifications',
           inbox \subseteq inbox',
           \A e \in inbox' \ inbox : e[2].event = "written"
    PROVE  UNCHANGED newsOfMentions
<1>1. ASSUME NEW c \in Containers, NEW u \in Users
      PROVE  known(c, u)' = known(c, u)
  <2>1. isGone(c, u)' = isGone(c, u)
    BY DEF isGone
  <2>2. toldOfMention(c, u)' = toldOfMention(c, u)
    BY DEF toldOfMention, TellInv, ToldIsRecorded
  <2>. QED
    BY <2>1, <2>2 DEF known
<1>. QED
  BY <1>1, NewsAreKnown, NewsStayKnown DEF KnownNews

LEMMA DeletionsWithdraw ==
    ASSUME TypeOK, TellInv, TypeOK', TellInv', [Next]_vars,
           \/ \E i \in Issues : DeleteIssue(i)
           \/ DeleteProject
           \/ \E u \in Users : DeleteUser(u)
    PROVE  Mentions!Withdraw
<1>1. ASSUME NEW c \in Containers, NEW u \in Users
      PROVE  isGone(c, u)' \/ toldOfMention(c, u)' = toldOfMention(c, u)
  <2>. SUFFICES ASSUME ~ isGone(c, u)'
                PROVE  toldOfMention(c, u)' = toldOfMention(c, u)
    OBVIOUS
  <2>1. /\ u \in users'
        /\ inbox' = {e \in inbox : e[2] \in notifications' /\ e[1] \in users'}
        /\ notifications' \subseteq notifications
    BY DEF DeleteIssue, DeleteProject, DeleteUser, forget, isGone
  <2>2. ASSUME NEW n \in toldOfMention(c, u)
        PROVE  n \in notifications'
    <3>1. n \in notifications /\ n.on = c /\ n.mentioned = u
      BY <2>2 DEF toldOfMention, TellInv, ToldIsRecorded
    <3>2. ASSUME NEW i \in Issues, DeleteIssue(i)
          PROVE  n \in notifications'
      BY <3>1, <3>2 DEF DeleteIssue, forget, isGone
    <3>3. CASE DeleteProject
      BY <3>3 DEF DeleteProject, isGone
    <3>4. ASSUME NEW d \in Users, DeleteUser(d)
          PROVE  n \in notifications'
      BY <2>1, <3>1, <3>4 DEF DeleteUser, forget
    <3>. QED
      BY <3>2, <3>3, <3>4
  <2>3. toldOfMention(c, u) \subseteq toldOfMention(c, u)'
    BY <2>1, <2>2 DEF toldOfMention
  <2>. QED
    BY <2>1, <2>3 DEF toldOfMention
<1>2. ASSUME NEW c \in Containers, NEW u \in Users
      PROVE  known(c, u)' \in {known(c, u), "gone"}
  BY <1>1, GoneStays DEF known
<1>3. ASSUME NEW c \in Containers, NEW u \in Users
      PROVE  known(c, u)' \in {"none", "told", "gone"}
  BY DEF known
<1>4. /\ newsOfMentions = [c \in Containers |-> [u \in Users |-> known(c, u)]]
      /\ newsOfMentions' = [c \in Containers |-> [u \in Users |-> known(c, u)']]
  BY NewsAreKnown, NewsStayKnown DEF KnownNews
<1>5. newsOfMentions' \in [Containers -> [Users -> {"none", "told", "gone"}]]
  BY <1>3, <1>4
<1>6. \A c \in Containers, u \in Users :
          newsOfMentions'[c][u] \in {newsOfMentions[c][u], "gone"}
  BY <1>2, <1>4
<1>. QED
  BY <1>5, <1>6 DEF Mentions!Withdraw

LEMMA NextImplements ==
    TypeOK /\ TellInv /\ (TypeOK /\ TellInv)' /\ [Next]_vars
        => [Mentions!Next]_newsOfMentions
<1>. SUFFICES ASSUME TypeOK, TellInv, TypeOK', TellInv', [Next]_vars
              PROVE  Mentions!Next \/ UNCHANGED newsOfMentions
  OBVIOUS
<1>. USE DEF rows
<1>1. ASSUME NEW id \in RequestIds, Write(id)
      PROVE  UNCHANGED newsOfMentions
  <2>1. UNCHANGED <<users, project, notifications, inbox>>
    BY <1>1 DEF Write, CreateComment, UpdateComment, UpdateJournal, begin
  <2>2. Issues \ live' = Issues \ live
    BY <1>1, BothAreContainers
    DEF Write, CreateComment, UpdateComment, UpdateJournal, Containers
  <2>. QED
    BY <2>1, <2>2, OtherStepsStutter
<1>2. ASSUME NEW id \in RequestIds,
             \/ FileFails(id) \/ ReadJournal(id) \/ WriteText(id)
             \/ NamesAreGone(id) \/ Collect(id)
      PROVE  UNCHANGED newsOfMentions
  <2>1. UNCHANGED <<rows, notifications, inbox>>
    BY <1>2 DEF FileFails, ReadJournal, WriteText, NamesAreGone, Collect
  <2>. QED
    BY <2>1, OtherStepsStutter
<1>3. ASSUME NEW id \in RequestIds, InsertEvent(id)
      PROVE  UNCHANGED newsOfMentions
  BY <1>3, OtherStepsStutter DEF InsertEvent
<1>4. ASSUME NEW id \in RequestIds, FanOut(id)
      PROVE  UNCHANGED newsOfMentions
  BY <1>4, OtherStepsStutter DEF FanOut
<1>5. ASSUME NEW id \in RequestIds, NEW u \in Users, InsertMention(id, u)
      PROVE  UNCHANGED newsOfMentions
  BY <1>5, OtherStepsStutter DEF InsertMention
<1>6. ASSUME NEW id \in RequestIds, NEW u \in Users, Deliver(id, u)
      PROVE  Mentions!Next
  BY <1>6, DeliverTells DEF Mentions!Next
<1>7. CASE \/ \E i \in Issues : DeleteIssue(i)
           \/ DeleteProject
           \/ \E u \in Users : DeleteUser(u)
  BY <1>7, DeletionsWithdraw DEF Mentions!Next
<1>8. ASSUME NEW c \in Comments, DeleteComment(c)
      PROVE  UNCHANGED newsOfMentions
  <2>1. Issues \ live' = Issues \ live
    BY <1>8, BothAreContainers DEF DeleteComment
  <2>. QED
    BY <1>8, <2>1, OtherStepsStutter DEF DeleteComment
<1>9. ASSUME NEW u \in Users, ChangeAccess(u)
      PROVE  UNCHANGED newsOfMentions
  BY <1>9, OtherStepsStutter DEF ChangeAccess
<1>10. CASE Crash \/ UNCHANGED vars
  BY <1>10, OtherStepsStutter DEF Crash, vars
<1>. QED
  BY <1>1, <1>2, <1>3, <1>4, <1>5, <1>6, <1>7, <1>8, <1>9, <1>10
  DEF Next, Continue

\* However often a text is written, by whomever, through failures, crashes and
\* deletions, a user is told of a mention in it at most once: the
\* notifications implement ToldOnce.
THEOREM MentionsImplementToldOnce == Spec => MentionsAreToldOnce
<1>1. Spec => Mentions!Spec
  BY InitImplements, NextImplements, TellInvariant, PTL DEF Spec, Mentions!Spec
<1>. QED
  BY <1>1 DEF MentionsAreToldOnce
-----------------------------------------------------------------------------
(***************************************************************************)
(* Mentions that are recorded have been told.                              *)
(***************************************************************************)

\* The thread is on the way to tell u of a mention in c.
isAboutToTell(c, u) ==
    /\ thread # None
    /\ requests[thread].step \in {"insertMention", "deliver"}
    /\ requests[thread].on = c
    /\ u \in requests[thread].tell

MentionInv ==
    \A c \in Containers, u, speaker \in Users :
        <<c, u, speaker>> \in mentions =>
            toldOfMention(c, u) # {} \/ failed \/ isAboutToTell(c, u)

LEMMA InitMentionInv == Init => MentionInv
BY DEF Init, MentionInv

\* What was told of a mention is kept as long as the mention.
LEMMA DeletionsKeepTold ==
    ASSUME TypeOK, TellInv, NEW c \in Containers, NEW u \in Users,
           NEW speaker \in Users, <<c, u, speaker>> \in mentions',
           \/ \E i \in Issues : DeleteIssue(i)
           \/ DeleteProject
           \/ \E d \in Users : DeleteUser(d)
    PROVE  /\ <<c, u, speaker>> \in mentions
           /\ toldOfMention(c, u) \subseteq toldOfMention(c, u)'
<1>1. /\ inbox' = {e \in inbox : e[2] \in notifications' /\ e[1] \in users'}
      /\ <<c, u, speaker>> \in mentions
  BY DEF DeleteIssue, DeleteProject, DeleteUser, forget
<1>2. ASSUME NEW n \in toldOfMention(c, u)
      PROVE  n \in notifications' /\ u \in users'
  <2>1. n \in notifications /\ n.on = c /\ n.mentioned = u /\ u \in users
    BY <1>2 DEF toldOfMention, TellInv, ToldIsRecorded
  <2>2. ASSUME NEW i \in Issues, DeleteIssue(i)
        PROVE  n \in notifications' /\ u \in users'
    BY <2>1, <2>2 DEF DeleteIssue, forget
  <2>3. ~ DeleteProject
    BY DEF DeleteProject, forget
  <2>4. ASSUME NEW d \in Users, DeleteUser(d)
        PROVE  n \in notifications' /\ u \in users'
    <3>1. u # d
      BY <2>4 DEF DeleteUser, forget
    <3>. QED
      BY <2>1, <2>4, <3>1 DEF DeleteUser, forget
  <2>. QED
    BY <2>2, <2>3, <2>4
<1>. QED
  BY <1>1, <1>2 DEF toldOfMention

\* A step that keeps what was told and that starts with no mention to tell.
LEMMA NoneToTell ==
    ASSUME MentionInv, UNCHANGED <<mentions, failed>>,
           thread = None \/ requests[thread].step \notin {"insertMention", "deliver"},
           \A e \in inbox : e \in inbox' /\ e[2] \in notifications',
           inbox \subseteq users \X notifications
    PROVE  MentionInv'
<1>1. ASSUME NEW c \in Containers, NEW u \in Users
      PROVE  toldOfMention(c, u) \subseteq toldOfMention(c, u)'
  BY DEF toldOfMention
<1>. QED
  BY <1>1 DEF MentionInv, isAboutToTell

LEMMA NextMentionInv ==
    TypeOK /\ TellInv /\ MentionInv /\ [Next]_vars => MentionInv'
<1>. SUFFICES ASSUME TypeOK, TellInv, MentionInv, [Next]_vars
              PROVE  MentionInv'
  OBVIOUS
<1>. USE DEF rows
<1>0. inbox \subseteq users \X notifications
  BY DEF TellInv, ToldIsRecorded
<1>1. ASSUME NEW id \in RequestIds, Write(id)
      PROVE  MentionInv'
  <2>1. thread = None /\ UNCHANGED <<notifications, inbox, mentions, failed>>
    BY <1>1 DEF Write, CreateComment, UpdateComment, UpdateJournal, begin
  <2>. QED
    BY <1>0, <2>1, NoneToTell
<1>2. ASSUME NEW id \in RequestIds, ReadJournal(id) \/ WriteText(id)
      PROVE  MentionInv'
  <2>1. thread = None /\ UNCHANGED <<notifications, inbox, mentions, failed>>
    BY <1>2 DEF ReadJournal, WriteText
  <2>. QED
    BY <1>0, <2>1, NoneToTell
<1>3. ASSUME NEW id \in RequestIds, NamesAreGone(id)
      PROVE  MentionInv'
  BY <1>0, <1>3, NoneToTell DEF NamesAreGone
<1>4. ASSUME NEW id \in RequestIds, InsertEvent(id)
      PROVE  MentionInv'
  BY <1>0, <1>4, NoneToTell DEF InsertEvent
<1>5. ASSUME NEW id \in RequestIds, FanOut(id)
      PROVE  MentionInv'
  BY <1>0, <1>5, NoneToTell DEF FanOut
<1>6. ASSUME NEW id \in RequestIds, Collect(id)
      PROVE  MentionInv'
  <2>. DEFINE r == requests[id]
              first == (r.body \cap recipients(r.actor)) \ mentionedIn(r.on)
  <2>1. /\ r \in RequestAt(threadSteps, Containers)
        /\ thread = id /\ r.step = "collect"
        /\ mentions' = mentions \cup {<<r.on, u, r.actor>> : u \in first}
        /\ UNCHANGED <<rows, notifications, inbox, failed>>
    BY <1>6, RequestKinds DEF Collect, threadSteps
  <2>2. ASSUME NEW c \in Containers, NEW u \in first, c = r.on
        PROVE  isAboutToTell(c, u)'
    <3>1. /\ thread' = id
          /\ requests'[id] = [r EXCEPT !.step = "insertMention", !.body = {},
                                       !.tell = first]
      BY <1>6, <2>2 DEF Collect, goOnHolding, goOn, TypeOK
    <3>2. requests'[id].step = "insertMention" /\ requests'[id].tell = first
          /\ requests'[id].on = r.on
      BY <2>1, <3>1 DEF RequestAt
    <3>. HIDE DEF r, first
    <3>. QED
      BY <2>2, <3>1, <3>2, NoneIsNobody DEF isAboutToTell
  <2>3. ASSUME NEW c \in Containers, NEW u \in Users, NEW speaker \in Users,
               <<c, u, speaker>> \in mentions
        PROVE  toldOfMention(c, u)' # {} \/ failed'
    BY <2>1, <2>3 DEF MentionInv, isAboutToTell, toldOfMention
  <2>. HIDE DEF r, first
  <2>4. ASSUME NEW c \in Containers, NEW u \in Users, NEW speaker \in Users,
               <<c, u, speaker>> \in mentions'
        PROVE  <<c, u, speaker>> \in mentions \/ (c = r.on /\ u \in first)
    BY <2>1, <2>4
  <2>. QED
    BY <2>2, <2>3, <2>4 DEF MentionInv
<1>7. ASSUME NEW id \in RequestIds, NEW u \in Users, InsertMention(id, u)
      PROVE  MentionInv'
  <2>. DEFINE r == requests[id]
  <2>1. /\ r \in RequestAt(threadSteps, Containers)
        /\ requests'[id] = [r EXCEPT !.step = "deliver"]
        /\ thread = id /\ thread' = id /\ r.step = "insertMention"
        /\ notifications \subseteq notifications'
        /\ UNCHANGED <<inbox, mentions, failed>>
    BY <1>7, RequestKinds DEF InsertMention, goOnHolding, goOn, TypeOK, threadSteps
  <2>2. /\ requests'[id].step = "deliver" /\ requests'[id].tell = r.tell
        /\ requests'[id].on = r.on
    BY <2>1 DEF RequestAt
  <2>3. ASSUME NEW c \in Containers, NEW v \in Users
        PROVE  /\ toldOfMention(c, v) \subseteq toldOfMention(c, v)'
               /\ isAboutToTell(c, v) => isAboutToTell(c, v)'
    BY <2>1, <2>2 DEF toldOfMention, isAboutToTell
  <2>. QED
    BY <2>1, <2>3 DEF MentionInv
<1>8. ASSUME NEW id \in RequestIds, NEW u \in Users, Deliver(id, u)
      PROVE  MentionInv'
  <2>. DEFINE r == requests[id]
              n == [request |-> r.number, event |-> "mentioned", on |-> r.on,
                    actor |-> r.actor, mentioned |-> u]
  <2>1. /\ r \in RequestAt(threadSteps, Containers)
        /\ thread = id /\ r.step = "deliver" /\ u \in r.tell
        /\ n \in notifications /\ inbox' = inbox \cup {<<u, n>>}
        /\ UNCHANGED <<notifications, mentions, failed>>
    BY <1>8, RequestKinds DEF Deliver, threadSteps
  <2>2. n.event = "mentioned" /\ n.on = r.on
    OBVIOUS
  <2>. HIDE DEF n
  <2>3. ASSUME NEW c \in Containers, NEW v \in Users
        PROVE  /\ toldOfMention(c, v) \subseteq toldOfMention(c, v)'
               /\ c = r.on /\ v = u => toldOfMention(c, v)' # {}
    BY <2>1, <2>2 DEF toldOfMention
  <2>4. ASSUME NEW c \in Containers, NEW v \in Users, v # u, isAboutToTell(c, v)
        PROVE  isAboutToTell(c, v)'
    <3>1. v \in r.tell /\ c = r.on
      BY <2>1, <2>4 DEF isAboutToTell
    <3>2. /\ thread' = id
          /\ requests'[id] = [r EXCEPT !.step = "insertMention", !.tell = @ \ {u}]
      BY <1>8, <2>4, <3>1 DEF Deliver, goOnHolding, goOn, TypeOK
    <3>3. /\ requests'[id].step = "insertMention"
          /\ requests'[id].tell = r.tell \ {u}
          /\ requests'[id].on = r.on
      BY <2>1, <3>2 DEF RequestAt
    <3>. HIDE DEF r
    <3>. QED
      BY <2>4, <3>1, <3>2, <3>3, NoneIsNobody DEF isAboutToTell
  <2>5. ASSUME NEW c \in Containers, isAboutToTell(c, u)
        PROVE  c = r.on
    BY <2>1, <2>5 DEF isAboutToTell
  <2>. HIDE DEF r
  <2>. QED
    BY <2>1, <2>3, <2>4, <2>5 DEF MentionInv
<1>9. CASE \/ \E i \in Issues : DeleteIssue(i)
           \/ DeleteProject
           \/ \E u \in Users : DeleteUser(u)
  <2>1. thread = None /\ failed' = failed
    BY <1>9 DEF DeleteIssue, DeleteProject, DeleteUser, forget
  <2>. QED
    BY <1>9, <2>1, DeletionsKeepTold DEF MentionInv, isAboutToTell
<1>10. ASSUME NEW c \in Comments, DeleteComment(c)
       PROVE  MentionInv'
  BY <1>0, <1>10, NoneToTell DEF DeleteComment
<1>11. ASSUME NEW u \in Users, ChangeAccess(u)
       PROVE  MentionInv'
  BY <1>0, <1>11, NoneToTell DEF ChangeAccess
<1>12. CASE Crash \/ \E id \in RequestIds : FileFails(id)
  BY <1>12 DEF Crash, FileFails, MentionInv
<1>13. CASE UNCHANGED vars
  BY <1>13 DEF vars, MentionInv, isAboutToTell, toldOfMention
<1>. QED
  BY <1>1, <1>2, <1>3, <1>4, <1>5, <1>6, <1>7, <1>8, <1>9, <1>10, <1>11,
     <1>12, <1>13 DEF Next, Continue

\* A mention that is recorded silences all later ones in the same text, so the
\* user was told, or is about to be: deletions do not take what was told and
\* leave the mention.
THEOREM RecordedMentionsTold == Spec => []RecordedMentionsAreTold
<1>1. TypeOK /\ MentionInv => RecordedMentionsAreTold
  <2>. SUFFICES ASSUME TypeOK, MentionInv, NEW m \in mentions
                PROVE  \/ toldOfMention(m[1], m[2]) # {}
                       \/ failed
                       \/ thread # None /\ m[2] \in requests[thread].tell
    BY DEF RecordedMentionsAreTold
  <2>1. PICK c \in Containers, u \in Users, speaker \in Users :
            m = <<c, u, speaker>>
    BY DEF TypeOK
  <2>. QED
    BY <2>1 DEF MentionInv, isAboutToTell
<1>. QED
  BY <1>1, InitMentionInv, NextMentionInv, TellInvariant, PTL DEF Spec
-----------------------------------------------------------------------------
(***************************************************************************)
(* What a journal says was announced.                                      *)
(***************************************************************************)

\* The text is the empty one a journal starts with, or was announced, or the
\* promise is off.
isKnown(j, x) ==
    \/ x = {}
    \/ <<j, x>> \in announced
    \/ failed
    \/ \E u \in Users : isGone(j, u)

\* The thread is on the way to announce what the journal says.
isAboutToAnnounce(j) ==
    /\ thread # None
    /\ requests[thread].step = "insertEvent"
    /\ requests[thread].on = j
    /\ requests[thread].body = text[j]

\* A text that a request has read was known then, so it may leave it unsaid.
hasReadKnown(id) ==
    requests[id].step = "writeJournal" =>
        isKnown(requests[id].on, requests[id].previous)

AnnounceInv ==
    /\ \A j \in Journals : isKnown(j, text[j]) \/ isAboutToAnnounce(j)
    /\ \A id \in RequestIds : hasReadKnown(id)

LEMMA InitAnnounceInv == Init => AnnounceInv
BY DEF Init, AnnounceInv, hasReadKnown, isKnown, idle

\* No step takes an announcement back.
LEMMA KnownStays ==
    ASSUME TypeOK, [Next]_vars, NEW j \in Journals, NEW x, isKnown(j, x)
    PROVE  isKnown(j, x)'
<1>1. ASSUME NEW id \in RequestIds, Write(id) \/ FileFails(id)
      PROVE  announced \subseteq announced' /\ (failed => failed')
  <2>1. CASE Write(id)
    <3>1. announced' = announced /\ failed' = failed
      BY <2>1 DEF Write, CreateComment, UpdateComment, UpdateJournal, begin
    <3>. QED
      BY <3>1
  <2>2. CASE FileFails(id)
    <3>1. announced' = announced /\ failed' = TRUE
      BY <2>2 DEF FileFails
    <3>. QED
      BY <3>1
  <2>. QED
    BY <1>1, <2>1, <2>2
<1>2. ASSUME NEW id \in RequestIds, Continue(id)
      PROVE  announced \subseteq announced' /\ failed' = failed
  BY <1>2 DEF Continue, ReadJournal, WriteText, NamesAreGone, InsertEvent,
              FanOut, Collect, InsertMention, Deliver
<1>3. announced \subseteq announced' /\ (failed => failed')
  BY <1>1, <1>2 DEF Next, vars, DeleteIssue, DeleteComment, DeleteProject,
              DeleteUser, ChangeAccess, Crash, forget
<1>4. ASSUME NEW u \in Users, isGone(j, u)
      PROVE  isGone(j, u)'
  BY <1>4, GoneStays DEF Containers
<1>. QED
  BY <1>3, <1>4 DEF isKnown

\* A request with a text it has read has it of a journal.
LEMMA ReadersAreOnJournals ==
    ASSUME TypeOK, NEW id \in RequestIds, requests[id].step = "writeJournal"
    PROVE  requests[id].on \in Journals
BY RequestKinds DEF RequestAt

LEMMA UntouchedHasRead ==
    ASSUME TypeOK, AnnounceInv, [Next]_vars, NEW id \in RequestIds,
           requests'[id] = requests[id]
    PROVE  hasReadKnown(id)'
<1>. SUFFICES ASSUME requests[id].step = "writeJournal"
              PROVE  isKnown(requests[id].on, requests[id].previous)'
  BY DEF hasReadKnown
<1>1. PICK j, x : /\ j \in Journals
                  /\ j = requests[id].on /\ x = requests[id].previous
  BY ReadersAreOnJournals
<1>2. isKnown(j, x)
  BY <1>1 DEF AnnounceInv, hasReadKnown
<1>3. isKnown(j, x)'
  BY <1>1, <1>2, KnownStays
<1>. QED
  BY <1>1, <1>3 DEF isKnown, isGone

\* What one request does to its own place leaves what the others have read.
LEMMA OthersHaveRead ==
    ASSUME TypeOK, AnnounceInv, [Next]_vars, NEW id \in RequestIds, NEW n,
           goOn(id, n),
           n.step = "writeJournal" => isKnown(n.on, n.previous)'
    PROVE  \A other \in RequestIds : hasReadKnown(other)'
<1>. SUFFICES ASSUME NEW other \in RequestIds
              PROVE  hasReadKnown(other)'
  OBVIOUS
<1>1. CASE other = id
  <2>1. requests'[other] = n
    BY <1>1 DEF goOn, TypeOK
  <2>. QED
    BY <2>1 DEF hasReadKnown, isKnown, isGone
<1>2. CASE other # id
  <2>1. requests'[other] = requests[other]
    BY <1>2 DEF goOn, TypeOK
  <2>. QED
    BY <2>1, UntouchedHasRead
<1>. QED
  BY <1>1, <1>2

\* A step that writes no journal, and that starts with nothing to announce.
LEMMA NothingToAnnounce ==
    ASSUME TypeOK, AnnounceInv, [Next]_vars, text' = text,
           thread = None \/ requests[thread].step # "insertEvent"
    PROVE  \A j \in Journals : isKnown(j, text[j])'
BY KnownStays DEF AnnounceInv, isAboutToAnnounce, isKnown, isGone

LEMMA NextAnnounceInv == TypeOK /\ AnnounceInv /\ [Next]_vars => AnnounceInv'
<1>. SUFFICES ASSUME TypeOK, AnnounceInv, [Next]_vars
              PROVE  AnnounceInv'
  OBVIOUS
<1>1. ASSUME NEW id \in RequestIds, Write(id)
      PROVE  AnnounceInv'
  <2>1. PICK n : /\ goOn(id, n) /\ n.step # "writeJournal"
                 /\ thread = None /\ text' = text
    <3>1. PICK u \in Users, body \in Bodies, c \in Containers,
               step \in {"writeFirst", "writeAgain", "readJournal"} :
                   begin(id, step, u, c, body)
      BY <1>1 DEF Write, CreateComment, UpdateComment, UpdateJournal, Containers
    <3>. QED
      BY <3>1 DEF begin
  <2>2. \A j \in Journals : isKnown(j, text[j])'
    BY <2>1, NothingToAnnounce
  <2>3. \A other \in RequestIds : hasReadKnown(other)'
    BY <2>1, OthersHaveRead
  <2>. QED
    BY <2>2, <2>3 DEF AnnounceInv
<1>2. ASSUME NEW id \in RequestIds, ReadJournal(id)
      PROVE  AnnounceInv'
  <2>. DEFINE r == requests[id]
  <2>1. /\ r \in RequestAt({"readJournal", "writeJournal"}, Journals)
        /\ goOn(id, [r EXCEPT !.step = "writeJournal",
                              !.previous = text[r.on]])
        /\ thread = None /\ text' = text
    BY <1>2, RequestKinds DEF ReadJournal
  <2>2. PICK j \in Journals : j = r.on
    BY <2>1 DEF RequestAt
  <2>. HIDE DEF r
  <2>3. PICK n : goOn(id, n) /\ n.on = j /\ n.previous = text[j]
    <3>. DEFINE m == [r EXCEPT !.step = "writeJournal", !.previous = text[r.on]]
    <3>1. m.on = j /\ m.previous = text[j]
      BY <2>1, <2>2 DEF RequestAt
    <3>2. goOn(id, m)
      BY <2>1
    <3>. HIDE DEF m
    <3>. QED
      BY <3>1, <3>2
  <2>4. \A i \in Journals : isKnown(i, text[i])'
    BY <2>1, NothingToAnnounce
  <2>5. isKnown(n.on, n.previous)'
    BY <2>1, <2>3, <2>4 DEF isKnown, isGone
  <2>6. \A other \in RequestIds : hasReadKnown(other)'
    BY <2>3, <2>5, OthersHaveRead
  <2>. QED
    BY <2>4, <2>6 DEF AnnounceInv
<1>3. ASSUME NEW id \in RequestIds, WriteText(id)
      PROVE  AnnounceInv'
  <2>. DEFINE r == requests[id]
              step == IF \/ r.step = "writeFirst"
                         \/ r.step = "writeJournal" /\ r.previous # r.body
                      THEN "insertEvent" ELSE "collect"
              n == [r EXCEPT !.previous = {}, !.step = step]
  <2>1. /\ thread = None /\ thread' = id /\ goOn(id, n)
        /\ r.step \in {"writeFirst", "writeAgain", "writeJournal"}
        /\ text' = [j \in Journals |-> IF j = r.on THEN r.body ELSE text[j]]
    BY <1>3 DEF WriteText, goOnHolding
  <2>2. /\ n.step = step /\ n.on = r.on /\ n.body = r.body
        /\ r.on \in Journals => r.step = "writeJournal"
    BY <2>1, RequestKinds, BothAreContainers DEF RequestAt
  <2>3. requests'[id] = n
    BY <2>1 DEF goOn, TypeOK
  <2>. HIDE DEF n
  <2>4. ASSUME NEW j \in Journals
        PROVE  isKnown(j, text[j])' \/ isAboutToAnnounce(j)'
    <3>1. CASE j # r.on
      <4>1. isKnown(j, text[j]) /\ text'[j] = text[j]
        BY <2>1, <3>1 DEF AnnounceInv, isAboutToAnnounce
      <4>. QED
        BY <4>1, KnownStays DEF isKnown, isGone
    <3>2. CASE j = r.on /\ r.previous = r.body
      <4>1. isKnown(j, r.previous) /\ text'[j] = r.previous
        BY <2>1, <2>2, <3>2 DEF AnnounceInv, hasReadKnown
      <4>. QED
        BY <4>1, KnownStays DEF isKnown, isGone
    <3>3. CASE j = r.on /\ r.previous # r.body
      BY <2>1, <2>2, <2>3, <3>3, NoneIsNobody DEF isAboutToAnnounce
    <3>. QED
      BY <3>1, <3>2, <3>3
  <2>5. \A other \in RequestIds : hasReadKnown(other)'
    BY <2>1, <2>2, OthersHaveRead
  <2>. QED
    BY <2>4, <2>5 DEF AnnounceInv
<1>4. ASSUME NEW id \in RequestIds, NamesAreGone(id)
      PROVE  AnnounceInv'
  <2>. DEFINE r == requests[id]
  <2>1. /\ thread = id /\ ~ namesAreThere(r) /\ text' = text /\ goOn(id, idle)
        /\ r \in RequestAt(threadSteps, Containers)
    BY <1>4, RequestKinds DEF NamesAreGone, end, threadSteps
  <2>2. ASSUME NEW j \in Journals, j = r.on
        PROVE  \E u \in Users : isGone(j, u)
    <3>1. r.actor \in Users /\ IssueOf[j] \in Issues \cup {None}
      BY <2>1, IssueOfContainers DEF RequestAt, Containers
    <3>2. isGone(j, r.actor)
      BY <2>1, <2>2, <3>1 DEF namesAreThere, isGone
    <3>. QED
      BY <3>1, <3>2
  <2>3. ASSUME NEW j \in Journals
        PROVE  isKnown(j, text[j])'
    <3>1. isKnown(j, text[j])
      BY <2>1, <2>2 DEF AnnounceInv, isAboutToAnnounce, isKnown
    <3>. QED
      BY <2>1, <3>1, KnownStays DEF isKnown, isGone
  <2>4. \A other \in RequestIds : hasReadKnown(other)'
    BY <2>1, OthersHaveRead DEF idle
  <2>. QED
    BY <2>3, <2>4 DEF AnnounceInv
<1>5. ASSUME NEW id \in RequestIds, InsertEvent(id)
      PROVE  AnnounceInv'
  <2>. DEFINE r == requests[id]
              n == [r EXCEPT !.step = "fanOut", !.tell = recipients(r.actor)]
  <2>1. /\ thread = id /\ goOn(id, n) /\ text' = text
        /\ <<r.on, r.body>> \in announced'
        /\ r \in RequestAt(threadSteps, Containers)
    BY <1>5, RequestKinds DEF InsertEvent, goOnHolding, threadSteps
  <2>2. n.step = "fanOut"
    BY <2>1 DEF RequestAt
  <2>. HIDE DEF n
  <2>3. ASSUME NEW j \in Journals
        PROVE  isKnown(j, text[j])'
    <3>1. CASE isAboutToAnnounce(j)
      BY <2>1, <3>1 DEF isAboutToAnnounce, isKnown
    <3>2. CASE isKnown(j, text[j])
      BY <2>1, <3>2, KnownStays DEF isKnown, isGone
    <3>. QED
      BY <3>1, <3>2 DEF AnnounceInv
  <2>4. \A other \in RequestIds : hasReadKnown(other)'
    BY <2>1, <2>2, OthersHaveRead
  <2>. QED
    BY <2>3, <2>4 DEF AnnounceInv
\* The rest of what the thread does announces nothing more.
<1>6. ASSUME NEW id \in RequestIds, NEW u,
             \/ FanOut(id) \/ Collect(id)
             \/ InsertMention(id, u) \/ Deliver(id, u)
      PROVE  AnnounceInv'
  <2>. DEFINE r == requests[id]
  <2>1. /\ thread = id /\ r.step # "insertEvent" /\ text' = text
        /\ r \in RequestAt(threadSteps, Containers)
    BY <1>6, RequestKinds
    DEF FanOut, Collect, InsertMention, Deliver, threadSteps
  <2>2. PICK n : goOn(id, n) /\ n.step # "writeJournal"
    <3>1. CASE FanOut(id)
      <4>1. [r EXCEPT !.step = "collect", !.tell = {}].step = "collect"
        BY <2>1 DEF RequestAt
      <4>. QED
        BY <3>1, <4>1 DEF FanOut, goOnHolding
    <3>2. CASE Collect(id)
      <4>. DEFINE first == (r.body \cap recipients(r.actor)) \ mentionedIn(r.on)
                  n == [r EXCEPT !.step = "insertMention", !.body = {},
                                 !.tell = first]
      <4>1. n.step = "insertMention" /\ idle.step = "idle"
        BY <2>1 DEF RequestAt, idle
      <4>2. goOn(id, n) \/ goOn(id, idle)
        BY <3>2 DEF Collect, end, goOnHolding
      <4>. HIDE DEF n
      <4>. QED
        BY <4>1, <4>2
    <3>3. CASE InsertMention(id, u)
      <4>1. [r EXCEPT !.step = "deliver"].step = "deliver"
        BY <2>1 DEF RequestAt
      <4>. QED
        BY <3>3, <4>1 DEF InsertMention, goOnHolding
    <3>4. CASE Deliver(id, u)
      <4>. DEFINE n == [r EXCEPT !.step = "insertMention", !.tell = @ \ {u}]
      <4>1. n.step = "insertMention" /\ idle.step = "idle"
        BY <2>1 DEF RequestAt, idle
      <4>2. goOn(id, n) \/ goOn(id, idle)
        BY <3>4 DEF Deliver, end, goOnHolding
      <4>. HIDE DEF n
      <4>. QED
        BY <4>1, <4>2
    <3>. QED
      BY <1>6, <3>1, <3>2, <3>3, <3>4
  <2>3. \A j \in Journals : isKnown(j, text[j])'
    BY <2>1, NothingToAnnounce
  <2>4. \A other \in RequestIds : hasReadKnown(other)'
    BY <2>2, OthersHaveRead
  <2>. QED
    BY <2>3, <2>4 DEF AnnounceInv
<1>7. CASE \/ \E i \in Issues : DeleteIssue(i)
           \/ \E c \in Comments : DeleteComment(c)
           \/ DeleteProject
           \/ \E u \in Users : DeleteUser(u) \/ ChangeAccess(u)
  <2>1. thread = None /\ text' = text /\ requests' = requests
    BY <1>7 DEF DeleteIssue, DeleteComment, DeleteProject, DeleteUser,
                ChangeAccess, forget
  <2>2. \A j \in Journals : isKnown(j, text[j])'
    BY <2>1, NothingToAnnounce
  <2>3. \A id \in RequestIds : hasReadKnown(id)'
    BY <2>1, UntouchedHasRead
  <2>. QED
    BY <2>2, <2>3 DEF AnnounceInv
<1>8. CASE Crash \/ \E id \in RequestIds : FileFails(id)
  BY <1>8 DEF Crash, FileFails, AnnounceInv, hasReadKnown, isKnown
<1>9. CASE UNCHANGED vars
  BY <1>9 DEF vars, rows, AnnounceInv, hasReadKnown, isKnown, isAboutToAnnounce,
              isGone
<1>. QED
  BY <1>1, <1>2, <1>3, <1>4, <1>5, <1>6, <1>7, <1>8, <1>9 DEF Next, Continue

\* What a journal says was announced, or is about to be, unless a failure or a
\* deletion came first.
THEOREM JournalTextsAnnounced == Spec => []JournalTextsAreAnnounced
<1>1. AnnounceInv => JournalTextsAreAnnounced
  BY DEF AnnounceInv, JournalTextsAreAnnounced, isKnown, isAboutToAnnounce
<1>2. TypeOK /\ AnnounceInv /\ [Next]_vars => (TypeOK /\ AnnounceInv)'
  BY NextTypeOK, NextAnnounceInv
<1>. QED
  BY <1>1, <1>2, InitTypeOK, InitAnnounceInv, PTL DEF Spec
-----------------------------------------------------------------------------
(***************************************************************************)
(* Only readers are told.                                                  *)
(***************************************************************************)

isUnderWay(id) == requests[id].step # "idle"

\* The rows that a request inserts are found by its number: no other request
\* under way has it, and what was inserted with it names its actor.
NumberInv ==
    /\ \A id, other \in RequestIds :
          isUnderWay(id) /\ isUnderWay(other) /\ id # other =>
              requests[id].number # requests[other].number
    /\ \A id \in RequestIds : isUnderWay(id) => requests[id].number \in 1 .. begun
    /\ \A n \in notifications : n.request \in 1 .. begun
    /\ \A n \in notifications, id \in RequestIds :
          isUnderWay(id) /\ n.request = requests[id].number =>
              n.actor = requests[id].actor

LEMMA InitNumberInv == Init => NumberInv
BY DEF Init, NumberInv, isUnderWay, idle

\* A request that goes on keeps its number and its actor, and a row that it
\* inserts has them.
LEMMA SameNumbers ==
    ASSUME TypeOK, NumberInv, NEW id \in RequestIds, NEW r,
           requests' = [requests EXCEPT ![id] = r],
           \/ r = idle
           \/ /\ isUnderWay(id)
              /\ r.number = requests[id].number
              /\ r.actor = requests[id].actor,
           begun' = begun,
           \A n \in notifications' \ notifications :
               /\ isUnderWay(id)
               /\ n.request = requests[id].number
               /\ n.actor = requests[id].actor
    PROVE  NumberInv'
<1>1. requests'[id] = r /\ \A other \in RequestIds \ {id} : requests'[other] = requests[other]
  BY DEF TypeOK
<1>2. ASSUME NEW other \in RequestIds, isUnderWay(other)'
      PROVE  /\ isUnderWay(other)
             /\ requests'[other].number = requests[other].number
             /\ requests'[other].actor = requests[other].actor
  BY <1>1, <1>2 DEF isUnderWay, idle
<1>3. \A n \in notifications' : n.request \in 1 .. begun'
  BY DEF NumberInv
<1>4. ASSUME NEW n \in notifications', NEW other \in RequestIds,
             isUnderWay(other)', n.request = requests'[other].number
      PROVE  n.actor = requests'[other].actor
  <2>1. CASE n \in notifications
    BY <1>2, <1>4, <2>1 DEF NumberInv
  <2>2. CASE n \notin notifications
    <3>1. other = id
      BY <1>2, <1>4, <2>2 DEF NumberInv
    <3>. QED
      BY <1>2, <1>4, <2>2, <3>1
  <2>. QED
    BY <2>1, <2>2
<1>. QED
  BY <1>2, <1>3, <1>4 DEF NumberInv

LEMMA BeginNumberInv ==
    ASSUME TypeOK, NumberInv, NEW id \in RequestIds, Write(id)
    PROVE  NumberInv'
<1>1. PICK u \in Users, body \in Bodies, c \in Containers,
           step \in {"writeFirst", "writeAgain", "readJournal"} :
               begin(id, step, u, c, body)
  BY DEF Write, CreateComment, UpdateComment, UpdateJournal, Containers
<1>2. /\ begun' = begun + 1 /\ begun \in Nat
      /\ UNCHANGED notifications
      /\ requests'[id] = [step |-> step, number |-> begun + 1, actor |-> u,
                          on |-> c, body |-> body, previous |-> {}, tell |-> {}]
      /\ \A other \in RequestIds \ {id} : requests'[other] = requests[other]
  BY <1>1 DEF begin, goOn, TypeOK
<1>3. requests'[id].number = begun + 1
  BY <1>2
<1>4. \A other \in RequestIds \ {id} : isUnderWay(other)' = isUnderWay(other)
  BY <1>2 DEF isUnderWay
<1>. QED
  BY <1>2, <1>3, <1>4 DEF NumberInv

LEMMA NextNumberInv == TypeOK /\ NumberInv /\ [Next]_vars => NumberInv'
<1>. SUFFICES ASSUME TypeOK, NumberInv, [Next]_vars
              PROVE  NumberInv'
  OBVIOUS
<1>1. ASSUME NEW id \in RequestIds, FileFails(id) \/ NamesAreGone(id)
      PROVE  NumberInv'
  BY <1>1, SameNumbers DEF FileFails, NamesAreGone, end, goOn
<1>2. ASSUME NEW id \in RequestIds, ReadJournal(id)
      PROVE  NumberInv'
  <2>. DEFINE r == [requests[id] EXCEPT !.step = "writeJournal",
                                        !.previous = text[requests[id].on]]
  <2>1. r.number = requests[id].number /\ r.actor = requests[id].actor /\ isUnderWay(id)
    BY <1>2, RequestKinds DEF ReadJournal, RequestAt, isUnderWay
  <2>. QED
    BY <1>2, <2>1, SameNumbers DEF ReadJournal, goOn
<1>3. ASSUME NEW id \in RequestIds, WriteText(id)
      PROVE  NumberInv'
  <2>. DEFINE step == IF \/ requests[id].step = "writeFirst"
                         \/ /\ requests[id].step = "writeJournal"
                            /\ requests[id].previous # requests[id].body
                      THEN "insertEvent" ELSE "collect"
              r == [requests[id] EXCEPT !.previous = {}, !.step = step]
  <2>1. r.number = requests[id].number /\ r.actor = requests[id].actor /\ isUnderWay(id)
    BY <1>3, RequestKinds DEF WriteText, RequestAt, isUnderWay
  <2>. QED
    BY <1>3, <2>1, SameNumbers DEF WriteText, goOnHolding, goOn
<1>4. ASSUME NEW id \in RequestIds, requests[id].step \in threadSteps
      PROVE  requests[id] \in RequestAt(threadSteps, Containers) /\ isUnderWay(id)
  BY <1>4, RequestKinds DEF isUnderWay, threadSteps
<1>5. ASSUME NEW id \in RequestIds, InsertEvent(id)
      PROVE  NumberInv'
  <2>. DEFINE r == [requests[id] EXCEPT !.step = "fanOut",
                                        !.tell = recipients(requests[id].actor)]
              n == [request |-> requests[id].number, event |-> "written",
                    on |-> requests[id].on, actor |-> requests[id].actor,
                    mentioned |-> None]
  <2>1. r.number = requests[id].number /\ r.actor = requests[id].actor /\ isUnderWay(id)
    BY <1>4, <1>5 DEF InsertEvent, RequestAt, threadSteps
  <2>2. notifications' = notifications \cup {n} /\ begun' = begun
        /\ requests' = [requests EXCEPT ![id] = r]
    BY <1>5 DEF InsertEvent, goOnHolding, goOn
  <2>3. n.request = requests[id].number /\ n.actor = requests[id].actor
    OBVIOUS
  <2>. HIDE DEF n, r
  <2>. QED
    BY <2>1, <2>2, <2>3, SameNumbers
<1>6. ASSUME NEW id \in RequestIds, FanOut(id)
      PROVE  NumberInv'
  <2>. DEFINE r == [requests[id] EXCEPT !.step = "collect", !.tell = {}]
  <2>1. r.number = requests[id].number /\ r.actor = requests[id].actor /\ isUnderWay(id)
    BY <1>4, <1>6 DEF FanOut, RequestAt, threadSteps
  <2>. QED
    BY <1>6, <2>1, SameNumbers DEF FanOut, goOnHolding, goOn
<1>7. ASSUME NEW id \in RequestIds, Collect(id)
      PROVE  NumberInv'
  <2>. DEFINE first == (requests[id].body \cap recipients(requests[id].actor))
                          \ mentionedIn(requests[id].on)
              r == [requests[id] EXCEPT !.step = "insertMention", !.body = {},
                                        !.tell = first]
  <2>1. r.number = requests[id].number /\ r.actor = requests[id].actor /\ isUnderWay(id)
    BY <1>4, <1>7 DEF Collect, RequestAt, threadSteps
  <2>2. /\ UNCHANGED <<notifications, begun>>
        /\ \/ requests' = [requests EXCEPT ![id] = idle]
           \/ requests' = [requests EXCEPT ![id] = r]
    BY <1>7 DEF Collect, end, goOnHolding, goOn
  <2>. HIDE DEF r
  <2>. QED
    BY <2>1, <2>2, SameNumbers
<1>8. ASSUME NEW id \in RequestIds, NEW u \in Users, InsertMention(id, u)
      PROVE  NumberInv'
  <2>. DEFINE r == [requests[id] EXCEPT !.step = "deliver"]
              n == [request |-> requests[id].number, event |-> "mentioned",
                    on |-> requests[id].on, actor |-> requests[id].actor,
                    mentioned |-> u]
  <2>1. r.number = requests[id].number /\ r.actor = requests[id].actor /\ isUnderWay(id)
    BY <1>4, <1>8 DEF InsertMention, RequestAt, threadSteps
  <2>2. notifications' = notifications \cup {n} /\ begun' = begun
        /\ requests' = [requests EXCEPT ![id] = r]
    BY <1>8 DEF InsertMention, goOnHolding, goOn
  <2>3. n.request = requests[id].number /\ n.actor = requests[id].actor
    OBVIOUS
  <2>. HIDE DEF n, r
  <2>. QED
    BY <2>1, <2>2, <2>3, SameNumbers
<1>9. ASSUME NEW id \in RequestIds, NEW u \in Users, Deliver(id, u)
      PROVE  NumberInv'
  <2>. DEFINE r == [requests[id] EXCEPT !.step = "insertMention", !.tell = @ \ {u}]
  <2>1. r.number = requests[id].number /\ r.actor = requests[id].actor /\ isUnderWay(id)
    BY <1>4, <1>9 DEF Deliver, RequestAt, threadSteps
  <2>2. /\ UNCHANGED <<notifications, begun>>
        /\ \/ requests' = [requests EXCEPT ![id] = idle]
           \/ requests' = [requests EXCEPT ![id] = r]
    BY <1>9 DEF Deliver, end, goOnHolding, goOn
  <2>. HIDE DEF r
  <2>. QED
    BY <2>1, <2>2, SameNumbers
<1>10. ASSUME UNCHANGED <<requests, begun>>, notifications' \subseteq notifications
       PROVE  NumberInv'
  <2>1. \A id \in RequestIds : isUnderWay(id)' = isUnderWay(id)
    BY <1>10 DEF isUnderWay
  <2>. QED
    BY <1>10, <2>1 DEF NumberInv
<1>11. CASE \/ \E i \in Issues : DeleteIssue(i)
            \/ \E c \in Comments : DeleteComment(c)
            \/ DeleteProject
            \/ \E u \in Users : DeleteUser(u) \/ ChangeAccess(u)
            \/ UNCHANGED vars
  <2>1. UNCHANGED <<requests, begun>> /\ notifications' \subseteq notifications
    BY <1>11 DEF DeleteIssue, DeleteComment, DeleteProject, DeleteUser,
                 ChangeAccess, vars, forget
  <2>. QED
    BY <1>10, <2>1
<1>12. CASE Crash
  BY <1>12 DEF Crash, NumberInv, isUnderWay, idle
<1>. QED
  BY <1>1, <1>2, <1>3, <1>5, <1>6, <1>7, <1>8, <1>9, <1>11, <1>12,
     BeginNumberInv DEF Next, Continue

\* A step that adds to what users got fans out an event or delivers a mention.
LEMMA OthersTellNobody ==
    ASSUME [Next]_vars,
           ~ \E id \in RequestIds : FanOut(id) \/ \E u \in Users : Deliver(id, u)
    PROVE  inbox' \subseteq inbox
<1>1. ASSUME NEW id \in RequestIds, Write(id) \/ FileFails(id)
      PROVE  inbox' = inbox
  BY <1>1 DEF Write, FileFails, CreateComment, UpdateComment, UpdateJournal, begin
<1>2. ASSUME NEW id \in RequestIds, Continue(id)
      PROVE  inbox' = inbox
  BY <1>2 DEF Continue, ReadJournal, WriteText, NamesAreGone, InsertEvent,
              Collect, InsertMention
<1>3. CASE \/ \E i \in Issues : DeleteIssue(i)
           \/ \E c \in Comments : DeleteComment(c)
           \/ DeleteProject
           \/ \E u \in Users : DeleteUser(u) \/ ChangeAccess(u)
           \/ Crash
           \/ UNCHANGED vars
  BY <1>3 DEF DeleteIssue, DeleteComment, DeleteProject, DeleteUser,
              ChangeAccess, Crash, vars, forget
<1>. QED
  BY <1>1, <1>2, <1>3 DEF Next

\* Only a user who may open the project at that moment gets a notification,
\* and never of one's own doing.
THEOREM ReadersAreTold == Spec => OnlyReadersAreTold
<1>1. TypeOK /\ TellInv /\ NumberInv /\ [Next]_vars =>
          \A e \in inbox' \ inbox : e[1] \in access /\ e[1] # e[2].actor
  <2>. SUFFICES ASSUME TypeOK, TellInv, NumberInv, [Next]_vars,
                       NEW e \in inbox' \ inbox
                PROVE  e[1] \in access /\ e[1] # e[2].actor
    OBVIOUS
  <2>1. ASSUME NEW id \in RequestIds, FanOut(id)
        PROVE  e[1] \in access /\ e[1] # e[2].actor
    <3>1. /\ e[1] \in requests[id].tell
          /\ e[2] \in notifications /\ e[2].request = requests[id].number
          /\ thread = id /\ requests[id].step = "fanOut"
      BY <2>1 DEF FanOut
    <3>2. e[2].actor = requests[id].actor
      BY <3>1 DEF NumberInv, isUnderWay
    <3>3. requests[id].tell \subseteq (users \cap access) \ {requests[id].actor}
      BY <3>1, NoneIsNobody DEF TellInv, ThreadTells
    <3>. QED
      BY <3>1, <3>2, <3>3
  <2>2. ASSUME NEW id \in RequestIds, NEW u \in Users, Deliver(id, u)
        PROVE  e[1] \in access /\ e[1] # e[2].actor
    <3>1. /\ e[1] = u /\ e[2].actor = requests[id].actor
          /\ u \in requests[id].tell
          /\ thread = id /\ requests[id].step = "deliver"
      BY <2>2 DEF Deliver
    <3>2. requests[id].tell \subseteq (users \cap access) \ {requests[id].actor}
      BY <3>1, NoneIsNobody DEF TellInv, ThreadTells
    <3>. QED
      BY <3>1, <3>2
  <2>. QED
    BY <2>1, <2>2, OthersTellNobody
<1>2. TypeOK /\ TellInv /\ NumberInv /\ [Next]_vars =>
          [\A e \in inbox' \ inbox : e[1] \in access /\ e[1] # e[2].actor]_vars
  BY <1>1
<1>. QED
  BY <1>2, InitNumberInv, NextNumberInv, TellInvariant, PTL
  DEF Spec, OnlyReadersAreTold
=============================================================================
