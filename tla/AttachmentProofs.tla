-------------------------- MODULE AttachmentProofs --------------------------
(***************************************************************************)
(* What the handlers of Attachments keep, whatever the containers are.     *)
(* Issues and Tasks, which extend Attachments, rest on it.                 *)
(***************************************************************************)
EXTENDS Attachments, TLAPS

uploadingSteps == {"writeBlob", "insertAttachment", "unlinkBlob"}

sweepingSteps == {"unlinkOrphan", "deleteOrphan"}

\* The part of a type invariant that is about attachments.
AttachmentTypes ==
    /\ attachments \subseteq Attachments
    /\ linkedTo \in [Attachments -> Containers \cup {None}]
    /\ requests = [id \in RequestIds |-> requests[id]]
    /\ \A id \in RequestIds :
          /\ requests[id].step \in uploadingSteps => requests[id] \in UploadRequest
          /\ requests[id].step \in sweepingSteps => requests[id] \in SweepRequest

\* The attachments a request has in hand.
heldBy(r) == (r.ids \cup {r.attachment}) \cap Attachments

uploadSteps == {"writeBlob", "insertAttachment"}

\* Nothing that a request has in hand is linked: a sweep holds orphans, an
\* upload an attachment that nobody else knows.
HeldAreUnlinked ==
    \A id \in RequestIds : \A a \in heldBy(requests[id]) :
        /\ a \in used
        /\ linkedTo[a] = None

\* The id of an upload is its own until its row is inserted.
UploadsOwnTheirId ==
    \A id \in RequestIds : requests[id].step \in uploadSteps =>
        LET a == requests[id].attachment IN
        /\ a \in Attachments
        /\ a \notin attachments
        /\ requests[id].step = "insertAttachment" => a \in blobs
        /\ \A other \in RequestIds \ {id} : a \notin heldBy(requests[other])

AttachmentInv ==
    /\ attachments \subseteq used
    /\ HeldAreUnlinked
    /\ UploadsOwnTheirId
    /\ LinkedAttachmentsAreStored

-----------------------------------------------------------------------------
\* A sweep begins as a request for what has no link.
LEMMA SweepRequests ==
    ASSUME AttachmentTypes, NEW id \in RequestIds, NEW links,
           sweepOrphans(id, links)
    PROVE  \E n \in {idle} \cup SweepRequest :
              goOn(id, n) /\ n.step \in {"idle"} \cup sweepingSteps
<1>. DEFINE n == [idle EXCEPT !.step = "unlinkOrphan",
                              !.ids = {a \in attachments : links[a] = None}]
<1>1. n \in SweepRequest /\ n.step = "unlinkOrphan" /\ idle.step = "idle"
  BY DEF idle, SweepRequest, AttachmentTypes
<1>2. goOn(id, idle) \/ goOn(id, n)
  BY DEF sweepOrphans, end
<1>. QED
  BY <1>1, <1>2 DEF sweepingSteps

\* An upload or a sweep goes on as one, or ends, and stays with its container.
LEMMA AttachmentStepTypes ==
    ASSUME AttachmentTypes, blobs \subseteq Attachments, failed \in BOOLEAN,
           NEW id \in RequestIds, AttachmentSteps(id)
    PROVE  /\ \E n \in {idle} \cup UploadRequest \cup SweepRequest :
                 /\ goOn(id, n)
                 /\ requests[id].step \in {"idle"} \cup uploadingSteps \cup sweepingSteps
                 /\ n.on = None \/ n.on = requests[id].on
           /\ attachments' \subseteq Attachments
           /\ linkedTo' \in [Attachments -> Containers \cup {None}]
           /\ blobs' \subseteq Attachments
           /\ failed' \in BOOLEAN /\ (failed => failed')
           /\ UNCHANGED <<live, used>>
<1>. DEFINE r == requests[id]
            quiet == /\ attachments' \subseteq Attachments
                     /\ linkedTo' \in [Attachments -> Containers \cup {None}]
                     /\ blobs' \subseteq Attachments
                     /\ failed' \in BOOLEAN /\ (failed => failed')
                     /\ UNCHANGED <<live, used>>
            goes(n) == /\ n \in {idle} \cup UploadRequest \cup SweepRequest
                       /\ goOn(id, n)
                       /\ r.step \in {"idle"} \cup uploadingSteps \cup sweepingSteps
                       /\ n.on = None \/ n.on = r.on
<1>a. /\ r.step \in uploadingSteps => r \in UploadRequest
      /\ r.step \in sweepingSteps => r \in SweepRequest
  BY DEF AttachmentTypes
<1>b. idle.on = None /\ idle.step = "idle"
  BY DEF idle
<1>. USE DEF uploadingSteps, sweepingSteps
<1>1. ASSUME NEW a \in Attachments, UnlinkOrphan(id, a)
      PROVE  quiet /\ \E n : goes(n)
  <2>. DEFINE n == [r EXCEPT !.step = "deleteOrphan", !.attachment = a,
                             !.ids = @ \ {a}]
  <2>1. r \in SweepRequest
    BY <1>1, <1>a DEF UnlinkOrphan
  <2>2. n \in SweepRequest /\ n.on = None
    BY <1>1, <2>1 DEF UnlinkOrphan, SweepRequest
  <2>3. goes(n)
    BY <1>1, <2>2 DEF UnlinkOrphan
  <2>. QED
    BY <1>1, <2>3 DEF UnlinkOrphan, AttachmentTypes
<1>2. CASE WriteBlob(id)
  <2>. DEFINE n == [r EXCEPT !.step = "insertAttachment"]
  <2>1. r \in UploadRequest
    BY <1>2, <1>a DEF WriteBlob
  <2>2. n \in UploadRequest /\ n.on = r.on /\ r.attachment \in Attachments
    BY <2>1 DEF UploadRequest
  <2>3. goes(n)
    BY <1>2, <2>2 DEF WriteBlob
  <2>. QED
    BY <1>2, <2>2, <2>3 DEF WriteBlob, AttachmentTypes
<1>3. CASE InsertAttachment(id)
  <2>. DEFINE n == [r EXCEPT !.step = "unlinkBlob"]
  <2>1. r \in UploadRequest
    BY <1>3, <1>a DEF InsertAttachment
  <2>2. /\ n \in UploadRequest /\ n.on = r.on
        /\ r.attachment \in Attachments /\ r.on \in Containers
    BY <2>1 DEF UploadRequest
  <2>3. goes(n) \/ goes(idle)
    BY <1>3, <1>b, <2>2 DEF InsertAttachment, end
  <2>4. quiet
    BY <1>3, <2>2 DEF InsertAttachment, AttachmentTypes
  <2>. QED
    BY <2>3, <2>4
<1>4. CASE UnlinkBlob(id) \/ UnlinkFails(id)
  <2>1. goes(idle)
    BY <1>4, <1>b DEF UnlinkBlob, UnlinkFails, end
  <2>. QED
    BY <1>4, <2>1 DEF UnlinkBlob, UnlinkFails, AttachmentTypes
<1>5. CASE DeleteOrphan(id)
  <2>. DEFINE n == [r EXCEPT !.step = "unlinkOrphan", !.attachment = None]
  <2>1. r \in SweepRequest
    BY <1>5, <1>a DEF DeleteOrphan
  <2>2. n \in SweepRequest /\ n.on = None
    BY <2>1 DEF SweepRequest
  <2>3. goes(n) \/ goes(idle)
    BY <1>5, <1>b, <2>2 DEF DeleteOrphan
  <2>4. quiet
    BY <1>5 DEF DeleteOrphan, AttachmentTypes
  <2>. QED
    BY <2>3, <2>4
<1>6. CASE SweepElsewhere(id)
  <2>1. PICK n \in {idle} \cup SweepRequest : goOn(id, n)
    BY <1>6, SweepRequests DEF SweepElsewhere
  <2>2. n.on = None
    BY <1>b DEF SweepRequest
  <2>3. goes(n)
    BY <1>6, <1>b, <2>1, <2>2 DEF SweepElsewhere, isFree
  <2>. QED
    BY <1>6, <2>3 DEF SweepElsewhere, AttachmentTypes
<1>7. CASE WriteBlobFails(id)
  <2>1. r \in UploadRequest
    BY <1>7, <1>a DEF WriteBlobFails
  <2>2. r.attachment \in Attachments
    BY <2>1 DEF UploadRequest
  <2>3. goes(idle)
    BY <1>7, <1>b DEF WriteBlobFails, end
  <2>. QED
    BY <1>7, <2>2, <2>3 DEF WriteBlobFails, AttachmentTypes
<1>. QED
  BY <1>1, <1>2, <1>3, <1>4, <1>5, <1>6, <1>7 DEF AttachmentSteps

\* A free slot has no attachment in hand and is no upload.
LEMMA IdleHoldsNothing == heldBy(idle) = {} /\ idle.step \notin uploadSteps
BY NoneIsNothing DEF heldBy, idle, uploadSteps

\* Links are taken away, or stay with containers that stay.
linksOnlyGo ==
    \A a \in Attachments :
        \/ linkedTo'[a] = None
        \/ linkedTo'[a] = linkedTo[a] /\ linkedTo[a] \in live'

\* A step of one request that touches no attachment and picks none up.
LEMMA QuietStep ==
    ASSUME AttachmentTypes, AttachmentInv,
           NEW id \in RequestIds, NEW n, goOn(id, n),
           heldBy(n) \subseteq heldBy(requests[id]), n.step \notin uploadSteps,
           attachments' = attachments, blobs \subseteq blobs',
           used \subseteq used', linksOnlyGo
    PROVE  AttachmentInv'
<1>1. \A x \in RequestIds : requests'[x] = IF x = id THEN n ELSE requests[x]
  BY DEF goOn, AttachmentTypes
<1>2. \A x \in RequestIds : heldBy(requests'[x]) \subseteq heldBy(requests[x])
  BY <1>1
<1>3. (attachments \subseteq used)'
  BY DEF AttachmentInv
<1>4. HeldAreUnlinked'
  <2>. SUFFICES ASSUME NEW x \in RequestIds, NEW a \in heldBy(requests'[x])
                PROVE  a \in used' /\ linkedTo'[a] = None
    BY DEF HeldAreUnlinked, heldBy
  <2>1. a \in heldBy(requests[x]) /\ a \in Attachments
    BY <1>2 DEF heldBy
  <2>. QED
    BY <2>1 DEF AttachmentInv, HeldAreUnlinked, linksOnlyGo
<1>5. UploadsOwnTheirId'
  <2>. SUFFICES ASSUME NEW x \in RequestIds, requests'[x].step \in uploadSteps
                PROVE  LET a == requests'[x].attachment IN
                       /\ a \in Attachments
                       /\ a \notin attachments'
                       /\ requests'[x].step = "insertAttachment" => a \in blobs'
                       /\ \A other \in RequestIds \ {x} :
                            a \notin heldBy(requests'[other])
    BY DEF UploadsOwnTheirId, heldBy, uploadSteps
  <2>1. x # id /\ requests'[x] = requests[x]
    BY <1>1
  <2>. QED
    BY <1>2, <2>1 DEF AttachmentInv, UploadsOwnTheirId
<1>6. LinkedAttachmentsAreStored'
  BY DEF AttachmentInv, LinkedAttachmentsAreStored, linksOnlyGo
<1>. QED
  BY <1>3, <1>4, <1>5, <1>6 DEF AttachmentInv

\* A sweep picks up rows without a link, which no upload under way has.
LEMMA SweepStep ==
    ASSUME AttachmentTypes, AttachmentInv, NEW id \in RequestIds,
           linkedTo' \in [Attachments -> Containers \cup {None}],
           sweepOrphans(id, linkedTo'),
           UNCHANGED <<attachments, blobs, used>>, linksOnlyGo
    PROVE  AttachmentInv'
<1>. DEFINE orphanIds == {a \in attachments : linkedTo'[a] = None}
            n == [idle EXCEPT !.step = "unlinkOrphan", !.ids = orphanIds]
<1>1. CASE goOn(id, idle)
  BY <1>1, IdleHoldsNothing, QuietStep
<1>2. CASE goOn(id, n)
  <2>1. /\ \A x \in RequestIds : requests'[x] = IF x = id THEN n ELSE requests[x]
        /\ n.step \notin uploadSteps
        /\ heldBy(n) \subseteq orphanIds
    BY <1>2, NoneIsNothing DEF goOn, AttachmentTypes, heldBy, idle, uploadSteps
  <2>2. HeldAreUnlinked'
    <3>. SUFFICES ASSUME NEW x \in RequestIds, NEW a \in heldBy(requests'[x])
                  PROVE  a \in used' /\ linkedTo'[a] = None
      BY DEF HeldAreUnlinked, heldBy
    <3>1. CASE x = id
      BY <2>1, <3>1 DEF AttachmentInv
    <3>2. CASE x # id
      <4>1. a \in heldBy(requests[x]) /\ a \in Attachments
        BY <2>1, <3>2 DEF heldBy
      <4>. QED
        BY <4>1 DEF AttachmentInv, HeldAreUnlinked, linksOnlyGo
    <3>. QED
      BY <3>1, <3>2
  <2>3. UploadsOwnTheirId'
    <3>. SUFFICES ASSUME NEW x \in RequestIds, requests'[x].step \in uploadSteps
                  PROVE  LET a == requests'[x].attachment IN
                         /\ a \in Attachments
                         /\ a \notin attachments'
                         /\ requests'[x].step = "insertAttachment" => a \in blobs'
                         /\ \A other \in RequestIds \ {x} :
                              a \notin heldBy(requests'[other])
      BY DEF UploadsOwnTheirId, heldBy, uploadSteps
    <3>1. x # id /\ requests'[x] = requests[x]
      BY <2>1
    <3>. QED
      BY <2>1, <3>1 DEF AttachmentInv, UploadsOwnTheirId
  <2>4. LinkedAttachmentsAreStored'
    BY DEF AttachmentInv, LinkedAttachmentsAreStored, linksOnlyGo
  <2>. QED
    BY <2>2, <2>3, <2>4 DEF AttachmentInv
<1>. QED
  BY <1>1, <1>2 DEF sweepOrphans, end

\* An upload begins with an id of its own.
LEMMA FreshUpload ==
    ASSUME AttachmentTypes, AttachmentInv, NEW id \in RequestIds,
           NEW c \in Containers, NEW a \in Attachments, a \notin used,
           goOn(id, [idle EXCEPT !.step = "writeBlob", !.on = c,
                                 !.attachment = a]),
           used' = used \cup {a}, live \subseteq live',
           UNCHANGED <<attachments, linkedTo, blobs>>
    PROVE  AttachmentInv'
<1>. DEFINE n == [idle EXCEPT !.step = "writeBlob", !.on = c, !.attachment = a]
            others == \A x \in RequestIds :
                         requests'[x] = IF x = id THEN n ELSE requests[x]
<1>1. heldBy(n) = {a} /\ n.attachment = a /\ n.step = "writeBlob"
  BY DEF heldBy, idle
<1>2. others
  BY DEF goOn, AttachmentTypes
<1>. HIDE DEF n
<1>3. linkedTo[a] = None /\ a \notin attachments
  BY DEF AttachmentInv, LinkedAttachmentsAreStored
<1>4. \A x \in RequestIds : a \notin heldBy(requests[x])
  BY DEF AttachmentInv, HeldAreUnlinked
<1>5. HeldAreUnlinked'
  BY <1>1, <1>2, <1>3 DEF AttachmentInv, HeldAreUnlinked, heldBy
<1>6. UploadsOwnTheirId'
  <2>. SUFFICES ASSUME NEW x \in RequestIds, requests'[x].step \in uploadSteps
                PROVE  LET b == requests'[x].attachment IN
                       /\ b \in Attachments
                       /\ b \notin attachments'
                       /\ requests'[x].step = "insertAttachment" => b \in blobs'
                       /\ \A other \in RequestIds \ {x} :
                            b \notin heldBy(requests'[other])
    BY DEF UploadsOwnTheirId, heldBy, uploadSteps
  <2>1. CASE x = id
    BY <1>1, <1>2, <1>3, <1>4, <2>1
  <2>2. CASE x # id
    <3>1. requests'[x] = requests[x] /\ requests[x].attachment # a
      BY <1>2, <1>4, <2>2 DEF AttachmentInv, UploadsOwnTheirId, heldBy
    <3>. QED
      BY <1>1, <1>2, <2>2, <3>1 DEF AttachmentInv, UploadsOwnTheirId
  <2>. QED
    BY <2>1, <2>2
<1>. QED
  BY <1>5, <1>6 DEF AttachmentInv, LinkedAttachmentsAreStored

\* Uploads, unlinking and sweeps keep the invariant.
LEMMA AttachmentHandlersInv ==
    ASSUME AttachmentTypes, AttachmentInv, AttachmentHandlers
    PROVE  AttachmentInv'
<1>. PICK id \in RequestIds :
        \/ \E a \in Attachments :
              \/ \E c \in Containers : BeginUpload(id, c, a)
              \/ DeleteAttachmentLink(id, a)
              \/ UnlinkOrphan(id, a)
        \/ WriteBlob(id)
        \/ InsertAttachment(id)
        \/ UnlinkBlob(id)
        \/ DeleteOrphan(id)
        \/ SweepElsewhere(id)
        \/ WriteBlobFails(id)
        \/ UnlinkFails(id)
  BY DEF AttachmentHandlers, AttachmentSteps
<1>. DEFINE r == requests[id]
            others(n) == \A x \in RequestIds :
                            requests'[x] = IF x = id THEN n ELSE requests[x]
<1>a. /\ r.step \in uploadingSteps => r \in UploadRequest
      /\ r.step \in sweepingSteps => r \in SweepRequest
  BY DEF AttachmentTypes
<1>b. ASSUME NEW n, goOn(id, n)
      PROVE  others(n)
  BY <1>b DEF goOn, AttachmentTypes
<1>. USE DEF uploadingSteps, sweepingSteps
<1>1. ASSUME NEW a \in Attachments, NEW c \in Containers, BeginUpload(id, c, a)
      PROVE  AttachmentInv'
  BY <1>1, FreshUpload DEF BeginUpload
<1>2. ASSUME NEW a \in Attachments, DeleteAttachmentLink(id, a)
      PROVE  AttachmentInv'
  <2>1. linksOnlyGo
    BY <1>2 DEF DeleteAttachmentLink, linksOnlyGo, AttachmentTypes, AttachmentInv,
       LinkedAttachmentsAreStored
  <2>. QED
    BY <1>2, <2>1, SweepStep DEF DeleteAttachmentLink, AttachmentTypes
<1>3. ASSUME NEW a \in Attachments, UnlinkOrphan(id, a)
      PROVE  AttachmentInv'
  <2>. DEFINE n == [r EXCEPT !.step = "deleteOrphan", !.attachment = a,
                             !.ids = @ \ {a}]
  <2>1. r \in SweepRequest /\ a \in r.ids /\ goOn(id, n)
    BY <1>3, <1>a DEF UnlinkOrphan
  <2>2. heldBy(n) \subseteq heldBy(r) /\ a \in heldBy(r) /\ n.step = "deleteOrphan"
    BY <2>1 DEF heldBy, SweepRequest
  <2>3. others(n)
    BY <2>1, <1>b
  <2>4. linkedTo[a] = None
    BY <2>2 DEF AttachmentInv, HeldAreUnlinked
  <2>5. HeldAreUnlinked'
    BY <1>3, <2>2, <2>3 DEF AttachmentInv, HeldAreUnlinked, UnlinkOrphan
  <2>6. UploadsOwnTheirId'
    <3>. SUFFICES ASSUME NEW x \in RequestIds, requests'[x].step \in uploadSteps
                  PROVE  LET b == requests'[x].attachment IN
                         /\ b \in Attachments
                         /\ b \notin attachments'
                         /\ requests'[x].step = "insertAttachment" => b \in blobs'
                         /\ \A other \in RequestIds \ {x} :
                              b \notin heldBy(requests'[other])
      BY DEF UploadsOwnTheirId, heldBy, uploadSteps
    <3>1. x # id /\ requests'[x] = requests[x]
      BY <2>2, <2>3 DEF uploadSteps
    <3>2. requests[x].attachment # a
      BY <2>2, <3>1 DEF AttachmentInv, UploadsOwnTheirId
    <3>. QED
      BY <1>3, <2>2, <2>3, <3>1, <3>2
      DEF AttachmentInv, UploadsOwnTheirId, UnlinkOrphan
  <2>. QED
    BY <1>3, <2>4, <2>5, <2>6
    DEF AttachmentInv, UnlinkOrphan, LinkedAttachmentsAreStored
<1>4. CASE WriteBlob(id)
  <2>. DEFINE n == [r EXCEPT !.step = "insertAttachment"]
  <2>1. r \in UploadRequest /\ goOn(id, n)
    BY <1>4, <1>a DEF WriteBlob
  <2>2. heldBy(n) = heldBy(r) /\ n.attachment = r.attachment
    BY <2>1 DEF heldBy, UploadRequest
  <2>3. others(n)
    BY <2>1, <1>b
  <2>4. HeldAreUnlinked'
    BY <1>4, <2>2, <2>3 DEF AttachmentInv, HeldAreUnlinked, WriteBlob
  <2>5. UploadsOwnTheirId'
    BY <1>4, <2>2, <2>3
    DEF AttachmentInv, UploadsOwnTheirId, WriteBlob, uploadSteps
  <2>. QED
    BY <1>4, <2>4, <2>5
    DEF AttachmentInv, WriteBlob, LinkedAttachmentsAreStored
<1>5. CASE InsertAttachment(id)
  <2>. DEFINE a == r.attachment
              n == [r EXCEPT !.step = "unlinkBlob"]
  <2>1. r \in UploadRequest /\ r.step = "insertAttachment"
    BY <1>5, <1>a DEF InsertAttachment
  <2>2. /\ a \in heldBy(r) /\ a \in Attachments /\ a \in blobs /\ a \in used
        /\ \A x \in RequestIds \ {id} : a \notin heldBy(requests[x])
    BY <2>1 DEF heldBy, UploadRequest, AttachmentInv, UploadsOwnTheirId,
       HeldAreUnlinked, uploadSteps
  <2>3. heldBy(n) = heldBy(r) /\ n.step \notin uploadSteps
    BY <2>1 DEF heldBy, UploadRequest, uploadSteps
  <2>4. /\ \A x \in RequestIds \ {id} : requests'[x] = requests[x]
        /\ requests'[id].step \notin uploadSteps
        /\ \/ heldBy(requests'[id]) = {}
           \/ heldBy(requests'[id]) = heldBy(r) /\ linkedTo' = linkedTo
    <3>1. CASE end(id)
      <4>1. others(idle)
        BY <3>1, <1>b DEF end
      <4>. QED
        BY <4>1, IdleHoldsNothing
    <3>2. CASE goOn(id, n) /\ linkedTo' = linkedTo
      <4>1. others(n)
        BY <3>2, <1>b
      <4>. QED
        BY <3>2, <4>1, <2>3
    <3>. QED
      BY <1>5, <3>1, <3>2 DEF InsertAttachment
  <2>5. \A x \in Attachments \ {a} : linkedTo'[x] = linkedTo[x]
    BY <1>5 DEF InsertAttachment, AttachmentTypes
  <2>6. HeldAreUnlinked'
    <3>. SUFFICES ASSUME NEW x \in RequestIds, NEW b \in heldBy(requests'[x])
                  PROVE  b \in used' /\ linkedTo'[b] = None
      BY DEF HeldAreUnlinked, heldBy
    <3>1. CASE x = id
      BY <1>5, <2>4, <3>1 DEF AttachmentInv, HeldAreUnlinked, InsertAttachment
    <3>2. CASE x # id
      <4>1. b \in heldBy(requests[x]) /\ b # a /\ b \in Attachments
        BY <2>2, <2>4, <3>2 DEF heldBy
      <4>. QED
        BY <1>5, <2>5, <4>1 DEF AttachmentInv, HeldAreUnlinked, InsertAttachment
    <3>. QED
      BY <3>1, <3>2
  <2>7. UploadsOwnTheirId'
    <3>. SUFFICES ASSUME NEW x \in RequestIds, requests'[x].step \in uploadSteps
                  PROVE  LET b == requests'[x].attachment IN
                         /\ b \in Attachments
                         /\ b \notin attachments'
                         /\ requests'[x].step = "insertAttachment" => b \in blobs'
                         /\ \A other \in RequestIds \ {x} :
                              b \notin heldBy(requests'[other])
      BY DEF UploadsOwnTheirId, heldBy, uploadSteps
    <3>1. x # id /\ requests'[x] = requests[x]
      BY <2>4
    <3>2. requests[x].attachment # a
      BY <2>2, <3>1 DEF AttachmentInv, UploadsOwnTheirId, heldBy
    <3>3. \A other \in RequestIds :
            heldBy(requests'[other]) \subseteq heldBy(requests[other])
      BY <2>4
    <3>. QED
      BY <1>5, <3>1, <3>2, <3>3
      DEF AttachmentInv, UploadsOwnTheirId, InsertAttachment
  <2>8. (attachments \subseteq used)'
    BY <1>5, <2>2 DEF AttachmentInv, InsertAttachment
  <2>9. LinkedAttachmentsAreStored'
    BY <1>5, <2>2, <2>5
    DEF AttachmentInv, LinkedAttachmentsAreStored, InsertAttachment, AttachmentTypes
  <2>. QED
    BY <2>6, <2>7, <2>8, <2>9 DEF AttachmentInv
<1>6. CASE UnlinkBlob(id)
  <2>1. r \in UploadRequest /\ others(idle)
    BY <1>6, <1>b, <1>a DEF UnlinkBlob, end
  <2>2. r.attachment \in heldBy(r)
    BY <2>1 DEF heldBy, UploadRequest
  <2>3. linkedTo[r.attachment] = None
    BY <2>2 DEF AttachmentInv, HeldAreUnlinked
  <2>4. HeldAreUnlinked'
    BY <1>6, <2>1, IdleHoldsNothing DEF AttachmentInv, HeldAreUnlinked, UnlinkBlob
  <2>5. UploadsOwnTheirId'
    BY <1>6, <2>1, <2>2, IdleHoldsNothing
    DEF AttachmentInv, UploadsOwnTheirId, UnlinkBlob
  <2>. QED
    BY <1>6, <2>3, <2>4, <2>5
    DEF AttachmentInv, UnlinkBlob, LinkedAttachmentsAreStored
<1>7. CASE DeleteOrphan(id)
  <2>. DEFINE a == r.attachment
              n == IF r.ids = {} THEN idle
                   ELSE [r EXCEPT !.step = "unlinkOrphan", !.attachment = None]
  <2>1. r \in SweepRequest /\ r.step = "deleteOrphan" /\ others(n)
    BY <1>7, <1>b, <1>a DEF DeleteOrphan
  <2>2. heldBy(n) \subseteq heldBy(r) /\ n.step \notin uploadSteps
    BY <2>1, IdleHoldsNothing, NoneIsNothing DEF heldBy, SweepRequest, uploadSteps
  <2>3. linkedTo' = linkedTo /\ linkedTo[a] = None
    BY <1>7, <2>1
    DEF DeleteOrphan, SweepRequest, heldBy, AttachmentInv, HeldAreUnlinked, AttachmentTypes
  <2>4. HeldAreUnlinked'
    BY <1>7, <2>1, <2>2, <2>3 DEF AttachmentInv, HeldAreUnlinked, DeleteOrphan
  <2>5. UploadsOwnTheirId'
    BY <1>7, <2>1, <2>2 DEF AttachmentInv, UploadsOwnTheirId, DeleteOrphan
  <2>. QED
    BY <1>7, <2>3, <2>4, <2>5
    DEF AttachmentInv, DeleteOrphan, LinkedAttachmentsAreStored
<1>8. CASE SweepElsewhere(id)
  BY <1>8, SweepStep
  DEF SweepElsewhere, linksOnlyGo, AttachmentTypes, AttachmentInv, LinkedAttachmentsAreStored
<1>9. CASE WriteBlobFails(id) \/ UnlinkFails(id)
  BY <1>9, QuietStep, IdleHoldsNothing
  DEF WriteBlobFails, UnlinkFails, end, linksOnlyGo, AttachmentTypes, AttachmentInv,
      LinkedAttachmentsAreStored
<1>. QED
  BY <1>1, <1>2, <1>3, <1>4, <1>5, <1>6, <1>7, <1>8, <1>9

\* Where no link changes and no container goes, no link loses its container.
LEMMA LinksStay ==
    ASSUME AttachmentTypes, AttachmentInv, linkedTo' = linkedTo,
           live \subseteq live'
    PROVE  linksOnlyGo
BY DEF linksOnlyGo, AttachmentTypes, AttachmentInv, LinkedAttachmentsAreStored

\* A crash leaves nothing in hand.
LEMMA CrashKeepsAttachments ==
    ASSUME AttachmentInv, Crash
    PROVE  AttachmentInv'
BY IdleHoldsNothing
DEF Crash, AttachmentInv, HeldAreUnlinked, UploadsOwnTheirId,
    LinkedAttachmentsAreStored

\* A step of another part of the system leaves all as it is.
LEMMA AttachmentsStay ==
    ASSUME AttachmentInv, UNCHANGED attachmentVars
    PROVE  AttachmentInv'
BY DEF attachmentVars, AttachmentInv, HeldAreUnlinked, UploadsOwnTheirId,
   LinkedAttachmentsAreStored, heldBy

\* There is no attachment at first, and nothing in hand.
LEMMA NoAttachments ==
    ASSUME attachments = {}, linkedTo = [a \in Attachments |-> None],
           requests = [id \in RequestIds |-> idle]
    PROVE  AttachmentInv
BY IdleHoldsNothing
DEF AttachmentInv, HeldAreUnlinked, UploadsOwnTheirId,
    LinkedAttachmentsAreStored
=============================================================================
