------------------------------ MODULE Handlers ------------------------------
(***************************************************************************)
(* The request handlers of the S3 and browser APIs: which namespace lock a *)
(* handler takes, what it does on either side of it, and the event it      *)
(* sends.  cmd/object-handlers.go, cmd/bucket-handlers.go,                 *)
(* cmd/web-handlers.go, cmd/object-handlers-common.go,                     *)
(* cmd/auth-handler.go.                                                    *)
(*                                                                         *)
(* The object layer below carries out each of its calls at once (XLObject, *)
(* FSObject and the multipart modules are about what happens within one);  *)
(* the namespace lock keeps the promise of RWLock.  A handler is a record  *)
(* that says what the steps further down do for it.                        *)
(***************************************************************************)
EXTENDS Integers, FiniteSets

CONSTANTS
  Object,              \* names in one bucket
  Request,             \* requests under way at a time, numbered
  MaxRequest           \* bound: requests

VARIABLES
  bucket,              \* the bucket is there
  objects,             \* [ver, data] of each object: its modTime and its content (and ETag), 0 when absent
  upload,              \* the multipart upload of each object: "none", "open" or "parts"
  policyAllows,        \* the bucket policy lets anonymous requests in
  locks,               \* namespace locks: who writes, who reads
  req,                 \* requests under way
  lastEvent,           \* last event sent for each object
  requests, clock,
  unlocked             \* objects that DeleteMultipleObjects removed beside other requests

handlerVars == <<bucket, objects, upload, policyAllows, locks, req, lastEvent, requests, clock, unlocked>>

Path == Object \cup {"bucket"}
Absent == [ver |-> 0, data |-> 0]
Waiting == [pc |-> "idle"]

-----------------------------------------------------------------------------
(* The handlers.  auth: the request must be signed, or the bucket policy   *)
(* may let it in, which is looked at before the lock is taken or when it   *)
(* is held; lock: taken for reading or writing; does: the calls into the   *)
(* object layer; event: sent when the object layer reports no error.       *)
GetObject    == [auth |-> "policy", lock |-> "R", does |-> "body", event |-> "none"]
HeadObject   == [auth |-> "policy", lock |-> "R", does |-> "info", event |-> "none"]
Download     == [auth |-> "policy", lock |-> "R", does |-> "download", event |-> "none"]
CopyObject   == [auth |-> "policy", lock |-> "W", does |-> "copy", event |-> "created"]
PutObject    == [auth |-> "locked", lock |-> "W", does |-> "put", event |-> "created"]
PostPolicy   == [auth |-> "signed", lock |-> "W", does |-> "put", event |-> "created"]
Upload       == [auth |-> "policy", lock |-> "W", does |-> "put", event |-> "created"]
DeleteObject == [auth |-> "policy", lock |-> "W", does |-> "remove", event |-> "removed"]
RemoveObject == [auth |-> "signed", lock |-> "W", does |-> "remove", event |-> "removed"]
NewMultipartUpload      == [auth |-> "policy", lock |-> "none", does |-> "open", event |-> "none"]
PutObjectPart           == [auth |-> "policy", lock |-> "none", does |-> "part", event |-> "none"]
AbortMultipartUpload    == [auth |-> "policy", lock |-> "none", does |-> "abort", event |-> "none"]
ListObjectParts         == [auth |-> "policy", lock |-> "none", does |-> "parts", event |-> "none"]
CompleteMultipartUpload == [auth |-> "policy", lock |-> "W", does |-> "complete", event |-> "created"]
DeleteMultipleObjects   == [auth |-> "policy", lock |-> "none", does |-> "removeAll", event |-> "removed"]
PutBucket    == [auth |-> "signed", lock |-> "W", does |-> "makeBucket", event |-> "none"]
MakeBucket   == [auth |-> "signed", lock |-> "W", does |-> "makeBucket", event |-> "none"]
HeadBucket   == [auth |-> "policy", lock |-> "R", does |-> "statBucket", event |-> "none"]
DeleteBucket == [auth |-> "signed", lock |-> "W", does |-> "deleteBucket", event |-> "none"]
GetBucketLocation == [auth |-> "policy", lock |-> "none", does |-> "statBucket", event |-> "none"]
ListMultipartUploads == [auth |-> "policy", lock |-> "none", does |-> "list", event |-> "none"]
ListBuckets  == [auth |-> "signed", lock |-> "none", does |-> "list", event |-> "none"]

ObjectHandler == {GetObject, HeadObject, Download, CopyObject, PutObject, PostPolicy, Upload, DeleteObject, RemoveObject,
                  NewMultipartUpload, PutObjectPart, AbortMultipartUpload, ListObjectParts, CompleteMultipartUpload}
BucketHandler == {DeleteMultipleObjects, PutBucket, MakeBucket, HeadBucket, DeleteBucket, GetBucketLocation, ListMultipartUploads,
                  ListBuckets}

(* Preconditions of GetObject, HeadObject and, with 412 throughout,        *)
(* CopyObject.                                                             *)
always == [if |-> "always", arg |-> 0]
Condition == {always} \cup
             [if : {"modified", "unmodified", "match", "noneMatch"}, arg : {1}]
ifModifiedSince(info, time) == info.ver > time
isETagEqual(info, etag) == info.data = etag
checkPreconditions(info, c) ==
  CASE c.if = "modified"   -> IF ~ifModifiedSince(info, c.arg) THEN "304" ELSE "go on"
    [] c.if = "unmodified" -> IF ifModifiedSince(info, c.arg) THEN "412" ELSE "go on"
    [] c.if = "match"      -> IF ~isETagEqual(info, c.arg) THEN "412" ELSE "go on"
    [] c.if = "noneMatch"  -> IF isETagEqual(info, c.arg) THEN "304" ELSE "go on"
    [] OTHER -> "go on"
checkCopyObjectPreconditions(info, c) == IF checkPreconditions(info, c) = "go on" THEN "go on" ELSE "412"

-----------------------------------------------------------------------------
(* Who may do what: a signed request, or an anonymous one that the bucket  *)
(* policy allows if the handler names a policy action.                     *)
AuthType == {"signed", "anonymous", "unknown"}
enforceBucketPolicy == bucket /\ policyAllows
signatureMatches(a) == a = "signed"
isSupportedS3AuthType(a) == a # "unknown"
checkRequestAuthType(h, a) ==
  /\ isSupportedS3AuthType(a)
  /\ \/ signatureMatches(a)
     \/ a = "anonymous" /\ h.auth # "signed" /\ enforceBucketPolicy

active(q) == req[q].pc # "idle"
removesAll(q) == active(q) /\ req[q].h = DeleteMultipleObjects
(* Copying an object onto itself.                                          *)
neverSame(r) == FALSE
cpSrcDstSame(r) == r.x = r.src

free(p) == locks[p] = [w |-> 0, r |-> {}]
readableAlways(p) == TRUE
readable(p) == locks[p].w = 0

HandlersInit ==
  /\ bucket = TRUE /\ policyAllows \in BOOLEAN
  /\ objects = [x \in Object |-> Absent] /\ upload = [x \in Object |-> "none"]
  /\ locks = [p \in Path |-> [w |-> 0, r |-> {}]]
  /\ req = [q \in Request |-> Waiting]
  /\ lastEvent = [x \in Object |-> "none"] /\ requests = 0 /\ clock = 0 /\ unlocked = {}

goes(q, pc) == req' = [req EXCEPT ![q].pc = pc]
leaves(q) == goes(q, "leave")

arrives(q) == requests < MaxRequest /\ ~active(q) /\ \A k \in Request : k < q => active(k)

(* A request arrives and is refused, or waits for its lock.                *)
Receive(q, h, x, src, c, a) ==
  /\ requests' = requests + 1
  /\ LET allowed == checkRequestAuthType(h, a)
         others == {k \in Request \ {q} : active(k)}
         beside == others # {} /\ (h = DeleteMultipleObjects \/ \E k \in others : removesAll(k))
     IN IF h.auth # "locked" /\ ~allowed THEN UNCHANGED <<req, unlocked>>
        ELSE /\ req' = [k \in Request |->
                  IF k = q THEN [pc |-> IF h.lock = "none" THEN "work" ELSE "lock", h |-> h, x |-> x, src |-> src, cond |-> c,
                                 allowed |-> allowed, info |-> Absent, got |-> Absent, todo |-> Object, beside |-> beside]
                  ELSE IF beside /\ active(k) THEN [req[k] EXCEPT !.beside = TRUE] ELSE req[k]]
             /\ unlocked' = IF beside THEN Object ELSE unlocked
  /\ UNCHANGED <<bucket, objects, upload, policyAllows, locks, lastEvent, clock>>

(* The namespace lock of the object or the bucket; CopyObject takes the    *)
(* one of its source after the one of its destination.                     *)
Lock(q) ==
  LET r == req[q] p == r.x
  IN /\ r.pc = "lock"
     /\ \/ r.h.lock = "W" /\ free(p) /\ locks' = [locks EXCEPT ![p].w = q]
        \/ r.h.lock = "R" /\ readable(p) /\ locks' = [locks EXCEPT ![p].r = @ \cup {q}]
     /\ goes(q, IF ~r.allowed THEN "leave" ELSE IF r.h.does = "copy" /\ ~cpSrcDstSame(r) THEN "lockSource" ELSE "work")
     /\ UNCHANGED <<bucket, objects, upload, policyAllows, lastEvent, requests, clock, unlocked>>
LockSource(q) ==
  /\ req[q].pc = "lockSource" /\ readable(req[q].src)
  /\ locks' = [locks EXCEPT ![req[q].src].r = @ \cup {q}] /\ goes(q, "work")
  /\ UNCHANGED <<bucket, objects, upload, policyAllows, lastEvent, requests, clock, unlocked>>

(* GetObjectInfo and the preconditions.                                    *)
Info(q) ==
  LET r == req[q]
      info == objects[IF r.h.does = "copy" THEN r.src ELSE r.x]
      verdict == IF r.h.does = "copy" THEN checkCopyObjectPreconditions(info, r.cond) ELSE checkPreconditions(info, r.cond)
  IN /\ r.pc = "work" /\ r.h.does \in {"body", "info", "download", "copy"}
     /\ req' = [req EXCEPT ![q].info = info, ![q].cond = always,
                           ![q].pc = IF info = Absent \/ verdict # "go on" \/ r.h.does = "info" THEN "leave" ELSE "data"]
     /\ UNCHANGED <<bucket, objects, upload, policyAllows, locks, lastEvent, requests, clock, unlocked>>

(* GetObject of what GetObjectInfo described.                              *)
Body(q) ==
  LET r == req[q]
  IN /\ r.pc = "data" /\ r.h.does \in {"body", "download"}
     /\ req' = [req EXCEPT ![q].got = objects[r.x], ![q].pc = "leave"]
     /\ UNCHANGED <<bucket, objects, upload, policyAllows, locks, lastEvent, requests, clock, unlocked>>

(* PutObject, CopyObject and CompleteMultipartUpload create the object.    *)
created(x, data) == objects' = [objects EXCEPT ![x] = [ver |-> clock + 1, data |-> data]] /\ clock' = clock + 1
Copy(q, replace) ==
  LET r == req[q] source == objects[r.src]
  IN /\ r.pc = "data" /\ r.h.does = "copy"
     /\ IF source = Absent \/ (cpSrcDstSame(r) /\ ~replace) THEN leaves(q) /\ UNCHANGED <<objects, clock>>
        ELSE created(r.x, source.data) /\ req' = [req EXCEPT ![q].got = source, ![q].pc = "event"]
     /\ UNCHANGED <<bucket, upload, policyAllows, locks, lastEvent, requests, unlocked>>
unlocks(q) == locks' = [p \in Path |-> [w |-> IF locks[p].w = q THEN 0 ELSE locks[p].w, r |-> locks[p].r \ {q}]]
putUnlocks(q) ==
  LET r == req[q]
  IN /\ r.pc = "work" /\ r.h.does = "put" /\ unlocks(q)
     /\ IF bucket THEN created(r.x, clock + 1) /\ goes(q, "event") ELSE leaves(q) /\ UNCHANGED <<objects, clock>>
     /\ UNCHANGED <<bucket, upload, policyAllows, lastEvent, requests, unlocked>>
Put(q) ==
  LET r == req[q]
  IN /\ r.pc = "work" /\ r.h.does = "put"
     /\ IF bucket THEN created(r.x, clock + 1) /\ goes(q, "event") ELSE leaves(q) /\ UNCHANGED <<objects, clock>>
     /\ UNCHANGED <<bucket, upload, policyAllows, locks, lastEvent, requests, unlocked>>

(* The multipart operations.                                               *)
Multipart(q) ==
  LET r == req[q] u == upload[r.x]
      step(does, before, after) == r.h.does = does /\ u \in before /\ upload' = [upload EXCEPT ![r.x] = after]
  IN /\ r.pc = "work" /\ r.h.does \in {"open", "part", "abort", "parts"}
     /\ \/ bucket /\ step("open", {"none"}, "open")
        \/ step("part", {"open", "parts"}, "parts")
        \/ step("abort", {"open", "parts"}, "none")
        \/ UNCHANGED upload                     \* listing, an unknown upload, or a failure
     /\ leaves(q)
     /\ UNCHANGED <<bucket, objects, policyAllows, locks, lastEvent, requests, clock, unlocked>>
Complete(q) ==
  LET r == req[q]
  IN /\ r.pc = "work" /\ r.h.does = "complete"
     /\ IF upload[r.x] = "parts"
          THEN created(r.x, clock + 1) /\ upload' = [upload EXCEPT ![r.x] = "none"] /\ goes(q, "event")
          ELSE leaves(q) /\ UNCHANGED <<objects, upload, clock>>
     /\ UNCHANGED <<bucket, policyAllows, locks, lastEvent, requests, unlocked>>

(* DeleteObject, and DeleteMultipleObjects: in parallel, unlocked.         *)
Delete(q) ==
  LET r == req[q]
  IN /\ r.pc = "work" /\ r.h.does = "remove"
     /\ IF objects[r.x] = Absent THEN leaves(q) /\ UNCHANGED objects
        ELSE objects' = [objects EXCEPT ![r.x] = Absent] /\ goes(q, "event")
     /\ UNCHANGED <<bucket, upload, policyAllows, locks, lastEvent, requests, clock, unlocked>>
RemoveOne(q, x) ==
  LET r == req[q]
  IN /\ r.pc = "work" /\ r.h.does = "removeAll" /\ x \in r.todo
     /\ objects' = [objects EXCEPT ![x] = Absent]
     /\ req' = [req EXCEPT ![q].todo = @ \ {x}, ![q].pc = IF r.todo = {x} THEN "events" ELSE "work"]
     /\ UNCHANGED <<bucket, upload, policyAllows, locks, lastEvent, requests, clock, unlocked>>

BucketOp(q) ==
  LET r == req[q]
  IN /\ r.pc = "work" /\ r.h.does \in {"makeBucket", "deleteBucket", "statBucket", "list"}
     /\ bucket' = CASE r.h.does = "makeBucket" -> TRUE
                    [] r.h.does = "deleteBucket" -> bucket /\ \E x \in Object : objects[x] # Absent
                    [] OTHER -> bucket
     /\ leaves(q)
     /\ UNCHANGED <<objects, upload, policyAllows, locks, lastEvent, requests, clock, unlocked>>

(* eventNotify, after the response is written and before the deferred      *)
(* unlock; DeleteMultipleObjects sends one for each object it named.       *)
Event(q) ==
  LET r == req[q]
  IN /\ r.pc = "event" /\ lastEvent' = [lastEvent EXCEPT ![r.x] = r.h.event]
     /\ unlocked' = IF r.beside THEN unlocked ELSE unlocked \ {r.x}
     /\ leaves(q)
     /\ UNCHANGED <<bucket, objects, upload, policyAllows, locks, requests, clock>>
EventEach(q) ==
  /\ req[q].pc = "events" /\ lastEvent' = [x \in Object |-> "removed"]
  /\ unlocked' = IF req[q].beside THEN unlocked ELSE {}
  /\ leaves(q)
  /\ UNCHANGED <<bucket, objects, upload, policyAllows, locks, requests, clock>>

Unlock(q) ==
  /\ req[q].pc = "leave"
  /\ req' = [req EXCEPT ![q] = Waiting]
  /\ unlocks(q)
  /\ UNCHANGED <<bucket, objects, upload, policyAllows, lastEvent, requests, clock, unlocked>>

work(q) ==
  \/ Lock(q) \/ LockSource(q) \/ Info(q) \/ Body(q) \/ \E replace \in BOOLEAN : Copy(q, replace)
  \/ Put(q) \/ Multipart(q) \/ Complete(q) \/ Delete(q) \/ \E x \in Object : RemoveOne(q, x)
  \/ BucketOp(q) \/ Event(q) \/ EventEach(q) \/ Unlock(q)
HandlersNext ==
  \/ \E q \in {k \in Request : arrives(k)}, a \in AuthType :
       \/ \E h \in {GetObject, HeadObject}, x \in Object, c \in Condition : Receive(q, h, x, x, c, a)
       \/ \E x \in Object, src \in Object, c \in Condition : Receive(q, CopyObject, x, src, c, a)
       \/ \E h \in ObjectHandler \ {GetObject, HeadObject, CopyObject}, x \in Object : Receive(q, h, x, x, always, a)
       \/ \E h \in BucketHandler : Receive(q, h, "bucket", "bucket", always, a)
  \/ \E q \in Request : work(q)
HandlersSpec == HandlersInit /\ [][HandlersNext]_handlerVars

-----------------------------------------------------------------------------
(* Properties.                                                             *)

(* What GetObject sends, and what CopyObject copies, is the version whose  *)
(* headers were sent and whose preconditions were checked, whatever other  *)
(* requests do in between; an object that DeleteMultipleObjects removes    *)
(* meanwhile is at worst missing.                                          *)
OneVersion ==
  \A q \in Request : active(q) /\ req[q].got # Absent => req[q].got = req[q].info

(* Once no request is under way on an object, the last event sent for it   *)
(* says whether it is there: events leave in the order of the changes      *)
(* because the lock is given up after the event.  DeleteMultipleObjects    *)
(* beside other requests is excepted: it takes no lock.                    *)
LastEventTells ==
  \A x \in Object \ unlocked :
    lastEvent[x] # "none" /\ (\A q \in Request : active(q) => req[q].x # x /\ ~removesAll(q))
      => (lastEvent[x] = "created" <=> objects[x] # Absent)

(* As long as a request is under way one of them can go on.  Two copies in *)
(* opposite directions are excepted: each holds its destination and waits  *)
(* for its source.                                                         *)
crossing == \E q, k \in Request : /\ active(q) /\ active(k) /\ req[q].h = CopyObject /\ req[k].h = CopyObject
                                  /\ req[q].x = req[k].src /\ req[k].x = req[q].src /\ req[q].x # req[q].src
HandlersGoOn == (\E q \in Request : active(q)) /\ ~crossing => \E q \in Request : ENABLED work(q)
=============================================================================
