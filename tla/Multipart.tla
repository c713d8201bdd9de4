----------------------------- MODULE Multipart -----------------------------
(***************************************************************************)
(* Multipart uploads of one object of the XL layer                         *)
(* (cmd/xl-v1-multipart.go, cmd/xl-v1-multipart-common.go,                 *)
(* cmd/object-api-multipart-common.go): the directory of each upload with  *)
(* its xl.json and part files, uploads.json, and the object they become.   *)
(*                                                                         *)
(* One action is one phase over all disks that answer at that time.  A     *)
(* part is uploaded without any lock between a check under the upload's    *)
(* read lock and the commit under its write lock.  What a part contains is *)
(* its etag, and so is its checksum; every shard of it is one value.       *)
(***************************************************************************)
EXTENDS Integers, FiniteSets, FiniteSetsExt

CONSTANTS
  Client,     \* 1..n, slots for concurrent requests
  Upload,     \* upload ids that will be drawn
  Number,     \* part numbers
  XLDisk,     \* disks 1..n, in distribution order
  MaxCall,    \* bound: requests made
  Fallible,   \* bound: disks that may be away
  MaxChange   \* bound: times a disk goes or comes back

VARIABLES
  dir,        \* [XLDisk -> [Upload -> directory]]: .minio.sys/multipart/bucket/object/id
  object,     \* [XLDisk -> directory]: the object itself
  uploads,    \* [XLDisk -> SUBSET Upload]: uploads.json; {} when there is none
  reachable,  \* disks that answer
  call,       \* [Client -> the request it is in]
  now,        \* the clock: modTimes and etags
  granted,    \* uploads that NewMultipartUpload has returned
  parts,      \* [Upload -> [Number -> etag]]: what PutObjectPart has returned
  finished,   \* uploads for which Complete or Abort has returned success
  torn,       \* uploads a request on which has failed after changing something
  calls, changes

multipartVars == <<dir, object, uploads, reachable, call, now, granted, parts, finished, torn, calls, changes>>
onDisk == <<dir, object, uploads>>
promised == <<granted, parts, finished, torn>>

-----------------------------------------------------------------------------
NoParts == [k \in Number |-> 0]
NoJSON == [time |-> 0, parts |-> NoParts, sum |-> NoParts]
NoDir == [json |-> NoJSON, file |-> NoParts]
hasJSON(x) == x.json.time # 0
isThere(x) == x # NoDir
Idle == [pc |-> "idle", u |-> 0, part |-> 0, etag |-> 0, disks |-> {}, tmp |-> {},
         json |-> [d \in {} |-> NoJSON], gone |-> {}]

quorumOfWrites == Cardinality(XLDisk) \div 2 + 1
shardsNeeded == Cardinality(XLDisk) \div 2
enough(S) == Cardinality(S) >= quorumOfWrites

(* isUploadIDExists and isObject: some disk that answers has xl.json.      *)
isUploadIDExists(u) == \E d \in reachable : hasJSON(dir[d][u])
objectExists == \E d \in reachable : hasJSON(object[d])

(* readAllXLMetadata, listOnlineDisks and pickValidXLMeta on disks D: the  *)
(* disks with the most frequent modTime (the later of two), and the first  *)
(* xl.json that has it.                                                    *)
modTimes(D, u) == {dir[d][u].json.time : d \in {e \in D \cap reachable : hasJSON(dir[e][u])}}
withTime(D, u, t) == {d \in D \cap reachable : dir[d][u].json.time = t}
commonModTime(D, u) ==
  CHOOSE t \in modTimes(D, u) : \A w \in modTimes(D, u) :
    LET m == Cardinality(withTime(D, u, t))
        n == Cardinality(withTime(D, u, w))
    IN m > n \/ (m = n /\ t >= w)
onlineDisks(D, u) == IF modTimes(D, u) = {} THEN {} ELSE withTime(D, u, commonModTime(D, u))
pickValidXLMeta(D, u) == dir[Min(onlineDisks(D, u))][u].json
readable(D, u) == enough(D \cap reachable) /\ onlineDisks(D, u) # {}

(* The write lock of an upload, and that of the directory of all uploads.  *)
uploadLockedToEnd(u) ==
  \E c \in Client : call[c].u = u /\
    call[c].pc \in {"completeCommit", "completeMove", "completeRename", "completeEnd", "abortEnd"}
uploadLocked(u) ==
  \E c \in Client : call[c].u = u /\
    call[c].pc \in {"partMeta", "partCommit", "completeCommit", "completeMove", "completeRename",
                    "completeEnd", "abortEnd"}
uploadsLocked == \E c \in Client : call[c].pc \in {"newRename", "newAdd"}
(* The request handler holds the object's write lock in a Complete.        *)
objectLocked == \E c \in Client : call[c].pc \in {"completeCommit", "completeMove", "completeRename", "completeEnd"}

-----------------------------------------------------------------------------
(* An upload is open when the model starts: on every disk, with no part    *)
(* yet; the object may exist.                                              *)
MultipartInit ==
  LET opened == [NoDir EXCEPT !.json.time = 1]
      older == [NoDir EXCEPT !.json.time = 2]
      first == CHOOSE u \in Upload : TRUE
  IN /\ dir = [d \in XLDisk |-> [u \in Upload |-> IF u = first THEN opened ELSE NoDir]]
     /\ uploads = [d \in XLDisk |-> {first}]
     /\ object \in {[d \in XLDisk |-> NoDir], [d \in XLDisk |-> older]}
     /\ reachable = XLDisk
     /\ call = [c \in Client |-> Idle]
     /\ now = 2
     /\ granted = {first} /\ parts = [u \in Upload |-> NoParts] /\ finished = {} /\ torn = {}
     /\ calls = 0 /\ changes = 0

(* A request takes the first free slot: slots are all alike.               *)
isFree(c) == calls < MaxCall /\ call[c] = Idle /\ \A o \in 1..(c - 1) : call[o] # Idle
begin(c, r) == calls' = calls + 1 /\ call' = [call EXCEPT ![c] = r]
go(c, r) == call' = [call EXCEPT ![c] = r] /\ UNCHANGED calls
return(c) == go(c, Idle)
step(c, pc) == go(c, [call[c] EXCEPT !.pc = pc])
tear(u) == torn' = torn \cup {u}

(* updateUploadJSON: every disk that answers adds or removes the id; a     *)
(* list that becomes empty is renamed away, which fails when there is      *)
(* none.  Without a quorum the lists that were written are deleted, those  *)
(* renamed away restored.                                                  *)
updatedUnread(d, u, isRemove) == IF isRemove THEN {} ELSE {u}
updated(d, u, isRemove) == IF isRemove THEN uploads[d] \ {u} ELSE uploads[d] \cup {u}
updateFails(u, isRemove) == {d \in reachable : isRemove /\ uploads[d] = {}}
undone(d, u, isRemove) == IF updated(d, u, isRemove) = {} THEN uploads[d] ELSE {}
updateUploadJSON(u, isRemove) ==
  uploads' = [d \in XLDisk |->
    IF d \notin reachable \ updateFails(u, isRemove) THEN uploads[d]
    ELSE IF enough(reachable) THEN updated(d, u, isRemove) ELSE undone(d, u, isRemove)]
updateSucceeds(u, isRemove) == enough(reachable \ updateFails(u, isRemove))

-----------------------------------------------------------------------------
(* newMultipartUpload: xl.json to a temporary directory, which is renamed, *)
(* then uploads.json.                                                      *)
NewMultipartUpload(c, u) ==
  /\ isFree(c) /\ ~uploadsLocked
  /\ u \notin granted /\ \A o \in Client : call[o].u # u
  /\ enough(reachable)
  /\ begin(c, [Idle EXCEPT !.pc = "newRename", !.u = u, !.tmp = reachable])
  /\ now' = now + 1
  /\ UNCHANGED <<onDisk, reachable, promised, changes>>

NewRename(c) ==
  LET u == call[c].u
      moved == call[c].tmp \cap reachable
  IN /\ call[c].pc = "newRename"
     /\ IF enough(reachable)
          THEN /\ dir' = [d \in XLDisk |-> [dir[d] EXCEPT ![u].json.time = IF d \in moved THEN now ELSE @]]
               /\ step(c, "newAdd")
          ELSE return(c) /\ UNCHANGED dir
     /\ UNCHANGED <<object, uploads, reachable, now, promised, changes>>

NewAdd(c) ==
  LET u == call[c].u
  IN /\ call[c].pc = "newAdd"
     /\ updateUploadJSON(u, FALSE)
     /\ IF updateSucceeds(u, FALSE)
          THEN granted' = granted \cup {u} /\ UNCHANGED torn
          ELSE torn' = torn \cup Upload /\ UNCHANGED granted
     /\ return(c)
     /\ UNCHANGED <<dir, object, reachable, now, parts, finished, changes>>
-----------------------------------------------------------------------------
(* PutObjectPart up to the data: which disks take part is decided here.    *)
PutObjectPart(c, u, k) ==
  /\ isFree(c) /\ u \in granted /\ ~uploadLocked(u)
  /\ isUploadIDExists(u) /\ readable(XLDisk, u)
  /\ begin(c, [Idle EXCEPT !.pc = "partData", !.u = u, !.part = k, !.etag = now + 1,
                           !.disks = onlineDisks(XLDisk, u)])
  /\ now' = now + 1
  /\ UNCHANGED <<onDisk, reachable, promised, changes>>

(* erasureCreateFile to a temporary file, where a disk left out counts as  *)
(* written; then the checks of the digests, which may fail.                *)
PartData(c) ==
  /\ call[c].pc = "partData"
  /\ \/ /\ enough((call[c].disks \cap reachable) \cup (XLDisk \ call[c].disks))
        /\ go(c, [call[c] EXCEPT !.pc = "partRename", !.tmp = call[c].disks \cap reachable])
     \/ return(c)
  /\ UNCHANGED <<onDisk, reachable, now, promised, changes>>

(* Under the write lock: the upload is looked up again, the part renamed.  *)
(* A disk without the temporary file is no failure; without a quorum       *)
(* whatever is under the part's name on the others is renamed away.        *)
PartRename(c) ==
  LET u == call[c].u
      k == call[c].part
      answer == call[c].disks \cap reachable
      put(S, e) == dir' = [d \in XLDisk |-> [dir[d] EXCEPT ![u].file[k] = IF d \in S THEN e ELSE @]]
  IN /\ call[c].pc = "partRename" /\ ~uploadLocked(u)
     /\ IF ~isUploadIDExists(u) THEN return(c) /\ UNCHANGED <<dir, torn>>
        ELSE IF enough(answer)
          THEN put(answer \cap call[c].tmp, call[c].etag) /\ step(c, "partMeta") /\ UNCHANGED torn
          ELSE put(answer, 0) /\ return(c) /\ tear(u)
     /\ UNCHANGED <<object, uploads, reachable, now, granted, parts, finished, changes>>

(* xl.json is read again and written to a temporary place, with the parts  *)
(* of the first one and this part.  Its modTime stays what it is.          *)
withPartUnread(json, chosen, k, etag) ==
  [time |-> json.time, parts |-> [NoParts EXCEPT ![k] = etag], sum |-> [json.sum EXCEPT ![k] = etag]]
withPart(json, chosen, k, etag) ==
  [time |-> json.time, parts |-> [chosen.parts EXCEPT ![k] = etag], sum |-> [json.sum EXCEPT ![k] = etag]]

PartMeta(c) ==
  LET u == call[c].u
      online == onlineDisks(call[c].disks, u)
      chosen == pickValidXLMeta(call[c].disks, u)
      json == [d \in online |-> withPart(dir[d][u].json, chosen, call[c].part, call[c].etag)]
  IN /\ call[c].pc = "partMeta"
     /\ IF readable(call[c].disks, u) /\ enough(online)
          THEN go(c, [call[c] EXCEPT !.pc = "partCommit", !.disks = online, !.json = json]) /\ UNCHANGED torn
          ELSE return(c) /\ tear(u)
     /\ UNCHANGED <<onDisk, reachable, now, granted, parts, finished, changes>>

(* commitXLMetadata: xl.json is renamed into the upload; without a quorum  *)
(* it is deleted where that succeeded.                                     *)
commitXLMetadata(c) ==
  LET u == call[c].u
      answer == call[c].disks \cap reachable
  IN dir' = [d \in XLDisk |->
               [dir[d] EXCEPT ![u].json = IF d \notin answer THEN @
                                          ELSE IF enough(answer) THEN call[c].json[d] ELSE NoJSON]]

PartCommit(c) ==
  LET u == call[c].u
  IN /\ call[c].pc = "partCommit"
     /\ commitXLMetadata(c)
     /\ IF enough(call[c].disks \cap reachable)
          THEN parts' = [parts EXCEPT ![u][call[c].part] = call[c].etag] /\ UNCHANGED torn
          ELSE tear(u) /\ UNCHANGED parts
     /\ return(c)
     /\ UNCHANGED <<object, uploads, reachable, now, granted, finished, changes>>
-----------------------------------------------------------------------------
(* CompleteMultipartUpload of the parts K, named with the etags that were  *)
(* returned for them: validation and the final xl.json, with a new modTime.*)
CompleteMultipartUpload(c, u, K) ==
  LET online == onlineDisks(XLDisk, u)
      chosen == pickValidXLMeta(XLDisk, u)
      listed == [k \in Number |-> IF k \in K THEN parts[u][k] ELSE 0]
  IN /\ isFree(c) /\ u \in granted /\ ~uploadLocked(u) /\ ~objectLocked
     /\ \A k \in K : parts[u][k] # 0
     /\ isUploadIDExists(u) /\ readable(XLDisk, u)
     /\ \A k \in K : chosen.parts[k] = parts[u][k]
     /\ enough(online)
     /\ begin(c, [Idle EXCEPT !.pc = "completeCommit", !.u = u, !.disks = online,
                    !.json = [d \in online |-> [time |-> now + 1, parts |-> listed, sum |-> dir[d][u].json.sum]],
                    !.gone = {k \in Number \ K : chosen.parts[k] # 0}])
     /\ now' = now + 1
     /\ UNCHANGED <<onDisk, reachable, promised, changes>>

CompleteCommit(c) ==
  /\ call[c].pc = "completeCommit"
  /\ commitXLMetadata(c)
  /\ IF enough(call[c].disks \cap reachable)
       THEN step(c, "completeMove") /\ UNCHANGED torn
       ELSE return(c) /\ tear(call[c].u)
  /\ UNCHANGED <<object, uploads, reachable, now, granted, parts, finished, changes>>

(* The previous object is renamed away on all disks; without a quorum that *)
(* is undone, otherwise it will not come back.                             *)
CompleteMove(c) ==
  /\ call[c].pc = "completeMove"
  /\ IF ~objectExists THEN step(c, "completeRename") /\ UNCHANGED <<object, torn>>
     ELSE IF enough(reachable)
       THEN /\ object' = [d \in XLDisk |-> IF d \in reachable THEN NoDir ELSE object[d]]
            /\ step(c, "completeRename") /\ UNCHANGED torn
       ELSE return(c) /\ tear(call[c].u) /\ UNCHANGED object
  /\ UNCHANGED <<dir, uploads, reachable, now, granted, parts, finished, changes>>

(* Part files that are not listed are removed; the directory is renamed to *)
(* the object, which an object on that disk prevents.  A denied rename is  *)
(* an answer for the quorum that decides about undoing, not for the result.*)
CompleteRename(c) ==
  LET u == call[c].u
      pruned(x) == [x EXCEPT !.file = [k \in Number |-> IF k \in call[c].gone THEN 0 ELSE @[k]]]
      upload(d) == IF d \in reachable THEN pruned(dir[d][u]) ELSE dir[d][u]
      answer == call[c].disks \cap reachable
      denied == {d \in answer : isThere(object[d])}
      moved == IF enough(answer) THEN {d \in answer \ denied : isThere(upload(d))} ELSE {}
  IN /\ call[c].pc = "completeRename"
     /\ object' = [d \in XLDisk |-> IF d \in moved THEN upload(d) ELSE object[d]]
     /\ dir' = [d \in XLDisk |-> [dir[d] EXCEPT ![u] = IF d \in moved THEN NoDir ELSE upload(d)]]
     /\ IF enough(answer \ denied)
          THEN step(c, "completeEnd") /\ UNCHANGED torn
          ELSE return(c) /\ tear(u)
     /\ UNCHANGED <<uploads, reachable, now, granted, parts, finished, changes>>

(* The tail of Complete and Abort, under the lock of uploads.json.         *)
removeUploadID(c) ==
  LET u == call[c].u
  IN /\ ~uploadsLocked
     /\ updateUploadJSON(u, TRUE)
     /\ IF updateSucceeds(u, TRUE)
          THEN finished' = finished \cup {u} /\ UNCHANGED torn
          ELSE torn' = torn \cup Upload /\ UNCHANGED finished
     /\ return(c)
     /\ UNCHANGED <<dir, object, reachable, now, granted, parts, changes>>
CompleteEnd(c) == call[c].pc = "completeEnd" /\ removeUploadID(c)

(* AbortMultipartUpload: the upload is removed from every disk; one that   *)
(* does not answer is an error.                                            *)
AbortMultipartUpload(c, u) ==
  /\ isFree(c) /\ u \in granted /\ ~uploadLocked(u)
  /\ isUploadIDExists(u)
  /\ dir' = [d \in XLDisk |-> [dir[d] EXCEPT ![u] = IF d \in reachable THEN NoDir ELSE @]]
  /\ IF reachable = XLDisk
       THEN begin(c, [Idle EXCEPT !.pc = "abortEnd", !.u = u]) /\ UNCHANGED torn
       ELSE begin(c, Idle) /\ tear(u)
  /\ UNCHANGED <<object, uploads, reachable, now, granted, parts, finished, changes>>
AbortEnd(c) == call[c].pc = "abortEnd" /\ removeUploadID(c)

(* External: a disk goes away or comes back as it was.                     *)
DiskGoes(d) ==
  /\ changes < MaxChange /\ changes' = changes + 1
  /\ d \in reachable
  /\ reachable' = reachable \ {d}
  /\ UNCHANGED <<onDisk, call, now, promised, calls>>
DiskComes(d) ==
  /\ changes < MaxChange /\ changes' = changes + 1
  /\ d \notin reachable /\ reachable' = reachable \cup {d}
  /\ UNCHANGED <<onDisk, call, now, promised, calls>>

MultipartNext ==
  \/ \E c \in Client :
       \/ \E u \in Upload : \/ NewMultipartUpload(c, u) \/ AbortMultipartUpload(c, u)
                            \/ \E k \in Number : PutObjectPart(c, u, k)
                            \/ \E K \in SUBSET Number \ {{}} : CompleteMultipartUpload(c, u, K)
       \/ NewRename(c) \/ NewAdd(c)
       \/ PartData(c) \/ PartRename(c) \/ PartMeta(c) \/ PartCommit(c)
       \/ CompleteCommit(c) \/ CompleteMove(c) \/ CompleteRename(c) \/ CompleteEnd(c) \/ AbortEnd(c)
  \/ \E d \in Fallible : DiskGoes(d) \/ DiskComes(d)

MultipartSpec == MultipartInit /\ [][MultipartNext]_multipartVars

-----------------------------------------------------------------------------
(* Properties.                                                             *)

(* Once a Complete or an Abort has returned success, no part upload that   *)
(* was under way, no second Complete and no Abort of it succeeds: the      *)
(* second look at the upload, under its write lock, and the write quorum   *)
(* see to that even when a disk that was away brings the upload back.      *)
FinishedStaysFinished ==
  [][\A u \in finished : parts'[u] = parts[u]
                         /\ \A c \in Client : call[c].pc = "completeEnd" /\ call[c].u = u => call'[c] = call[c]]_multipartVars

(* As long as every update of uploads.json had its quorum, an upload that  *)
(* can be used is in the list of a write quorum of disks, so that listings *)
(* and aborts of old uploads find it, whichever uploads began or ended     *)
(* beside it and whichever disk was away then.                             *)
OpenListed ==
  \A u \in (granted \ finished) \ torn :
    (\A c \in Client : call[c].u # u \/ call[c].pc \notin {"completeEnd", "abortEnd"}) =>
      enough({d \in XLDisk : u \in uploads[d]})

(* With disks that answer, what PutObjectPart has returned can be          *)
(* completed: the xl.json that a Complete would pick has all parts with    *)
(* their last etags, on disks that have them, although parts are uploaded  *)
(* side by side and each of them rewrites the list of all.                 *)
AckedPartsKept ==
  \A u \in granted \ finished :
    changes = 0 /\ ~uploadLocked(u) /\ readable(XLDisk, u) =>
      \A k \in Number : parts[u][k] # 0 =>
        /\ pickValidXLMeta(XLDisk, u).parts[k] = parts[u][k]
        /\ Cardinality({d \in XLDisk : dir[d][u].file[k] = parts[u][k]
                                       /\ dir[d][u].json.sum[k] = parts[u][k]}) >= shardsNeeded

(* A part file of the object that passes verification has the content that *)
(* xl.json promises: every disk that takes part in a Complete has the      *)
(* current version of the upload.                                          *)
NeverMixed ==
  \A d \in XLDisk : hasJSON(object[d]) =>
    \A k \in Number : object[d].json.parts[k] # 0 /\ object[d].file[k] # 0
                      /\ object[d].file[k] = object[d].json.sum[k] =>
      object[d].file[k] = object[d].json.parts[k]

=============================================================================
