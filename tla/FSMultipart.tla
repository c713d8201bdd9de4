----------------------------- MODULE FSMultipart -----------------------------
(***************************************************************************)
(* One multipart upload on the FS layer (cmd/fs-v1-multipart.go,           *)
(* cmd/fs-v1-multipart-common.go, cmd/fs-v1-background-append.go), through *)
(* one or several servers on the same directory.                           *)
(*                                                                         *)
(* The calls of one server exclude each other by the namespace lock of     *)
(* the upload; calls of different servers meet at the file locks of        *)
(* uploads.json and of the upload's fs.json.  Behind PutObjectPart the     *)
(* appendParts goroutine of each server concatenates the parts into a file *)
(* that CompleteMultipartUpload renames to the object.  The content of a   *)
(* part stands for its bytes and for its etag.                             *)
(***************************************************************************)
EXTENDS Integers, Sequences, FiniteSets

CONSTANTS
  Instance,      \* server processes
  MClient,       \* slots for concurrent calls, numbered
  MHomes,        \* assignments of slots to servers
  MaxPart,       \* part numbers are 1..MaxPart
  Content,       \* contents of parts, numbers above 0
  Small,         \* contents below the 5 MB that all parts but the last must have
  MaxPut,        \* bound: PutObjectPart calls
  MaxTimeout     \* bound: appendParts goroutines that time out

VARIABLES
  site,          \* the server of every slot
  isInitiated, isListed,   \* fs.json of the upload and its entry in uploads.json exist
  meta,          \* parts in fs.json: number -> etag, 0 when it has none
  partFile,      \* part files: number -> content, 0 when there is none
  objectFile,    \* contents concatenated in the object, <<>> before it exists
  named,         \* etags of the parts that CompleteMultipartUpload was asked for
  share, excl,   \* holders of file locks, of "uploads" and "meta"
  mcall,         \* the calls
  inMap,         \* infoMap has the upload, per server
  bgLock,        \* holder of the mutex of backgroundAppend: a slot, 0 nobody
  worker,        \* the appendParts goroutines
  senders,       \* goroutines of append() that wait to hand over their input
  partLock,      \* locked part numbers, per server
  sent, again,   \* contents sent for each number; one was sent twice
  leftover,      \* a goroutine has started on the file that an earlier one left
  puts, timeouts

mpVars == <<site, isInitiated, isListed, meta, partFile, objectFile, named, share, excl, mcall,
            inMap, bgLock, worker, senders, partLock, sent, again, leftover, puts, timeouts>>
diskVars == <<isInitiated, isListed, meta, partFile, objectFile>>
lockVars == <<share, excl>>
boundVars == <<site, sent, again, leftover, puts, timeouts>>

Part == 1..MaxPart
NoParts == [n \in Part |-> 0]
NoCall == [op |-> "none", pc |-> "idle", n |-> 0, v |-> 0, parts |-> NoParts, ok |-> FALSE]
Stopped == [pc |-> "none", gen |-> 0, from |-> 0, part |-> 0, input |-> NoParts, appended |-> <<>>, file |-> <<>>,
            completed |-> FALSE]
resting(c) == mcall[c] = NoCall
oneSite == \A c, d \in MClient : site[c] = site[d]

(* Parts in the order of their numbers.                                    *)
numbers(p) == SelectSeq([n \in Part |-> n], LAMBDA n : p[n] # 0)
etags(p) == [i \in 1..Len(numbers(p)) |-> p[numbers(p)[i]]]

FSMultipartInit ==
  /\ site \in MHomes
  /\ isInitiated = FALSE /\ isListed = FALSE /\ meta = NoParts /\ partFile = NoParts
  /\ objectFile = <<>> /\ named = <<>>
  /\ share = [f \in {"uploads", "meta"} |-> {}] /\ excl = [f \in {"uploads", "meta"} |-> 0]
  /\ mcall = [c \in MClient |-> NoCall]
  /\ inMap = [s \in Instance |-> FALSE] /\ bgLock = [s \in Instance |-> 0]
  /\ worker = [s \in Instance |-> Stopped] /\ senders = {}
  /\ partLock = [s \in Instance |-> {}]
  /\ sent = {} /\ again = FALSE /\ leftover = FALSE /\ puts = 0 /\ timeouts = 0

(* Every call holds objectMPartPathLock of its server.                     *)
mBegin(c, r) ==
  /\ resting(c) /\ \A d \in MClient : d < c /\ site[d] = site[c] => ~resting(d)
  /\ \A d \in MClient : site[d] = site[c] => resting(d)
  /\ mcall' = [mcall EXCEPT ![c] = r]
mTo(c, pc) == mcall' = [mcall EXCEPT ![c].pc = pc]

(* File locks; rwPool.Open and Write fail when the path is gone by then.   *)
present(f) == IF f = "meta" THEN isInitiated ELSE isListed
canShare(f) == excl[f] = 0
canWrite(f) == excl[f] = 0 /\ share[f] = {}
mReturn(c) ==
  /\ mcall' = [mcall EXCEPT ![c] = NoCall]
  /\ share' = [f \in DOMAIN share |-> share[f] \ {c}]
  /\ excl' = [f \in DOMAIN excl |-> IF excl[f] = c THEN 0 ELSE excl[f]]
openFile(c, f, next) ==
  /\ canShare(f)
  /\ IF present(f) THEN mTo(c, next) /\ share' = [share EXCEPT ![f] = @ \cup {c}] /\ UNCHANGED excl
     ELSE mReturn(c)
writeFile(c, f, next) ==
  /\ canWrite(f)
  /\ IF present(f) THEN mTo(c, next) /\ excl' = [excl EXCEPT ![f] = c] /\ UNCHANGED share
     ELSE mReturn(c)

-----------------------------------------------------------------------------
(* NewMultipartUpload: the entry in uploads.json and fs.json, under both.  *)
addUploadID == isListed' = TRUE
NewMultipartUpload(c) ==
  /\ resting(c) /\ ~isListed /\ ~isInitiated /\ objectFile = <<>> /\ puts = 0
  /\ canWrite("uploads")
  /\ addUploadID /\ isInitiated' = TRUE
  /\ UNCHANGED <<meta, partFile, objectFile, named, lockVars, mcall, inMap, bgLock, worker, senders, partLock, boundVars>>

(* PutObjectPart: uploads.json is opened, then fs.json locked.             *)
PutObjectPart(c, n, v) ==
  /\ puts < MaxPut /\ puts' = puts + 1
  /\ mBegin(c, [NoCall EXCEPT !.op = "put", !.pc = "uploads", !.n = n, !.v = v])
  /\ sent' = sent \cup {<<n, v>>} /\ again' = (again \/ <<n, v>> \in sent)
  /\ UNCHANGED <<diskVars, named, lockVars, inMap, bgLock, worker, senders, partLock, site, leftover, timeouts>>

PutUploads(c) ==
  /\ mcall[c].op = "put" /\ mcall[c].pc = "uploads" /\ openFile(c, "uploads", "meta")
  /\ UNCHANGED <<diskVars, named, inMap, bgLock, worker, senders, partLock, boundVars>>
PutMetaLock(c) ==
  /\ mcall[c].op = "put" /\ mcall[c].pc = "meta" /\ writeFile(c, "meta", "part")
  /\ UNCHANGED <<diskVars, named, inMap, bgLock, worker, senders, partLock, boundVars>>

(* With the lock of the part: rename, AddObjectPart and WriteTo.           *)
PutPart(c) ==
  LET r == mcall[c] s == site[c]
  IN /\ r.op = "put" /\ r.pc = "part" /\ r.n \notin partLock[s]
     /\ partLock' = [partLock EXCEPT ![s] = @ \cup {r.n}]
     /\ partFile' = [partFile EXCEPT ![r.n] = r.v]
     /\ meta' = [meta EXCEPT ![r.n] = r.v]
     /\ mTo(c, "append")
     /\ UNCHANGED <<isInitiated, isListed, objectFile, named, lockVars, inMap, bgLock, worker, senders, boundVars>>

(* append(): starts the goroutine unless the map has one, and leaves the   *)
(* input with a goroutine of its own; the call returns.                    *)
appendInput(c) ==
  LET s == site[c] old == worker[s]
  IN /\ mcall[c].pc = "append" /\ bgLock[s] = 0
     /\ inMap' = [inMap EXCEPT ![s] = TRUE]
     /\ worker' = IF inMap[s] THEN worker
                  ELSE [worker EXCEPT ![s] = [Stopped EXCEPT !.pc = "select", !.gen = old.gen + 1, !.file = old.file]]
     /\ senders' = senders \cup {[site |-> s, gen |-> worker'[s].gen, part |-> mcall[c].n, input |-> meta]}
     /\ leftover' = (leftover \/ (~inMap[s] /\ old.file # <<>>))
     /\ mReturn(c)
     /\ UNCHANGED <<diskVars, named, bgLock, partLock, site, sent, again, puts, timeouts>>

-----------------------------------------------------------------------------
(* appendParts of server s: receives an input from append() or complete(). *)
Receive(s) ==
  /\ worker[s].pc = "select"
  /\ \/ \E m \in senders :
          /\ m.site = s /\ m.gen = worker[s].gen /\ senders' = senders \ {m}
          /\ worker' = [worker EXCEPT ![s].pc = "append", ![s].from = 0, ![s].part = m.part, ![s].input = m.input]
          /\ UNCHANGED mcall
     \/ \E c \in MClient :
          /\ site[c] = s /\ mcall[c].op = "complete" /\ mcall[c].pc = "send" /\ mTo(c, "wait")
          /\ worker' = [worker EXCEPT ![s].pc = "append", ![s].from = c, ![s].input = meta]
          /\ UNCHANGED senders
  /\ UNCHANGED <<diskVars, named, lockVars, inMap, bgLock, partLock, boundVars>>

(* The answer goes to complete(), or to the goroutine of PutObjectPart     *)
(* that unlocks the part.                                                  *)
answerKeepsPart(s, w, ok) ==
  /\ worker' = [worker EXCEPT ![s] = [w EXCEPT !.pc = "select", !.from = 0, !.part = 0, !.input = NoParts]]
  /\ IF w.from = 0 THEN UNCHANGED <<partLock, mcall>>
     ELSE mcall' = [mcall EXCEPT ![w.from].pc = "answered", ![w.from].ok = ok] /\ UNCHANGED partLock
answer(s, w, ok) ==
  /\ worker' = [worker EXCEPT ![s] = [w EXCEPT !.pc = "select", !.from = 0, !.part = 0, !.input = NoParts]]
  /\ IF w.from = 0 THEN partLock' = [partLock EXCEPT ![s] = @ \ {w.part}] /\ UNCHANGED mcall
     ELSE mcall' = [mcall EXCEPT ![w.from].pc = "answered", ![w.from].ok = ok] /\ UNCHANGED partLock

(* partToAppend, appendPart, and reflect.DeepEqual at the end.             *)
partToAppend(w) == {n \in Part : n = Len(w.appended) + 1 /\ w.input[n] # 0}
sameCount(w) == Len(numbers(w.input)) = Len(w.appended)
sameParts(w) == numbers(w.input) = [i \in 1..Len(w.appended) |-> i] /\ etags(w.input) = w.appended
appendParts(s) ==
  LET w == worker[s]
  IN /\ w.pc = "append"
     /\ \/ /\ partToAppend(w) = {} /\ answer(s, w, sameParts(w))
        \/ \E n \in partToAppend(w) :
             IF partFile[n] = 0 THEN answer(s, [w EXCEPT !.appended = <<>>, !.file = <<>>], FALSE)
             ELSE /\ worker' = [worker EXCEPT ![s].appended = Append(@, w.input[n]),
                                              ![s].file = Append(@, partFile[n])]
                  /\ UNCHANGED <<mcall, partLock>>
     /\ UNCHANGED <<diskVars, named, lockVars, inMap, bgLock, senders, boundVars>>

(* abortCh and completeCh.                                                 *)
EndByAbort(s) ==
  /\ worker[s].pc = "select"
  /\ \E c \in MClient : site[c] = s /\ mcall[c].op = "abort" /\ mcall[c].pc = "send" /\ mTo(c, "clean")
  /\ worker' = [worker EXCEPT ![s] = [Stopped EXCEPT !.gen = worker[s].gen]]
  /\ bgLock' = [bgLock EXCEPT ![s] = 0]
  /\ UNCHANGED <<diskVars, named, lockVars, inMap, senders, partLock, boundVars>>
EndByComplete(s) ==
  /\ worker[s].pc = "select" /\ worker[s].completed
  /\ worker' = [worker EXCEPT ![s] = [Stopped EXCEPT !.gen = worker[s].gen, !.file = worker[s].file]]
  /\ UNCHANGED <<diskVars, named, lockVars, mcall, inMap, bgLock, senders, partLock, boundVars>>

(* The timer fires; the goroutine waits for the mutex to leave the map.    *)
TimeoutFires(s) ==
  /\ timeouts < MaxTimeout /\ timeouts' = timeouts + 1
  /\ worker[s].pc = "select"
  /\ worker' = [worker EXCEPT ![s].pc = "timedout"]
  /\ UNCHANGED <<diskVars, named, lockVars, mcall, inMap, bgLock, senders, partLock, site, sent, again, leftover, puts>>
EndByTimeout(s) ==
  /\ worker[s].pc = "timedout" /\ bgLock[s] = 0
  /\ inMap' = [inMap EXCEPT ![s] = FALSE]
  /\ worker' = [worker EXCEPT ![s] = [Stopped EXCEPT !.gen = worker[s].gen]]
  /\ UNCHANGED <<diskVars, named, lockVars, mcall, bgLock, senders, partLock, boundVars>>

(* timeoutCh is closed: what waits to send gives up.                       *)
ended(s, gen) == worker[s].pc = "none" \/ worker[s].gen # gen
SenderGivesUp(m) ==
  /\ m \in senders /\ ended(m.site, m.gen)
  /\ senders' = senders \ {m}
  /\ partLock' = [partLock EXCEPT ![m.site] = @ \ {m.part}]
  /\ UNCHANGED <<diskVars, named, lockVars, mcall, inMap, bgLock, worker, boundVars>>

-----------------------------------------------------------------------------
(* CompleteMultipartUpload and AbortMultipartUpload: fs.json is opened,    *)
(* then uploads.json locked.  The client names all parts or the first one. *)
CompleteMultipartUpload(c) ==
  /\ \E p \in {meta, [meta EXCEPT ![MaxPart] = 0]} :
       /\ p # NoParts
       /\ mBegin(c, [NoCall EXCEPT !.op = "complete", !.pc = "meta", !.parts = p])
  /\ UNCHANGED <<diskVars, named, lockVars, inMap, bgLock, worker, senders, partLock, boundVars>>
AbortMultipartUpload(c) ==
  /\ isInitiated /\ mBegin(c, [NoCall EXCEPT !.op = "abort", !.pc = "meta"])
  /\ UNCHANGED <<diskVars, named, lockVars, inMap, bgLock, worker, senders, partLock, boundVars>>
EndMetaLock(c) ==
  /\ mcall[c].op \in {"complete", "abort"} /\ mcall[c].pc = "meta" /\ openFile(c, "meta", "uploads")
  /\ UNCHANGED <<diskVars, named, inMap, bgLock, worker, senders, partLock, boundVars>>
EndUploads(c) ==
  /\ mcall[c].op \in {"complete", "abort"} /\ mcall[c].pc = "uploads"
  /\ writeFile(c, "uploads", IF mcall[c].op = "complete" /\ mcall[c].parts # meta THEN "concat" ELSE "enter")
  /\ UNCHANGED <<diskVars, named, inMap, bgLock, worker, senders, partLock, boundVars>>

(* complete() and abort(): with the mutex the upload leaves the map; the   *)
(* mutex is held until the goroutine has taken the input or the abort.     *)
Enter(c) ==
  LET s == site[c] out == IF mcall[c].op = "complete" THEN "concat" ELSE "clean"
  IN /\ mcall[c].pc = "enter" /\ bgLock[s] = 0
     /\ inMap' = [inMap EXCEPT ![s] = FALSE]
     /\ IF inMap[s] THEN bgLock' = [bgLock EXCEPT ![s] = c] /\ mTo(c, "send")
        ELSE mTo(c, out) /\ UNCHANGED bgLock
     /\ UNCHANGED <<diskVars, named, lockVars, worker, senders, partLock, boundVars>>

(* errCh answers, completeCh is closed, the mutex is given up.             *)
Answered(c) ==
  LET s == site[c]
  IN /\ mcall[c].pc = "answered" /\ bgLock' = [bgLock EXCEPT ![s] = 0]
     /\ worker' = [worker EXCEPT ![s].completed = TRUE]
     /\ mTo(c, IF mcall[c].ok THEN "rename" ELSE "concat")
     /\ UNCHANGED <<diskVars, named, lockVars, inMap, senders, partLock, boundVars>>

RenameAppended(c) ==
  LET s == site[c]
  IN /\ mcall[c].pc = "rename" /\ worker[s].file # <<>>
     /\ objectFile' = worker[s].file /\ worker' = [worker EXCEPT ![s].file = <<>>]
     /\ named' = etags(mcall[c].parts) /\ mTo(c, "clean")
     /\ UNCHANGED <<isInitiated, isListed, meta, partFile, lockVars, inMap, bgLock, senders, partLock, boundVars>>

(* Without the background the call checks and concatenates the parts.      *)
Concatenate(c) ==
  LET p == mcall[c].parts
      last == numbers(p)[Len(numbers(p))]
      valid == \A n \in Part : p[n] # 0 => /\ meta[n] = p[n] /\ partFile[n] # 0
                                          /\ (n = last \/ p[n] \notin Small)
  IN /\ mcall[c].pc = "concat"
     /\ IF valid
          THEN /\ objectFile' = [i \in 1..Len(numbers(p)) |-> partFile[numbers(p)[i]]]
               /\ named' = etags(p) /\ mTo(c, "clean") /\ UNCHANGED lockVars
          ELSE mReturn(c) /\ UNCHANGED <<objectFile, named>>
     /\ UNCHANGED <<isInitiated, isListed, meta, partFile, inMap, bgLock, worker, senders, partLock, boundVars>>

(* fsRemoveUploadIDPath and removeUploadID, which ends uploads.json with   *)
(* its last entry.                                                         *)
fsRemoveUploadIDPath == isInitiated' = FALSE /\ meta' = NoParts /\ partFile' = NoParts
removeUploadID == isListed' = FALSE
RemoveUpload(c) ==
  /\ mcall[c].op = "complete" /\ mcall[c].pc = "clean"
  /\ fsRemoveUploadIDPath /\ removeUploadID /\ mReturn(c)
  /\ UNCHANGED <<objectFile, named, inMap, bgLock, worker, senders, partLock, boundVars>>
AbortUpload(c) ==
  /\ mcall[c].op = "abort" /\ mcall[c].pc = "clean"
  /\ fsRemoveUploadIDPath /\ removeUploadID /\ mReturn(c)
  /\ UNCHANGED <<objectFile, named, inMap, bgLock, worker, senders, partLock, boundVars>>

-----------------------------------------------------------------------------
MProceed(c) ==
  \/ PutUploads(c) \/ PutMetaLock(c) \/ PutPart(c) \/ appendInput(c)
  \/ EndMetaLock(c) \/ EndUploads(c) \/ Enter(c) \/ Answered(c)
  \/ RenameAppended(c) \/ Concatenate(c) \/ RemoveUpload(c) \/ AbortUpload(c)
WorkerProceeds(s) == Receive(s) \/ appendParts(s) \/ EndByAbort(s) \/ EndByComplete(s) \/ EndByTimeout(s)

FSMultipartNext ==
  \/ \E c \in MClient : \/ NewMultipartUpload(c) \/ CompleteMultipartUpload(c) \/ AbortMultipartUpload(c)
                        \/ \E n \in Part, v \in Content : PutObjectPart(c, n, v)
                        \/ MProceed(c)
  \/ \E s \in Instance : WorkerProceeds(s) \/ TimeoutFires(s)
  \/ \E m \in senders : SenderGivesUp(m)

FSMultipartSpec == FSMultipartInit /\ [][FSMultipartNext]_mpVars

-----------------------------------------------------------------------------
(* Properties.                                                             *)

(* The object consists of the parts that CompleteMultipartUpload named,    *)
(* whatever was sent again while the goroutine was appending, as long as   *)
(* no content comes back that a part has had before and no goroutine       *)
(* starts on the file of another.                                          *)
CompletedAsNamed == ~again /\ ~leftover => objectFile = named

(* The same for any goroutine: complete() answers nil only when the file   *)
(* consists of the required parts.                                         *)
NilIfAppended == ~again => objectFile = named

(* A call under way can go on, or a goroutine it waits for can: complete() *)
(* and abort() hold the mutex while they wait for appendParts, and every   *)
(* call waits for file locks.  Only for calls through one server, and      *)
(* while no appendParts has timed out.                                     *)
callsWait == \E c \in MClient : ~resting(c)
someoneGoesOn == ENABLED ((\E c \in MClient : MProceed(c)) \/ (\E s \in Instance : WorkerProceeds(s))
                          \/ (\E m \in senders : SenderGivesUp(m)))
UploadGoesOn == callsWait /\ oneSite /\ timeouts = 0 => someoneGoesOn

(* The same with timeouts: a goroutine that times out just when complete() *)
(* or abort() has found it in the map does not leave them waiting.         *)
UploadAlwaysGoesOn == callsWait /\ oneSite => someoneGoesOn
=============================================================================
