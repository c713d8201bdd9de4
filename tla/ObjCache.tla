------------------------------- MODULE ObjCache -------------------------------
(* The object cache that every server of an XL deployment keeps in memory     *)
(* (pkg/objcache), beside the calls of the object layer that fill it, read it *)
(* and invalidate it.  Objects on disk are whole versions here: how a version *)
(* gets there is the subject of XLObject and Multipart.                       *)
(*                                                                            *)
(* Time is what the cache compares: `clock' counts the modification times     *)
(* given out so far, so an entry touched after the k-th and before the next   *)
(* one has lastAccessed = k.  The clocks of the servers are taken to agree.   *)
EXTENDS Integers, FiniteSets, FiniteSetsExt

CONSTANTS CServer,      \* servers, each with a cache of its own
          CCall,        \* calls under way, integers
          CKey,         \* objects
          CSize,        \* sizes of uploads, 0 included if wanted
          maxSize,      \* globalMaxCacheSize
          MaxCacheCall       \* bound: calls made

ASSUME CacheAssumption == /\ CSize \subseteq Nat
                          /\ maxSize \in Nat \ {0}

VARIABLES disk,         \* the version of every object on disk
          clock,        \* modification times given out
          entries,      \* Cache.entries of every server
          currentSize,  \* Cache.currentSize of every server
          ccall,        \* the calls
          called,       \* calls made so far
          raced         \* objects uploaded while a prefetch of them was under way

cacheVars == <<disk, clock, entries, currentSize, ccall, called, raced>>

Nothing == [time |-> 0, size |-> 0]
noEntry == [time |-> 0, size |-> 0, lastAccessed |-> 0]
idleCall == [op |-> "none", at |-> CHOOSE s \in CServer : TRUE,
             key |-> CHOOSE k \in CKey : TRUE, pc |-> "idle",
             meta |-> Nothing, buffer |-> "none", got |-> 0]

CacheInit == /\ disk = [k \in CKey |-> Nothing]
             /\ clock = 0
             /\ entries = [s \in CServer |-> [k \in CKey |-> noEntry]]
             /\ currentSize = [s \in CServer |-> 0]
             /\ ccall = [c \in CCall |-> idleCall]
             /\ called = 0
             /\ raced = {}

-----------------------------------------------------------------------------
(* The cache.  An entry of time 0 is no entry. *)

cached(s, k) == entries[s][k].time # 0

maxCacheEntrySize == IF maxSize \div 10 = 0 THEN maxSize ELSE maxSize \div 10

(* Create allows an entry of this size beside the bytes used *)
fits(used, size) == size <= maxCacheEntrySize /\ used + size <= maxSize

delete(s, k) == /\ entries' = [entries EXCEPT ![s][k] = noEntry]
                /\ currentSize' = [currentSize EXCEPT ![s] = @ - entries[s][k].size]

chargedOnce(s, k, size) == currentSize[s] + (IF cached(s, k) THEN 0 ELSE size)

charged(s, k, size) == currentSize[s] + size

(* onClose of a buffer that holds the whole version v *)
save(s, k, v) ==
  /\ entries' = [entries EXCEPT ![s][k] = [time |-> v.time, size |-> v.size, lastAccessed |-> clock]]
  /\ currentSize' = [currentSize EXCEPT ![s] = charged(s, k, v.size)]

hitAlways(s, k, modTime) == cached(s, k)

(* Open finds an entry that is not older than the object *)
hit(s, k, modTime) == cached(s, k) /\ ~(entries[s][k].lastAccessed < modTime)

(* The janitor: what was not touched for the expiry time goes *)
gc(s) == /\ \E E \in SUBSET {k \in CKey : cached(s, k)} \ {{}} :
              /\ \A k \in E, j \in CKey \ E :
                   cached(s, j) => entries[s][k].lastAccessed <= entries[s][j].lastAccessed
              /\ entries' = [entries EXCEPT ![s] = [k \in CKey |-> IF k \in E THEN noEntry ELSE @[k]]]
              /\ currentSize' = [currentSize EXCEPT ![s] = @ - MapThenSumSet(LAMBDA k : entries[s][k].size, E)]
         /\ UNCHANGED <<disk, clock, ccall, called, raced>>
-----------------------------------------------------------------------------
(* The calls.  GetObjectHandler holds the object's read lock from before the  *)
(* metadata is read until the answer is out; uploads and DeleteObjectHandler  *)
(* hold the write lock.  DeleteMultipleObjectsHandler and the prefetch that a *)
(* completed multipart upload starts take none.                               *)

writing == {"put", "complete", "delete"}
underway(k, ops) == {c \in CCall : ccall[c].key = k /\ ccall[c].op \in ops}
readLock(k) == underway(k, writing) = {}
writeLock(k) == underway(k, writing \cup {"get"}) = {}

firstFree(c) == /\ called < MaxCacheCall
                /\ ccall[c].pc = "idle"
                /\ \A d \in CCall : d < c => ccall[d].pc # "idle"
begins(c, r) == /\ ccall' = [ccall EXCEPT ![c] = r]
                /\ called' = called + 1
goes(c, r) == /\ ccall' = [ccall EXCEPT ![c] = r]
              /\ UNCHANGED called

stamped(k) == raced \cup (IF underway(k, {"prefetch"}) # {} THEN {k} ELSE {})

(* GetObject up to the cache: the metadata of the version on disk *)
GetObject(c) ==
  /\ firstFree(c)
  /\ \E s \in CServer, k \in CKey :
       /\ readLock(k)
       /\ disk[k] # Nothing
       /\ begins(c, [idleCall EXCEPT !.op = "get", !.at = s, !.key = k, !.meta = disk[k],
                                        !.pc = IF disk[k].size = 0 THEN "read" ELSE "open"])
  /\ UNCHANGED <<disk, clock, entries, currentSize, raced>>

(* The goroutine left behind by CompleteMultipartUpload reads the metadata: it *)
(* asked for objectSize bytes, and gets none if the object is smaller by now   *)
Prefetch(c) ==
  LET r == ccall[c] IN
  /\ r.op = "prefetch" /\ r.pc = "begin"
  /\ IF disk[r.key] = Nothing \/ r.meta.size > disk[r.key].size
       THEN goes(c, idleCall)
       ELSE goes(c, [r EXCEPT !.meta = disk[r.key],
                              !.pc = IF disk[r.key].size = 0 THEN "read" ELSE "open",
                              !.buffer = IF r.meta.size = disk[r.key].size THEN "whole" ELSE "none"])
  /\ raced' = IF \E d \in underway(r.key, {"put", "complete"}) : ccall[d].pc = "commit"
                THEN raced \cup {r.key} ELSE raced
  /\ UNCHANGED <<disk, clock, entries, currentSize>>

Open(c) ==
  LET r == ccall[c] IN
  /\ r.pc = "open"
  /\ IF hit(r.at, r.key, r.meta.time)
       THEN /\ entries' = [entries EXCEPT ![r.at][r.key].lastAccessed = clock]
            /\ goes(c, [r EXCEPT !.pc = "served", !.got = entries[r.at][r.key].time])
            /\ UNCHANGED currentSize
       ELSE /\ delete(r.at, r.key)
            /\ goes(c, [r EXCEPT !.pc = "create"])
  /\ UNCHANGED <<disk, clock, raced>>

(* Only a request for the whole object fills the cache, if there is room *)
Create(c) ==
  LET r == ccall[c] IN
  /\ r.pc = "create"
  /\ \E whole \in IF r.op = "prefetch" THEN {r.buffer = "whole"} ELSE BOOLEAN :
       goes(c, [r EXCEPT !.pc = "read",
                         !.buffer = IF whole /\ fits(currentSize[r.at], r.meta.size) THEN "short" ELSE "none"])
  /\ UNCHANGED <<disk, clock, entries, currentSize, raced>>

(* Bytes of another version fail their checksums; a read can fail anyway *)
Read(c) ==
  LET r == ccall[c] IN
  /\ r.pc = "read"
  /\ \/ /\ disk[r.key] = r.meta
        /\ goes(c, [r EXCEPT !.pc = "close", !.got = r.meta.time,
                             !.buffer = IF @ = "short" THEN "full" ELSE @])
     \/ goes(c, [r EXCEPT !.pc = "close"])
  /\ UNCHANGED <<disk, clock, entries, currentSize, raced>>

(* The deferred Close of the buffer *)
Close(c) ==
  LET r == ccall[c] IN
  /\ r.pc = "close"
  /\ IF r.buffer = "full" THEN save(r.at, r.key, r.meta) ELSE UNCHANGED <<entries, currentSize>>
  /\ goes(c, [r EXCEPT !.pc = "served"])
  /\ UNCHANGED <<disk, clock, raced>>

Served(c) ==
  /\ ccall[c].pc = "served"
  /\ goes(c, idleCall)
  /\ UNCHANGED <<disk, clock, entries, currentSize, raced>>

(* PutObject up to the data: with a size announced, the old entry goes *)
PutObject(c) ==
  /\ firstFree(c)
  /\ \E s \in CServer, k \in CKey, size \in CSize, announced \in BOOLEAN :
       /\ writeLock(k)
       /\ begins(c, [idleCall EXCEPT !.op = "put", !.at = s, !.key = k, !.pc = "data",
                       !.meta.size = size,
                       !.buffer = IF /\ announced /\ size > 0
                                     /\ fits(currentSize[s] - entries[s][k].size, size)
                                    THEN "short" ELSE "none"])
       /\ IF announced /\ size > 0 THEN delete(s, k) ELSE UNCHANGED <<entries, currentSize>>
  /\ UNCHANGED <<disk, clock, raced>>

(* The data is in: the version gets its modTime; or the upload is rejected *)
PutData(c) ==
  LET r == ccall[c] IN
  /\ r.pc = "data"
  /\ \/ /\ clock' = clock + 1
        /\ goes(c, [r EXCEPT !.pc = "commit", !.meta.time = clock + 1,
                             !.buffer = IF @ = "short" THEN "full" ELSE @])
        /\ raced' = stamped(r.key)
     \/ goes(c, idleCall) /\ UNCHANGED <<clock, raced>>
  /\ UNCHANGED <<disk, entries, currentSize>>

(* CompleteMultipartUpload up to the rename *)
CompleteUpload(c) ==
  /\ firstFree(c)
  /\ \E s \in CServer, k \in CKey, size \in CSize :
       /\ writeLock(k)
       /\ begins(c, [idleCall EXCEPT !.op = "complete", !.at = s, !.key = k, !.pc = "commit",
                       !.meta = [time |-> clock + 1, size |-> size]])
       /\ raced' = stamped(k)
  /\ clock' = clock + 1
  /\ UNCHANGED <<disk, entries, currentSize>>

(* The old version moves out and the new one in, or the upload fails with the *)
(* old one back in place or gone                                              *)
Commit(c) ==
  LET r == ccall[c] IN
  /\ r.pc = "commit"
  /\ \E v \in {r.meta, Nothing, disk[r.key]} :
       /\ disk' = [disk EXCEPT ![r.key] = v]
       /\ goes(c, IF r.op = "put" /\ v # r.meta THEN idleCall ELSE [r EXCEPT !.pc = "after"])
  /\ UNCHANGED <<clock, entries, currentSize, raced>>

PutAfter(c) ==
  LET r == ccall[c] IN
  /\ r.op = "put" /\ r.pc = "after"
  /\ IF r.buffer = "full" THEN save(r.at, r.key, r.meta) ELSE UNCHANGED <<entries, currentSize>>
  /\ goes(c, idleCall)
  /\ UNCHANGED <<disk, clock, raced>>

(* Deferred, whatever became of the rename *)
CompleteAfter(c) ==
  LET r == ccall[c] IN
  /\ r.op = "complete" /\ r.pc = "after"
  /\ delete(r.at, r.key)
  /\ goes(c, [r EXCEPT !.op = "prefetch", !.pc = "begin"])
  /\ UNCHANGED <<disk, clock, raced>>

DeleteObject(c) ==
  /\ firstFree(c)
  /\ \E s \in CServer, k \in CKey, op \in {"delete", "batch"} :
       /\ op = "delete" => writeLock(k)
       /\ disk[k] # Nothing
       /\ disk' = [disk EXCEPT ![k] = Nothing]
       /\ begins(c, [idleCall EXCEPT !.op = op, !.at = s, !.key = k, !.pc = "drop"])
  /\ UNCHANGED <<clock, entries, currentSize, raced>>

DeleteAfter(c) ==
  LET r == ccall[c] IN
  /\ r.pc = "drop"
  /\ delete(r.at, r.key)
  /\ goes(c, idleCall)
  /\ UNCHANGED <<disk, clock, raced>>

CacheNext == \/ \E c \in CCall : \/ GetObject(c) \/ Prefetch(c) \/ Open(c) \/ Create(c) \/ Read(c)
                                 \/ Close(c) \/ Served(c) \/ PutObject(c) \/ PutData(c)
                                 \/ CompleteUpload(c) \/ Commit(c) \/ PutAfter(c)
                                 \/ CompleteAfter(c) \/ DeleteObject(c) \/ DeleteAfter(c)
             \/ \E s \in CServer : gc(s)

CacheSpec == CacheInit /\ [][CacheNext]_cacheVars

-----------------------------------------------------------------------------
gotBytes(c) == ccall[c].op = "get" /\ ccall[c].got # 0

(* What GetObject sends, from the cache or from the disks, are the bytes of   *)
(* the version whose metadata it read - through whichever server it was       *)
(* uploaded, replaced or deleted - for every object that was not uploaded     *)
(* while a prefetch of it was under way.                                      *)
ServedAsDescribed ==
  \A c \in CCall : gotBytes(c) /\ ccall[c].key \notin raced => ccall[c].got = ccall[c].meta.time

(* The same of every object: what Open says of its comparison, "Check if buf  *)
(* is recent copy of the object on disk."                                     *)
RecentCopy == \A c \in CCall : gotBytes(c) => ccall[c].got = ccall[c].meta.time

(* currentSize never falls below the bytes held, so that delete, which        *)
(* subtracts from an unsigned number, cannot wrap it round.                   *)
SizeCovers == \A s \in CServer : MapThenSumSet(LAMBDA k : entries[s][k].size, CKey) <= currentSize[s]

(* What Create and onClose say they do: "Check if the incoming size is going  *)
(* to exceed the effective cache size" and "Account for the memory allocated  *)
(* above".                                                                    *)
SizeExact == \A s \in CServer : MapThenSumSet(LAMBDA k : entries[s][k].size, CKey) = currentSize[s]

=============================================================================
