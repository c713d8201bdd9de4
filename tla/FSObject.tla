------------------------------ MODULE FSObject ------------------------------
(***************************************************************************)
(* One object of the FS layer (cmd/fs-v1.go, cmd/fs-v1-rwpool.go,          *)
(* pkg/lock) and its bucket: data and fs.json, shared by the servers that  *)
(* export the same directory.                                              *)
(*                                                                         *)
(* Calls of one server are ordered by its namespace lock; calls of         *)
(* different servers only by the file lock on fs.json, which belongs to    *)
(* the inode that was opened, not to the path.  Readers of one server      *)
(* share an open file through fsIOPool.  An inode is a position in `inodes`*)
(* and holds the version in its metadata, 0 while it is empty.             *)
(***************************************************************************)
EXTENDS Integers, Sequences, FiniteSets

CONSTANTS
  FSServer,   \* server processes on the shared directory
  FSClient,   \* slots for concurrent calls, numbered
  Homes,      \* assignments of slots to servers
  MaxFSCall,  \* bound: calls
  MaxDelete,  \* bound: DeleteObject among them
  MaxPurge,   \* bound: DeleteBucket among them
  MaxDeath    \* bound: servers that die

VARIABLES
  home,       \* the server that runs a client's calls
  bucket,     \* the bucket's directory exists
  data,       \* version at the object's path, 0: none
  path,       \* inode at the path of fs.json, 0: none
  inodes,     \* version in the metadata of every inode that was created
  fds,        \* open and locked files [id, ino, ex]; id is the call that opened it
  pool,       \* readersMap: per server [fd, refs], fd = 0 when there is no entry
  fcall,      \* the calls
  info,       \* what the last getObjectInfo has returned: [etag, size]
  acked,      \* an upload was acknowledged
  miscounted, \* the references of a pool entry are no longer its readers
  fcalls, deletes, purges, deaths

fsVars == <<home, bucket, data, path, inodes, fds, pool, fcall, info, miscounted, acked, fcalls, deletes, purges, deaths>>

Returned == [op |-> "none", id |-> 0, pc |-> "idle", ino |-> 0, fd |-> 0, etag |-> 0]
NoEntry == [fd |-> 0, refs |-> 0]
idle(c) == fcall[c] = Returned
oneServer == \A c, d \in FSClient : home[c] = home[d]

FSInit ==
  /\ home \in Homes
  /\ bucket = TRUE /\ acked = FALSE
  /\ data = 0 /\ path = 0 /\ inodes = <<>> /\ fds = {}
  /\ pool = [s \in FSServer |-> NoEntry]
  /\ fcall = [c \in FSClient |-> Returned]
  /\ info = [etag |-> 0, size |-> 0]
  /\ miscounted = FALSE /\ fcalls = 0 /\ deletes = 0 /\ purges = 0 /\ deaths = 0

(* The namespace lock on the object that the handler holds during the call.*)
writes(op) == op \in {"put", "delete"}
objectLocked(s, op) ==
  \E c \in FSClient : home[c] = s /\ ~idle(c) /\ fcall[c].op # "bucket" /\ (writes(op) \/ writes(fcall[c].op))

fsBegin(c, op) ==
  /\ idle(c) /\ fcalls < MaxFSCall /\ fcalls' = fcalls + 1
  /\ \A d \in FSClient : d < c /\ home[d] = home[c] => ~idle(d)   \* the first free slot
  /\ bucket /\ ~objectLocked(home[c], op)
  /\ fcall' = [fcall EXCEPT ![c] = [Returned EXCEPT !.op = op, !.id = fcalls + 1,
                                                    !.pc = IF writes(op) THEN "open" ELSE "pool"]]
to(c, pc) == fcall' = [fcall EXCEPT ![c].pc = pc]

(* flock: an exclusive lock excludes all others on the same inode.         *)
flockFree(ino, ex) == \A f \in fds : f.ino = ino => ~ex /\ ~f.ex
opened(c, ino, ex) == [id |-> fcall[c].id, ino |-> ino, ex |-> ex]
withoutFile(id) == {f \in fds : f.id # id}
isOpen(id) == \E f \in fds : f.id = id

-----------------------------------------------------------------------------
(* PutObject: rwPool.Create opens or creates fs.json and waits for its     *)
(* lock, and LockedOpenFile checks that the path still exists.             *)
PutObject(c) ==
  /\ fsBegin(c, "put")
  /\ UNCHANGED <<home, bucket, acked, data, path, inodes, fds, pool, info, miscounted, deletes, purges, deaths>>

PutCreate(c) ==
  /\ fcall[c].op = "put" /\ fcall[c].pc = "open"
  /\ IF path # 0 THEN UNCHANGED <<path, inodes>>
     ELSE path' = Len(inodes) + 1 /\ inodes' = Append(inodes, 0)
  /\ fcall' = [fcall EXCEPT ![c].pc = "flock", ![c].ino = path']
  /\ UNCHANGED <<home, bucket, acked, data, fds, pool, info, miscounted, fcalls, deletes, purges, deaths>>

LockedOpenUnlocked(c) ==
  /\ writes(fcall[c].op) /\ fcall[c].pc = "flock"
  /\ fds' = fds
  /\ to(c, "data")
  /\ UNCHANGED <<home, bucket, acked, data, path, inodes, pool, info, miscounted, fcalls, deletes, purges, deaths>>
LockedOpenFile(c) ==
  /\ writes(fcall[c].op) /\ fcall[c].pc = "flock" /\ flockFree(fcall[c].ino, TRUE)
  /\ IF path # 0 THEN fds' = fds \cup {opened(c, fcall[c].ino, TRUE)} /\ to(c, "data")
     ELSE /\ UNCHANGED fds
          /\ IF fcall[c].op = "put" THEN fcall' = [fcall EXCEPT ![c] = Returned] ELSE to(c, "data")
  /\ UNCHANGED <<home, bucket, acked, data, path, inodes, pool, info, miscounted, fcalls, deletes, purges, deaths>>

(* The data is written to a temporary file and renamed, fsRenameFile makes *)
(* missing directories; or the call fails (short body, wrong digest) and   *)
(* leaves fs.json as Create left it.                                       *)
PutRename(c) ==
  /\ fcall[c].op = "put" /\ fcall[c].pc = "data"
  /\ data' = fcall[c].id /\ bucket' = TRUE /\ to(c, "meta")
  /\ UNCHANGED <<home, acked, path, inodes, fds, pool, info, miscounted, fcalls, deletes, purges, deaths>>
PutFail(c) ==
  /\ fcall[c].op = "put" /\ fcall[c].pc = "data"
  /\ fds' = withoutFile(fcall[c].id) /\ fcall' = [fcall EXCEPT ![c] = Returned]
  /\ UNCHANGED <<home, bucket, acked, data, path, inodes, pool, info, miscounted, fcalls, deletes, purges, deaths>>

(* fsMeta.WriteTo and the deferred Close.                                  *)
PutMeta(c) ==
  /\ fcall[c].op = "put" /\ fcall[c].pc = "meta"
  /\ inodes' = [inodes EXCEPT ![fcall[c].ino] = fcall[c].id]
  /\ fds' = withoutFile(fcall[c].id) /\ fcall' = [fcall EXCEPT ![c] = Returned]
  /\ acked' = TRUE
  /\ UNCHANGED <<home, bucket, data, path, pool, info, miscounted, fcalls, deletes, purges, deaths>>

-----------------------------------------------------------------------------
(* DeleteObject: rwPool.Write, without fs.json there is no lock.           *)
DeleteObject(c) ==
  /\ deletes < MaxDelete /\ deletes' = deletes + 1
  /\ fsBegin(c, "delete")
  /\ UNCHANGED <<home, bucket, acked, data, path, inodes, fds, pool, info, miscounted, purges, deaths>>

DeleteOpen(c) ==
  /\ fcall[c].op = "delete" /\ fcall[c].pc = "open"
  /\ fcall' = [fcall EXCEPT ![c].pc = IF path = 0 THEN "data" ELSE "flock", ![c].ino = path]
  /\ UNCHANGED <<home, bucket, acked, data, path, inodes, fds, pool, info, miscounted, fcalls, deletes, purges, deaths>>

DeleteData(c) ==
  /\ fcall[c].op = "delete" /\ fcall[c].pc = "data"
  /\ IF data = 0 THEN fds' = withoutFile(fcall[c].id) /\ fcall' = [fcall EXCEPT ![c] = Returned]
     ELSE to(c, "meta") /\ UNCHANGED fds
  /\ data' = 0
  /\ UNCHANGED <<home, bucket, acked, path, inodes, pool, info, miscounted, fcalls, deletes, purges, deaths>>

DeleteMeta(c) ==
  /\ fcall[c].op = "delete" /\ fcall[c].pc = "meta"
  /\ path' = 0
  /\ fds' = withoutFile(fcall[c].id) /\ fcall' = [fcall EXCEPT ![c] = Returned]
  /\ UNCHANGED <<home, bucket, acked, data, inodes, pool, info, miscounted, fcalls, deletes, purges, deaths>>

-----------------------------------------------------------------------------
(* getObjectInfo and GetObject.                                            *)
GetObjectInfo(c) ==
  /\ fsBegin(c, "info")
  /\ UNCHANGED <<home, bucket, acked, data, path, inodes, fds, pool, info, miscounted, deletes, purges, deaths>>
GetObject(c) ==
  /\ fsBegin(c, "get")
  /\ UNCHANGED <<home, bucket, acked, data, path, inodes, fds, pool, info, miscounted, deletes, purges, deaths>>

(* fsIOPool.Open: the file of the pool, or one more open file.             *)
Open(c) ==
  LET p == pool[home[c]]
  IN /\ fcall[c].pc = "pool"
     /\ IF p # NoEntry
          THEN /\ pool' = [pool EXCEPT ![home[c]].refs = @ + 1]
               /\ fcall' = [fcall EXCEPT ![c].pc = "read", ![c].fd = p.fd]
               /\ UNCHANGED miscounted
          ELSE /\ fcall' = [fcall EXCEPT ![c].pc = IF path = 0 THEN "read" ELSE "rlock", ![c].ino = path]
               /\ miscounted' = (miscounted \/ \E d \in FSClient : d # c /\ home[d] = home[c] /\ fcall[d].pc = "rlock")
               /\ UNCHANGED pool
     /\ UNCHANGED <<home, bucket, acked, data, path, inodes, fds, info, fcalls, deletes, purges, deaths>>

(* RLockedOpenFile returns, and the file replaces what is in the map.      *)
OpenLocked(c) ==
  /\ fcall[c].pc = "rlock" /\ flockFree(fcall[c].ino, FALSE)
  /\ IF path = 0 THEN to(c, "read") /\ UNCHANGED <<fds, pool>>
     ELSE /\ fds' = fds \cup {opened(c, fcall[c].ino, FALSE)}
          /\ pool' = [pool EXCEPT ![home[c]] = [fd |-> fcall[c].id, refs |-> 1]]
          /\ fcall' = [fcall EXCEPT ![c].pc = "read", ![c].fd = fcall[c].id]
  /\ UNCHANGED <<home, bucket, acked, data, path, inodes, info, miscounted, fcalls, deletes, purges, deaths>>

(* fsIOPool.Close, whichever file is in the map by now.                    *)
CloseOne(s) ==
  LET p == pool[s]
  IN IF p = NoEntry THEN UNCHANGED <<fds, pool>>
     ELSE IF p.refs > 1 THEN pool' = [pool EXCEPT ![s].refs = @ - 1] /\ UNCHANGED fds
     ELSE pool' = [pool EXCEPT ![s] = NoEntry] /\ fds' = withoutFile(p.fd)

(* getObjectInfo reads fs.json, if there is one: a file that was closed    *)
(* meanwhile or is empty is an error.                                      *)
inodeOf(id) == (CHOOSE f \in fds : f.id = id).ino
readFails(c) == fcall[c].fd # 0 /\ (~isOpen(fcall[c].fd) \/ inodes[inodeOf(fcall[c].fd)] = 0)
closedAfterError(s) == CloseOne(s)
ReadMeta(c) ==
  /\ fcall[c].op = "info" /\ fcall[c].pc = "read"
  /\ IF readFails(c) THEN closedAfterError(home[c]) /\ fcall' = [fcall EXCEPT ![c] = Returned]
     ELSE /\ fcall' = [fcall EXCEPT ![c].pc = "stat",
                                    ![c].etag = IF fcall[c].fd = 0 THEN 0 ELSE inodes[inodeOf(fcall[c].fd)]]
          /\ UNCHANGED <<fds, pool>>
  /\ UNCHANGED <<home, bucket, acked, data, path, inodes, info, miscounted, fcalls, deletes, purges, deaths>>

(* Close is deferred when Open has succeeded.                              *)
StatData(c) ==
  /\ fcall[c].op = "info" /\ fcall[c].pc = "stat"
  /\ info' = IF data = 0 THEN info ELSE [etag |-> fcall[c].etag, size |-> data]
  /\ IF fcall[c].fd = 0 THEN UNCHANGED <<fds, pool>> ELSE CloseOne(home[c])
  /\ fcall' = [fcall EXCEPT ![c] = Returned]
  /\ UNCHANGED <<home, bucket, acked, data, path, inodes, miscounted, fcalls, deletes, purges, deaths>>

(* GetObject reads the data and closes, also when Open found no fs.json.   *)
ReadData(c) ==
  /\ fcall[c].op = "get" /\ fcall[c].pc = "read"
  /\ CloseOne(home[c])
  /\ miscounted' = (miscounted \/ pool[home[c]].fd # fcall[c].fd)
  /\ fcall' = [fcall EXCEPT ![c] = Returned]
  /\ UNCHANGED <<home, bucket, acked, data, path, inodes, info, fcalls, deletes, purges, deaths>>

(* DeleteBucket, under the lock of the bucket and not of the object:       *)
(* fsRemoveDir fails on a directory with objects in it; then the metadata  *)
(* of the bucket, the fs.json of an upload under way included, is removed. *)
fsRemoveDir == bucket /\ data = 0
DeleteBucket(c) ==
  /\ purges < MaxPurge /\ purges' = purges + 1 /\ fsRemoveDir
  /\ idle(c) /\ fcalls < MaxFSCall /\ fcalls' = fcalls + 1
  /\ bucket' = FALSE /\ data' = 0
  /\ fcall' = [fcall EXCEPT ![c] = [Returned EXCEPT !.op = "bucket", !.pc = "rmmeta"]]
  /\ UNCHANGED <<home, acked, path, inodes, fds, pool, info, miscounted, deletes, deaths>>
DeleteBucketMeta(c) ==
  /\ fcall[c].pc = "rmmeta" /\ fcall' = [fcall EXCEPT ![c] = Returned]
  /\ path' = 0
  /\ UNCHANGED <<home, bucket, acked, data, inodes, fds, pool, info, miscounted, fcalls, deletes, purges, deaths>>
MakeBucket ==
  /\ ~bucket /\ bucket' = TRUE
  /\ UNCHANGED <<home, acked, data, path, inodes, fds, pool, fcall, info, miscounted, fcalls, deletes, purges, deaths>>

(* External: the garbage collector closes a file that nothing refers to.   *)
collectable(f) == /\ ~f.ex /\ \A s \in FSServer : pool[s].fd # f.id
                  /\ \A c \in FSClient : fcall[c].fd # f.id
Finalize ==
  /\ \E f \in fds : collectable(f) /\ fds' = fds \ {f}
  /\ UNCHANGED <<home, bucket, acked, data, path, inodes, pool, fcall, info, miscounted, fcalls, deletes, purges, deaths>>

(* External: a server dies; the kernel closes its files.                   *)
ServerDies(s) ==
  /\ deaths < MaxDeath /\ deaths' = deaths + 1
  /\ fcall' = [c \in FSClient |-> IF home[c] = s THEN Returned ELSE fcall[c]]
  /\ fds' = {f \in fds : \A c \in FSClient : home[c] = s => f.id # fcall[c].id /\ f.id # fcall[c].fd}
  /\ pool' = [pool EXCEPT ![s] = NoEntry]
  /\ UNCHANGED <<home, bucket, acked, data, path, inodes, info, miscounted, fcalls, deletes, purges>>

-----------------------------------------------------------------------------
FSProceed(c) ==
  \/ PutCreate(c) \/ LockedOpenFile(c) \/ PutRename(c) \/ PutFail(c) \/ PutMeta(c)
  \/ DeleteOpen(c) \/ DeleteData(c) \/ DeleteMeta(c) \/ DeleteBucketMeta(c)
  \/ Open(c) \/ OpenLocked(c) \/ ReadMeta(c) \/ StatData(c) \/ ReadData(c)

FSNext ==
  \/ \E c \in FSClient : PutObject(c) \/ DeleteObject(c) \/ GetObjectInfo(c) \/ GetObject(c) \/ DeleteBucket(c) \/ FSProceed(c)
  \/ MakeBucket \/ Finalize
  \/ \E s \in FSServer : ServerDies(s)

FSSpec == FSInit /\ [][FSNext]_fsVars

-----------------------------------------------------------------------------
(* Properties.                                                             *)

(* With no call under way the metadata in fs.json is that of the data:     *)
(* PutObject replaces both under the file lock, so that uploads through    *)
(* different servers do not mix.  Deletions unlink an inode that others    *)
(* have opened: DeleteObject through another server, DeleteBucket through  *)
(* any; and a death separates the two.                                     *)
MetaMatchesData ==
  (\A c \in FSClient : idle(c)) /\ (oneServer \/ deletes = 0) /\ purges + deaths = 0 /\ data # 0 =>
    path # 0 /\ inodes[path] = data

(* getObjectInfo returns the etag and the size of one version, although    *)
(* it reads them from two files while another server may be writing both,  *)
(* unless the pool has lost count of its readers: two first Opens at once, *)
(* or a GetObject that closes without having opened.                       *)
InfoOfOneVersion ==
  (oneServer \/ deletes + purges = 0) /\ deaths = 0 /\ ~miscounted => info.etag \in {0, info.size}

(* An upload that was acknowledged is not lost to a DeleteBucket beside it,*)
(* which shares no lock with it.                                           *)
AckedKept == acked /\ deletes = 0 => data # 0 /\ bucket

(* A reader that has opened fs.json keeps it open until it closes it.      *)
(* docs/shared-backend/DESIGN.md:73 of the pool's map: "once reference     *)
(* count has reached zero we can be sure that there are no more readers    *)
(* active".                                                                *)
ReaderKeepsFile ==
  \A c \in FSClient : fcall[c].pc \in {"read", "stat"} /\ fcall[c].fd # 0 => isOpen(fcall[c].fd)

(* Calls never all wait for each other's file locks, or for a lock that    *)
(* nobody will give up: whenever a call is under way, one can go on or the *)
(* garbage collector has a file to close.                                  *)
waits(c) == \/ fcall[c].pc = "flock" /\ ~flockFree(fcall[c].ino, TRUE)
            \/ fcall[c].pc = "rlock" /\ ~flockFree(fcall[c].ino, FALSE)
CallsGoOn ==
  (\E c \in FSClient : ~idle(c)) => (\E c \in FSClient : ~idle(c) /\ ~waits(c)) \/ \E f \in fds : collectable(f)
=============================================================================
