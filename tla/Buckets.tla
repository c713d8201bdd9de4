------------------------------- MODULE Buckets -------------------------------
(***************************************************************************)
(* One bucket of the XL layer (cmd/xl-v1-bucket.go, healBucket and         *)
(* quickHeal of cmd/xl-v1-healing.go, houseKeeping of                      *)
(* cmd/object-api-common.go): a volume on every disk.                      *)
(*                                                                         *)
(* MakeBucket, DeleteBucket and healBucket hold the bucket's lock, but an  *)
(* upload into the bucket does not, so the calls to the single disks       *)
(* interleave with its renames.  A restarting server empties the temporary *)
(* directory on its disks, where uploads of other servers are kept, and    *)
(* heals every bucket it finds on some disk.                               *)
(***************************************************************************)
EXTENDS Integers, FiniteSets

CONSTANTS
  VolDisk,      \* disks
  Owner,        \* servers, as the sets of their disks
  MaxAdmin,     \* bound: calls of MakeBucket and DeleteBucket
  MaxRestart,   \* bound: servers that restart
  MaxOutage     \* bound: times a disk goes away

ASSUME BucketsAssumption == IsFiniteSet(VolDisk)

VARIABLES
  vol,          \* per disk: "none", "empty", or "object" when the object is in it
  shard,        \* disks with the temporary shard of the upload
  admin,        \* the call that holds the bucket's lock
  upload,       \* the PutObject
  away,         \* disks that do not answer
  healDue,      \* a restarted server has not healed yet
  isDeleted,    \* DeleteBucket has succeeded and no call may have made it since
  isStored,     \* PutObject has succeeded
  hollow,       \* disks where renaming a missing shard has counted as success
  restarted,    \* servers that have restarted
  admins, outages

bucketVars == <<vol, shard, admin, upload, away, healDue, isDeleted, isStored, hollow, admins, restarted, outages>>
budgetVars == <<admins, restarted, outages>>

volQuorumHalf == Cardinality(VolDisk) \div 2
volQuorum == Cardinality(VolDisk) \div 2 + 1
Free == [kind |-> "none", todo |-> {}, err |-> [d \in {} |-> "nil"]]
started(kind) == [kind |-> kind, todo |-> VolDisk, err |-> [d \in {} |-> "nil"]]
answered(r, d, e) == [r EXCEPT !.todo = @ \ {d},
                               !.err = [x \in DOMAIN @ \cup {d} |-> IF x = d THEN e ELSE @[x]]]

(* isDiskQuorum counts all answers, reduceWriteQuorumErrs those that agree.*)
answersQuorum(r) == Cardinality({d \in VolDisk : r.err[d] # "down"}) >= volQuorum
succeeds(r) == Cardinality({d \in VolDisk : r.err[d] = "nil"}) >= volQuorum

BucketsInit ==
  /\ vol = [d \in VolDisk |-> "none"] /\ shard = {}
  /\ admin = Free /\ upload = Free /\ away = {}
  /\ healDue = FALSE /\ isDeleted = FALSE /\ isStored = FALSE /\ hollow = {}
  /\ admins = 0 /\ restarted = {} /\ outages = 0

-----------------------------------------------------------------------------
(* MakeBucket and DeleteBucket: one goroutine per disk.                    *)
MakeBucket ==
  /\ admin = Free /\ admins < MaxAdmin /\ admins' = admins + 1
  /\ admin' = started("make") /\ isDeleted' = FALSE
  /\ UNCHANGED <<vol, shard, upload, away, healDue, isStored, hollow, restarted, outages>>
DeleteBucket ==
  /\ admin = Free /\ admins < MaxAdmin /\ admins' = admins + 1
  /\ admin' = started("delete")
  /\ UNCHANGED <<vol, shard, upload, away, healDue, isDeleted, isStored, hollow, restarted, outages>>

(* quickHeal at the end of newXLObjects, for a bucket that listBucketNames *)
(* finds on some disk; the server does not start when it fails.            *)
listBucketNames == \E d \in VolDisk \ away : vol[d] # "none"
quickHeal ==
  /\ admin = Free /\ healDue /\ healDue' = FALSE
  /\ admin' = IF listBucketNames THEN started("heal") ELSE Free
  /\ isDeleted' = (isDeleted /\ admin' = Free)
  /\ UNCHANGED <<vol, shard, upload, away, isStored, hollow, budgetVars>>

(* posix.MakeVol, DeleteVol, and the StatVol and MakeVol of healBucket.    *)
DeleteVol(v) == IF v = "empty" THEN "none" ELSE v
volAfter(kind, v) ==
  CASE kind = "make" -> IF v = "none" THEN "empty" ELSE v
    [] kind = "delete" -> DeleteVol(v)
    [] kind = "heal" -> IF v = "none" THEN "empty" ELSE v
volErr(kind, v) ==
  CASE kind = "make" -> IF v = "none" THEN "nil" ELSE "exists"
    [] kind = "delete" -> IF v = "empty" THEN "nil" ELSE IF v = "none" THEN "notfound" ELSE "notempty"
    [] kind = "heal" -> "nil"

(* The goroutines of one call do not meet each other, so that their order  *)
(* is immaterial beside renames that come in any order.                    *)
AdminDisk(d) ==
  /\ d \in admin.todo /\ \A x \in admin.todo : d <= x
  /\ IF d \in away THEN admin' = answered(admin, d, "down") /\ UNCHANGED vol
     ELSE /\ admin' = answered(admin, d, volErr(admin.kind, vol[d]))
          /\ vol' = [vol EXCEPT ![d] = volAfter(admin.kind, @)]
  /\ UNCHANGED <<shard, upload, away, healDue, isDeleted, isStored, hollow, budgetVars>>

(* Without a quorum of answers undoMakeBucket deletes the volume wherever  *)
(* it can, undoDeleteBucket creates it everywhere.                         *)
undoneVol(kind, v) == IF kind = "delete" THEN volAfter("make", v) ELSE DeleteVol(v)

AdminEnd ==
  /\ admin.kind # "none" /\ admin.todo = {} /\ admin' = Free
  /\ vol' = IF answersQuorum(admin) THEN vol
            ELSE [d \in VolDisk |-> IF d \in away THEN vol[d] ELSE undoneVol(admin.kind, vol[d])]
  /\ isDeleted' = /\ admin.kind = "delete" /\ answersQuorum(admin)
                  /\ isDeleted \/ succeeds(admin)
  /\ UNCHANGED <<shard, upload, away, healDue, isStored, hollow, budgetVars>>

-----------------------------------------------------------------------------
(* PutObject: the bucket exists on some disk; the shards are written, then *)
(* renamed disk by disk.                                                   *)
GetBucketInfo == \E d \in VolDisk \ away : vol[d] # "none"
PutShards ==
  /\ upload.kind = "none" /\ upload' = started("put") /\ ~isStored /\ hollow = {}
  /\ GetBucketInfo
  /\ shard' = VolDisk \ away /\ Cardinality(shard') >= volQuorum
  /\ UNCHANGED <<vol, admin, away, healDue, isDeleted, isStored, hollow, budgetVars>>

(* A shard that is not there is no error.                                  *)
RenameShard(d) ==
  LET found == d \notin away /\ vol[d] # "none"
  IN /\ d \in upload.todo
     /\ upload' = answered(upload, d, IF found THEN "nil" ELSE IF d \in away THEN "down" ELSE "notfound")
     /\ vol' = IF found /\ d \in shard THEN [vol EXCEPT ![d] = "object"] ELSE vol
     /\ shard' = IF found THEN shard \ {d} ELSE shard
     /\ hollow' = IF found THEN hollow \cup ({d} \ shard) ELSE hollow
     /\ UNCHANGED <<admin, away, healDue, isDeleted, isStored, budgetVars>>

(* undoRename, then the temporary shards are deleted.                      *)
PutEnd ==
  /\ upload.kind = "put" /\ upload.todo = {} /\ upload' = Free
  /\ vol' = IF answersQuorum(upload) THEN vol
            ELSE [d \in VolDisk |-> IF d \notin away /\ upload.err[d] = "nil" /\ vol[d] = "object"
                                    THEN "empty" ELSE vol[d]]
  /\ isStored' = succeeds(upload)
  /\ shard' = {}
  /\ UNCHANGED <<admin, away, healDue, isDeleted, hollow, budgetVars>>

-----------------------------------------------------------------------------
(* A server restarts: houseKeeping empties the temporary directory of its  *)
(* own disks, newXLObjects ends with quickHeal.                            *)
houseKept(S) == S
Restart(S) ==
  /\ Cardinality(restarted) < MaxRestart /\ restarted' = restarted \cup {S}
  /\ shard' = shard \ houseKept(S)
  /\ healDue' = TRUE
  /\ UNCHANGED <<vol, admin, upload, away, isDeleted, isStored, hollow, admins, outages>>

(* External: a disk goes away or comes back.                               *)
Outage(d) ==
  /\ outages < MaxOutage /\ outages' = outages + 1
  /\ d \notin away /\ away' = away \cup {d}
  /\ UNCHANGED <<vol, shard, admin, upload, healDue, isDeleted, isStored, hollow, admins, restarted>>
Return(d) ==
  /\ d \in away /\ away' = away \ {d}
  /\ UNCHANGED <<vol, shard, admin, upload, healDue, isDeleted, isStored, hollow, budgetVars>>

BucketsNext ==
  \/ MakeBucket \/ DeleteBucket \/ quickHeal \/ AdminEnd \/ PutShards \/ PutEnd
  \/ \E d \in VolDisk : AdminDisk(d) \/ RenameShard(d) \/ Outage(d) \/ Return(d)
  \/ \E S \in Owner : Restart(S)

BucketsSpec == BucketsInit /\ [][BucketsNext]_bucketVars

-----------------------------------------------------------------------------
(* Properties.                                                             *)

(* A DeleteBucket and a PutObject into the bucket never both succeed,      *)
(* although no lock is common to them: two write quorums share a disk,     *)
(* where either the volume was not empty or it was gone.  They may when a  *)
(* shard was missing and its rename counted as success all the same.       *)
DeletedOrStored == isDeleted /\ isStored => hollow # {}

(* An upload that was acknowledged is on every disk that its quorum counts,*)
(* except the disks of servers that restarted meanwhile: houseKeeping      *)
(* removes shards that are still temporary, also those of other servers'   *)
(* uploads, and renaming what is missing counts as success.                *)
StoredUnlessSwept ==
  isStored /\ outages = 0 =>
    Cardinality({d \in VolDisk : vol[d] = "object"} \cup UNION restarted) >= volQuorum
=============================================================================
