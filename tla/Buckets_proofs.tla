---------------------------- MODULE Buckets_proofs ----------------------------
(***************************************************************************)
(* A DeleteBucket and a PutObject into the bucket do not both succeed, on  *)
(* any number of disks and with any number of calls, restarts and outages. *)
(* The argument: a deletion that is reported leaves a write quorum of      *)
(* disks without the volume (DeletedInv), an upload that is reported a     *)
(* write quorum with the object (StoredInv), and two write quorums share a *)
(* disk.  Neither is inductive while a call is half done: then every disk  *)
(* that has answered with success has, or has not, the volume (AdminInv,   *)
(* UploadInv).                                                             *)
(***************************************************************************)
EXTENDS Buckets, FiniteSetTheorems, TLAPS

Without == {d \in VolDisk : vol[d] = "none"}
With == {d \in VolDisk : vol[d] = "object"}
Answer == {"nil", "down", "notfound", "exists", "notempty"}
CallRec == [kind : {"none", "make", "delete", "heal", "put"}, todo : SUBSET VolDisk,
            err : UNION {[S -> Answer] : S \in SUBSET VolDisk}]
wellFormed(r) ==
  /\ r \in CallRec
  /\ r.kind = "none" => r = Free
  /\ r.kind # "none" => DOMAIN r.err = VolDisk \ r.todo

BucketsType ==
  /\ vol \in [VolDisk -> {"none", "empty", "object"}]
  /\ wellFormed(admin) /\ admin.kind # "put"
  /\ wellFormed(upload) /\ upload.kind \in {"none", "put"}
  /\ isDeleted \in BOOLEAN /\ isStored \in BOOLEAN

AdminInv ==
  admin.kind = "delete" =>
    \A d \in VolDisk \ admin.todo : admin.err[d] = "nil" => vol[d] = "none"
DeletedInv ==
  isDeleted => admin.kind \in {"none", "delete"} /\ Cardinality(Without) >= volQuorum
UploadInv ==
  upload.kind = "put" /\ hollow = {} =>
    \A d \in VolDisk \ upload.todo : upload.err[d] = "nil" => vol[d] = "object"
StoredInv ==
  isStored => upload = Free /\ (hollow = {} => Cardinality(With) >= volQuorum)

BucketsInv == BucketsType /\ AdminInv /\ DeletedInv /\ UploadInv /\ StoredInv

-----------------------------------------------------------------------------
(* Subsets of the disks are finite and no larger than what contains them.  *)
LEMMA Smaller ==
  ASSUME NEW S \in SUBSET VolDisk, NEW T \in SUBSET VolDisk, S \subseteq T
  PROVE  /\ IsFiniteSet(S) /\ Cardinality(S) \in Nat /\ Cardinality(T) \in Nat
         /\ Cardinality(S) <= Cardinality(T)
<1>1. IsFiniteSet(S) /\ IsFiniteSet(T)
  BY BucketsAssumption, FS_Subset
<1>2. Cardinality(S) <= Cardinality(T)
  BY <1>1, FS_Subset
<1> QED  BY <1>1, <1>2, FS_CardinalityType

LEMMA Quorum == volQuorum \in Nat /\ 2 * volQuorum > Cardinality(VolDisk)
<1>1. Cardinality(VolDisk) \in Nat
  BY BucketsAssumption, FS_CardinalityType
<1> QED  BY <1>1 DEF volQuorum

(* Two write quorums of disks have one in common.                          *)
LEMMA QuorumsShareDisk ==
  ASSUME NEW S \in SUBSET VolDisk, NEW T \in SUBSET VolDisk,
         Cardinality(S) >= volQuorum, Cardinality(T) >= volQuorum
  PROVE  S \cap T # {}
<1>1. IsFiniteSet(S) /\ IsFiniteSet(T) /\ Cardinality(S) \in Nat /\ Cardinality(T) \in Nat
  BY Smaller
<1>2. Cardinality(S \cup T) = Cardinality(S) + Cardinality(T) - Cardinality(S \cap T)
  BY <1>1, FS_Union
<1>3. Cardinality(S \cup T) \in Nat /\ Cardinality(S \cup T) <= Cardinality(VolDisk) /\ Cardinality(VolDisk) \in Nat
  <2>1. S \cup T \in SUBSET VolDisk /\ VolDisk \in SUBSET VolDisk /\ S \cup T \subseteq VolDisk
    OBVIOUS
  <2> QED  BY <2>1, Smaller
<1>4. SUFFICES ASSUME S \cap T = {} PROVE FALSE
  OBVIOUS
<1>5. Cardinality(S \cap T) = 0
  BY <1>4, FS_EmptySet
<1> QED  BY <1>1, <1>2, <1>3, <1>5, Quorum

(* A new call has asked every disk and heard of none.                      *)
LEMMA Started ==
  ASSUME NEW k \in {"make", "delete", "heal", "put"}
  PROVE  /\ wellFormed(started(k)) /\ started(k).kind = k /\ started(k).todo = VolDisk
         /\ started(k) # Free
<1>1. [d \in {} |-> "nil"] \in [{} -> Answer]
  BY DEF Answer
<1>2. started(k) \in CallRec /\ started(k).kind = k /\ started(k).todo = VolDisk
  BY <1>1 DEF started, CallRec
<1>3. DOMAIN started(k).err = VolDisk \ started(k).todo
  BY DEF started
<1>4. started(k).kind # "none" /\ Free.kind = "none"
  BY DEF started, Free
<1> QED  BY <1>2, <1>3, <1>4 DEF wellFormed

LEMMA FreeWellFormed == wellFormed(Free) /\ Free.kind = "none" /\ Free.todo = {}
<1>1. [d \in {} |-> "nil"] \in [{} -> Answer]
  BY DEF Answer
<1> QED  BY <1>1 DEF wellFormed, Free, CallRec

(* One more disk has answered; what the others said is unchanged.          *)
LEMMA Answered ==
  ASSUME NEW r, wellFormed(r), NEW d \in r.todo, NEW e \in Answer
  PROVE  LET s == answered(r, d, e)
         IN /\ wellFormed(s) /\ s.kind = r.kind /\ s.kind # "none"
            /\ s.todo = r.todo \ {d} /\ s.err[d] = e
            /\ \A x \in VolDisk \ r.todo : s.err[x] = r.err[x]
<1> DEFINE E == [x \in DOMAIN r.err \cup {d} |-> IF x = d THEN e ELSE r.err[x]]
           s == answered(r, d, e)
<1>1. r \in CallRec /\ r.kind # "none" /\ DOMAIN r.err = VolDisk \ r.todo /\ d \in VolDisk
  <2>1. r.kind # "none"
    BY FreeWellFormed DEF wellFormed
  <2> QED  BY <2>1 DEF wellFormed, CallRec
<1>2. PICK S \in SUBSET VolDisk : r.err \in [S -> Answer]
  BY <1>1 DEF CallRec
<1>3. S = VolDisk \ r.todo
  BY <1>1, <1>2
<1>4. E \in [VolDisk \ (r.todo \ {d}) -> Answer]
  BY <1>1, <1>2, <1>3
<1>5. VolDisk \ (r.todo \ {d}) \in SUBSET VolDisk
  OBVIOUS
<1>6. E \in UNION {[T -> Answer] : T \in SUBSET VolDisk}
  BY <1>4, <1>5
<1>7. s = [r EXCEPT !.todo = r.todo \ {d}, !.err = E]
  BY DEF answered
<1>8. /\ s.kind = r.kind /\ s.todo = r.todo \ {d} /\ s.err = E
  BY <1>1, <1>7 DEF CallRec
<1>9. s \in CallRec
  <2> HIDE DEF E
  <2> QED  BY <1>1, <1>6, <1>7 DEF CallRec
<1>10. DOMAIN s.err = VolDisk \ s.todo
  BY <1>1, <1>8
<1>11. wellFormed(s)
  BY <1>1, <1>8, <1>9, <1>10 DEF wellFormed
<1>12. s.err[d] = e /\ \A x \in VolDisk \ r.todo : s.err[x] = r.err[x]
  BY <1>1, <1>8
<1> QED  BY <1>1, <1>8, <1>11, <1>12

-----------------------------------------------------------------------------
LEMMA InitBuckets == BucketsInit => BucketsInv
<1> SUFFICES ASSUME BucketsInit PROVE BucketsInv
  OBVIOUS
<1>1. BucketsType
  BY FreeWellFormed DEF BucketsInit, BucketsType
<1>2. AdminInv /\ DeletedInv /\ UploadInv /\ StoredInv
  BY FreeWellFormed DEF BucketsInit, AdminInv, DeletedInv, UploadInv, StoredInv
<1> QED  BY <1>1, <1>2 DEF BucketsInv

(* The calls that begin, and what leaves volumes and calls alone.          *)
LEMMA BeginKeeps ==
  ASSUME BucketsInv, MakeBucket \/ DeleteBucket \/ quickHeal \/ PutShards
  PROVE  BucketsInv'
<1> USE DEF BucketsInv
<1>1. CASE MakeBucket
  <2>1. admin' = started("make") /\ isDeleted' = FALSE /\ UNCHANGED <<vol, upload, hollow, isStored>>
    BY <1>1 DEF MakeBucket
  <2>2. admin'.kind = "make" /\ wellFormed(admin)'
    BY <2>1, Started DEF wellFormed, CallRec
  <2>3. BucketsType'
    BY <2>1, <2>2 DEF BucketsType, wellFormed, CallRec
  <2>4. (AdminInv /\ DeletedInv)'
    BY <2>1, <2>2 DEF AdminInv, DeletedInv
  <2>5. (UploadInv /\ StoredInv)'
    BY <2>1 DEF UploadInv, StoredInv, With
  <2> QED  BY <2>3, <2>4, <2>5
<1>2. CASE DeleteBucket
  <2>1. admin' = started("delete") /\ UNCHANGED <<isDeleted, vol, upload, hollow, isStored>>
    BY <1>2 DEF DeleteBucket
  <2>2. admin'.kind = "delete" /\ admin'.todo = VolDisk /\ wellFormed(admin)'
    BY <2>1, Started DEF wellFormed, CallRec
  <2>3. BucketsType'
    BY <2>1, <2>2 DEF BucketsType, wellFormed, CallRec
  <2>4. (AdminInv /\ DeletedInv)'
    BY <2>1, <2>2 DEF AdminInv, DeletedInv, Without
  <2>5. (UploadInv /\ StoredInv)'
    BY <2>1 DEF UploadInv, StoredInv, With
  <2> QED  BY <2>3, <2>4, <2>5
<1>3. CASE quickHeal
  <2>1. UNCHANGED <<vol, upload, hollow, isStored>> /\ isDeleted' = (isDeleted /\ admin' = Free)
    BY <1>3 DEF quickHeal
  <2>2. admin' = Free \/ admin' = started("heal")
    BY <1>3 DEF quickHeal
  <2>3. wellFormed(admin)' /\ admin'.kind \in {"none", "heal"} /\ (admin' = Free => admin'.kind = "none")
    BY <2>2, Started, FreeWellFormed DEF wellFormed, CallRec
  <2>4. BucketsType'
    BY <2>1, <2>3 DEF BucketsType, wellFormed, CallRec
  <2>5. (AdminInv /\ DeletedInv)'
    BY <2>1, <2>3 DEF AdminInv, DeletedInv, Without
  <2>6. (UploadInv /\ StoredInv)'
    BY <2>1 DEF UploadInv, StoredInv, With
  <2> QED  BY <2>4, <2>5, <2>6
<1>4. CASE PutShards
  <2>1. upload' = started("put") /\ ~isStored /\ UNCHANGED <<isDeleted, vol, admin, hollow, isStored>>
    BY <1>4 DEF PutShards
  <2>2. upload'.kind = "put" /\ upload'.todo = VolDisk /\ wellFormed(upload)'
    BY <2>1, Started DEF wellFormed, CallRec
  <2>3. BucketsType'
    BY <2>1, <2>2 DEF BucketsType, wellFormed, CallRec
  <2>4. (AdminInv /\ DeletedInv)'
    BY <2>1 DEF AdminInv, DeletedInv, Without
  <2>5. (UploadInv /\ StoredInv)'
    BY <2>1, <2>2 DEF UploadInv, StoredInv
  <2> QED  BY <2>3, <2>4, <2>5
<1> QED  BY <1>1, <1>2, <1>3, <1>4

LEMMA AwayKeeps ==
  ASSUME BucketsInv,
         UNCHANGED bucketVars \/ (\E S \in Owner : Restart(S)) \/ (\E d \in VolDisk : Outage(d) \/ Return(d))
  PROVE  BucketsInv'
<1>1. UNCHANGED <<vol, admin, upload, isDeleted, isStored, hollow>>
  BY DEF bucketVars, Restart, Outage, Return
<1> QED  BY <1>1 DEF BucketsInv, BucketsType, AdminInv, DeletedInv, UploadInv, StoredInv, With, Without, wellFormed, CallRec

(* MakeBucket, DeleteBucket or healBucket at one disk: an object keeps its *)
(* volume there, and a reported deletion is not undone by a creation.      *)
LEMMA AdminDiskKeeps ==
  ASSUME BucketsInv, NEW d \in VolDisk, AdminDisk(d)
  PROVE  BucketsInv'
<1> USE DEF BucketsInv
<1> DEFINE v == IF d \in away THEN vol[d] ELSE volAfter(admin.kind, vol[d])
           e == IF d \in away THEN "down" ELSE volErr(admin.kind, vol[d])
<1>1. wellFormed(admin) /\ d \in admin.todo /\ admin.kind \in {"make", "delete", "heal"}
  <2>1. wellFormed(admin) /\ d \in admin.todo /\ admin.kind # "put"
    BY DEF AdminDisk, BucketsType
  <2>2. admin.kind # "none"
    BY <2>1, FreeWellFormed DEF wellFormed
  <2> QED  BY <2>1, <2>2 DEF wellFormed, CallRec
<1>2. vol[d] \in {"none", "empty", "object"}
  BY DEF BucketsType
<1>3. /\ e \in Answer /\ v \in {"none", "empty", "object"}
      /\ vol[d] = "object" => v = "object"
      /\ admin.kind = "delete" => (vol[d] = "none" => v = "none") /\ (e = "nil" => v = "none")
  BY <1>1, <1>2 DEF Answer, volAfter, volErr, DeleteVol
<1>4. admin' = answered(admin, d, e) /\ vol' = [vol EXCEPT ![d] = v]
  <2>1. CASE d \in away
    BY <2>1 DEF AdminDisk, BucketsType
  <2>2. CASE d \notin away
    BY <2>2 DEF AdminDisk, BucketsType
  <2> QED  BY <2>1, <2>2
<1>5. UNCHANGED <<upload, isDeleted, isStored, hollow>>
  BY DEF AdminDisk
<1> HIDE DEF v, e
<1>6. /\ wellFormed(admin)' /\ admin'.kind = admin.kind /\ admin'.todo = admin.todo \ {d}
      /\ admin'.err[d] = e /\ \A x \in VolDisk \ admin.todo : admin'.err[x] = admin.err[x]
  <2>1. wellFormed(answered(admin, d, e)) => wellFormed(admin)'
    BY <1>4 DEF wellFormed, CallRec
  <2> QED  BY <1>1, <1>3, <1>4, <2>1, Answered
<1>7. BucketsType'
  BY <1>1, <1>3, <1>4, <1>5, <1>6 DEF BucketsType, wellFormed, CallRec
<1>8. AdminInv'
  BY <1>3, <1>4, <1>6 DEF AdminInv, BucketsType
<1>9. With \subseteq With'
  BY <1>3, <1>4 DEF With, BucketsType
<1>10. admin.kind = "delete" => Without \subseteq Without'
  BY <1>3, <1>4 DEF Without, BucketsType
<1>11. DeletedInv'
  <2> SUFFICES ASSUME isDeleted' PROVE admin'.kind \in {"none", "delete"} /\ Cardinality(Without') >= volQuorum
    BY DEF DeletedInv
  <2>1. admin.kind = "delete" /\ Cardinality(Without) >= volQuorum
    BY <1>1, <1>5 DEF DeletedInv
  <2>2. Without \in SUBSET VolDisk /\ Without' \in SUBSET VolDisk
    BY DEF Without
  <2> QED  BY <1>6, <1>10, <2>1, <2>2, Smaller, Quorum
<1>12. UploadInv'
  BY <1>3, <1>4, <1>5 DEF UploadInv, BucketsType
<1>13. StoredInv'
  <2>1. With \in SUBSET VolDisk /\ With' \in SUBSET VolDisk
    BY DEF With
  <2> QED  BY <1>5, <1>9, <2>1, Smaller, Quorum DEF StoredInv
<1> QED  BY <1>7, <1>8, <1>11, <1>12, <1>13

(* The end of such a call.  DeleteBucket reports success only when a write *)
(* quorum of disks has removed the volume; what has no quorum of answers   *)
(* is undone, which touches no volume with an object.                      *)
LEMMA AdminEndKeeps ==
  ASSUME BucketsInv, AdminEnd
  PROVE  BucketsInv'
<1> USE DEF BucketsInv
<1> DEFINE undone == [d \in VolDisk |-> IF d \in away THEN vol[d] ELSE undoneVol(admin.kind, vol[d])]
<1>1. /\ admin' = Free /\ admin.kind # "none" /\ admin.todo = {}
      /\ vol' = IF answersQuorum(admin) THEN vol ELSE undone
      /\ isDeleted' = (admin.kind = "delete" /\ answersQuorum(admin) /\ (isDeleted \/ succeeds(admin)))
      /\ UNCHANGED <<upload, isStored, hollow>>
  BY DEF AdminEnd
<1>2. wellFormed(admin)' /\ admin'.kind = "none"
  BY <1>1, FreeWellFormed DEF wellFormed, CallRec
<1>3. \A d \in VolDisk : /\ undoneVol(admin.kind, vol[d]) \in {"none", "empty", "object"}
                         /\ vol[d] = "object" => undoneVol(admin.kind, vol[d]) = "object"
  BY DEF BucketsType, undoneVol, volAfter, DeleteVol
<1>4. vol' \in [VolDisk -> {"none", "empty", "object"}] /\ \A d \in VolDisk : vol[d] = "object" => vol'[d] = "object"
  BY <1>1, <1>3 DEF BucketsType
<1>5. BucketsType'
  BY <1>1, <1>2, <1>4 DEF BucketsType, wellFormed, CallRec
<1>6. AdminInv'
  BY <1>2 DEF AdminInv
<1>7. DeletedInv'
  <2> SUFFICES ASSUME isDeleted' PROVE Cardinality(Without') >= volQuorum
    BY <1>2 DEF DeletedInv
  <2>1. admin.kind = "delete" /\ answersQuorum(admin) /\ (isDeleted \/ succeeds(admin)) /\ Without' = Without
    BY <1>1 DEF Without
  <2>2. CASE isDeleted
    BY <2>1, <2>2 DEF DeletedInv
  <2>3. CASE succeeds(admin)
    <3> DEFINE S == {d \in VolDisk : admin.err[d] = "nil"}
    <3>1. S \in SUBSET VolDisk /\ Without \in SUBSET VolDisk /\ S \subseteq Without
      BY <1>1, <2>1 DEF AdminInv, Without
    <3>2. Cardinality(S) >= volQuorum
      BY <2>3 DEF succeeds
    <3> HIDE DEF S
    <3> QED  BY <2>1, <3>1, <3>2, Smaller, Quorum
  <2> QED  BY <2>1, <2>2, <2>3
<1>8. UploadInv'
  BY <1>1, <1>4 DEF UploadInv
<1>9. StoredInv'
  <2>1. With \in SUBSET VolDisk /\ With' \in SUBSET VolDisk /\ With \subseteq With'
    BY <1>4 DEF With
  <2> QED  BY <1>1, <2>1, Smaller, Quorum DEF StoredInv
<1> QED  BY <1>5, <1>6, <1>7, <1>8, <1>9

(* PutObject renames the shard of one disk: into a volume that is there.   *)
LEMMA RenameShardKeeps ==
  ASSUME BucketsInv, NEW d \in VolDisk, RenameShard(d)
  PROVE  BucketsInv'
<1> USE DEF BucketsInv
<1> DEFINE f == d \notin away /\ vol[d] # "none"
           e == IF f THEN "nil" ELSE IF d \in away THEN "down" ELSE "notfound"
<1>1. /\ d \in upload.todo /\ upload' = answered(upload, d, e)
      /\ vol' = (IF f /\ d \in shard THEN [vol EXCEPT ![d] = "object"] ELSE vol)
      /\ hollow' = (IF f THEN hollow \cup ({d} \ shard) ELSE hollow)
      /\ UNCHANGED <<admin, isDeleted, isStored>>
  BY DEF RenameShard
<1>2. e \in Answer /\ (e = "nil" => f)
  BY DEF Answer
<1>3. /\ wellFormed(upload)' /\ upload'.kind = upload.kind /\ upload'.kind # "none"
      /\ upload'.todo = upload.todo \ {d} /\ upload'.err[d] = e
      /\ \A x \in VolDisk \ upload.todo : upload'.err[x] = upload.err[x]
  <2> HIDE DEF e
  <2>1. wellFormed(upload)
    BY DEF BucketsType
  <2>2. wellFormed(answered(upload, d, e)) => wellFormed(upload)'
    BY <1>1 DEF wellFormed, CallRec
  <2> QED  BY <1>1, <1>2, <2>1, <2>2, Answered
<1>4. /\ vol' \in [VolDisk -> {"none", "empty", "object"}]
      /\ \A x \in VolDisk : vol[x] = "object" => vol'[x] = "object"
      /\ \A x \in VolDisk : vol[x] = "none" <=> vol'[x] = "none"
  BY <1>1 DEF BucketsType
<1>5. BucketsType'
  BY <1>1, <1>3, <1>4 DEF BucketsType, wellFormed, CallRec
<1>6. AdminInv'
  BY <1>1, <1>4 DEF AdminInv
<1>7. DeletedInv'
  <2>1. Without' = Without
    BY <1>4 DEF Without
  <2> QED  BY <1>1, <2>1 DEF DeletedInv
<1>8. UploadInv'
  <2> SUFFICES ASSUME upload'.kind = "put", hollow' = {}, NEW x \in VolDisk \ upload'.todo, upload'.err[x] = "nil"
               PROVE  vol'[x] = "object"
    BY DEF UploadInv
  <2>1. CASE x = d
    <3>1. f /\ d \in shard
      BY <1>1, <1>2, <1>3, <2>1
    <3> QED  BY <1>1, <2>1, <3>1 DEF BucketsType
  <2>2. CASE x # d
    <3>1. hollow = {} /\ upload.kind = "put" /\ x \in VolDisk \ upload.todo /\ upload.err[x] = "nil"
      BY <1>1, <1>3, <2>2
    <3> QED  BY <1>4, <3>1 DEF UploadInv
  <2> QED  BY <2>1, <2>2
<1>9. StoredInv'
  BY <1>1, FreeWellFormed DEF StoredInv
<1> QED  BY <1>5, <1>6, <1>7, <1>8, <1>9

(* The end of PutObject: success takes a write quorum of renames.          *)
LEMMA PutEndKeeps ==
  ASSUME BucketsInv, PutEnd
  PROVE  BucketsInv'
<1> USE DEF BucketsInv
<1>1. /\ upload.kind = "put" /\ upload.todo = {} /\ upload' = Free
      /\ vol' = IF answersQuorum(upload) THEN vol
                ELSE [d \in VolDisk |-> IF d \notin away /\ upload.err[d] = "nil" /\ vol[d] = "object"
                                        THEN "empty" ELSE vol[d]]
      /\ isStored' = succeeds(upload)
      /\ UNCHANGED <<admin, isDeleted, hollow>>
  BY DEF PutEnd
<1>2. wellFormed(upload)' /\ upload'.kind = "none"
  BY <1>1, FreeWellFormed DEF wellFormed, CallRec
<1>3. vol' \in [VolDisk -> {"none", "empty", "object"}] /\ \A x \in VolDisk : vol[x] = "none" <=> vol'[x] = "none"
  BY <1>1 DEF BucketsType
<1>4. BucketsType'
  BY <1>1, <1>2, <1>3 DEF BucketsType, wellFormed, CallRec, succeeds
<1>5. AdminInv'
  BY <1>1, <1>3 DEF AdminInv
<1>6. DeletedInv'
  <2>1. Without' = Without
    BY <1>3 DEF Without
  <2> QED  BY <1>1, <2>1 DEF DeletedInv
<1>7. UploadInv'
  BY <1>2 DEF UploadInv
<1>8. StoredInv'
  <2> SUFFICES ASSUME isStored', hollow' = {} PROVE Cardinality(With') >= volQuorum
    BY <1>1 DEF StoredInv
  <2> DEFINE S == {d \in VolDisk : upload.err[d] = "nil"}
             T == {d \in VolDisk : upload.err[d] # "down"}
  <2>1. Cardinality(S) >= volQuorum
    BY <1>1 DEF succeeds
  <2>2. S \in SUBSET VolDisk /\ T \in SUBSET VolDisk /\ S \subseteq T
    OBVIOUS
  <2>3. answersQuorum(upload) <=> Cardinality(T) >= volQuorum
    BY DEF answersQuorum
  <2>4. With \in SUBSET VolDisk /\ S \subseteq With
    BY <1>1 DEF UploadInv, With
  <2> HIDE DEF S, T
  <2>5. answersQuorum(upload)
    BY <2>1, <2>2, <2>3, Smaller, Quorum
  <2>6. With' = With
    BY <1>1, <2>5 DEF With
  <2> QED  BY <2>1, <2>2, <2>4, <2>6, Smaller, Quorum
<1> QED  BY <1>4, <1>5, <1>6, <1>7, <1>8

-----------------------------------------------------------------------------
(* What DeletedInv and StoredInv say holds after every step of the calls   *)
(* of cmd/xl-v1-bucket.go and of an upload, for any number of disks.       *)
THEOREM BucketsInvariance == BucketsSpec => []BucketsInv
<1>1. BucketsInv /\ [BucketsNext]_bucketVars => BucketsInv'
  <2> SUFFICES ASSUME BucketsInv, [BucketsNext]_bucketVars PROVE BucketsInv'
    OBVIOUS
  <2> QED  BY BeginKeeps, AwayKeeps, AdminDiskKeeps, AdminEndKeeps, RenameShardKeeps, PutEndKeeps DEF BucketsNext
<1> QED  BY <1>1, InitBuckets, PTL DEF BucketsSpec

(* A DeleteBucket and a PutObject into the bucket, which have no lock in   *)
(* common, never both report success, except where the rename of a missing *)
(* shard counted as success.                                               *)
THEOREM DeletionExcludesUpload == BucketsSpec => []DeletedOrStored
<1>1. BucketsInv => DeletedOrStored
  <2> SUFFICES ASSUME BucketsInv, isDeleted, isStored, hollow = {} PROVE FALSE
    BY DEF DeletedOrStored
  <2>1. Cardinality(Without) >= volQuorum /\ Cardinality(With) >= volQuorum
    BY DEF BucketsInv, DeletedInv, StoredInv
  <2>2. Without \in SUBSET VolDisk /\ With \in SUBSET VolDisk /\ Without \cap With = {}
    BY DEF Without, With
  <2> QED  BY <2>1, <2>2, QuorumsShareDisk
<1> QED  BY <1>1, BucketsInvariance, PTL
=============================================================================
