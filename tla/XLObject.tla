------------------------------ MODULE XLObject ------------------------------
(***************************************************************************)
(* One object of the erasure-coded (XL) object layer on N disks: PutObject,*)
(* DeleteObject, GetObject and HealObject, each a sequence of phases that  *)
(* run on whichever disks answer at that moment.                           *)
(*                                                                         *)
(* On a disk the object is a directory with `xl.json` and the shard file   *)
(* `part.1`.  A directory exists in three places: `obj` is the object in   *)
(* its bucket, `tmp` the copy a PutObject is writing, `old` the previous   *)
(* object a PutObject has moved out of the way.  The handlers hold the     *)
(* object's namespace lock: PutObject and DeleteObject the write lock,     *)
(* the others only a read lock (module NamespaceLock).  `tmp` and `old`    *)
(* are named by fresh UUIDs, so what an operation leaves in them is never  *)
(* seen again and is forgotten when it ends.                               *)
(*                                                                         *)
(* A version number stands for one upload: its bytes and its modTime.  The *)
(* object is `Blocks` full erasure blocks; the content of a shard file is  *)
(* the sequence of the blocks its bytes come from (0 for bytes of no       *)
(* block), and the checksum xl.json records is the sequence that was       *)
(* hashed.  Disk d holds the d-th shard.                                   *)
(***************************************************************************)
EXTENDS Integers, FiniteSets, Sequences, FiniteSetsExt

CONSTANTS
    N,          \* number of disks, even
    Attached,   \* disks that are not nil in xl.storageDisks
    Blocks,     \* erasure blocks of an upload
    Healers,    \* concurrent HealObject calls
    MaxVer,     \* bound on uploads and deletions
    MaxFlips,   \* bound on disks going down or coming back
    MaxRot,     \* bound on shards rotting on disk
    MaxCrash    \* bound on servers dying in an operation

Disk == 1..N

ASSUME XLAssumption ==
    /\ N \in Nat /\ N % 2 = 0 /\ N >= 4
    /\ Attached \subseteq Disk
    /\ Blocks \in Nat \ {0}
    /\ {MaxVer, MaxFlips, MaxRot, MaxCrash} \subseteq Nat

VARIABLES
    obj, tmp, old,  \* the directory at each place on each disk
    up,             \* disks that answer
    put,            \* the PutObject in progress
    get,            \* the GetObject in progress
    heal,           \* the HealObject calls in progress
    clock,          \* version of the latest upload or deletion
    acked,          \* the latest one that returned success
    seen,           \* what the latest read answered
    flips, rots, crashes

disks == <<obj, tmp, old>>
budget == <<flips, rots, crashes>>
vars == <<obj, tmp, old, up, put, get, heal, clock, acked, seen, flips, rots, crashes>>

-----------------------------------------------------------------------------
\* newXLObjects: half of the disks hold data, half parity.
dataBlocks == N \div 2
readQuorum == N \div 2
\* Mutant: a write is content with as many disks as a read.
writeQuorumHalf == N \div 2
writeQuorum == N \div 2 + 1

Absent == [file |-> FALSE, part |-> <<>>, meta |-> FALSE, ver |-> 0, sum |-> <<>>]
Nowhere == [d \in Disk |-> Absent]

\* A directory exists when something is in it (posix deletes empty ones).
exists(s) == s.file \/ s.meta

\* The disks on which a storage call made now succeeds.
ok == up \cap Attached

whole == [b \in 1..Blocks |-> b]

\* The shard of version v is on d with its metadata, and is what was uploaded.
complete(o, v) == {d \in Disk : o[d].meta /\ o[d].file /\ o[d].ver = v /\ o[d].part = whole /\ o[d].sum = whole}

writeLocked == put.pc # "idle"
readLocked == get.pc # "idle" \/ \E h \in Healers : heal[h].pc # "idle"

putIdle == [pc |-> "idle", blk |-> 0, undo |-> {}, had |-> {}]
getIdle == [pc |-> "idle", ver |-> 0, live |-> {}, verified |-> {}, sums |-> [d \in Disk |-> <<>>], blk |-> 0, bad |-> {}]
healIdle == [pc |-> "idle", ver |-> 0, latest |-> {}, outdated |-> {}, todo |-> {}, part |-> <<>>]

Init ==
    /\ obj = Nowhere /\ tmp = Nowhere /\ old = Nowhere
    /\ up = Disk
    /\ put = putIdle /\ get = getIdle /\ heal = [h \in Healers |-> healIdle]
    /\ clock = 0
    /\ acked = [ver |-> 0, live |-> FALSE, clean |-> TRUE]
    /\ seen = [kind |-> "none", ver |-> 0, bad |-> {}, acked |-> acked]
    /\ flips = 0 /\ rots = 0 /\ crashes = 0

-----------------------------------------------------------------------------
(* RenameFile of a directory on the disks of S: nothing to rename is not an *)
(* error to `rename`, a destination that exists is errFileAccessDenied.     *)
renameDenied(dst, S) == {d \in S : exists(dst[d])}
renameFile(src, dst, S) == {d \in S : exists(src[d]) /\ ~exists(dst[d])}
movedOut(src, M) == [d \in Disk |-> IF d \in M THEN Absent ELSE src[d]]
movedIn(src, dst, M) == [d \in Disk |-> IF d \in M THEN src[d] ELSE dst[d]]

\* isDiskQuorum: every answer counts but "disk not found" and its like.
isDiskQuorum(answered, quorum) == Cardinality(answered) >= quorum

\* isObject: some disk has xl.json.
isObject == \E d \in ok : obj[d].meta

\* PutObject returns: its deferred deletes discard `tmp` and `old`.
putReturn == put' = putIdle /\ tmp' = Nowhere /\ old' = Nowhere

\* PutObject: the upload starts, PrepareFile creates the shard files.
PutBegin ==
    /\ ~writeLocked /\ ~readLocked /\ clock < MaxVer
    /\ clock' = clock + 1
    /\ tmp' = [d \in Disk |-> IF d \in ok THEN [Absent EXCEPT !.file = TRUE] ELSE Absent]
    /\ put' = [pc |-> "append", blk |-> 1, undo |-> {}, had |-> complete(obj, acked.ver)]
    /\ UNCHANGED <<obj, old, up, get, heal, acked, seen, budget>>

\* appendFile: one erasure block to every disk, hashed where it was written.
\* A nil disk counts as written.
appended(S) ==
    [d \in Disk |-> IF d \in S
        THEN [tmp[d] EXCEPT !.file = TRUE, !.part = Append(@, put.blk), !.sum = Append(@, put.blk)]
        ELSE tmp[d]]

appendQuorum == isDiskQuorum(ok \cup (Disk \ Attached), writeQuorum)

PutAppend ==
    /\ put.pc = "append"
    /\ \/ /\ appendQuorum
          /\ tmp' = appended(ok)
          /\ put' = IF put.blk < Blocks THEN [put EXCEPT !.blk = @ + 1] ELSE [put EXCEPT !.pc = "check"]
          /\ UNCHANGED old
       \/ ~appendQuorum /\ putReturn
    /\ UNCHANGED <<obj, up, get, heal, clock, acked, seen, budget>>

\* IncompleteBody, BadDigest, SHA256Mismatch, or a parent that is an object.
PutReject ==
    /\ put.pc = "check"
    /\ putReturn
    /\ UNCHANGED <<obj, up, get, heal, clock, acked, seen, budget>>

\* The previous object is renamed away on every disk, or there is none.
PutMoveOld ==
    /\ put.pc = "check"
    /\ \/ /\ isObject
          /\ obj' = movedOut(obj, renameFile(obj, old, ok))
          /\ old' = movedIn(obj, old, renameFile(obj, old, ok))
          /\ acked' = [acked EXCEPT !.clean = FALSE]
          /\ put' = IF isDiskQuorum(ok, writeQuorum) THEN [put EXCEPT !.pc = "meta"]
                    ELSE [put EXCEPT !.pc = "undoOld", !.undo = ok]
       \/ /\ ~isObject
          /\ put' = [put EXCEPT !.pc = "meta"]
          /\ UNCHANGED <<obj, old, acked>>
    /\ UNCHANGED <<tmp, up, get, heal, clock, seen, budget>>

\* undoRename of the previous object, then the error is returned.
PutUndoOld ==
    /\ put.pc = "undoOld"
    /\ obj' = movedIn(old, obj, renameFile(old, obj, put.undo \cap ok))
    /\ putReturn
    /\ UNCHANGED <<up, get, heal, clock, acked, seen, budget>>
\* writeUniqueXLMetadata: xl.json with the shard's checksum to `tmp`.
withMeta(S) ==
    [d \in Disk |-> IF d \in S THEN [tmp[d] EXCEPT !.meta = TRUE, !.ver = clock] ELSE tmp[d]]

PutMeta ==
    /\ put.pc = "meta"
    /\ \/ /\ isDiskQuorum(ok, writeQuorum)
          /\ tmp' = withMeta(ok)
          /\ put' = [put EXCEPT !.pc = "commit"]
          /\ UNCHANGED old
       \/ ~isDiskQuorum(ok, writeQuorum) /\ putReturn
    /\ UNCHANGED <<obj, up, get, heal, clock, acked, seen, budget>>

\* renameObject to the final place. An occupied destination is an answer,
\* so it counts for isDiskQuorum, but not for reduceWriteQuorumErrs.
commitMoves == renameFile(tmp, obj, ok)
commitQuorum == isDiskQuorum(ok, writeQuorum)
commitReduced == Cardinality(ok \ renameDenied(obj, ok)) >= writeQuorum

PutCommit ==
    /\ put.pc = "commit"
    /\ obj' = movedIn(tmp, obj, commitMoves)
    /\ \/ /\ commitQuorum /\ commitReduced
          /\ acked' = [ver |-> clock, live |-> TRUE, clean |-> TRUE]
          /\ putReturn
       \/ /\ commitQuorum /\ ~commitReduced
          /\ acked' = [acked EXCEPT !.clean = FALSE]
          /\ putReturn
       \/ /\ ~commitQuorum
          /\ tmp' = movedOut(tmp, commitMoves)
          /\ put' = [put EXCEPT !.pc = "undoNew", !.undo = ok \ renameDenied(obj, ok)]
          /\ acked' = [acked EXCEPT !.clean = FALSE]
          /\ UNCHANGED old
    /\ UNCHANGED <<up, get, heal, clock, seen, budget>>

\* undoRename of the new object, then the error is returned.
PutUndoNew ==
    /\ put.pc = "undoNew"
    /\ obj' = movedOut(obj, renameFile(obj, tmp, put.undo \cap ok))
    /\ putReturn
    /\ UNCHANGED <<up, get, heal, clock, acked, seen, budget>>

\* The server dies inside a phase: it was carried out on some disks S only.
crashedObj(S) ==
    CASE put.pc = "check" /\ isObject -> movedOut(obj, renameFile(obj, old, S))
      [] put.pc = "undoOld" -> movedIn(old, obj, renameFile(old, obj, put.undo \cap S))
      [] put.pc = "commit" -> movedIn(tmp, obj, renameFile(tmp, obj, S))
      [] put.pc = "undoNew" -> movedOut(obj, renameFile(obj, tmp, put.undo \cap S))
      [] OTHER -> obj

PutCrash ==
    /\ writeLocked /\ crashes < MaxCrash
    /\ \E S \in SUBSET ok : obj' = crashedObj(S)
    /\ acked' = [acked EXCEPT !.clean = @ /\ put.pc = "append"]
    /\ crashes' = crashes + 1
    /\ putReturn
    /\ UNCHANGED <<up, get, heal, clock, seen, flips, rots>>

-----------------------------------------------------------------------------
(* DeleteObject: cleanupDir on every disk, no undo.                        *)
DeleteObject ==
    /\ ~writeLocked /\ ~readLocked /\ clock < MaxVer
    /\ isObject
    /\ clock' = clock + 1
    /\ obj' = movedOut(obj, ok)
    /\ acked' = IF isDiskQuorum(ok, writeQuorum)
                THEN [ver |-> clock + 1, live |-> FALSE, clean |-> TRUE]
                ELSE [acked EXCEPT !.clean = FALSE]
    /\ UNCHANGED <<tmp, old, up, put, get, heal, seen, budget>>

\* The server dies in it: a directory is emptied file by file, in no order.
DeleteCrash ==
    /\ ~writeLocked /\ ~readLocked /\ clock < MaxVer /\ crashes < MaxCrash
    /\ isObject
    /\ \E f \in [ok -> {"kept", "part", "meta", "both"}] :
          obj' = [d \in Disk |->
                    IF d \notin ok \/ ~exists(obj[d]) THEN obj[d]
                    ELSE CASE f[d] = "kept" -> obj[d]
                           [] f[d] = "part" -> [obj[d] EXCEPT !.file = FALSE, !.part = <<>>]
                           [] f[d] = "meta" -> [obj[d] EXCEPT !.meta = FALSE, !.ver = 0, !.sum = <<>>]
                           [] f[d] = "both" -> Absent]
    /\ clock' = clock + 1
    /\ acked' = [acked EXCEPT !.clean = FALSE]
    /\ crashes' = crashes + 1
    /\ UNCHANGED <<tmp, old, up, put, get, heal, seen, flips, rots>>

-----------------------------------------------------------------------------
(* readAllXLMetadata: the disks with xl.json and those without.            *)
found == {d \in ok : obj[d].meta}
missing == ok \ found

\* reduceReadQuorumErrs: the outcome of the disks of A may win when it has a
\* quorum and no other outcome is more frequent; map order breaks ties.
reduced(A, others) ==
    Cardinality(A) >= readQuorum /\ \A B \in others : Cardinality(A) >= Cardinality(B)

\* Mutant: the earlier one of two equally frequent modTimes.
commonTimeEarlier ==
    LET count(v) == Cardinality({d \in found : obj[d].ver = v})
        seenVers == {obj[d].ver : d \in found}
    IN  CHOOSE v \in seenVers : \A w \in seenVers :
            count(v) > count(w) \/ (count(v) = count(w) /\ v <= w)

\* commonTime: the most frequent modTime, the later one of two.
commonTime ==
    LET count(v) == Cardinality({d \in found : obj[d].ver = v})
        seenVers == {obj[d].ver : d \in found}
    IN  CHOOSE v \in seenVers : \A w \in seenVers :
            count(v) > count(w) \/ (count(v) = count(w) /\ v >= w)

\* Mutant: every disk with an xl.json is online.
listOnlineDisksAll == found

\* listOnlineDisks: the disks whose xl.json has that modTime.
listOnlineDisks == {d \in found : obj[d].ver = commonTime}

answer(kind, v, bad) == seen' = [kind |-> kind, ver |-> v, bad |-> bad, acked |-> acked]

\* GetObject reads all the metadata and picks the version to serve.
GetBegin ==
    /\ ~writeLocked /\ get.pc = "idle"
    /\ \/ /\ reduced(found, {missing})
          /\ get' = [pc |-> "read", ver |-> commonTime, live |-> listOnlineDisks, verified |-> {},
                     sums |-> [d \in Disk |-> IF d \in listOnlineDisks THEN obj[d].sum ELSE <<>>],
                     blk |-> 1, bad |-> {}]
          /\ UNCHANGED seen
       \/ /\ reduced(missing, {found})
          /\ answer("notfound", 0, {})
          /\ UNCHANGED get
    /\ UNCHANGED <<disks, up, put, heal, clock, acked, budget>>

\* Mutant: checksums are not compared.
bitRotVerifyNone(d) == d \in get.verified \/ obj[d].file

\* parallelRead can use d for this block: it answers, its file matches the
\* checksum (computed once per GetObject), and reaches this block.
bitRotVerify(d) == d \in get.verified \/ (obj[d].file /\ obj[d].part = get.sums[d])
readable == {d \in get.live \cap ok : bitRotVerify(d) /\ Len(obj[d].part) >= get.blk}

\* getReadDisks: the first dataBlocks of them, data disks before parity.
readDisks == {d \in readable : Cardinality({e \in readable : e <= d}) <= dataBlocks}

\* What is wrong with the bytes that d delivers for this block.
wrong(d) ==
    {w \in {"version", "rot", "block"} :
        \/ w = "version" /\ obj[d].ver # get.ver
        \/ w = "rot" /\ obj[d].part[get.blk] = 0
        \/ w = "block" /\ obj[d].part[get.blk] \notin {0, get.blk}}

\* erasureReadFile, one block: decode it from the shards read, drop the disks
\* that failed on the way.
GetBlock ==
    LET bad == get.bad \cup UNION {wrong(d) : d \in readDisks}
    IN  /\ get.pc = "read"
        /\ \/ /\ Cardinality(readable) < dataBlocks
              /\ answer("error", 0, {})
              /\ get' = getIdle
           \/ /\ Cardinality(readable) >= dataBlocks /\ get.blk < Blocks
              /\ get' = [get EXCEPT !.blk = @ + 1, !.bad = bad,
                            !.verified = @ \cup readDisks,
                            !.live = {d \in @ : d \in readable \/ \A e \in readDisks : d > e}]
              /\ UNCHANGED seen
           \/ /\ Cardinality(readable) >= dataBlocks /\ get.blk = Blocks
              /\ answer("data", get.ver, bad)
              /\ get' = getIdle
        /\ UNCHANGED <<disks, up, put, heal, clock, acked, budget>>

-----------------------------------------------------------------------------
\* outDatedDisks: xl.json is missing, or has another modTime.
outDatedDisks == missing \cup (found \ listOnlineDisks)

healReturn(h) == heal' = [heal EXCEPT ![h] = healIdle]

\* healObject reads all the metadata and decides what to heal.
HealBegin(h) ==
    /\ ~writeLocked /\ heal[h].pc = "idle"
    /\ reduced(found, {missing, Disk \ ok})
    /\ outDatedDisks # {}
    /\ heal' = [heal EXCEPT ![h] =
                  [pc |-> IF found \ listOnlineDisks = {} THEN "file" ELSE "purge",
                   ver |-> commonTime, latest |-> listOnlineDisks, outdated |-> outDatedDisks,
                   todo |-> found \ listOnlineDisks, part |-> <<>>]]
    /\ UNCHANGED <<disks, up, put, get, clock, acked, seen, budget>>

\* Deletes the outdated object of one disk, part first; an error ends the heal.
purged(o, d) == [o EXCEPT ![d] = IF @.file THEN Absent ELSE @]
HealPurge(h) ==
    LET d == Min(heal[h].todo)
    IN  /\ heal[h].pc = "purge"
        /\ \/ /\ d \in ok /\ obj[d].file /\ obj[d].meta
              /\ heal' = [heal EXCEPT ![h].todo = @ \ {d}, ![h].pc = IF heal[h].todo = {d} THEN "file" ELSE @]
              /\ obj' = purged(obj, d)
           \/ /\ d \in ok /\ ~(obj[d].file /\ obj[d].meta)
              /\ obj' = purged(obj, d)
              /\ healReturn(h)
           \/ d \notin ok /\ healReturn(h) /\ UNCHANGED obj
        /\ UNCHANGED <<tmp, old, up, put, get, clock, acked, seen, budget>>

\* erasureHealFile: every block from all the latest disks that can be read at
\* its offset, without checksums. More shards than dataBlocks are checked
\* against each other, exactly dataBlocks of them cannot be.
healSources(h, b) == {d \in heal[h].latest \cap ok : obj[d].file /\ Len(obj[d].part) >= b}
healRight(h, b) == \A d \in healSources(h, b) : obj[d].ver = heal[h].ver /\ obj[d].part[b] = b
healDecodes(h, b) ==
    \/ Cardinality(healSources(h, b)) >= dataBlocks /\ healRight(h, b)
    \/ Cardinality(healSources(h, b)) = dataBlocks
healBlocks(h) == [b \in 1..Blocks |-> IF healRight(h, b) THEN b ELSE 0]

HealFile(h) ==
    /\ heal[h].pc = "file"
    /\ \/ /\ \A b \in 1..Blocks : healDecodes(h, b)
          /\ heal[h].outdated \subseteq ok
          /\ heal' = [heal EXCEPT ![h].pc = "meta", ![h].part = healBlocks(h)]
       \/ /\ ~((\A b \in 1..Blocks : healDecodes(h, b)) /\ heal[h].outdated \subseteq ok)
          /\ healReturn(h)
    /\ UNCHANGED <<disks, up, put, get, clock, acked, seen, budget>>

\* writeUniqueXLMetadata: xl.json on every outdated disk, none may fail.
HealMeta(h) ==
    /\ heal[h].pc = "meta"
    /\ \/ /\ heal[h].outdated \subseteq ok
          /\ heal' = [heal EXCEPT ![h].pc = "install", ![h].todo = heal[h].outdated]
       \/ ~(heal[h].outdated \subseteq ok) /\ healReturn(h)
    /\ UNCHANGED <<disks, up, put, get, clock, acked, seen, budget>>

\* Renames the healed copy into place on one disk. DeleteFile of a directory
\* that is not empty does nothing, and then the rename is denied.
HealInstall(h) ==
    LET d == Min(heal[h].todo)
        healed == [file |-> TRUE, part |-> heal[h].part, meta |-> TRUE, ver |-> heal[h].ver, sum |-> heal[h].part]
    IN  /\ heal[h].pc = "install"
        /\ \/ /\ d \in ok /\ ~exists(obj[d])
              /\ obj' = [obj EXCEPT ![d] = healed]
              /\ IF heal[h].todo = {d} THEN healReturn(h)
                 ELSE heal' = [heal EXCEPT ![h].todo = @ \ {d}]
           \/ /\ ~(d \in ok /\ ~exists(obj[d]))
              /\ healReturn(h)
              /\ UNCHANGED obj
        /\ UNCHANGED <<tmp, old, up, put, get, clock, acked, seen, budget>>

HealCrash(h) ==
    /\ heal[h].pc # "idle" /\ crashes < MaxCrash
    /\ healReturn(h)
    /\ crashes' = crashes + 1
    /\ UNCHANGED <<disks, up, put, get, clock, acked, seen, flips, rots>>

-----------------------------------------------------------------------------
(* The disks: going down, coming back, and losing bytes silently.          *)
Flip(d) ==
    /\ flips < MaxFlips
    /\ up' = IF d \in up THEN up \ {d} ELSE up \cup {d}
    /\ flips' = flips + 1
    /\ UNCHANGED <<disks, put, get, heal, clock, acked, seen, rots, crashes>>

\* Bound: not while a GetObject reads, which verifies a file only once.
Rot(d) ==
    /\ rots < MaxRot /\ get.pc = "idle" /\ obj[d].file
    /\ \E b \in DOMAIN obj[d].part : obj' = [obj EXCEPT ![d].part[b] = 0]
    /\ rots' = rots + 1
    /\ UNCHANGED <<tmp, old, up, put, get, heal, clock, acked, seen, flips, crashes>>

Next ==
    \/ PutBegin \/ PutAppend \/ PutReject \/ PutMoveOld \/ PutUndoOld
    \/ PutMeta \/ PutCommit \/ PutUndoNew \/ PutCrash
    \/ DeleteObject \/ DeleteCrash
    \/ GetBegin \/ GetBlock
    \/ \E h \in Healers :
          \/ HealBegin(h) \/ HealPurge(h) \/ HealFile(h)
          \/ HealMeta(h) \/ HealInstall(h) \/ HealCrash(h)
    \/ \E d \in Attached : Flip(d) \/ Rot(d)

Spec == Init /\ [][Next]_vars

-----------------------------------------------------------------------------
Content == UNION {[1..n -> 0..Blocks] : n \in 0..Blocks}
Dir == [file : BOOLEAN, part : Content, meta : BOOLEAN, ver : 0..MaxVer, sum : Content]
Ack == [ver : 0..MaxVer, live : BOOLEAN, clean : BOOLEAN]

\* Types, the bounds of the counters, and that no shard file outgrows its upload.
TypeOK ==
    /\ obj \in [Disk -> Dir] /\ tmp \in [Disk -> Dir] /\ old \in [Disk -> Dir]
    /\ up \subseteq Disk
    /\ put \in [pc : {"idle", "append", "check", "undoOld", "meta", "commit", "undoNew"},
                blk : 0..Blocks, undo : SUBSET Disk, had : SUBSET Disk]
    /\ get \in [pc : {"idle", "read"}, ver : 0..MaxVer, live : SUBSET Disk, verified : SUBSET Disk,
                sums : [Disk -> Content], blk : 0..Blocks, bad : SUBSET {"version", "rot", "block"}]
    /\ heal \in [Healers -> [pc : {"idle", "purge", "file", "meta", "install"}, ver : 0..MaxVer,
                             latest : SUBSET Disk, outdated : SUBSET Disk, todo : SUBSET Disk, part : Content]]
    /\ clock \in 0..MaxVer /\ acked \in Ack
    /\ seen \in [kind : {"none", "data", "notfound", "error"}, ver : 0..MaxVer,
                 bad : SUBSET {"version", "rot", "block"}, acked : Ack]
    /\ flips \in 0..MaxFlips /\ rots \in 0..MaxRot /\ crashes \in 0..MaxCrash

\* GetObject: what it serves is never older than the last upload or deletion
\* that reported success, whichever disks were down then and are down now.
ReadLatest == seen.kind = "data" => seen.ver >= seen.acked.ver

\* GetObject: the bytes it serves are those of one upload, never those of
\* another version, of another block, or of a rotten shard.
ReadCorrect == seen.kind = "data" => seen.bad = {}

\* GetObject: a shard that rotted on disk is found out by its checksum and
\* never used, in whichever block the damage is.
RotDetected == "rot" \notin seen.bad

\* PutObject and DeleteObject: once one has succeeded, too few disks are left
\* with an earlier version for it to be decoded, through any later failures.
StaleCannotDecode ==
    ~writeLocked => Cardinality({d \in Disk : obj[d].meta /\ obj[d].ver < acked.ver}) < dataBlocks

\* PutObject: when it reports success the object can be read back.
AckedDurable ==
    [][acked'.ver # acked.ver /\ acked'.live => Cardinality(complete(obj', acked'.ver)) >= dataBlocks]_vars

\* PutObject: one that returns an error has put the previous object back on
\* the disks that answer.
PutRollsBack ==
    [][writeLocked /\ put'.pc = "idle" /\ acked'.ver = acked.ver /\ acked.live /\ crashes' = crashes
         => put.had \cap ok \subseteq complete(obj', acked.ver)]_vars

\* HealObject: no step of it removes a complete shard of the last upload that
\* succeeded, when no later operation has touched the object.
HealKeepsAcked ==
    [][heal' # heal /\ acked.live /\ acked.clean
         => complete(obj, acked.ver) \subseteq complete(obj', acked.ver)]_vars
=============================================================================
