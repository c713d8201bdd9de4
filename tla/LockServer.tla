----------------------------- MODULE LockServer -----------------------------
(***************************************************************************)
(* The table a lock server keeps for one resource, and what its RPC        *)
(* handlers do to it (cmd/lock-rpc-server.go, lock-rpc-server-common.go).  *)
(* The code keeps a map from resource to a slice of lockRequesterInfo;     *)
(* handlers of different resources never touch each other's slice, so one  *)
(* resource is modelled.  A slice with no entry is the absent map key.     *)
(* Entries carry distinct uids and their order is never used: the slice    *)
(* is the set of its entries.  Every handler runs under l.mutex, so each   *)
(* operator below is one atomic step of the server.                        *)
(***************************************************************************)
EXTENDS Naturals

(* lockRequesterInfo: who holds, and whether as the writer.  The address of *)
(* the requesting node is a function of the uid (see Dsync!origin).         *)
lockRequesterInfo(uid, writer) == [uid |-> uid, writer |-> writer]

isWriteLock(lri) == \E e \in lri : lri = {e} /\ e.writer

uids(lri) == {e.uid : e \in lri}

removeEntry(lri, uid) == {e \in lri : e.uid # uid}

(* Lock: granted when nothing is held.                                     *)
LockReplyOverReaders(lri) == ~isWriteLock(lri)
LockReply(lri) == lri = {}

Lock(lri, uid) ==
  IF LockReply(lri) THEN {lockRequesterInfo(uid, TRUE)} ELSE lri

(* RLock: granted unless there is a write lock.                            *)
RLockReplyAlways(lri) == TRUE
RLockReply(lri) == ~isWriteLock(lri)

RLock(lri, uid) ==
  IF RLockReply(lri) THEN lri \cup {lockRequesterInfo(uid, FALSE)} ELSE lri

(* Unlock and RUnlock answer an error, and change nothing, when there is   *)
(* no entry, an entry of the other kind, or no entry with this uid.        *)
UnlockOk(lri, uid) == isWriteLock(lri) /\ uid \in uids(lri)

Unlock(lri, uid) == IF UnlockOk(lri, uid) THEN removeEntry(lri, uid) ELSE lri

RUnlockOk(lri, uid) == ~isWriteLock(lri) /\ uid \in uids(lri)

RUnlock(lri, uid) == IF RUnlockOk(lri, uid) THEN removeEntry(lri, uid) ELSE lri

(* ForceUnlock drops the resource whoever holds it.                        *)
ForceUnlock(lri) == {}

(* Expired: the uid is not (any longer) in the table of this server.       *)
ExpiredNever(lri, uid) == FALSE
Expired(lri, uid) == uid \notin uids(lri)

(* removeEntryIfExists: the purge that ends a maintenance call.            *)
removeAllEntries(lri, uid) == {}
removeEntryIfExists(lri, uid) == removeEntry(lri, uid)
=============================================================================
