---------------------------- MODULE BucketConfig ----------------------------
(***************************************************************************)
(* The access policy and the notification configuration of a bucket: one   *)
(* copy in .minio.sys/buckets, one in the memory of every server.          *)
(* cmd/bucket-policy.go, cmd/bucket-policy-handlers.go,                    *)
(* cmd/bucket-notification-handlers.go, cmd/event-notifier.go,             *)
(* cmd/s3-peer-client.go, cmd/s3-peer-rpc-handlers.go,                     *)
(* cmd/bucket-metadata.go, and the policy calls of cmd/web-handlers.go.    *)
(*                                                                         *)
(* A change is written to the object layer and then told to every server,  *)
(* once.  Setting takes the bucket's namespace lock around both; removing  *)
(* a policy takes none; deleting the bucket tells nobody.                  *)
(***************************************************************************)
EXTENDS Integers, FiniteSets

CONSTANTS
  Peer,                \* servers
  Admin,               \* changes under way at a time, numbered
  Statement,           \* what a configuration is made of; the empty set is no configuration
  Queue,               \* queue targets enabled in the configuration
  MaxSpent,            \* bound: changes, lost calls and restarts together
  MaxMiss,             \* bound: calls to peers that are lost
  MaxStart             \* bound: restarts of servers

VARIABLES
  exists,              \* the bucket is there
  persisted,           \* policy.json and notification.xml
  inMemory,            \* globalBucketPolicies and globalEventNotifier of each server
  state,               \* of each server: "down", "loading", "loaded", "initialised" or "up"
  loading,             \* what a starting server has read so far
  bucketLock,          \* who holds the namespace lock of the bucket, 0 for nobody
  adm,                 \* changes under way
  sets, misses, starts,
  missed,              \* servers that were not told the last change of a file
  overlapped           \* a removal without the lock was under way beside another change of the file

configVars == <<exists, persisted, inMemory, state, loading, bucketLock, adm, sets, misses, starts, missed, overlapped>>

File == {"policy", "notification"}
Idle == [pc |-> "idle"]
nothing == [f \in File |-> {}]

ConfigInit ==
  /\ exists = TRUE /\ persisted = nothing /\ bucketLock = 0
  /\ inMemory = [s \in Peer |-> nothing] /\ state = [s \in Peer |-> "up"] /\ loading = [s \in Peer |-> nothing]
  /\ adm = [c \in Admin |-> Idle] /\ sets = 0 /\ misses = 0 /\ starts = 0
  /\ missed = [s \in Peer |-> {}] /\ overlapped = {}

inBudget == sets + misses + starts < MaxSpent
busy(c) == adm[c].pc # "idle"
goesTo(c, pc) == adm' = [adm EXCEPT ![c].pc = pc]

(* A request arrives at a server that is up; the bucket has to exist, but  *)
(* for the call of the browser.  A change is sent to all servers.          *)
makeS3Peers == Peer
mayAsk(c, s) == inBudget /\ state[s] = "up" /\ ~busy(c) /\ \A k \in Admin : k < c => busy(k)
Request(c, s, f, pc, value) ==
  /\ sets' = sets + 1
  /\ LET others == {k \in Admin \ {c} : busy(k) /\ f \in {adm[k].f, "bucket"} \cup (IF adm[k].f = "bucket" THEN {f} ELSE {})}
         beside == others # {} /\ (pc = "remove" \/ \E k \in others : adm[k].unlocked)
     IN /\ adm' = [k \in Admin |->
             IF k = c THEN [pc |-> pc, s |-> s, f |-> f, value |-> value, todo |-> makeS3Peers, unlocked |-> pc = "remove",
                            beside |-> beside]
             ELSE IF beside /\ k \in others THEN [adm[k] EXCEPT !.beside = TRUE] ELSE adm[k]]
        /\ overlapped' = IF beside THEN overlapped \cup (IF f = "bucket" THEN File ELSE {f}) ELSE overlapped
  /\ UNCHANGED <<exists, persisted, inMemory, state, loading, bucketLock, misses, starts, missed>>

PutBucketPolicyHandler(c, s) == exists /\ \E v \in SUBSET Statement \ {{}} : Request(c, s, "policy", "lock", v)
DeleteBucketPolicyHandler(c, s) == exists /\ Request(c, s, "policy", "remove", {})
PutBucketNotificationHandler(c, s) == exists /\ \E v \in SUBSET Statement \ {{}} : Request(c, s, "notification", "lock", v)
DeleteBucketHandler(c, s) == exists /\ Request(c, s, "bucket", "lock", {})
MakeBucketHandler(c, s) == ~exists /\ Request(c, s, "bucket", "lock", {})

(* SetBucketPolicy of the browser reads the policy, adds or takes away a   *)
(* statement, and goes on as one of the two above.                         *)
SetBucketPolicy(c, s) ==
  \E p \in Statement, add \in BOOLEAN :
    LET v == IF add THEN persisted["policy"] \cup {p} ELSE persisted["policy"] \ {p}
    IN Request(c, s, "policy", IF v = {} THEN "remove" ELSE "lock", v)

-----------------------------------------------------------------------------
lockFreeAlways == TRUE
lockFree == bucketLock = 0
Lock(c) ==
  /\ adm[c].pc = "lock" /\ lockFree /\ bucketLock' = c
  /\ goesTo(c, IF adm[c].f # "bucket" THEN "persist" ELSE IF exists THEN "deleteBucket" ELSE "makeBucket")
  /\ UNCHANGED <<exists, persisted, inMemory, state, loading, sets, misses, starts, missed, overlapped>>

(* writeBucketPolicy, persistNotificationConfig: a failure ends the call.  *)
Persist(c, ok) ==
  /\ adm[c].pc = "persist"
  /\ persisted' = IF ok THEN [persisted EXCEPT ![adm[c].f] = adm[c].value] ELSE persisted
  /\ goesTo(c, IF ok THEN "tell" ELSE "unlock")
  /\ UNCHANGED <<exists, inMemory, state, loading, bucketLock, sets, misses, starts, missed, overlapped>>

(* removeBucketPolicy: without a policy there is nothing to tell.          *)
Remove(c, ok) ==
  /\ adm[c].pc = "remove"
  /\ LET done == ok /\ persisted["policy"] # {}
     IN /\ persisted' = IF done THEN [persisted EXCEPT !["policy"] = {}] ELSE persisted
        /\ goesTo(c, IF done THEN "tell" ELSE "unlock")
  /\ UNCHANGED <<exists, inMemory, state, loading, bucketLock, sets, misses, starts, missed, overlapped>>

(* SendUpdate: all servers in parallel, this one included; an error is     *)
(* logged.  A server whose object layer is not initialised refuses.        *)
heard(s, lost) == ~lost /\ state[s] = "up"
mayBeLost(c, s) == s # adm[c].s /\ misses < MaxMiss /\ inBudget
applied(s, f, v) == inMemory' = [inMemory EXCEPT ![s][f] = v]
Tell(c, s, lost) ==
  LET r == adm[c]
  IN /\ r.pc = "tell" /\ s \in r.todo
     /\ lost => mayBeLost(c, s)
     /\ misses' = IF lost THEN misses + 1 ELSE misses
     /\ IF heard(s, lost) THEN applied(s, r.f, r.value) ELSE UNCHANGED inMemory
     /\ missed' = [missed EXCEPT ![s] = IF heard(s, lost) THEN @ \ {r.f} ELSE @ \cup {r.f}]
     /\ adm' = [adm EXCEPT ![c].todo = @ \ {s}, ![c].pc = IF r.todo = {s} THEN "unlock" ELSE "tell"]
     /\ UNCHANGED <<exists, persisted, state, loading, bucketLock, sets, starts, overlapped>>

(* DeleteBucket removes the files of the bucket and tells nobody.          *)
RemoveBucket(c) ==
  /\ adm[c].pc = "deleteBucket" /\ exists' = FALSE /\ goesTo(c, "removePolicy")
  /\ UNCHANGED <<persisted, inMemory, state, loading, bucketLock, sets, misses, starts, missed, overlapped>>
RemoveFile(c, f) ==
  /\ adm[c].pc = IF f = "policy" THEN "removePolicy" ELSE "removeNotification"
  /\ persisted' = [persisted EXCEPT ![f] = {}]
  /\ missed' = [s \in Peer |-> missed[s] \cup {f}]
  /\ goesTo(c, IF f = "policy" THEN "removeNotification" ELSE "unlock")
  /\ UNCHANGED <<exists, inMemory, state, loading, bucketLock, sets, misses, starts, overlapped>>
CreateBucket(c) ==
  /\ adm[c].pc = "makeBucket" /\ exists' = TRUE /\ goesTo(c, "unlock")
  /\ UNCHANGED <<persisted, inMemory, state, loading, bucketLock, sets, misses, starts, missed, overlapped>>

Return(c) ==
  /\ adm[c].pc = "unlock" /\ adm' = [adm EXCEPT ![c] = Idle]
  /\ bucketLock' = IF bucketLock = c THEN 0 ELSE bucketLock
  /\ overlapped' = IF adm[c].beside \/ adm[c].todo # {} THEN overlapped ELSE overlapped \ {adm[c].f}
  /\ UNCHANGED <<exists, persisted, inMemory, state, loading, sets, misses, starts, missed>>

-----------------------------------------------------------------------------
(* A server goes down with the changes it was making; lock maintenance     *)
(* gives their lock back.                                                  *)
lostBy(s) == {c \in Admin : busy(c) /\ adm[c].s = s}
GoDown(s) ==
  /\ state[s] = "up" /\ starts < MaxStart /\ inBudget /\ starts' = starts + 1
  /\ state' = [state EXCEPT ![s] = "down"]
  /\ adm' = [c \in Admin |-> IF c \in lostBy(s) THEN Idle ELSE adm[c]]
  /\ bucketLock' = IF bucketLock \in lostBy(s) THEN 0 ELSE bucketLock
  /\ missed' = [p \in Peer |-> missed[p] \cup {adm[c].f : c \in {k \in lostBy(s) : adm[k].pc = "tell" /\ p \in adm[k].todo}}]
  /\ inMemory' = [inMemory EXCEPT ![s] = nothing] /\ loading' = [loading EXCEPT ![s] = nothing]
  /\ UNCHANGED <<exists, persisted, sets, misses, overlapped>>

(* initBucketPolicies, then initEventNotifier, read what is stored for the *)
(* buckets there are; only then is the object layer installed and the      *)
(* server hears its peers.  It does not start unless every enabled queue   *)
(* target can be reached.                                                  *)
stored(f) == IF exists THEN persisted[f] ELSE {}
load(s, f) ==
  /\ loading' = [loading EXCEPT ![s][f] = stored(f)]
  /\ missed' = [missed EXCEPT ![s] = IF stored(f) = persisted[f] THEN @ \ {f} ELSE @ \cup {f}]
LoadPolicies(s) ==
  /\ state[s] = "down" /\ load(s, "policy") /\ state' = [state EXCEPT ![s] = "loading"]
  /\ UNCHANGED <<exists, persisted, inMemory, bucketLock, adm, sets, misses, starts, overlapped>>
LoadNotifications(s) ==
  /\ state[s] = "loading" /\ load(s, "notification") /\ state' = [state EXCEPT ![s] = "loaded"]
  /\ UNCHANGED <<exists, persisted, inMemory, bucketLock, adm, sets, misses, starts, overlapped>>
LoadQueueTargets(s, reached) ==
  /\ state[s] = "loaded" /\ state' = [state EXCEPT ![s] = IF reached = Queue THEN "initialised" ELSE "down"]
  /\ UNCHANGED <<exists, persisted, inMemory, loading, bucketLock, adm, sets, misses, starts, missed, overlapped>>
ComeUp(s) ==
  /\ state[s] = "initialised" /\ state' = [state EXCEPT ![s] = "up"]
  /\ inMemory' = [inMemory EXCEPT ![s] = loading[s]]
  /\ UNCHANGED <<exists, persisted, loading, bucketLock, adm, sets, misses, starts, missed, overlapped>>

ConfigNext ==
  \/ \E c \in Admin, s \in Peer :
       \/ mayAsk(c, s) /\ \/ PutBucketPolicyHandler(c, s) \/ DeleteBucketPolicyHandler(c, s)
                          \/ PutBucketNotificationHandler(c, s) \/ SetBucketPolicy(c, s)
                          \/ DeleteBucketHandler(c, s) \/ MakeBucketHandler(c, s)
       \/ \E lost \in BOOLEAN : Tell(c, s, lost)
  \/ \E c \in Admin : \/ Lock(c) \/ RemoveBucket(c) \/ CreateBucket(c) \/ Return(c)
                      \/ \E ok \in BOOLEAN : Persist(c, ok) \/ Remove(c, ok)
                      \/ \E f \in File : RemoveFile(c, f)
  \/ \E s \in Peer : GoDown(s) \/ LoadPolicies(s) \/ LoadNotifications(s) \/ ComeUp(s)
                      \/ \E reached \in SUBSET Queue : LoadQueueTargets(s, reached)
ConfigSpec == ConfigInit /\ [][ConfigNext]_configVars

-----------------------------------------------------------------------------
(* Properties.                                                             *)

(* What a server answers to a question about the configuration comes from  *)
(* the object layer, what it acts on from its memory.                      *)
GetBucketPolicyHandler == stored("policy")
GetBucketNotificationHandler == stored("notification")
reported(f) == IF f = "policy" THEN GetBucketPolicyHandler ELSE GetBucketNotificationHandler

(* Once no change is under way, every server that is up enforces the       *)
(* policy and sends the notifications that it reports, and so the servers  *)
(* agree, also after restarts beside changes.  Excepted are a server that  *)
(* was not told (a lost call, one that came while it was loading, a server *)
(* that died while telling, a bucket that was deleted or not there when it *)
(* started), until the next change reaches it, and a policy that was       *)
(* removed beside another change of it, which no lock orders.              *)
InForce ==
  exists /\ (\A c \in Admin : ~busy(c)) =>
    \A s \in Peer, f \in File \ overlapped :
      state[s] = "up" /\ f \notin missed[s] => inMemory[s][f] = reported(f)

(* The same without the exception for removals.                            *)
InForceAlways ==
  exists /\ (\A c \in Admin : ~busy(c)) =>
    \A s \in Peer, f \in File : state[s] = "up" /\ f \notin missed[s] => inMemory[s][f] = reported(f)
=============================================================================
