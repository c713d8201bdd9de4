----------------------------- MODULE Listeners ------------------------------
(***************************************************************************)
(* Clients that listen to the events of a bucket: the listen handler of    *)
(* cmd/bucket-notification-handlers.go with its channel, the list of       *)
(* listeners that every server keeps in memory and the object layer keeps  *)
(* in listener.json, and eventNotify, which sends an event to the server   *)
(* of every listener in the list (cmd/event-notifier.go,                   *)
(* cmd/notify-listener.go, cmd/bucket-metadata.go).                        *)
(*                                                                         *)
(* The notifier of a server has one lock, internal.rwMutex, which is held  *)
(* for the length of a call: of most calls an instant, but of              *)
(* SendListenerEvent until the listener has taken the event.  Every event  *)
(* passes the filters of every listener, and there is one listener at a    *)
(* time per server: two would share the array under their server's list.   *)
(***************************************************************************)
EXTENDS Integers, Sequences, FiniteSets

CONSTANTS
  Node,                \* servers; each has a slot for one listening client
  MaxListen,           \* bound: listen requests
  MaxEvent             \* bound: events

ASSUME ListenersAssumption == MaxListen \in Nat

Listener == 1 .. MaxListen  \* ARNs, in order of their requests

VARIABLES
  lists,               \* listenerConfigs of each server
  listenerJSON,        \* listener.json
  targets,             \* targets of each server, which are never removed
  connected,           \* connectedListeners of each server
  at,                  \* TargetServer of each listener
  channel,             \* of each listener: "none", "open" or "closed"
  held,                \* internal.rwMutex of a server is held by a send that waits
  confLock,            \* namespace lock of the bucket: the listener that holds it, 0 for nobody
  lst,                 \* listen handler of each server
  event,               \* event being notified by each server
  listens, events,
  raced                \* two changes of the list overlapped, or one could not be saved

listenVars == <<lists, listenerJSON, targets, connected, at, channel, held, confLock, lst, event, listens, events, raced>>

None == "none"
NoListen == [pc |-> "idle", arn |-> 0, new |-> <<>>, todo |-> {}, here |-> TRUE]
NoEvent == [pc |-> "idle", todo |-> <<>>]

ListenersInit ==
  /\ lists = [n \in Node |-> <<>>] /\ listenerJSON = <<>> /\ targets = [n \in Node |-> {}]
  /\ connected = [n \in Node |-> {}] /\ at = [l \in Listener |-> None] /\ channel = [l \in Listener |-> "none"] /\ held = [n \in Node |-> FALSE]
  /\ confLock = 0 /\ lst = [n \in Node |-> NoListen] /\ event = [n \in Node |-> NoEvent]
  /\ listens = 0 /\ events = 0 /\ raced = FALSE

listenTo(n, pc) == lst' = [lst EXCEPT ![n].pc = pc]
elements(s) == {s[i] : i \in DOMAIN s}

-----------------------------------------------------------------------------
(* The listen handler: a channel, its entry in connectedListeners, the     *)
(* entry in the list of listeners.                                         *)
ListenBucketNotificationHandler(n) ==
  /\ lst[n].pc = "idle" /\ listens < MaxListen /\ listens' = listens + 1
  /\ lst' = [lst EXCEPT ![n] = [NoListen EXCEPT !.pc = "addChan", !.arn = listens + 1]]
  /\ at' = [at EXCEPT ![listens + 1] = n] /\ channel' = [channel EXCEPT ![listens + 1] = "open"]
  /\ UNCHANGED <<lists, listenerJSON, targets, connected, held, confLock, event, events, raced>>
AddListenerChan(n) ==
  /\ lst[n].pc = "addChan" /\ ~held[n]
  /\ connected' = [connected EXCEPT ![n] = @ \cup {lst[n].arn}] /\ listenTo(n, "add")
  /\ UNCHANGED <<lists, listenerJSON, targets, at, channel, held, confLock, event, listens, events, raced>>

(* AddBucketListenerConfig and RemoveBucketListenerConfig make the new     *)
(* list from the one in memory, lock, save, and tell every server.  The    *)
(* removal shifts the array of the list in memory, before the lock: its    *)
(* last entry is there twice until the new list is set.                    *)
changing(n) == lst[n].pc \in {"lock", "persist", "tell", "unlock"}
beside(n) == \E m \in Node \ {n} : changing(m)
AddBucketListenerConfig(n) ==
  /\ lst[n].pc = "add" /\ ~held[n]
  /\ lst' = [lst EXCEPT ![n].pc = "lock", ![n].new = Append(lists[n], lst[n].arn)]
  /\ raced' = (raced \/ beside(n))
  /\ UNCHANGED <<lists, listenerJSON, targets, connected, at, channel, held, confLock, event, listens, events>>

without(s, k) == SubSeq(s, 1, k - 1) \o SubSeq(s, k + 1, Len(s))
withoutNext(s, k) == IF k < Len(s) THEN without(s, k + 1) ELSE without(s, k)
removed(s, k) == without(s, k)
RemoveBucketListenerConfig(n) ==
  /\ lst[n].pc = "remove" /\ ~held[n]
  /\ LET found == {k \in DOMAIN lists[n] : lists[n][k] = lst[n].arn}
     IN IF found = {}
        THEN listenTo(n, "removeChan") /\ UNCHANGED <<lists, raced>>
        ELSE \E k \in found :
               LET new == removed(lists[n], k)
               IN /\ \A j \in found : k <= j
                  /\ lst' = [lst EXCEPT ![n].pc = "lock", ![n].new = new]
                  /\ lists' = [lists EXCEPT ![n] = new \o <<lists[n][Len(lists[n])]>>]
                  /\ raced' = (raced \/ beside(n))
  /\ UNCHANGED <<listenerJSON, targets, connected, at, channel, held, confLock, event, listens, events>>

LockConfig(n) ==
  /\ lst[n].pc = "lock" /\ confLock = 0 /\ confLock' = lst[n].arn /\ listenTo(n, "persist")
  /\ UNCHANGED <<lists, listenerJSON, targets, connected, at, channel, held, event, listens, events, raced>>
persistListenerConfig(n, ok) ==
  /\ lst[n].pc = "persist"
  /\ IF ok THEN listenerJSON' = lst[n].new /\ lst' = [lst EXCEPT ![n].pc = "tell", ![n].todo = Node] /\ UNCHANGED raced
     ELSE lst' = [lst EXCEPT ![n].pc = "unlock", ![n].new = <<>>] /\ UNCHANGED listenerJSON /\ raced' = TRUE
  /\ UNCHANGED <<lists, targets, connected, at, channel, held, confLock, event, listens, events>>
SetBucketListenerConfig(n, m) ==
  /\ lst[n].pc = "tell" /\ m \in lst[n].todo /\ ~held[m]
  /\ lists' = [lists EXCEPT ![m] = lst[n].new]
  /\ targets' = [targets EXCEPT ![m] = @ \cup elements(lst[n].new)]
  /\ lst' = [lst EXCEPT ![n].todo = @ \ {m}, ![n].pc = IF lst[n].todo = {m} THEN "unlock" ELSE "tell"]
  /\ UNCHANGED <<listenerJSON, connected, at, channel, held, confLock, event, listens, events, raced>>

(* After the addition the handler serves its client; a removal, or an      *)
(* addition that could not be saved, is followed by the deferred calls.    *)
leaves(n) == lst[n].arn \notin elements(lst[n].new)
UnlockConfig(n) ==
  /\ lst[n].pc = "unlock" /\ confLock' = 0
  /\ lst' = [lst EXCEPT ![n].pc = IF leaves(n) THEN "removeChan" ELSE "serving", ![n].new = <<>>]
  /\ UNCHANGED <<lists, listenerJSON, targets, connected, at, channel, held, event, listens, events, raced>>

(* sendBucketNotification: an event, or after five seconds nothing, is     *)
(* written to the client, and an error ends the handler.                   *)
written(n) == IF lst[n].here THEN "serving" ELSE "remove"
ClientLeaves(n) ==
  /\ lst[n].pc # "idle" /\ lst[n].here /\ lst' = [lst EXCEPT ![n].here = FALSE]
  /\ UNCHANGED <<lists, listenerJSON, targets, connected, at, channel, held, confLock, event, listens, events, raced>>
KeepAlive(n) ==
  /\ lst[n].pc = "serving" /\ ~lst[n].here /\ listenTo(n, written(n))
  /\ UNCHANGED <<lists, listenerJSON, targets, connected, at, channel, held, confLock, event, listens, events, raced>>

(* The deferred calls: the channel leaves the map before it is closed.     *)
closeFirst(n) ==
  IF channel[lst[n].arn] = "open"
  THEN channel' = [channel EXCEPT ![lst[n].arn] = "closed"] /\ UNCHANGED <<connected, lst>>
  ELSE /\ ~held[n] /\ connected' = [connected EXCEPT ![n] = @ \ {lst[n].arn}] /\ UNCHANGED channel
       /\ lst' = [lst EXCEPT ![n] = NoListen]
deferred(n) ==
  IF lst[n].arn \in connected[n]
  THEN ~held[n] /\ connected' = [connected EXCEPT ![n] = @ \ {lst[n].arn}] /\ UNCHANGED <<channel, lst>>
  ELSE channel' = [channel EXCEPT ![lst[n].arn] = "closed"] /\ lst' = [lst EXCEPT ![n] = NoListen] /\ UNCHANGED connected
RemoveListenerChan(n) ==
  /\ lst[n].pc = "removeChan" /\ deferred(n)
  /\ UNCHANGED <<lists, listenerJSON, targets, at, held, confLock, event, listens, events, raced>>

-----------------------------------------------------------------------------
(* eventNotify: the list of this server, then one listener after another,  *)
(* through its target, at its server.                                      *)
EventNotify(n) ==
  /\ event[n].pc = "idle" /\ events < MaxEvent /\ events' = events + 1 /\ ~held[n]
  /\ event' = [event EXCEPT ![n] = IF lists[n] = <<>> THEN NoEvent ELSE [pc |-> "target", todo |-> lists[n]]]
  /\ UNCHANGED <<lists, listenerJSON, targets, connected, at, channel, held, confLock, lst, listens, raced>>

next(n) == event' = [event EXCEPT ![n] = IF Len(@.todo) = 1 THEN NoEvent ELSE [pc |-> "target", todo |-> Tail(@.todo)]]
GetInternalTarget(n) ==
  /\ event[n].pc = "target" /\ ~held[n]
  /\ IF Head(event[n].todo) \in targets[n] THEN event' = [event EXCEPT ![n].pc = "send"] ELSE next(n)
  /\ UNCHANGED <<lists, listenerJSON, targets, connected, at, channel, held, confLock, lst, listens, events, raced>>

SendListenerEvent(n) ==
  LET l == Head(event[n].todo)
  IN /\ event[n].pc = "send" /\ ~held[at[l]]
     /\ IF l \in connected[at[l]]
        THEN held' = [held EXCEPT ![at[l]] = TRUE] /\ event' = [event EXCEPT ![n].pc = "sending"]
        ELSE next(n) /\ UNCHANGED held
     /\ UNCHANGED <<lists, listenerJSON, targets, connected, at, channel, confLock, lst, listens, events, raced>>
ReceiveEvent(n) ==
  LET l == Head(event[n].todo) m == at[l]
  IN /\ event[n].pc = "sending" /\ lst[m].pc = "serving" /\ lst[m].arn = l
     /\ held' = [held EXCEPT ![m] = FALSE] /\ next(n) /\ listenTo(m, written(m))
     /\ UNCHANGED <<lists, listenerJSON, targets, connected, at, channel, confLock, listens, events, raced>>

ListenersNext ==
  \E n \in Node :
    \/ ListenBucketNotificationHandler(n) \/ AddListenerChan(n) \/ AddBucketListenerConfig(n)
    \/ RemoveBucketListenerConfig(n) \/ LockConfig(n) \/ UnlockConfig(n)
    \/ ClientLeaves(n) \/ KeepAlive(n) \/ RemoveListenerChan(n) \/ EventNotify(n) \/ GetInternalTarget(n)
    \/ \E ok \in BOOLEAN : persistListenerConfig(n, ok)
    \/ SendListenerEvent(n) \/ ReceiveEvent(n) \/ \E m \in Node : SetBucketListenerConfig(n, m)
ListenersSpec == ListenersInit /\ [][ListenersNext]_listenVars

-----------------------------------------------------------------------------
(* Properties.                                                             *)

(* No event is sent on a closed channel, which would end the server: a     *)
(* send that found its listener connected finds the channel open until it  *)
(* is taken, whenever the client leaves.                                   *)
NeverOnClosed == \A n \in Node : event[n].pc = "sending" => channel[Head(event[n].todo)] = "open"

(* While no change of the list is under way, every server and listener.json*)
(* have the listeners that are served, once each and nothing else, unless  *)
(* two changes overlapped (each of them starts from the list its server    *)
(* had before it waited for the lock) or could not be saved (a removal has *)
(* shifted the list of its server by then).                                *)
EveryoneListed ==
  ~raced /\ (\A n \in Node : lst[n].pc \in {"idle", "serving", "addChan", "add", "removeChan"}) =>
    LET served == {lst[n].arn : n \in {k \in Node : lst[k].pc = "serving"}}
    IN \A s \in {lists[n] : n \in Node} \cup {listenerJSON} : elements(s) = served /\ Len(s) = Cardinality(served)

(* AddBucketListenerConfig completes before events appear in the channel:  *)
(* it never waits for the notifier's lock while the lock is held by a send *)
(* that waits for this very handler to receive.                            *)
AddCompletes ==
  \A n, m \in Node : event[m].pc = "sending" /\ Head(event[m].todo) = lst[n].arn /\ n \in lst[n].todo => lst[n].pc # "tell"
=============================================================================
