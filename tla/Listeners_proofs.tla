--------------------------- MODULE Listeners_proofs ---------------------------
(***************************************************************************)
(* No event is sent on a closed channel, for any number of servers,        *)
(* listeners and events.  The argument: a send holds the notifier's lock   *)
(* of the listener's server for as long as it waits (SendInv, OneSend), a  *)
(* listener leaves connectedListeners under that lock, and its channel is  *)
(* open while it is there, because the handler that closes the channel has *)
(* removed it before (HandlerInv, ConnectedInv).                           *)
(***************************************************************************)
EXTENDS Listeners, SequenceTheorems, TLAPS

Known == 1 .. listens
ListenPC == {"idle", "addChan", "add", "lock", "persist", "tell", "unlock", "serving", "remove", "removeChan"}
ListenRec == [pc : ListenPC, arn : Known \cup {0}, new : Seq(Known), todo : SUBSET Node, here : BOOLEAN]
EventRec == [pc : {"idle", "target", "send", "sending"}, todo : Seq(Known)]

ListenersType ==
  /\ listens \in Nat /\ listens <= MaxListen
  /\ lists \in [Node -> Seq(Known)]
  /\ connected \in [Node -> SUBSET Known]
  /\ at \in [Listener -> Node \cup {None}] /\ \A l \in Known : at[l] \in Node
  /\ channel \in [Listener -> {"none", "open", "closed"}]
  /\ held \in [Node -> BOOLEAN]
  /\ lst \in [Node -> ListenRec]
  /\ event \in [Node -> EventRec] /\ \A n \in Node : event[n].pc # "idle" => event[n].todo # <<>>

HandlerInv ==
  \A n \in Node : lst[n].pc # "idle" => lst[n].arn \in Known /\ at[lst[n].arn] = n /\ channel[lst[n].arn] = "open"
ConnectedInv ==
  \A n \in Node : \A l \in connected[n] : lst[n].pc # "idle" /\ lst[n].arn = l
SendInv ==
  \A n \in Node : event[n].pc = "sending" =>
    LET l == Head(event[n].todo) IN l \in connected[at[l]] /\ held[at[l]]
OneSend ==
  \A n, m \in Node : n # m /\ event[n].pc = "sending" /\ event[m].pc = "sending" =>
    at[Head(event[n].todo)] # at[Head(event[m].todo)]

ListenersInv == ListenersType /\ HandlerInv /\ ConnectedInv /\ SendInv /\ OneSend

-----------------------------------------------------------------------------
(* The head of what an event has to do is a listener that has asked.       *)
LEMMA HeadKnown ==
  ASSUME ListenersType, NEW n \in Node, event[n].pc # "idle"
  PROVE  Head(event[n].todo) \in Known /\ Head(event[n].todo) \in Listener /\ at[Head(event[n].todo)] \in Node
<1>1. event[n].todo \in Seq(Known) /\ event[n].todo # <<>>
  BY DEF ListenersType, EventRec
<1>2. Head(event[n].todo) \in Known
  BY <1>1
<1> QED  BY <1>2, ListenersAssumption DEF ListenersType, Known, Listener

(* A list without one of its entries is a list of the same listeners.      *)
LEMMA RemovedList ==
  ASSUME NEW S, NEW s \in Seq(S), NEW k \in DOMAIN s
  PROVE  removed(s, k) \in Seq(S) /\ removed(s, k) \o <<s[Len(s)]>> \in Seq(S)
<1>1. Len(s) \in Nat /\ DOMAIN s = 1 .. Len(s) /\ k \in 1 .. Len(s)
  OBVIOUS
<1>2. SubSeq(s, 1, k - 1) \in Seq(S)
  <2>1. \A i \in 1 .. k - 1 : s[i] \in S
    BY <1>1, ElementOfSeq
  <2> QED  BY <1>1, <2>1, SubSeqProperties
<1>3. SubSeq(s, k + 1, Len(s)) \in Seq(S)
  <2>1. \A i \in k + 1 .. Len(s) : s[i] \in S
    BY <1>1, ElementOfSeq
  <2> QED  BY <1>1, <2>1, SubSeqProperties
<1>4. removed(s, k) \in Seq(S)
  BY <1>2, <1>3, ConcatProperties DEF removed, without
<1>5. <<s[Len(s)]>> \in Seq(S)
  BY <1>1, ElementOfSeq
<1> QED  BY <1>4, <1>5, ConcatProperties

(* Nobody listens at the start.                                            *)
LEMMA InitListeners == ListenersInit => ListenersInv
<1> SUFFICES ASSUME ListenersInit PROVE ListenersInv
  OBVIOUS
<1> USE DEF ListenersInit
<1>1. Known = {}
  BY DEF Known
<1>2. NoListen \in ListenRec /\ NoEvent \in EventRec
  BY DEF NoListen, NoEvent, ListenRec, EventRec, ListenPC
<1>3. ListenersType
  BY <1>1, <1>2, ListenersAssumption DEF ListenersType, NoEvent
<1>4. HandlerInv /\ ConnectedInv /\ SendInv /\ OneSend
  BY DEF HandlerInv, ConnectedInv, SendInv, OneSend, NoListen, NoEvent
<1> QED  BY <1>3, <1>4 DEF ListenersInv

-----------------------------------------------------------------------------
(* A step that leaves the events, the channels and the map of channels     *)
(* alone, and the handlers with the listeners they have.                   *)
LEMMA HandlersGoOnKeeps ==
  ASSUME ListenersInv, UNCHANGED <<connected, at, channel, held, event, listens>>,
         lists' \in [Node -> Seq(Known)], lst' \in [Node -> ListenRec],
         \A n \in Node : lst'[n].arn = lst[n].arn /\ (lst'[n].pc = "idle" <=> lst[n].pc = "idle")
  PROVE  ListenersInv'
<1> USE DEF ListenersInv
<1>1. Known' = Known /\ ListenRec' = ListenRec /\ EventRec' = EventRec
  BY DEF Known, ListenRec, EventRec
<1>2. ListenersType'
  BY <1>1 DEF ListenersType
<1>3. HandlerInv' /\ ConnectedInv'
  BY <1>1, ZenonT(60) DEF HandlerInv, ConnectedInv
<1>4. SendInv' /\ OneSend'
  BY DEF SendInv, OneSend
<1> QED  BY <1>2, <1>3, <1>4

(* A handler goes on with its listener.                                    *)
LEMMA GoesOn ==
  ASSUME lst \in [Node -> ListenRec], NEW n \in Node, lst[n].pc # "idle",
         NEW pc \in ListenPC \ {"idle"}, NEW new \in Seq(Known), NEW todo \in SUBSET Node,
         lst' = [lst EXCEPT ![n].pc = pc, ![n].new = new, ![n].todo = todo]
  PROVE  /\ lst' \in [Node -> ListenRec]
         /\ \A m \in Node : lst'[m].arn = lst[m].arn /\ (lst'[m].pc = "idle" <=> lst[m].pc = "idle")
<1> DEFINE r == [lst[n] EXCEPT !.pc = pc, !.new = new, !.todo = todo]
<1>1. lst[n] \in ListenRec
  OBVIOUS
<1>2. r \in ListenRec /\ r.arn = lst[n].arn /\ r.pc = pc
  <2> HIDE <1>1
  <2>1. SUFFICES ASSUME NEW x \in ListenRec PROVE
          LET y == [x EXCEPT !.pc = pc, !.new = new, !.todo = todo] IN y \in ListenRec /\ y.arn = x.arn /\ y.pc = pc
    BY <1>1, ZenonT(60)
  <2> QED  BY ZenonT(60) DEF ListenRec
<1>3. lst' = [lst EXCEPT ![n] = r]
  BY ZenonT(60)
<1> HIDE DEF r
<1>4. lst' \in [Node -> ListenRec]
  BY <1>2, <1>3, ZenonT(60)
<1>5. \A m \in Node : lst'[m] = IF m = n THEN r ELSE lst[m]
  BY <1>3, ZenonT(60)
<1>6. r.pc # "idle"
  BY <1>2
<1> QED  BY <1>2, <1>4, <1>5, <1>6

(* The steps of adding and removing a listener, and of serving it.         *)
LEMMA ListKeeps ==
  ASSUME ListenersInv, NEW n \in Node,
         \/ AddBucketListenerConfig(n) \/ RemoveBucketListenerConfig(n) \/ LockConfig(n) \/ UnlockConfig(n)
         \/ ClientLeaves(n) \/ KeepAlive(n) \/ (\E ok \in BOOLEAN : persistListenerConfig(n, ok))
         \/ (\E m \in Node : SetBucketListenerConfig(n, m))
  PROVE  ListenersInv'
<1> USE DEF ListenersInv
<1>0. lists \in [Node -> Seq(Known)] /\ lst \in [Node -> ListenRec] /\ <<>> \in Seq(Known)
  BY DEF ListenersType
<1> SUFFICES /\ UNCHANGED <<connected, at, channel, held, event, listens>>
             /\ lists' \in [Node -> Seq(Known)] /\ lst' \in [Node -> ListenRec]
             /\ \A m \in Node : lst'[m].arn = lst[m].arn /\ (lst'[m].pc = "idle" <=> lst[m].pc = "idle")
  BY HandlersGoOnKeeps
<1> USE DEF ListenRec, ListenPC
<1>1. CASE AddBucketListenerConfig(n)
  <2>1. lst[n].arn \in Known
    BY <1>1 DEF AddBucketListenerConfig, HandlerInv
  <2>2. Append(lists[n], lst[n].arn) \in Seq(Known)
    BY <1>0, <2>1
  <2> QED  BY <1>0, <1>1, <2>2, ZenonT(60) DEF AddBucketListenerConfig
<1>2. CASE RemoveBucketListenerConfig(n)
  <2>0. lst[n].pc = "remove" /\ UNCHANGED <<connected, at, channel, held, event, listens>>
    BY <1>2 DEF RemoveBucketListenerConfig
  <2>1. CASE lst' = [lst EXCEPT ![n].pc = "removeChan"] /\ lists' = lists
    BY <1>0, <2>0, <2>1, ZenonT(60)
  <2>2. CASE \E k \in DOMAIN lists[n] :
               /\ lst' = [lst EXCEPT ![n].pc = "lock", ![n].new = removed(lists[n], k)]
               /\ lists' = [lists EXCEPT ![n] = removed(lists[n], k) \o <<lists[n][Len(lists[n])]>>]
    <3>1. PICK k \in DOMAIN lists[n] :
               /\ lst' = [lst EXCEPT ![n].pc = "lock", ![n].new = removed(lists[n], k)]
               /\ lists' = [lists EXCEPT ![n] = removed(lists[n], k) \o <<lists[n][Len(lists[n])]>>]
      BY <2>2, ZenonT(60)
    <3> DEFINE new == removed(lists[n], k)
               kept == new \o <<lists[n][Len(lists[n])]>>
    <3>2. new \in Seq(Known) /\ kept \in Seq(Known)
      BY <1>0, RemovedList
    <3>3. lst' = [lst EXCEPT ![n].pc = "lock", ![n].new = new] /\ lists' = [lists EXCEPT ![n] = kept]
      BY <3>1
    <3> HIDE DEF new, kept
    <3> QED  BY <1>0, <2>0, <3>2, <3>3, ZenonT(60)
  <2> QED  BY <1>2, <2>1, <2>2 DEF RemoveBucketListenerConfig, listenTo
<1>3. CASE LockConfig(n)
  BY <1>0, <1>3, ZenonT(60) DEF LockConfig, listenTo
<1>4. CASE UnlockConfig(n)
  <2>1. PICK pc \in {"removeChan", "serving"} : lst' = [lst EXCEPT ![n].pc = pc, ![n].new = <<>>]
    BY <1>4, ZenonT(60) DEF UnlockConfig
  <2>2. lst' = [lst EXCEPT ![n].pc = pc, ![n].new = <<>>, ![n].todo = lst[n].todo] /\ lst[n].todo \in SUBSET Node
    BY <1>0, <2>1, ZenonT(60)
  <2>3. pc \in ListenPC \ {"idle"} /\ lst[n].pc # "idle" /\ UNCHANGED <<lists, connected, at, channel, held, event, listens>>
    BY <1>4 DEF UnlockConfig
  <2> HIDE DEF ListenPC, ListenRec
  <2>4. /\ lst' \in [Node -> ListenRec]
        /\ \A x \in Node : lst'[x].arn = lst[x].arn /\ (lst'[x].pc = "idle" <=> lst[x].pc = "idle")
    BY <1>0, <2>2, <2>3, GoesOn, ZenonT(60)
  <2> QED  BY <1>0, <2>3, <2>4
<1>5. CASE ClientLeaves(n)
  BY <1>0, <1>5, ZenonT(60) DEF ClientLeaves
<1>6. CASE KeepAlive(n)
  BY <1>0, <1>6, ZenonT(60) DEF KeepAlive, listenTo, written
<1>7. CASE \E ok \in BOOLEAN : persistListenerConfig(n, ok)
  <2>1. PICK ok \in BOOLEAN : persistListenerConfig(n, ok)
    BY <1>7, SMTT(60)
  <2>2. CASE ok
    <3>1. lst' = [lst EXCEPT ![n].pc = "tell", ![n].new = lst[n].new, ![n].todo = Node] /\ lst[n].new \in Seq(Known)
      BY <1>0, <2>1, <2>2, ZenonT(60) DEF persistListenerConfig
    <3> QED  BY <1>0, <2>1, <2>2, <3>1, GoesOn, ZenonT(60) DEF persistListenerConfig
  <2>3. CASE ~ok
    <3>1. lst' = [lst EXCEPT ![n].pc = "unlock", ![n].new = <<>>, ![n].todo = lst[n].todo] /\ lst[n].todo \in SUBSET Node
      BY <1>0, <2>1, <2>3, ZenonT(60) DEF persistListenerConfig
    <3> QED  BY <1>0, <2>1, <2>3, <3>1, GoesOn, ZenonT(60) DEF persistListenerConfig
  <2> QED  BY <2>2, <2>3
<1>8. CASE \E m \in Node : SetBucketListenerConfig(n, m)
  <2>1. PICK m \in Node : SetBucketListenerConfig(n, m)
    BY <1>8
  <2>2. lst[n].pc = "tell" /\ lists' = [lists EXCEPT ![m] = lst[n].new]
    BY <2>1 DEF SetBucketListenerConfig
  <2>3. lists' \in [Node -> Seq(Known)]
    BY <1>0, <2>2
  <2>4. PICK pc \in {"unlock", "tell"} : lst' = [lst EXCEPT ![n].todo = @ \ {m}, ![n].pc = pc]
    BY <2>1, ZenonT(60) DEF SetBucketListenerConfig
  <2>5. /\ lst' = [lst EXCEPT ![n].pc = pc, ![n].new = lst[n].new, ![n].todo = lst[n].todo \ {m}]
        /\ lst[n].new \in Seq(Known) /\ lst[n].todo \ {m} \in SUBSET Node
    BY <1>0, <2>4, ZenonT(60)
  <2>6. pc \in ListenPC \ {"idle"} /\ lst[n].pc # "idle" /\ UNCHANGED <<connected, at, channel, held, event, listens>>
    BY <2>1 DEF SetBucketListenerConfig
  <2> DEFINE new == lst[n].new
             todo == lst[n].todo \ {m}
  <2>7. /\ lst' = [lst EXCEPT ![n].pc = pc, ![n].new = new, ![n].todo = todo]
        /\ new \in Seq(Known) /\ todo \in SUBSET Node
    BY <2>5
  <2> HIDE DEF ListenPC, ListenRec, new, todo
  <2>8. /\ lst' \in [Node -> ListenRec]
        /\ \A x \in Node : lst'[x].arn = lst[x].arn /\ (lst'[x].pc = "idle" <=> lst[x].pc = "idle")
    BY <1>0, <2>6, <2>7, GoesOn, ZenonT(60)
  <2> QED  BY <2>3, <2>6, <2>8
<1> QED  BY <1>1, <1>2, <1>3, <1>4, <1>5, <1>6, <1>7, <1>8

(* A client asks to listen, under an ARN of its own, with a new channel.   *)
LEMMA ListenKeeps ==
  ASSUME ListenersInv, NEW n \in Node, ListenBucketNotificationHandler(n)
  PROVE  ListenersInv'
<1> USE DEF ListenersInv
<1> DEFINE new == listens + 1
<1>1. /\ lst[n].pc = "idle" /\ listens < MaxListen /\ listens' = new
      /\ lst' = [lst EXCEPT ![n] = [NoListen EXCEPT !.pc = "addChan", !.arn = new]]
      /\ at' = [at EXCEPT ![new] = n] /\ channel' = [channel EXCEPT ![new] = "open"]
      /\ UNCHANGED <<lists, connected, held, event>>
  BY DEF ListenBucketNotificationHandler
<1>2. listens \in Nat /\ Known' = Known \cup {new} /\ new \notin Known /\ new \in Listener /\ Known \subseteq Listener
  BY <1>1, ListenersAssumption DEF ListenersType, Known, Listener
<1>3. Seq(Known) \subseteq Seq(Known')
  BY <1>2
<1>4. [NoListen EXCEPT !.pc = "addChan", !.arn = new] \in ListenRec'
  <2>1. <<>> \in Seq(Known')
    OBVIOUS
  <2> QED  BY <2>1, <1>2, ZenonT(60) DEF NoListen, ListenRec, ListenPC
<1>5. ListenRec \subseteq ListenRec' /\ EventRec \subseteq EventRec'
  BY <1>2, <1>3 DEF ListenRec, EventRec
<1> HIDE DEF new
<1>6. /\ at' \in [Listener -> Node \cup {None}] /\ \A l \in Known : at'[l] = at[l] /\ channel'[l] = channel[l]
      /\ at'[new] = n /\ channel' \in [Listener -> {"none", "open", "closed"}] /\ channel'[new] = "open"
  BY <1>1, <1>2 DEF ListenersType
<1>7. \A m \in Node : IF m = n THEN lst'[m].pc = "addChan" /\ lst'[m].arn = new ELSE lst'[m] = lst[m]
  BY <1>1 DEF ListenersType, NoListen
<1>8. ListenersType'
  <2>1. listens' \in Nat /\ listens' <= MaxListen
    BY <1>1, <1>2, ListenersAssumption DEF new
  <2>2. lists' \in [Node -> Seq(Known')] /\ connected' \in [Node -> SUBSET Known'] /\ held' \in [Node -> BOOLEAN]
    BY <1>1, <1>2, <1>3 DEF ListenersType
  <2>3. \A l \in Known' : at'[l] \in Node
    BY <1>2, <1>6 DEF ListenersType
  <2>4. lst' \in [Node -> ListenRec']
    BY <1>1, <1>4, <1>5 DEF ListenersType
  <2>5. event' \in [Node -> EventRec'] /\ \A m \in Node : event'[m].pc # "idle" => event'[m].todo # <<>>
    BY <1>1, <1>5 DEF ListenersType
  <2> QED  BY <1>6, <2>1, <2>2, <2>3, <2>4, <2>5 DEF ListenersType
<1>9. HandlerInv'
  BY <1>2, <1>6, <1>7 DEF HandlerInv
<1>10. ConnectedInv'
  BY <1>1, <1>7 DEF ConnectedInv
<1>11. \A m \in Node : event[m].pc = "sending" => at'[Head(event[m].todo)] = at[Head(event[m].todo)]
  BY <1>6, HeadKnown, SMTT(60)
<1>12. SendInv' /\ OneSend'
  BY <1>1, <1>11 DEF SendInv, OneSend
<1> QED  BY <1>8, <1>9, <1>10, <1>12

(* The channel enters connectedListeners, open.                            *)
LEMMA AddChanKeeps ==
  ASSUME ListenersInv, NEW n \in Node, AddListenerChan(n)
  PROVE  ListenersInv'
<1> USE DEF ListenersInv
<1>1. /\ lst[n].pc = "addChan" /\ connected' = [connected EXCEPT ![n] = @ \cup {lst[n].arn}]
      /\ lst' = [lst EXCEPT ![n].pc = "add"]
      /\ UNCHANGED <<lists, at, channel, held, event, listens>>
  BY DEF AddListenerChan, listenTo
<1>2. Known' = Known /\ ListenRec' = ListenRec /\ EventRec' = EventRec
  BY <1>1 DEF Known, ListenRec, EventRec
<1>3. lst[n].arn \in Known
  BY <1>1 DEF HandlerInv
<1>4. lst' \in [Node -> ListenRec] /\ \A m \in Node : lst'[m].arn = lst[m].arn /\ (lst'[m].pc = "idle" <=> lst[m].pc = "idle")
  BY <1>1, ZenonT(60) DEF ListenersType, ListenRec, ListenPC
<1>5. connected' \in [Node -> SUBSET Known] /\ \A m \in Node : connected[m] \subseteq connected'[m]
  BY <1>1, <1>3 DEF ListenersType
<1>6. \A m \in Node : connected'[m] = IF m = n THEN connected[m] \cup {lst[n].arn} ELSE connected[m]
  BY <1>1, ZenonT(60) DEF ListenersType
<1>7. ListenersType'
  BY <1>1, <1>2, <1>4, <1>5 DEF ListenersType
<1>8. HandlerInv'
  BY <1>1, <1>2, <1>4 DEF HandlerInv
<1>9. ConnectedInv'
  BY <1>1, <1>4, <1>6 DEF ConnectedInv
<1>10. SendInv'
  BY <1>1, <1>5, HeadKnown DEF SendInv
<1>11. OneSend'
  BY <1>1 DEF OneSend
<1> QED  BY <1>7, <1>8, <1>9, <1>10, <1>11

(* The deferred calls: the channel leaves the map while no send holds the  *)
(* lock, and is closed when it is no longer there.                         *)
LEMMA RemoveChanKeeps ==
  ASSUME ListenersInv, NEW n \in Node, RemoveListenerChan(n)
  PROVE  ListenersInv'
<1> USE DEF ListenersInv
<1> DEFINE l == lst[n].arn
<1>1. lst[n].pc = "removeChan" /\ deferred(n) /\ UNCHANGED <<lists, at, held, event, listens>>
  BY DEF RemoveListenerChan
<1>2. Known' = Known /\ ListenRec' = ListenRec /\ EventRec' = EventRec
  BY <1>1 DEF Known, ListenRec, EventRec
<1>3. l \in Known /\ l \in Listener /\ at[l] = n
  BY <1>1, ListenersAssumption DEF HandlerInv, ListenersType, Known, Listener
<1>4. CASE ~held[n] /\ connected' = [connected EXCEPT ![n] = @ \ {l}] /\ UNCHANGED <<channel, lst>>
  <2>1. connected' \in [Node -> SUBSET Known] /\ \A m \in Node : connected'[m] = IF m = n THEN connected[m] \ {l} ELSE connected[m]
    BY <1>4, ZenonT(60) DEF ListenersType
  <2>2. ListenersType'
    BY <1>1, <1>2, <1>4, <2>1 DEF ListenersType
  <2>3. HandlerInv' /\ ConnectedInv'
    BY <1>1, <1>2, <1>4, <2>1, SMTT(60) DEF HandlerInv, ConnectedInv
  <2>4. SendInv'
    BY <1>1, <1>4, <2>1, HeadKnown DEF SendInv
  <2>5. OneSend'
    BY <1>1 DEF OneSend
  <2> QED  BY <2>2, <2>3, <2>4, <2>5
<1>5. CASE /\ l \notin connected[n] /\ channel' = [channel EXCEPT ![l] = "closed"]
           /\ lst' = [lst EXCEPT ![n] = NoListen] /\ UNCHANGED connected
  <2>1. connected[n] = {}
    BY <1>5 DEF ConnectedInv
  <2>2. NoListen \in ListenRec /\ NoListen.pc = "idle"
    <3>1. <<>> \in Seq(Known)
      OBVIOUS
    <3> QED  BY <3>1 DEF NoListen, ListenRec, ListenPC
  <2>3. lst' \in [Node -> ListenRec] /\ \A m \in Node : lst'[m] = IF m = n THEN NoListen ELSE lst[m]
    BY <1>5, <2>2 DEF ListenersType
  <2>4. channel' \in [Listener -> {"none", "open", "closed"}] /\ \A k \in Listener : k # l => channel'[k] = channel[k]
    BY <1>5, ZenonT(60) DEF ListenersType
  <2>5. ListenersType'
    BY <1>1, <1>2, <1>5, <2>3, <2>4 DEF ListenersType
  <2>6. HandlerInv'
    <3> SUFFICES ASSUME NEW m \in Node, lst'[m].pc # "idle"
                 PROVE  lst'[m].arn \in Known /\ at[lst'[m].arn] = m /\ channel'[lst'[m].arn] = "open"
      BY <1>1, <1>2 DEF HandlerInv
    <3>1. m # n /\ lst'[m] = lst[m]
      BY <2>2, <2>3
    <3>2. lst[m].arn \in Known /\ at[lst[m].arn] = m /\ channel[lst[m].arn] = "open"
      BY <3>1 DEF HandlerInv
    <3>3. lst[m].arn # l /\ lst[m].arn \in Listener
      BY <1>3, <3>1, <3>2, ListenersAssumption DEF ListenersType, Known, Listener
    <3> QED  BY <2>4, <3>1, <3>2, <3>3
  <2>7. ConnectedInv'
    BY <1>5, <2>1, <2>3, SMTT(60) DEF ConnectedInv
  <2>8. SendInv' /\ OneSend'
    BY <1>1, <1>5 DEF SendInv, OneSend
  <2> QED  BY <2>5, <2>6, <2>7, <2>8
<1> QED  BY <1>1, <1>4, <1>5 DEF deferred

-----------------------------------------------------------------------------
(* What remains of an event after one listener is shorter by it.           *)
LEMMA NextEvent ==
  ASSUME ListenersInv, NEW n \in Node, event[n].pc # "idle", next(n)
  PROVE  /\ event' \in [Node -> EventRec] /\ event'[n].pc \in {"idle", "target"}
         /\ event'[n].pc # "idle" => event'[n].todo # <<>>
         /\ \A m \in Node \ {n} : event'[m] = event[m]
<1> DEFINE t == event[n].todo
           r == IF Len(t) = 1 THEN NoEvent ELSE [pc |-> "target", todo |-> Tail(t)]
<1>1. event' = [event EXCEPT ![n] = r] /\ event \in [Node -> EventRec]
  BY DEF next, ListenersInv, ListenersType
<1>2. t \in Seq(Known) /\ t # <<>>
  BY DEF ListenersInv, ListenersType, EventRec
<1>3. Tail(t) \in Seq(Known) /\ (Len(t) # 1 => Tail(t) # <<>>) /\ <<>> \in Seq(Known)
  <2> HIDE DEF t
  <2>1. Tail(t) \in Seq(Known) /\ Len(Tail(t)) = Len(t) - 1
    BY <1>2, HeadTailProperties
  <2>2. Len(t) \in Nat
    BY <1>2
  <2>3. Len(t) # 1 => Len(Tail(t)) # 0
    BY <2>1, <2>2
  <2>4. Len(<<>>) = 0 /\ <<>> \in Seq(Known)
    OBVIOUS
  <2> QED  BY <2>1, <2>3, <2>4, ZenonT(60)
<1>4. r \in EventRec /\ r.pc \in {"idle", "target"} /\ (r.pc # "idle" => r.todo # <<>>)
  BY <1>3 DEF EventRec, NoEvent
<1> HIDE DEF r
<1> QED  BY <1>1, <1>4

(* A step of an event that does not send.                                  *)
LEMMA NotSendingKeeps ==
  ASSUME ListenersInv, NEW n \in Node, UNCHANGED <<lists, connected, at, channel, held, lst, listens>>,
         event' \in [Node -> EventRec], \A m \in Node \ {n} : event'[m] = event[m],
         event'[n].pc # "sending", event'[n].pc # "idle" => event'[n].todo # <<>>
  PROVE  ListenersInv'
<1> USE DEF ListenersInv
<1>1. Known' = Known /\ ListenRec' = ListenRec /\ EventRec' = EventRec
  BY DEF Known, ListenRec, EventRec
<1>2. ListenersType'
  BY <1>1, ZenonT(60) DEF ListenersType
<1>3. HandlerInv' /\ ConnectedInv'
  BY <1>1 DEF HandlerInv, ConnectedInv
<1>4. SendInv' /\ OneSend'
  BY DEF SendInv, OneSend
<1> QED  BY <1>2, <1>3, <1>4

(* An event begins, or looks for the target of its next listener.          *)
LEMMA EventKeeps ==
  ASSUME ListenersInv, NEW n \in Node, EventNotify(n) \/ GetInternalTarget(n)
  PROVE  ListenersInv'
<1>0. event \in [Node -> EventRec] /\ lists \in [Node -> Seq(Known)]
  BY DEF ListenersInv, ListenersType
<1>1. CASE EventNotify(n)
  <2> DEFINE r == IF lists[n] = <<>> THEN NoEvent ELSE [pc |-> "target", todo |-> lists[n]]
  <2>1. event' = [event EXCEPT ![n] = r] /\ UNCHANGED <<lists, connected, at, channel, held, lst, listens>>
    BY <1>1 DEF EventNotify
  <2>2. <<>> \in Seq(Known)
    OBVIOUS
  <2>3. r \in EventRec /\ r.pc # "sending" /\ (r.pc # "idle" => r.todo # <<>>)
    BY <1>0, <2>2 DEF EventRec, NoEvent
  <2> HIDE DEF r
  <2> QED  BY <1>0, <2>1, <2>3, NotSendingKeeps
<1>2. CASE GetInternalTarget(n)
  <2>1. event[n].pc = "target" /\ UNCHANGED <<lists, connected, at, channel, held, lst, listens>>
    BY <1>2 DEF GetInternalTarget
  <2>2. CASE event' = [event EXCEPT ![n].pc = "send"]
    <3>1. event[n].todo # <<>>
      BY <2>1 DEF ListenersInv, ListenersType
    <3>2. /\ event' \in [Node -> EventRec] /\ event'[n].pc = "send" /\ event'[n].todo = event[n].todo
          /\ \A m \in Node \ {n} : event'[m] = event[m]
      BY <1>0, <2>2, ZenonT(60) DEF EventRec
    <3> QED  BY <2>1, <3>1, <3>2, NotSendingKeeps
  <2>3. CASE next(n)
    <3>1. /\ event' \in [Node -> EventRec] /\ event'[n].pc \in {"idle", "target"}
          /\ event'[n].pc # "idle" => event'[n].todo # <<>>
          /\ \A m \in Node \ {n} : event'[m] = event[m]
      BY <2>1, <2>3, NextEvent
    <3> QED  BY <2>1, <3>1, NotSendingKeeps
  <2> QED  BY <1>2, <2>2, <2>3 DEF GetInternalTarget
<1> QED  BY <1>1, <1>2

(* A send takes the lock of its listener's server, which no other has.     *)
LEMMA SendKeeps ==
  ASSUME ListenersInv, NEW n \in Node, SendListenerEvent(n)
  PROVE  ListenersInv'
<1> USE DEF ListenersInv
<1> DEFINE l == Head(event[n].todo)
<1>1. event[n].pc = "send" /\ ~held[at[l]] /\ UNCHANGED <<lists, connected, at, channel, lst, listens>>
  BY DEF SendListenerEvent
<1>2. CASE l \notin connected[at[l]]
  <2>1. next(n) /\ UNCHANGED held
    BY <1>2 DEF SendListenerEvent
  <2>2. /\ event' \in [Node -> EventRec] /\ event'[n].pc \in {"idle", "target"}
        /\ event'[n].pc # "idle" => event'[n].todo # <<>>
        /\ \A m \in Node \ {n} : event'[m] = event[m]
    BY <1>1, <2>1, NextEvent, SMTT(60)
  <2> QED  BY <1>1, <2>1, <2>2, NotSendingKeeps
<1>3. CASE l \in connected[at[l]]
  <2>1. held' = [held EXCEPT ![at[l]] = TRUE] /\ event' = [event EXCEPT ![n].pc = "sending"]
    BY <1>3 DEF SendListenerEvent
  <2>2. Known' = Known /\ ListenRec' = ListenRec /\ EventRec' = EventRec
    BY <1>1 DEF Known, ListenRec, EventRec
  <2>3. l \in Known /\ at[l] \in Node /\ event[n].todo # <<>>
    BY <1>1, HeadKnown DEF ListenersType
  <2>4. /\ event' \in [Node -> EventRec] /\ event'[n].pc = "sending" /\ event'[n].todo = event[n].todo
        /\ \A m \in Node \ {n} : event'[m] = event[m]
    BY <2>1, ZenonT(60) DEF ListenersType, EventRec
  <2>5. held' \in [Node -> BOOLEAN] /\ held'[at[l]] = TRUE /\ \A m \in Node : held[m] => held'[m]
    BY <2>1, <2>3 DEF ListenersType
  <2>6. ListenersType'
    BY <1>1, <2>2, <2>3, <2>4, <2>5, ZenonT(60) DEF ListenersType
  <2>7. HandlerInv' /\ ConnectedInv'
    BY <1>1, <2>2 DEF HandlerInv, ConnectedInv
  <2>8. SendInv'
    <3> SUFFICES ASSUME NEW m \in Node, event'[m].pc = "sending"
                 PROVE  LET k == Head(event'[m].todo) IN k \in connected[at[k]] /\ held'[at[k]]
      BY <1>1 DEF SendInv
    <3>1. CASE m = n
      BY <1>3, <2>4, <2>5, <3>1, SMTT(60)
    <3>2. CASE m # n
      <4>1. event[m].pc = "sending" /\ event'[m] = event[m]
        BY <2>4, <3>2
      <4>2. at[Head(event[m].todo)] \in Node
        BY <4>1, HeadKnown
      <4> QED  BY <2>5, <4>1, <4>2 DEF SendInv
    <3> QED  BY <3>1, <3>2
  <2>9. \A m \in Node \ {n} : event[m].pc = "sending" => at[Head(event[m].todo)] # at[l]
    BY <1>1 DEF SendInv
  <2>10. OneSend'
    BY <1>1, <2>4, <2>9, SMTT(60) DEF OneSend
  <2> QED  BY <2>6, <2>7, <2>8, <2>10
<1> QED  BY <1>2, <1>3

(* The handler takes the event and the lock is given up; other sends have  *)
(* the locks of other servers.                                             *)
LEMMA ReceiveKeeps ==
  ASSUME ListenersInv, NEW n \in Node, ReceiveEvent(n)
  PROVE  ListenersInv'
<1> USE DEF ListenersInv
<1> DEFINE l == Head(event[n].todo)
           s == at[l]
<1>1. /\ event[n].pc = "sending" /\ lst[s].pc = "serving" /\ next(n)
      /\ held' = [held EXCEPT ![s] = FALSE] /\ lst' = [lst EXCEPT ![s].pc = written(s)]
      /\ UNCHANGED <<lists, connected, at, channel, listens>>
  BY SMTT(60) DEF ReceiveEvent, listenTo
<1>2. Known' = Known /\ ListenRec' = ListenRec /\ EventRec' = EventRec
  BY <1>1, SMTT(60) DEF Known, ListenRec, EventRec
<1>3. s \in Node
  BY <1>1, HeadKnown, SMTT(60)
<1>4. /\ event' \in [Node -> EventRec] /\ event'[n].pc \in {"idle", "target"}
      /\ event'[n].pc # "idle" => event'[n].todo # <<>>
      /\ \A m \in Node \ {n} : event'[m] = event[m]
  BY <1>1, NextEvent
<1>5. /\ lst' \in [Node -> ListenRec]
      /\ \A m \in Node : lst'[m].arn = lst[m].arn /\ (lst'[m].pc = "idle" <=> lst[m].pc = "idle")
  <2>1. written(s) \in {"serving", "remove"}
    BY DEF written
  <2> HIDE DEF s
  <2> QED  BY <1>1, <1>3, <2>1, ZenonT(60) DEF ListenersType, ListenRec, ListenPC
<1>6. held' \in [Node -> BOOLEAN] /\ \A m \in Node : m # s => held'[m] = held[m]
  BY <1>1, <1>3 DEF ListenersType
<1>7. UNCHANGED <<lists, connected, at, channel, listens>>
  BY <1>1
<1>8. ListenersType' /\ HandlerInv' /\ ConnectedInv'
  <2> HIDE DEF s
  <2>1. \A m \in Node : event'[m].pc # "idle" => event'[m].todo # <<>>
    BY <1>4, ZenonT(60) DEF ListenersType
  <2>2. ListenersType'
    BY <1>2, <1>4, <1>5, <1>6, <1>7, <2>1 DEF ListenersType
  <2>3. HandlerInv' /\ ConnectedInv'
    BY <1>2, <1>5, <1>7, SMTT(60) DEF HandlerInv, ConnectedInv
  <2> QED  BY <2>2, <2>3
<1>9. SendInv'
  <2> SUFFICES ASSUME NEW m \in Node, event'[m].pc = "sending"
               PROVE  LET k == Head(event'[m].todo) IN k \in connected[at[k]] /\ held'[at[k]]
    BY <1>1 DEF SendInv
  <2>1. m # n /\ event[m].pc = "sending" /\ event'[m] = event[m]
    BY <1>4, SMTT(60)
  <2>2. at[Head(event[m].todo)] \in Node /\ at[Head(event[m].todo)] # s
    BY <1>1, <2>1, HeadKnown, SMTT(60) DEF OneSend
  <2> QED  BY <1>6, <2>1, <2>2, SMTT(60) DEF SendInv
<1>10. OneSend'
  BY <1>1, <1>4 DEF OneSend
<1> QED  BY <1>8, <1>9, <1>10, SMTT(60)

-----------------------------------------------------------------------------
(* The handlers, the map of channels and the events keep to the discipline *)
(* described above, whatever order they run in.                            *)
THEOREM ListenersInvariance == ListenersSpec => []ListenersInv
<1>1. ListenersInv /\ [ListenersNext]_listenVars => ListenersInv'
  <2> SUFFICES ASSUME ListenersInv, [ListenersNext]_listenVars PROVE ListenersInv'
    OBVIOUS
  <2>1. CASE UNCHANGED listenVars
    <3>1. UNCHANGED <<lists, connected, at, channel, held, lst, event, listens>>
      BY <2>1 DEF listenVars
    <3>2. lists \in [Node -> Seq(Known)] /\ lst \in [Node -> ListenRec]
      BY DEF ListenersInv, ListenersType
    <3> QED  BY <3>1, <3>2, HandlersGoOnKeeps
  <2>2. CASE ListenersNext
    <3>1. PICK n \in Node :
            \/ ListenBucketNotificationHandler(n) \/ AddListenerChan(n) \/ AddBucketListenerConfig(n)
            \/ RemoveBucketListenerConfig(n) \/ LockConfig(n) \/ UnlockConfig(n)
            \/ ClientLeaves(n) \/ KeepAlive(n) \/ RemoveListenerChan(n) \/ EventNotify(n) \/ GetInternalTarget(n)
            \/ (\E ok \in BOOLEAN : persistListenerConfig(n, ok))
            \/ SendListenerEvent(n) \/ ReceiveEvent(n) \/ (\E m \in Node : SetBucketListenerConfig(n, m))
      BY <2>2 DEF ListenersNext
    <3> QED  BY <3>1, ListKeeps, ListenKeeps, AddChanKeeps, RemoveChanKeeps, EventKeeps, SendKeeps, ReceiveKeeps
  <2> QED  BY <2>1, <2>2
<1> QED  BY <1>1, InitListeners, PTL DEF ListenersSpec

(* A send that found its listener connected finds the channel open until   *)
(* the event is taken, whenever clients leave, on any number of servers.   *)
THEOREM NoSendOnClosedChannel == ListenersSpec => []NeverOnClosed
<1>1. ListenersInv => NeverOnClosed
  <2> SUFFICES ASSUME ListenersInv, NEW n \in Node, event[n].pc = "sending"
               PROVE  channel[Head(event[n].todo)] = "open"
    BY DEF NeverOnClosed
  <2> DEFINE l == Head(event[n].todo)
  <2>1. l \in connected[at[l]] /\ at[l] \in Node
    BY HeadKnown, SMTT(60) DEF ListenersInv, SendInv
  <2>2. lst[at[l]].pc # "idle" /\ lst[at[l]].arn = l
    BY <2>1 DEF ListenersInv, ConnectedInv
  <2> QED  BY <2>1, <2>2 DEF ListenersInv, HandlerInv
<1> QED  BY <1>1, ListenersInvariance, PTL
=============================================================================
