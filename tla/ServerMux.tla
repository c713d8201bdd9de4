------------------------------- MODULE ServerMux -------------------------------
(* One server process from start to exit: the listeners that peek into every  *)
(* connection (server-mux.go), the goroutine that obeys service signals       *)
(* (service.go), main, and the lock maintenance goroutines of a distributed   *)
(* set-up, which read the same done channel.                                  *)
(*                                                                            *)
(* ListenAndServe serves with http.Serve, which makes an http.Server of its   *)
(* own: the ConnState hook that ServerMux sets on m.Server is never called.   *)
(* So m.conns is always empty and m.WaitGroup at zero, and what Close does    *)
(* with them does nothing.                                                    *)
EXTENDS Integers, FiniteSets

CONSTANTS Listener,     \* addresses the server listens on
          Conn,         \* connections clients make
          Maintainer,   \* lock maintenance goroutines: none unless distributed
          Restarter     \* admin requests that restart the server

VARIABLES sock,         \* the TCP listeners
          acceptor,     \* the goroutine of newListenerMux, one per listener
          conn,         \* the connections: what became of them, and where
          serve,        \* http.Serve on each listener, inside or outside Accept
          refs,         \* ListenerMux.refs
          listeners,    \* ServerMux.listeners
          muxClosed,    \* ServerMux.closed
          svc,          \* the goroutine in handleServiceSignals
          sender,       \* who sends on globalServiceSignalCh
          doneCh,       \* messages in globalServiceDoneCh
          main,         \* serverMain
          maint,        \* the lock maintenance goroutines
          successors    \* processes started by restartProcess

muxVars == <<sock, acceptor, conn, serve, refs, listeners, muxClosed, svc, sender,
             doneCh, main, maint, successors>>
netVars == <<sock, acceptor, conn, serve, refs>>
others == <<listeners, muxClosed, sender, doneCh, main, maint, successors>>

Sender == {"SIGTERM"} \cup Restarter

(* The trap for SIGTERM is set before the sockets are there *)
MuxInit ==
  /\ sock = [l \in Listener |-> "none"]
  /\ acceptor = [l \in Listener |-> "none"]
  /\ conn = [c \in Conn |-> [st |-> "away", at |-> CHOOSE l \in Listener : TRUE]]
  /\ serve = [l \in Listener |-> [pc |-> "none", res |-> "none"]]
  /\ refs = [l \in Listener |-> 0]
  /\ listeners = {}
  /\ muxClosed = FALSE
  /\ svc = [pc |-> "wait", signal |-> "SIGTERM", rest |-> {}, at |-> CHOOSE l \in Listener : TRUE]
  /\ sender = [x \in Sender |-> "quiet"]
  /\ doneCh = 0
  /\ main = "starting"
  /\ maint = [m \in Maintainer |-> "ticking"]
  /\ successors = 0

up == main # "exited"

(* Close holds m.mu while it waits for the listeners *)
muFree == svc.pc \notin {"listeners", "refs", "asleep"}

-----------------------------------------------------------------------------
(* Listening *)

initListeners ==
  /\ up /\ \A l \in Listener : sock[l] = "none"
  /\ sock' = [l \in Listener |-> "open"]
  /\ acceptor' = [l \in Listener |-> "accepting"]
  /\ UNCHANGED <<conn, serve, refs, svc, others>>

ListenAndServe ==
  /\ up /\ \A l \in Listener : sock[l] # "none" /\ serve[l].pc = "none"
  /\ muFree
  /\ listeners' = Listener
  /\ serve' = [l \in Listener |-> [pc |-> "outside", res |-> "none"]]
  /\ UNCHANGED <<sock, acceptor, conn, refs, muxClosed, svc, sender, doneCh, main, maint, successors>>

Connect(c, l) ==
  /\ up /\ sock[l] = "open" /\ conn[c].st = "away"
  /\ conn' = [conn EXCEPT ![c] = [st |-> "queued", at |-> l]]
  /\ UNCHANGED <<sock, acceptor, serve, refs, svc, others>>

AcceptTCP(l) ==
  /\ up /\ acceptor[l] = "accepting"
  /\ \/ /\ sock[l] = "open"
        /\ \E c \in Conn : /\ conn[c] = [st |-> "queued", at |-> l]
                           /\ conn' = [conn EXCEPT ![c].st = "peeking"]
        /\ UNCHANGED acceptor
     \/ /\ sock[l] = "closed"
        /\ acceptor' = [acceptor EXCEPT ![l] = "failed"]
        /\ UNCHANGED conn
  /\ UNCHANGED <<sock, serve, refs, svc, others>>

(* The first bytes have come, or the client has gone *)
PeekProtocol(c) ==
  /\ up /\ conn[c].st = "peeking"
  /\ conn' = [conn EXCEPT ![c].st = "peeked"]
  /\ UNCHANGED <<sock, acceptor, serve, refs, svc, others>>

incRef(l) ==
  /\ up /\ serve[l].pc = "outside"
  /\ refs' = [refs EXCEPT ![l] = @ + 1]
  /\ serve' = [serve EXCEPT ![l].pc = "inside"]
  /\ UNCHANGED <<sock, acceptor, conn, svc, others>>

(* Accept receives from acceptResCh a connection or the error of AcceptTCP *)
Accept(l) ==
  /\ up /\ serve[l].pc = "inside"
  /\ \/ /\ \E c \in Conn : /\ conn[c] = [st |-> "peeked", at |-> l]
                           /\ conn' = [conn EXCEPT ![c].st = "active"]
        /\ serve' = [serve EXCEPT ![l] = [pc |-> "got", res |-> "conn"]]
        /\ UNCHANGED acceptor
     \/ /\ acceptor[l] = "failed"
        /\ acceptor' = [acceptor EXCEPT ![l] = "gone"]
        /\ serve' = [serve EXCEPT ![l] = [pc |-> "got", res |-> "error"]]
        /\ UNCHANGED conn
  /\ UNCHANGED <<sock, refs, svc, others>>

decRefEarly(l) ==
  /\ up /\ serve[l].pc = "got"
  /\ refs' = [refs EXCEPT ![l] = @ - 1]
  /\ serve' = [serve EXCEPT ![l].pc = IF serve[l].res = "conn" THEN "outside" ELSE "returned"]
  /\ UNCHANGED <<sock, acceptor, conn, svc, others>>

(* http.Serve goes on after a connection and returns after an error; before   *)
(* it does, the last reference wakes Close                                    *)
decRef(l) ==
  /\ up /\ serve[l].pc = "got"
  /\ refs' = [refs EXCEPT ![l] = @ - 1]
  /\ serve' = [serve EXCEPT ![l].pc = IF refs[l] = 1 THEN "waking"
                                      ELSE IF serve[l].res = "conn" THEN "outside" ELSE "returned"]
  /\ UNCHANGED <<sock, acceptor, conn, svc, others>>

Broadcast(l) ==
  /\ up /\ serve[l].pc = "waking"
  /\ serve' = [serve EXCEPT ![l].pc = IF serve[l].res = "conn" THEN "outside" ELSE "returned"]
  /\ svc' = IF svc.pc = "asleep" /\ svc.at = l THEN [svc EXCEPT !.pc = "refs"] ELSE svc
  /\ UNCHANGED <<sock, acceptor, conn, refs, others>>

(* A request is answered, and the client goes *)
Answer(c) ==
  /\ up /\ conn[c].st = "active"
  /\ conn' = [conn EXCEPT ![c].st = "answered"]
  /\ UNCHANGED <<sock, acceptor, serve, refs, svc, others>>

-----------------------------------------------------------------------------
(* Service signals *)

(* SIGTERM comes, or an admin's request: the sender waits in the channel *)
Signal(x) ==
  /\ up /\ sender[x] = "quiet"
  /\ x \in Restarter => main = "waiting" /\ \E l \in Listener : serve[l].pc # "none"
  /\ sender' = [sender EXCEPT ![x] = "sending"]
  /\ UNCHANGED <<netVars, listeners, muxClosed, svc, doneCh, main, maint, successors>>

handleServiceSignals(x) ==
  /\ up /\ svc.pc = "wait" /\ sender[x] = "sending"
  /\ sender' = [sender EXCEPT ![x] = "sent"]
  /\ svc' = [svc EXCEPT !.pc = "close", !.signal = x]
  /\ UNCHANGED <<netVars, listeners, muxClosed, doneCh, main, maint, successors>>

(* ServerMux.Close: a second one is an error and changes nothing *)
MuxClose ==
  /\ up /\ svc.pc = "close"
  /\ muxClosed' = TRUE
  /\ svc' = IF muxClosed THEN [svc EXCEPT !.pc = "closed"]
            ELSE [svc EXCEPT !.pc = "listeners", !.rest = listeners]
  /\ UNCHANGED <<netVars, listeners, sender, doneCh, main, maint, successors>>

(* ListenerMux.Close, up to its wait *)
CloseListener ==
  /\ up /\ svc.pc = "listeners"
  /\ IF svc.rest = {}
       THEN svc' = [svc EXCEPT !.pc = "closed"] /\ UNCHANGED sock
       ELSE \E l \in svc.rest : /\ sock' = [sock EXCEPT ![l] = "closed"]
                                /\ svc' = [svc EXCEPT !.pc = "refs", !.at = l]
  /\ UNCHANGED <<acceptor, conn, serve, refs, others>>

CloseWait ==
  /\ up /\ svc.pc = "refs"
  /\ svc' = IF refs[svc.at] > 0 THEN [svc EXCEPT !.pc = "asleep"]
            ELSE [svc EXCEPT !.pc = "listeners", !.rest = @ \ {svc.at}]
  /\ UNCHANGED <<netVars, others>>

(* A new process, if it can be started *)
restartProcess ==
  /\ up /\ svc.pc = "closed" /\ svc.signal \in Restarter
  /\ successors' \in {successors, successors + 1}
  /\ svc' = [svc EXCEPT !.pc = "done"]
  /\ UNCHANGED <<netVars, listeners, muxClosed, sender, doneCh, main, maint>>

(* objAPI.Shutdown; fatalIf ends the process if that fails *)
Shutdown ==
  /\ up /\ svc.pc = "closed" /\ svc.signal \notin Restarter
  /\ \/ svc' = [svc EXCEPT !.pc = "done"] /\ UNCHANGED main
     \/ main = "waiting" /\ main' = "exited" /\ UNCHANGED svc
  /\ UNCHANGED <<netVars, listeners, muxClosed, sender, doneCh, maint, successors>>

(* globalServiceDoneCh holds one message *)
runExitFn ==
  /\ up /\ svc.pc = "done" /\ doneCh = 0
  /\ doneCh' = 1
  /\ svc' = [svc EXCEPT !.pc = "wait"]
  /\ UNCHANGED <<netVars, listeners, muxClosed, sender, main, maint, successors>>

-----------------------------------------------------------------------------
(* The receivers of the done message *)

newObjectLayer ==
  /\ main = "starting"
  /\ main' = "waiting"
  /\ UNCHANGED <<netVars, listeners, muxClosed, svc, sender, doneCh, maint, successors>>

(* Disks still to be formatted are given up on the message: fatal for main *)
retryFormattingXLDisks ==
  /\ main = "starting" /\ doneCh = 1
  /\ doneCh' = 0
  /\ main' = "exited"
  /\ UNCHANGED <<netVars, listeners, muxClosed, svc, sender, maint, successors>>

serverMain ==
  /\ main = "waiting" /\ doneCh = 1
  /\ doneCh' = 0
  /\ main' = "exited"
  /\ UNCHANGED <<netVars, listeners, muxClosed, svc, sender, maint, successors>>

(* Its ticker stopped, the goroutine stays in its loop *)
startLockMaintainence(m) ==
  /\ up /\ doneCh = 1
  /\ doneCh' = 0
  /\ maint' = [maint EXCEPT ![m] = "stopped"]
  /\ UNCHANGED <<netVars, listeners, muxClosed, svc, sender, main, successors>>

MuxNext ==
  \/ initListeners \/ ListenAndServe \/ MuxClose \/ CloseListener \/ CloseWait
  \/ restartProcess \/ Shutdown \/ runExitFn \/ newObjectLayer \/ retryFormattingXLDisks \/ serverMain
  \/ \E l \in Listener : \/ AcceptTCP(l) \/ incRef(l) \/ Accept(l) \/ decRef(l) \/ Broadcast(l)
                         \/ \E c \in Conn : Connect(c, l)
  \/ \E c \in Conn : PeekProtocol(c) \/ Answer(c)
  \/ \E x \in Sender : Signal(x) \/ handleServiceSignals(x)
  \/ \E m \in Maintainer : startLockMaintainence(m)

MuxSpec == MuxInit /\ [][MuxNext]_muxVars

(* The goroutine that serves signals, those that set up the listeners, main,  *)
(* and http.Serve on a listener.                                              *)
signalLoop == \/ MuxClose \/ CloseListener \/ CloseWait \/ restartProcess \/ Shutdown \/ runExitFn
              \/ \E x \in Sender : handleServiceSignals(x)
listen == initListeners \/ ListenAndServe
mainWaits == retryFormattingXLDisks \/ serverMain
httpServe(l) == incRef(l) \/ Accept(l) \/ decRef(l) \/ Broadcast(l)

(* Goroutines run: every one that can take a step takes it in the end.  Of    *)
(* clients, signals and answers nothing is asked, nor of the object layer,    *)
(* which may wait for its disks.                                              *)
MuxFairness ==
  /\ WF_muxVars(signalLoop) /\ WF_muxVars(listen) /\ WF_muxVars(mainWaits)
  /\ \A l \in Listener : WF_muxVars(AcceptTCP(l)) /\ WF_muxVars(httpServe(l))

MuxFairSpec == MuxSpec /\ MuxFairness

-----------------------------------------------------------------------------
stolen == \E m \in Maintainer : maint[m] = "stopped"

(* A server told to stop or to restart exits: Close gets past Accept on every *)
(* listener, whatever connections are being peeked into, and the done message *)
(* reaches main - unless a lock maintenance goroutine took it first.          *)
ToldThenExits == \A x \in Sender : (sender[x] = "sending") ~> (main = "exited" \/ stolen)

(* The same in a distributed set-up.  runExitFn: "We are usually done here,   *)
(* close global service done channel."                                        *)
DoneForAll == \A x \in Sender : (sender[x] = "sending") ~> (main = "exited")

(* "Block until all connections are closed": once ServerMux.Close has         *)
(* returned, no request is being served.                                      *)
CloseBlocks == svc.pc \in {"closed", "done"} => \A c \in Conn : conn[c].st # "active"

(* "To avoid accepting connections after Close, we block Goroutine 2 from     *)
(* returning from Close till Accept returns an error to the user."            *)
AcceptsUntilClosed ==
  \A l \in Listener : sock[l] = "closed" /\ svc.pc = "closed" => serve[l].res = "error"

=============================================================================
