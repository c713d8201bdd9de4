----------------------------- MODULE StorageRPC -----------------------------
(***************************************************************************)
(* A disk of another server: retryStorage (cmd/retry-storage.go) over      *)
(* networkStorage (cmd/storage-rpc-client.go), AuthRPCClient and RPCClient *)
(* (cmd/auth-rpc-client.go, cmd/net-rpc-client.go), and the handlers of    *)
(* cmd/storage-rpc-server.go behind a token.                               *)
(*                                                                         *)
(* Concurrent calls share one connection and one token.  The connection    *)
(* breaks, is closed by a call that saw it broken and dialled again by     *)
(* whoever comes next; a call that was cut off is repeated once although   *)
(* the disk may have carried it out.                                       *)
(***************************************************************************)
EXTENDS Integers, FiniteSets

CONSTANTS
  Caller,              \* goroutines that use the disk, numbered
  Op,                  \* calls of StorageAPI that they make
  maxRetryAttempts,    \* of reInit
  MaxOps,              \* bound: calls
  MaxBreak,            \* bound: breaks of the network
  MaxRotate            \* bound: changes of the credentials

VARIABLES
  reachable,           \* the other server can be dialled
  netRPCClient,        \* the shared connection, 0 without one
  conns,               \* connections: "open", "broken" by the network or "closed" by Close
  authToken,           \* credentials the shared token was signed with, 0 without one
  serverCred,          \* credentials of the other server
  diskFile,            \* the file the calls work on: if its volume and it are there, appends to it
  op,                  \* the calls
  ops, breaks

rpcVars == <<reachable, netRPCClient, conns, authToken, serverCred, diskFile, op, ops, breaks>>

None == [name |-> "none", pc |-> "idle", round |-> 0, attempt |-> 0, conn |-> 0, token |-> 0, answer |-> "none",
         applied |-> 0, cut |-> FALSE, clean |-> FALSE, alone |-> FALSE]
configCred == 1        \* what newStorageRPC was given at the start
Conn == 1..Cardinality(Caller) + 1

RPCInit ==
  /\ reachable = TRUE /\ netRPCClient = 0 /\ conns = [n \in Conn |-> "closed"]
  /\ authToken = 0 /\ serverCred = configCred
  /\ diskFile = [vol |-> FALSE, blocks |-> 0, here |-> TRUE]
  /\ op = [c \in Caller |-> None] /\ ops = 0 /\ breaks = 0

isGone(n) == conns[n] # "open"
becomes(c, r) == op' = [op EXCEPT ![c] = r]

(* authClient.Close: forgets the token and closes the connection of the    *)
(* moment, whoever dialled it.                                             *)
connClosed == conns' = [n \in Conn |-> IF n = netRPCClient /\ ~isGone(n) THEN "closed" ELSE conns[n]]
closed == authToken' = 0 /\ netRPCClient' = 0 /\ connClosed

(* dial: the connection there is, or a new one (under a number not in use).*)
dialled == IF netRPCClient # 0 THEN netRPCClient ELSE CHOOSE n \in Conn : \A c \in Caller : op[c].conn # n
dialFails == netRPCClient = 0 /\ ~reachable
dialGone == netRPCClient # 0 /\ isGone(netRPCClient)
dial == netRPCClient' = dialled /\ conns' = [conns EXCEPT ![dialled] = "open"]

-----------------------------------------------------------------------------
(* toStorageErr, for what the transport returns.                           *)
diskNotFound(err) == err \in {"OpError", "ErrShutdown"}

(* retryStorage: the first errDiskNotFound leads to reInit, the second is  *)
(* the answer; so is any other error.                                      *)
again(r) == [r EXCEPT !.pc = "reInit", !.conn = 0]
done(r, err) == [r EXCEPT !.pc = "done", !.answer = err, !.conn = 0]
retryAll(r, err) == IF r.round = 1 /\ err # "nil" THEN again(r) ELSE done(r, err)
retry(r, err) == IF r.round = 1 /\ diskNotFound(err) THEN again(r) ELSE done(r, err)
(* reInit: another attempt until the threshold.                            *)
attemptFails(r, err) ==
  IF r.attempt < maxRetryAttempts THEN [r EXCEPT !.pc = "Init", !.attempt = @ + 1, !.conn = 0] ELSE done(r, err)
(* A call of round 0 is loadFormat, within reInit.                         *)
fails(r, err) == IF r.round = 0 THEN attemptFails(r, err) ELSE retry(r, err)
succeeds(r, err) == IF r.round = 0 THEN [r EXCEPT !.pc = "Login", !.round = 2, !.conn = 0] ELSE retry(r, err)

(* AuthRPCClient.Call: rpc.ErrShutdown closes the client; without          *)
(* reconnects there is no second attempt.                                  *)
callFails(c, r, err) ==
  /\ becomes(c, fails(r, err))
  /\ IF err = "ErrShutdown" THEN closed ELSE UNCHANGED <<authToken, netRPCClient, conns>>

-----------------------------------------------------------------------------
Begin(c, o) ==
  /\ op[c].pc = "idle" /\ ops < MaxOps /\ ops' = ops + 1
  /\ \A d \in Caller : d < c => op[d].pc # "idle"
  /\ op' = [d \in Caller |->
               IF d = c THEN [None EXCEPT !.name = o, !.pc = "Login", !.round = 1,
                                          !.clean = reachable /\ serverCred = configCred,
                                          !.alone = \A e \in Caller : op[e].pc = "idle"]
               ELSE [op[d] EXCEPT !.alone = FALSE]]
  /\ UNCHANGED <<reachable, netRPCClient, conns, authToken, serverCred, diskFile, breaks>>

(* Login, under the client's lock, with the credentials it was made with.  *)
loginOutcome == IF authToken # 0 THEN "nil"
                ELSE IF dialFails THEN "OpError"
                ELSE IF dialGone THEN "ErrShutdown"
                ELSE IF serverCred # configCred THEN "errAuthentication" ELSE "nil"
loggedIn == /\ IF authToken = 0 /\ ~dialFails /\ ~dialGone THEN dial ELSE UNCHANGED <<netRPCClient, conns>>
            /\ authToken' = IF loginOutcome = "nil" THEN configCred ELSE authToken
Login(c) ==
  /\ op[c].pc = "Login"
  /\ IF loginOutcome = "nil" THEN becomes(c, [op[c] EXCEPT !.pc = "token"]) /\ loggedIn
     ELSE IF loginOutcome = "ErrShutdown" THEN callFails(c, op[c], "ErrShutdown")
     ELSE loggedIn /\ becomes(c, fails(op[c], loginOutcome))
  /\ UNCHANGED <<reachable, serverCred, diskFile, ops, breaks>>

(* The token is read without the lock, then the request is sent.           *)
SetAuthToken(c) ==
  /\ op[c].pc = "token" /\ becomes(c, [op[c] EXCEPT !.token = authToken, !.pc = "dial"])
  /\ UNCHANGED <<reachable, netRPCClient, conns, authToken, serverCred, diskFile, ops, breaks>>
Send(c) ==
  /\ op[c].pc = "dial"
  /\ IF dialFails THEN callFails(c, op[c], "OpError")
     ELSE IF dialGone THEN callFails(c, op[c], "ErrShutdown")
     ELSE dial /\ becomes(c, [op[c] EXCEPT !.conn = dialled, !.pc = "sent"]) /\ UNCHANGED authToken
  /\ UNCHANGED <<reachable, serverCred, diskFile, ops, breaks>>

(* The handlers: IsAuthenticated, then the disk.  Calls on a volume find   *)
(* it or not, reads and removals find the file or not.                     *)
isAuthenticated(r) == r.token = serverCred
volServed(o) ==
  CASE o = "MakeVol" -> [file |-> [diskFile EXCEPT !.vol = TRUE], err |-> IF diskFile.vol THEN "errVolumeExists" ELSE "nil"]
    [] OTHER -> [file |-> diskFile, err |-> IF diskFile.vol THEN "nil" ELSE "errVolumeNotFound"]
fileServed(o) ==
  CASE o = "AppendFile" -> [file |-> [diskFile EXCEPT !.blocks = @ + 1, !.here = TRUE], err |-> "nil"]
    [] o \in {"RenameFile", "DeleteFile"} ->
         [file |-> [diskFile EXCEPT !.here = FALSE], err |-> IF diskFile.here THEN "nil" ELSE "errFileNotFound"]
    [] OTHER -> [file |-> diskFile, err |-> IF diskFile.here THEN "nil" ELSE "errFileNotFound"]
served(o) == IF o \in {"MakeVol", "StatVol"} THEN volServed(o) ELSE fileServed(o)
Handler(c) ==
  LET r == op[c]
  IN /\ r.pc = "sent" /\ ~isGone(r.conn)
     /\ IF isAuthenticated(r) /\ r.round # 0
          THEN /\ diskFile' = served(r.name).file
               /\ becomes(c, [r EXCEPT !.pc = "reply", !.answer = served(r.name).err, !.applied = @ + 1])
          ELSE /\ becomes(c, [r EXCEPT !.pc = "reply", !.answer = IF isAuthenticated(r) THEN "nil" ELSE "errInvalidToken"])
               /\ UNCHANGED diskFile
     /\ UNCHANGED <<reachable, netRPCClient, conns, authToken, serverCred, ops, breaks>>
Reply(c) ==
  /\ op[c].pc = "reply" /\ ~isGone(op[c].conn)
  /\ becomes(c, IF op[c].answer = "errInvalidToken" THEN fails(op[c], "errInvalidToken") ELSE succeeds(op[c], op[c].answer))
  /\ UNCHANGED <<reachable, netRPCClient, conns, authToken, serverCred, diskFile, ops, breaks>>

(* The connection of a pending call is gone.  Closed by another call it    *)
(* gets ErrShutdown, broken by the network io.ErrUnexpectedEOF or an       *)
(* OpError.                                                                *)
CutOff(c) ==
  /\ op[c].pc \in {"sent", "reply"} /\ isGone(op[c].conn)
  /\ \E err \in IF conns[op[c].conn] = "closed" THEN {"ErrShutdown"} ELSE {"OpError", "ErrUnexpectedEOF"} :
       callFails(c, [op[c] EXCEPT !.cut = TRUE], err)
  /\ UNCHANGED <<reachable, serverCred, diskFile, ops, breaks>>

(* reInit closes the client, logs in and loads the format.                 *)
reInit(c) ==
  /\ op[c].pc = "reInit" /\ closed /\ becomes(c, [op[c] EXCEPT !.pc = "Init", !.attempt = 0])
  /\ UNCHANGED <<reachable, serverCred, diskFile, ops, breaks>>
InitStorage(c) ==
  /\ op[c].pc = "Init" /\ loggedIn
  /\ becomes(c, IF loginOutcome = "nil" THEN [op[c] EXCEPT !.pc = "Login", !.round = 0]
                ELSE attemptFails(op[c], loginOutcome))
  /\ UNCHANGED <<reachable, serverCred, diskFile, ops, breaks>>

Return(c) ==
  /\ op[c].pc = "done" /\ op' = [op EXCEPT ![c] = None]
  /\ UNCHANGED <<reachable, netRPCClient, conns, authToken, serverCred, diskFile, ops, breaks>>

(* The network breaks and comes back.                                      *)
Break ==
  /\ reachable /\ breaks < MaxBreak /\ breaks' = breaks + 1
  /\ reachable' = FALSE
  /\ conns' = [n \in Conn |-> IF isGone(n) THEN conns[n] ELSE "broken"]
  /\ op' = [c \in Caller |-> [op[c] EXCEPT !.clean = FALSE]]
  /\ UNCHANGED <<netRPCClient, authToken, serverCred, diskFile, ops>>
Mend ==
  /\ ~reachable /\ reachable' = TRUE
  /\ UNCHANGED <<netRPCClient, conns, authToken, serverCred, diskFile, op, ops, breaks>>
Rotate ==
  /\ serverCred <= MaxRotate /\ serverCred' = serverCred + 1
  /\ op' = [c \in Caller |-> [op[c] EXCEPT !.clean = FALSE]]
  /\ UNCHANGED <<reachable, netRPCClient, conns, authToken, diskFile, ops, breaks>>

RPCNext ==
  \/ \E c \in Caller : \/ \E o \in Op : Begin(c, o)
                       \/ Login(c) \/ SetAuthToken(c) \/ Send(c) \/ Handler(c) \/ Reply(c) \/ CutOff(c)
                       \/ reInit(c) \/ InitStorage(c) \/ Return(c)
  \/ Break \/ Mend \/ Rotate
RPCSpec == RPCInit /\ [][RPCNext]_rpcVars

-----------------------------------------------------------------------------
(* Properties.                                                             *)
finished(c) == op[c].pc = "done"
diskAnswer == {"nil", "errVolumeExists", "errVolumeNotFound", "errFileNotFound"}

(* A call that reports success was carried out, and what it reports is the *)
(* disk's answer; one that is carried out twice was cut off in between.    *)
RepeatedIfCut ==
  \A c \in Caller : /\ finished(c) /\ op[c].answer \in diskAnswer => op[c].applied > 0
                    /\ op[c].applied > 1 => op[c].cut

(* A call that begins and ends while the network is up gets an answer of   *)
(* the disk, also when the connection it finds is one that broke or was    *)
(* closed earlier, as long as no other call is under way.                  *)
ServedAlone ==
  \A c \in Caller : finished(c) /\ op[c].clean /\ op[c].alone => op[c].answer \in diskAnswer

(* The same beside others that are closing and dialling the connection.    *)
ServedWhileUp ==
  \A c \in Caller : finished(c) /\ op[c].clean => op[c].answer \in diskAnswer
=============================================================================
