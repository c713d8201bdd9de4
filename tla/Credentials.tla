------------------------------ MODULE Credentials ------------------------------
(* A change of the access and secret key, through the browser (SetAuth) or    *)
(* the admin API (ServiceCredentialsHandler): the server asked tells its      *)
(* peers one by one, each over a connection that it opens with the old keys,  *)
(* and then changes its own.  Each server keeps its keys in memory and in     *)
(* config.json.                                                               *)
(*                                                                            *)
(* SetCredential stores the two keys under serverConfigMu.  GetCredential and *)
(* Save take that lock as well, but their receiver is a value, copied before  *)
(* the lock is taken: a copy made between the two stores has one key of each. *)
EXTENDS Integers, FiniteSets

CONSTANTS CredServer,   \* servers
          Change,       \* changes under way at a time, integers
          MaxSetAuth,   \* bound: changes asked for
          MaxLost,      \* bound: calls to peers lost, or saves that fail
          MaxReboot     \* bound: restarts

VARIABLES keys,         \* serverConfig.Credential of every server
          configJSON,   \* config.json of every server
          change,       \* the changes under way
          setAuths, lost, reboots,
          clean         \* the last change to end met no error, restart or other change

credVars == <<keys, configJSON, change, setAuths, lost, reboots, clean>>

(* The n-th pair of keys *)
pair(n) == [access |-> n, secret |-> n]

todo == [pc |-> "todo", token |-> -1, tries |-> 0, copy |-> pair(0)]
noChange == [at |-> CHOOSE s \in CredServer : TRUE, old |-> pair(0), new |-> 0,
             upd |-> [s \in CredServer |-> todo]]

CredInit == /\ keys = [s \in CredServer |-> pair(0)]
            /\ configJSON = [s \in CredServer |-> pair(0)]
            /\ change = [c \in Change |-> noChange]
            /\ setAuths = 0 /\ lost = 0 /\ reboots = 0
            /\ clean = TRUE

underWay(c) == change[c].new # 0
moves(c, s, r) == change' = [change EXCEPT ![c].upd[s] = r]
over == {"ok", "error"}

(* serverConfigMu at a server *)
configMuFree(s) == \A c \in Change : underWay(c) => change[c].upd[s].pc # "half"

-----------------------------------------------------------------------------
(* A change is asked for.  Its request carries a token or signature of the    *)
(* keys in force at that server; updateCredsOnPeers reads them once.          *)
SetAuth(c) ==
  /\ setAuths < MaxSetAuth
  /\ ~underWay(c) /\ \A d \in Change : d < c => underWay(d)
  /\ setAuths' = setAuths + 1
  /\ \E s \in CredServer :
       change' = [change EXCEPT ![c] = [noChange EXCEPT !.at = s, !.old = keys[s], !.new = setAuths + 1]]
  /\ clean' = (~\E d \in Change : underWay(d))
  /\ UNCHANGED <<keys, configJSON, lost, reboots>>

(* The peers are told first, in parallel, the server itself is last *)
turn(c, s) == s # change[c].at \/ \A t \in CredServer \ {s} : change[c].upd[t].pc \in over

forgiven(r, pc) == [r EXCEPT !.tries = @ + 1, !.pc = IF r.tries = 2 THEN "ok" ELSE pc]

(* Of three attempts, the error of the last one is reported *)
attempt(r, pc) == [r EXCEPT !.tries = @ + 1, !.pc = IF r.tries = 2 THEN "error" ELSE pc]

(* authenticateWeb at the peer, with the keys the caller had *)
Login(c, s) ==
  LET r == change[c].upd[s] IN
  /\ underWay(c) /\ s # change[c].at /\ turn(c, s) /\ r.pc = "todo"
  /\ IF change[c].old = keys[s]
       THEN moves(c, s, [r EXCEPT !.pc = "set", !.token = keys[s].secret])
       ELSE moves(c, s, attempt(r, "todo"))
  /\ UNCHANGED <<keys, configJSON, setAuths, lost, reboots, clean>>

(* The connection fails before the call: three attempts are made *)
CallLost(c, s) ==
  LET r == change[c].upd[s] IN
  /\ lost < MaxLost
  /\ underWay(c) /\ s # change[c].at /\ turn(c, s) /\ r.pc \in {"todo", "set"}
  /\ lost' = lost + 1
  /\ moves(c, s, attempt([r EXCEPT !.token = -1], "todo"))
  /\ UNCHANGED <<keys, configJSON, setAuths, reboots, clean>>

(* SetAuthPeer checks the token against the keys of now; a refused call is    *)
(* repeated with the same token                                               *)
SetAuthPeer(c, s) ==
  LET r == change[c].upd[s] IN
  /\ underWay(c) /\ s # change[c].at /\ r.pc = "set" /\ configMuFree(s)
  /\ IF r.token = keys[s].secret
       THEN /\ keys' = [keys EXCEPT ![s].access = change[c].new]
            /\ moves(c, s, [r EXCEPT !.pc = "half"])
       ELSE /\ moves(c, s, attempt(r, "set"))
            /\ UNCHANGED keys
  /\ UNCHANGED <<configJSON, setAuths, lost, reboots, clean>>

(* The server asked changes its own keys, whatever became of the peers *)
SetOwn(c) ==
  LET s == change[c].at IN
  /\ underWay(c) /\ turn(c, s) /\ change[c].upd[s].pc = "todo" /\ configMuFree(s)
  /\ keys' = [keys EXCEPT ![s].access = change[c].new]
  /\ moves(c, s, [todo EXCEPT !.pc = "half"])
  /\ UNCHANGED <<configJSON, setAuths, lost, reboots, clean>>

(* The second store of SetCredential, which other changes wait for *)
SetCredential(c, s) ==
  /\ underWay(c) /\ change[c].upd[s].pc = "half"
  /\ keys' = [keys EXCEPT ![s].secret = change[c].new]
  /\ moves(c, s, [change[c].upd[s] EXCEPT !.pc = "save"])
  /\ UNCHANGED <<configJSON, setAuths, lost, reboots, clean>>

(* Save copies the configuration and then takes the lock *)
SaveCopy(c, s) ==
  /\ underWay(c) /\ change[c].upd[s].pc = "save"
  /\ moves(c, s, [change[c].upd[s] EXCEPT !.pc = "write", !.copy = keys[s]])
  /\ UNCHANGED <<keys, configJSON, setAuths, lost, reboots, clean>>

(* The file is written and the answer arrives; or one of the two fails, which *)
(* the caller cannot put right: its token is no longer valid                  *)
SaveWrite(c, s) ==
  LET r == change[c].upd[s] IN
  /\ underWay(c) /\ r.pc = "write" /\ configMuFree(s)
  /\ \/ /\ configJSON' = [configJSON EXCEPT ![s] = r.copy]
        /\ moves(c, s, [r EXCEPT !.pc = "ok"])
        /\ UNCHANGED lost
     \/ /\ lost < MaxLost /\ lost' = lost + 1
        /\ configJSON' \in {configJSON, [configJSON EXCEPT ![s] = r.copy]}
        /\ moves(c, s, [r EXCEPT !.pc = "error"])
  /\ UNCHANGED <<keys, setAuths, reboots, clean>>

(* The reply lists the peers that failed *)
Reply(c) ==
  /\ underWay(c) /\ \A s \in CredServer : change[c].upd[s].pc \in over
  /\ clean' = (clean /\ \A s \in CredServer : change[c].upd[s].pc = "ok")
  /\ change' = [change EXCEPT ![c] = noChange]
  /\ UNCHANGED <<keys, configJSON, setAuths, lost, reboots>>

(* A server restarts with the keys of its file; its calls under way end *)
Reboot(s) ==
  /\ reboots < MaxReboot
  /\ reboots' = reboots + 1
  /\ keys' = [keys EXCEPT ![s] = configJSON[s]]
  /\ change' = [c \in Change |->
       IF ~underWay(c) THEN noChange
       ELSE IF change[c].at = s THEN noChange
       ELSE IF change[c].upd[s].pc \in {"half", "save", "write"}
         THEN [change[c] EXCEPT !.upd[s].pc = "error"] ELSE change[c]]
  /\ clean' = (clean /\ ~\E c \in Change : underWay(c))
  /\ UNCHANGED <<configJSON, setAuths, lost>>

CredNext == \/ \E c \in Change : \/ SetAuth(c) \/ SetOwn(c) \/ Reply(c)
                                 \/ \E s \in CredServer : \/ Login(c, s) \/ CallLost(c, s) \/ SetAuthPeer(c, s)
                                                          \/ SetCredential(c, s) \/ SaveCopy(c, s) \/ SaveWrite(c, s)
            \/ \E s \in CredServer : Reboot(s)

CredSpec == CredInit /\ [][CredNext]_credVars

-----------------------------------------------------------------------------
quiet == \A c \in Change : ~underWay(c)

(* A change that reports no errors, and that no other change or restart met,  *)
(* leaves all servers with the same keys, in memory and in the file, so that  *)
(* they go on trusting each other now and after a restart.                    *)
KeysAgree == quiet /\ clean => /\ \A s, t \in CredServer : keys[s] = keys[t]
                               /\ configJSON = keys

(* The keys that a server keeps are a pair somebody set, never one key of     *)
(* each of two pairs.                                                         *)
PairsKept == \A s \in CredServer : configJSON[s].access = configJSON[s].secret

=============================================================================
