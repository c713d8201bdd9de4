---------------------------- MODULE MCLifecycle ----------------------------
(* How servers start and end: they agree on the disks (Format), and a      *)
(* server that is told to stops (ServerMux).  One instance of each; `part' *)
(* says which one runs.                                                    *)
EXTENDS Format, ServerMux

CONSTANTS s1, s2

VARIABLE part

(* Two servers with two disks each.                                        *)
Hosts == <<s1, s1, s2, s2>>

lifeVars == <<part, formatVars, muxVars>>

(* Servers that have formatted their disks and run.                        *)
Running ==
  /\ format = initFormatXL(0) /\ skewed = {}
  /\ stage = [s \in Server |-> "up"] /\ order = [s \in Server |-> [d \in Disk |-> d]]
  /\ seen = [s \in Server |-> <<>>] /\ plan = [s \in Server |-> <<>>] /\ saveErr = [s \in Server |-> FALSE]
  /\ drawn = 1 /\ started = Server /\ crashes = 0 /\ restarts = 0 /\ swaps = 0 /\ heals = 0

LifecycleInit ==
  /\ MuxInit
  /\ \/ part = "start" /\ FormatInit
     \/ part = "end" /\ Running

LifecycleNext ==
  /\ UNCHANGED part
  /\ \/ part = "start" /\ FormatNext /\ UNCHANGED muxVars
     \/ part = "end" /\ MuxNext /\ UNCHANGED formatVars

(* FormatFairness and MuxFairness, each for the part that runs.            *)
StartFairness ==
  /\ WF_formatVars(part = "start" /\ SetClocks)
  /\ \A s \in Server : WF_formatVars(part = "start" /\ FormatProgress(s))
EndFairness ==
  /\ WF_muxVars(part = "end" /\ signalLoop) /\ WF_muxVars(part = "end" /\ listen)
  /\ WF_muxVars(part = "end" /\ mainWaits)
  /\ \A l \in Listener : /\ WF_muxVars(part = "end" /\ AcceptTCP(l))
                         /\ WF_muxVars(part = "end" /\ httpServe(l))

LifecycleSpec == LifecycleInit /\ [][LifecycleNext]_lifeVars /\ StartFairness /\ EndFairness

(* Bound: a server whose clock is off, or a crash and a replaced disk;     *)
(* disks are replaced before the first format, or before the one heal.     *)
OneAtATime ==
  /\ skewed # {} => crashes + swaps = 0
  /\ heals > 0 => drawn = 1
  /\ swaps > 0 => drawn < 2 /\ (heals = 0 => drawn = 0)
=============================================================================
