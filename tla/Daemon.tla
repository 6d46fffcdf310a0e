------------------------------- MODULE Daemon -------------------------------
(***************************************************************************)
(* The daemon (src/main.rs): the front-ends on the one adapter, and its    *)
(* end.  The Prologix and capture servers are futures of main's select, so *)
(* they are dropped wherever they are when it completes; what they spawned *)
(* (the streams, and the sessions of the other front-ends, for which Peer  *)
(* stands) goes on until main returns.                                     *)
(***************************************************************************)
EXTENDS Prologix, Capture

VARIABLES
    peer,   \* where a HiSLIP or VXI-11 session is
    mpc     \* where main is

vars == <<adapterVars, prologixVars, captureVars, peer, mpc>>

PeerOp == {"write", "read"}

TypeOK ==
    /\ AdapterTypeOK /\ PrologixTypeOK /\ CaptureTypeOK
    /\ busq \in Seq({"prologix", "accept", "peer", "main"} \cup Client)
    /\ peer \in {"idle", "queued", "onbus"}
    /\ mpc \in {"running", "stopping", "shutdown", "exited"}

Init ==
    /\ AdapterInit /\ PrologixInit /\ CaptureInit
    /\ peer = "idle"
    /\ mpc = "running"

-----------------------------------------------------------------------------
(* One bus operation of a session of another front-end (Instrument::hold). *)

PeerAsks ==
    /\ peer = "idle"
    /\ peer' = "queued"
    /\ Ask("peer")
    /\ UNCHANGED modeVars

PeerStart(kind) ==
    /\ peer = "queued" /\ OnBus("peer")
    /\ IF Refused(kind) THEN peer' = "idle" /\ Release
                        ELSE peer' = "onbus" /\ UNCHANGED busq
    /\ UNCHANGED modeVars

PeerDone ==
    /\ peer = "onbus"
    /\ peer' = "idle"
    /\ Release
    /\ UNCHANGED modeVars

PeerStep == PeerDone \/ \E kind \in PeerOp : PeerStart(kind)

-----------------------------------------------------------------------------
(* The end.                                                                *)

Dropped == {"prologix", "accept"}

(* A signal: the select drops its other futures and with them their guard  *)
(* or their place in the queue, and main asks for the bus.                 *)
StopKeepingPrologix ==
    /\ mpc = "running"
    /\ mpc' = "stopping"
    /\ Ask("main")
    /\ UNCHANGED <<modeVars, prologixVars, captureVars, peer>>

Stop ==
    /\ mpc = "running"
    /\ mpc' = "stopping"
    /\ busq' = Append(SelectSeq(busq, LAMBDA t : t \notin Dropped), "main")
    /\ ppc' = "dropped" /\ line' = "none"
    /\ asking' = NoClient
    /\ UNCHANGED <<cclient, busy, spc, gone, peer, modeVars>>

(* main returns, and the runtime drops every task that is left.            *)
RuntimeDrops ==
    /\ mpc' = "exited" /\ busq' = <<>> /\ peer' = "idle"
    /\ ppc' = "dropped" /\ line' = "none"
    /\ asking' = NoClient /\ busy' = FALSE
    /\ spc' = [c \in Client |-> "ended"]
    /\ cclient' = [c \in Client |-> "closed"]
    /\ gone' = [c \in Client |-> FALSE]
    /\ UNCHANGED <<modeVars>>

(* The adapter was unplugged: there is nothing to shut down.               *)
Unplugged == mpc = "running" /\ RuntimeDrops

Shutdown ==
    /\ mpc = "stopping" /\ OnBus("main")
    /\ mpc' = "shutdown"
    /\ UNCHANGED <<adapterVars, prologixVars, captureVars, peer>>

Exit == mpc = "shutdown" /\ RuntimeDrops

Alive == mpc # "exited"

Next ==
    \/ Alive /\ PrologixNext /\ ppc # "dropped" /\ UNCHANGED <<captureVars, peer, mpc>>
    \/ Alive /\ CaptureNext /\ UNCHANGED <<prologixVars, peer, mpc>>
    \/ /\ Alive
       /\ PeerAsks \/ PeerStep
       /\ UNCHANGED <<prologixVars, captureVars, mpc>>
    \/ Stop \/ Unplugged \/ Shutdown \/ Exit

(* A task that can go on does, the mutex is fair, and a transfer ends: the *)
(* adapter has its timeouts.  Nothing is assumed of clients, which need    *)
(* neither send nor take their answers.                                    *)
Fairness ==
    /\ WF_vars(Alive /\ PrologixStep /\ UNCHANGED <<captureVars, peer, mpc>>)
    /\ WF_vars(Alive /\ Admit /\ UNCHANGED <<prologixVars, peer, mpc>>)
    /\ \A c \in Client :
          /\ WF_vars(Alive /\ Watcher(c) /\ UNCHANGED <<prologixVars, peer, mpc>>)
          /\ WF_vars(Alive /\ StreamStep(c) /\ UNCHANGED <<prologixVars, peer, mpc>>)
    /\ WF_vars(Alive /\ PeerStep /\ UNCHANGED <<prologixVars, captureVars, mpc>>)
    /\ WF_vars(Shutdown) /\ WF_vars(Exit)

Spec == Init /\ [][Next]_vars

FairSpec == Spec /\ Fairness

-----------------------------------------------------------------------------
(* Properties.                                                             *)

Streaming(c) == spc[c] \notin {"none", "ended"}

(* The capture slot is taken exactly while a client is being admitted or   *)
(* streamed to, and by one of them: two clients never split the bytes of   *)
(* one plot, and a refusal or a departure never leaks the slot (run).      *)
SlotMatchesStream ==
    mpc = "running" =>
        LET users == {c \in Client : Streaming(c) \/ asking = c}
        IN  /\ busy <=> users # {}
            /\ \A c, d \in users : c = d

(* Ordinary traffic finds a controller: unless a mode change has failed, a *)
(* backend whose flags let a write pass has its chip in charge of the bus  *)
(* and not listening to everything.                                        *)
WritesFindController == ~Capturing /\ ~lapse => chip = Controller

(* A capture ends: when its client has left, on a quiet bus too, or when   *)
(* the mode is left, the slot is free again, unless that client or a       *)
(* Prologix client holding the bus never takes its answer.                 *)
CaptureEnds ==
    \/ <>[](ppc = "holding")
    \/ \A c \in Client :
          LET due == Streaming(c) /\ (cclient[c] = "closed" \/ (~Capturing /\ spc[c] # "writing"))
          IN  (Alive /\ due) ~> (~Alive \/ ~due)

(* A signal has come and main has not returned.                            *)
Stopping == mpc \in {"stopping", "shutdown"}
=============================================================================
