------------------------------ MODULE Capture ------------------------------
(***************************************************************************)
(* The capture front-end (src/capture.rs): the accept loop, which admits   *)
(* one client at a time, the stream of each admitted client, which arms    *)
(* one bus read after another, and the watcher that notices its departure. *)
(***************************************************************************)
EXTENDS SharedAdapter

CONSTANTS
    Client,     \* capture clients, each connecting once
    NoClient

ASSUME ClientAssumption == NoClient \notin Client

VARIABLES
    cclient,    \* each client's end of its connection
    busy,       \* the single slot is taken
    asking,     \* the client whose turn at the accept loop it is
    spc,        \* where the stream of each client is
    gone        \* the flag each watcher sets

captureVars == <<cclient, busy, asking, spc, gone>>

CaptureTypeOK ==
    /\ cclient \in [Client -> {"none", "open", "closed"}]
    /\ busy \in BOOLEAN
    /\ asking \in Client \cup {NoClient}
    /\ spc \in [Client -> {"none", "check", "queued", "reading", "writing", "ended"}]
    /\ gone \in [Client -> BOOLEAN]

CaptureInit ==
    /\ cclient = [c \in Client |-> "none"]
    /\ busy = FALSE /\ asking = NoClient
    /\ spc = [c \in Client |-> "none"]
    /\ gone = [c \in Client |-> FALSE]

Connect(c) ==
    /\ cclient[c] = "none"
    /\ cclient' = [cclient EXCEPT ![c] = "open"]
    /\ UNCHANGED <<busy, asking, spc, gone, adapterVars>>

Hangup(c) ==
    /\ cclient[c] = "open"
    /\ cclient' = [cclient EXCEPT ![c] = "closed"]
    /\ UNCHANGED <<busy, asking, spc, gone, adapterVars>>

-----------------------------------------------------------------------------
(* run: the accept loop.  A client is turned away while the slot is taken, *)
(* otherwise it takes the slot and the loop asks for the bus to look at    *)
(* the mode; a client turned away then gives the slot back.                *)

TurnAway(c) ==
    /\ spc' = [spc EXCEPT ![c] = "ended"]
    /\ cclient' = [cclient EXCEPT ![c] = "closed"]

Accept(c) ==
    /\ asking = NoClient
    /\ cclient[c] # "none" /\ spc[c] = "none"
    /\ IF busy
       THEN TurnAway(c) /\ UNCHANGED <<busy, asking, busq>>
       ELSE busy' = TRUE /\ asking' = c /\ Ask("accept") /\ UNCHANGED <<spc, cclient>>
    /\ UNCHANGED <<gone, modeVars>>

AdmitKeepingSlot ==
    /\ asking # NoClient /\ OnBus("accept")
    /\ IF Capturing
       THEN spc' = [spc EXCEPT ![asking] = "check"] /\ UNCHANGED cclient
       ELSE TurnAway(asking)
    /\ asking' = NoClient
    /\ Release
    /\ UNCHANGED <<busy, gone, modeVars>>

Admit ==
    /\ asking # NoClient /\ OnBus("accept")
    /\ IF Capturing
       THEN spc' = [spc EXCEPT ![asking] = "check"] /\ UNCHANGED <<cclient, busy>>
       ELSE TurnAway(asking) /\ busy' = FALSE
    /\ asking' = NoClient
    /\ Release
    /\ UNCHANGED <<gone, modeVars>>

-----------------------------------------------------------------------------
(* stream_to, and the watcher it spawns.                                   *)

Goto(c, to) == spc' = [spc EXCEPT ![c] = to]

(* The stream returns: its task gives the slot back, and the socket and    *)
(* the watcher with its flag go.                                           *)
End(c) ==
    /\ Goto(c, "ended") /\ busy' = FALSE
    /\ cclient' = [cclient EXCEPT ![c] = "closed"]
    /\ gone' = [gone EXCEPT ![c] = FALSE]

Watcher(c) ==
    /\ cclient[c] = "closed" /\ spc[c] \notin {"none", "ended"} /\ ~gone[c]
    /\ gone' = [gone EXCEPT ![c] = TRUE]
    /\ UNCHANGED <<cclient, busy, asking, spc, adapterVars>>

(* Between two reads: has the client left?                                 *)
StreamNotLooking(c) ==
    /\ spc[c] = "check"
    /\ Goto(c, "queued") /\ Ask(c)
    /\ UNCHANGED <<cclient, busy, gone, asking, modeVars>>

StreamCheck(c) ==
    /\ spc[c] = "check"
    /\ IF gone[c]
       THEN End(c) /\ UNCHANGED busq
       ELSE Goto(c, "queued") /\ Ask(c) /\ UNCHANGED <<cclient, busy, gone>>
    /\ UNCHANGED <<asking, modeVars>>

(* On the bus: is the adapter still capturing?  If so a read is armed.     *)
ArmRead(c) ==
    /\ spc[c] = "queued" /\ OnBus(c)
    /\ IF Capturing
       THEN Goto(c, "reading") /\ UNCHANGED <<busq, cclient, busy, gone>>
       ELSE End(c) /\ Release
    /\ UNCHANGED <<asking, modeVars>>

(* The read ends, with data or without: a quiet bus times out.             *)
ReadEnds(c, data) ==
    /\ spc[c] = "reading"
    /\ Goto(c, IF data THEN "writing" ELSE "check")
    /\ Release
    /\ UNCHANGED <<cclient, busy, gone, asking, modeVars>>

StreamWritten(c) ==
    /\ spc[c] = "writing" /\ cclient[c] = "open"
    /\ Goto(c, "check")
    /\ UNCHANGED <<cclient, busy, gone, asking, adapterVars>>

StreamWriteFails(c) ==
    /\ spc[c] = "writing" /\ cclient[c] = "closed"
    /\ End(c)
    /\ UNCHANGED <<asking, adapterVars>>

StreamStep(c) ==
    \/ StreamCheck(c) \/ ArmRead(c) \/ StreamWriteFails(c)
    \/ \E data \in BOOLEAN : ReadEnds(c, data)

CaptureNext ==
    \/ Admit
    \/ \E c \in Client : \/ Connect(c) \/ Hangup(c) \/ Accept(c)
                         \/ Watcher(c) \/ StreamStep(c) \/ StreamWritten(c)
=============================================================================
