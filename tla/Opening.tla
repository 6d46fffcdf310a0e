------------------------------- MODULE Opening -------------------------------
(***************************************************************************)
(* How the daemon comes to an adapter and notices that it has lost it      *)
(* (open_selected and select.rs, the open functions of the backends,       *)
(* main.rs up to its select, wait_for_removal).  An 82357 that was just    *)
(* plugged in has no firmware: it is uploaded, the device leaves the bus   *)
(* and comes back, sometimes for a second upload.  Adapters are known by   *)
(* their USB port; people plug and unplug them meanwhile.                  *)
(***************************************************************************)
EXTENDS Naturals, FiniteSets

CONSTANTS
    Port,       \* USB ports
    MaxPlugs    \* times somebody plugs or unplugs an adapter

Kind == {"82357", "ni", "usbtmc"}

VARIABLES
    slot,       \* slot[p]: the device at the port, or Empty
    opos,       \* where main is
    wanted,     \* --backend and --usb-port; "any" is none given
    chosen,     \* the adapter resolve chose: its port and kind
    found,      \* the device found last, as it was then
    attempt,    \* of the upload or the initialisation
    handle,     \* the open device, or Empty
    touched,    \* the ports of the devices written to
    restarting, \* the ports whose device has left the bus to come back
    plugs

openVars == <<slot, opos, wanted, chosen, found, attempt, handle, touched, restarting, plugs>>

(* A device as enumerated.  visit tells one appearance on a port from the  *)
(* next; cold is an 82357 with its product id from before the firmware.    *)
Empty == [kind |-> "none", port |-> "none", cold |-> FALSE, visit |-> 0]
Plugged(k, p, cold, v) == [kind |-> k, port |-> p, cold |-> cold, visit |-> v]

OpeningTypeOK ==
    /\ \A p \in Port : slot[p] = Empty \/ slot[p].port = p
    /\ opos \in {"resolve", "open", "upload", "leaving", "returning", "claim", "init",
                 "configure", "running", "exited"}
    /\ wanted.kind \in Kind \cup {"any"} /\ wanted.port \in Port \cup {"any"}
    /\ attempt \in 1..3 /\ touched \subseteq Port

OpeningInit ==
    /\ slot \in [Port -> {Empty} \cup {Plugged(k, p, c, 1) : k \in Kind, p \in Port, c \in BOOLEAN}]
    /\ \A p \in Port : slot[p] = Empty \/ (slot[p].port = p /\ (slot[p].cold => slot[p].kind = "82357"))
    /\ wanted \in [kind : {"any", "82357"}, port : Port \cup {"any"}]
    /\ opos = "resolve" /\ attempt = 1
    /\ chosen = Empty /\ found = Empty /\ handle = Empty
    /\ touched = {} /\ restarting = {} /\ plugs = 0

program == <<opos, wanted, chosen, found, attempt, handle, touched>>
Exits == opos' = "exited" /\ handle' = Empty /\ UNCHANGED <<slot, wanted, chosen, found, attempt, touched, restarting, plugs>>

-----------------------------------------------------------------------------
(* The people at the bench, and the adapter that restarts by itself.       *)

NextVisit == plugs + 2

Unplug(p) ==
    /\ slot[p] # Empty /\ plugs < MaxPlugs
    /\ slot' = [slot EXCEPT ![p] = Empty] /\ plugs' = plugs + 1
    /\ UNCHANGED <<program, restarting>>

Plug(p, k) ==
    /\ slot[p] = Empty /\ p \notin restarting /\ plugs < MaxPlugs
    /\ slot' = [slot EXCEPT ![p] = Plugged(k, p, k = "82357", NextVisit)] /\ plugs' = plugs + 1
    /\ UNCHANGED <<program, restarting>>

(* A device whose firmware was written leaves the bus and comes back,      *)
(* ready or once more cold, with a new address or with the old one.        *)
Leaves(p) ==
    /\ opos \in {"leaving", "returning"} /\ found.port = p /\ slot[p] = found
    /\ slot' = [slot EXCEPT ![p] = Empty] /\ restarting' = restarting \cup {p}
    /\ UNCHANGED <<program, plugs>>

Returns(p) ==
    /\ p \in restarting /\ restarting' = restarting \ {p}
    /\ \E cold \in BOOLEAN, v \in {found.visit, found.visit + 1} :
          slot' = [slot EXCEPT ![p] = Plugged("82357", p, cold, v)]
    /\ UNCHANGED <<program, plugs>>

-----------------------------------------------------------------------------
(* Finding.                                                                *)

Attached == {slot[p] : p \in Port} \ {Empty}

resolve ==
    /\ opos = "resolve"
    /\ LET candidates == {d \in Attached : /\ wanted.kind \in {"any", d.kind}
                                           /\ wanted.port \in {"any", d.port}}
       IN  \/ /\ Cardinality(candidates) = 1
              /\ chosen' = CHOOSE d \in candidates : TRUE
              /\ opos' = "open"
              /\ UNCHANGED <<slot, wanted, found, attempt, handle, touched, restarting, plugs>>
           \/ Exits  \* none, several, or no list of the devices

(* A device of the chosen kind, at the chosen port.                        *)
AnyAdapter(d) == d.kind = chosen.kind
Matches(d) == d.kind = chosen.kind /\ d.port = chosen.port

find_device ==
    /\ opos = "open"
    /\ \/ \E d \in Attached :
             /\ Matches(d)
             /\ found' = d /\ opos' = IF d.cold THEN "upload" ELSE "claim"
             /\ UNCHANGED <<slot, wanted, chosen, attempt, handle, touched, restarting, plugs>>
       \/ Exits  \* it is gone, or the devices could not be listed

-----------------------------------------------------------------------------
(* initialize_device of an 82357: at most two uploads.                     *)

Present(d) == slot[d.port] = d

upload_firmware ==
    /\ opos = "upload"
    /\ \/ /\ Present(found)
          /\ touched' = touched \cup {found.port}
          /\ opos' \in {"leaving", "exited"}  \* exited: a write of it failed
          /\ UNCHANGED <<slot, wanted, chosen, found, attempt, handle, restarting, plugs>>
       \/ ~Present(found) /\ Exits

(* Until no device has the old address, or for three seconds; then until   *)
(* one that matches is there.  Both together take at most ten.             *)
wait_for_renumeration ==
    \/ /\ opos = "leaving"
       /\ opos' = "returning"
       /\ UNCHANGED <<slot, wanted, chosen, found, attempt, handle, touched, restarting, plugs>>
    \/ /\ opos = "returning"
       /\ \E d \in Attached :
             /\ Matches(d)
             /\ \/ /\ ~d.cold /\ found' = d /\ opos' = "claim" /\ attempt' = 1
                   /\ UNCHANGED <<slot, wanted, chosen, handle, touched, restarting, plugs>>
                \/ /\ d.cold /\ attempt = 1 /\ found' = d /\ opos' = "upload" /\ attempt' = 2
                   /\ UNCHANGED <<slot, wanted, chosen, handle, touched, restarting, plugs>>
                \/ d.cold /\ attempt = 2 /\ Exits

RenumerationTimeout == opos \in {"leaving", "returning"} /\ Exits

-----------------------------------------------------------------------------
(* Opening, and the attempts to initialise: an 82357 three times on one    *)
(* handle, the NI adapter three times from finding it on, USBTMC once.     *)

open_transport ==
    /\ opos = "claim"
    /\ \/ /\ Present(found)
          /\ handle' = found /\ touched' = touched \cup {found.port} /\ opos' = "init"
          /\ UNCHANGED <<slot, wanted, chosen, found, attempt, restarting, plugs>>
       \/ Exits

Initialised ==
    /\ Present(handle)
    /\ opos' = "configure"
    /\ UNCHANGED <<slot, wanted, chosen, found, attempt, handle, touched, restarting, plugs>>

InitFails ==
    \/ /\ attempt < 3 /\ handle.kind # "usbtmc"
       /\ attempt' = attempt + 1
       /\ IF handle.kind = "ni" THEN opos' = "open" /\ handle' = Empty ELSE UNCHANGED <<opos, handle>>
       /\ UNCHANGED <<slot, wanted, chosen, found, touched, restarting, plugs>>
    \/ (attempt = 3 \/ handle.kind = "usbtmc") /\ Exits

initialize == opos = "init" /\ (Initialised \/ InitFails)

(* --listen-address and --listen-only must be taken, and every port bound. *)
configure ==
    /\ opos = "configure"
    /\ \/ /\ opos' = "running"
          /\ UNCHANGED <<slot, wanted, chosen, found, attempt, handle, touched, restarting, plugs>>
       \/ Exits

(* Every second: is there still a supported adapter at the port?           *)
StillThere == \E d \in Attached : d.port = chosen.port

RemovalOfTheLast ==
    /\ opos = "running" /\ Attached = {}
    /\ Exits

wait_for_removal ==
    /\ opos = "running" /\ ~StillThere
    /\ Exits

Signal == opos = "running" /\ Exits

Step == resolve \/ find_device \/ upload_firmware \/ wait_for_renumeration \/ RenumerationTimeout
        \/ open_transport \/ initialize \/ configure

OpeningNext ==
    \/ Step \/ wait_for_removal \/ Signal
    \/ \E p \in Port : Unplug(p) \/ Leaves(p) \/ Returns(p) \/ \E k \in Kind : Plug(p, k)

(* The program goes on, and the timer of the presence check fires.         *)
OpeningFairness == WF_openVars(Step) /\ WF_openVars(wait_for_removal)

OpeningSpec == OpeningInit /\ [][OpeningNext]_openVars /\ OpeningFairness

-----------------------------------------------------------------------------
(* Properties.                                                             *)

(* Only the adapter that was chosen is ever written to: whatever is        *)
(* plugged, unplugged or starting up beside it, a second 82357 in the      *)
(* same state included, no other port gets its firmware or is opened.      *)
ChosenPortOnly == touched \subseteq {chosen.port} /\ handle.port \in {"none", chosen.port}

(* What must come to an end: starting, and a daemon without its adapter.   *)
StartingUp == opos \notin {"running", "exited"}
AdapterGone == opos = "running" /\ ~StillThere
=============================================================================
