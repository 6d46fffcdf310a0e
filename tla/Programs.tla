------------------------------ MODULE Programs ------------------------------
(* What the package installs: ugpibd, from finding its adapter (Opening)   *)
(* to its end (Daemon), ugpibd-portmap beside it and ugpibd-scpi at the    *)
(* other end of its connections.  Each sees of the others no more than its *)
(* own module has, so a behaviour is one program's, with the others at     *)
(* rest.                                                                   *)
EXTENDS Daemon, Opening, Portmap, Scpi

VARIABLE active  \* the program the behaviour is of

programVars == <<active, vars, openVars, portVars, scpiVars>>

DaemonAtRest ==
    /\ AdapterInit /\ ~listen_only /\ ~device_address
    /\ PrologixInit /\ CaptureInit /\ peer = "idle" /\ mpc = "exited"

OpeningAtRest ==
    /\ slot = [p \in Port |-> Empty] /\ wanted = [kind |-> "any", port |-> "any"]
    /\ opos = "exited" /\ attempt = 1
    /\ chosen = Empty /\ found = Empty /\ handle = Empty
    /\ touched = {} /\ restarting = {} /\ plugs = 0

PortmapAtRest ==
    /\ rpcbind = TRUE /\ mapped = 0 /\ wire = <<>> /\ mail = <<>>
    /\ mpos = "stopped" /\ attempts = 0 /\ withdrawn = FALSE
    /\ udpFaults = 0 /\ restarts = 0

ScpiAtRest ==
    /\ transport = "vxi11" /\ spos = "closed" /\ typed = <<>>
    /\ upstream = <<>> /\ downstream = <<>> /\ aup = <<>> /\ adown = <<>>
    /\ serving = FALSE /\ output = 0 /\ shown = Nothing /\ cut = FALSE /\ pushes = 0

ProgramsInit ==
    \/ active = "ugpibd" /\ Init /\ OpeningAtRest /\ PortmapAtRest /\ ScpiAtRest
    \/ active = "ugpibd_starting" /\ DaemonAtRest /\ OpeningInit /\ PortmapAtRest /\ ScpiAtRest
    \/ active = "ugpibd_portmap" /\ DaemonAtRest /\ OpeningAtRest /\ PortmapInit /\ ScpiAtRest
    \/ active = "ugpibd_scpi" /\ DaemonAtRest /\ OpeningAtRest /\ PortmapAtRest /\ ScpiInit

ProgramsNext ==
    /\ UNCHANGED active
    /\ \/ active = "ugpibd" /\ Next /\ UNCHANGED <<openVars, portVars, scpiVars>>
       \/ active = "ugpibd_starting" /\ OpeningNext /\ UNCHANGED <<vars, portVars, scpiVars>>
       \/ active = "ugpibd_portmap" /\ PortmapNext /\ UNCHANGED <<vars, openVars, scpiVars>>
       \/ active = "ugpibd_scpi" /\ ScpiNext /\ UNCHANGED <<vars, openVars, portVars>>

(* A program at rest has no step enabled that its fairness asks for.       *)
ProgramsSpec ==
    /\ ProgramsInit /\ [][ProgramsNext]_programVars
    /\ Fairness /\ OpeningFairness /\ PortmapFairness /\ ScpiFairness

-----------------------------------------------------------------------------
(* Whatever a program has begun comes to its end.                          *)
(*   - A signal ends the daemon, whatever the clients do: a Prologix       *)
(*     client that keeps the bus is dropped with its guard, a capture      *)
(*     client that does not read holds nothing.                            *)
(*   - Starting ends, with an adapter that does not come back after its    *)
(*     firmware too, and a daemon whose adapter is pulled out ends, with   *)
(*     other adapters attached too, unless one is plugged in at the same   *)
(*     port before the next look at it (wait_for_removal).                 *)
(*   - The core channel becomes known, and known again after every restart *)
(*     of rpcbind, lost datagram, late answer or failed start ("keeping    *)
(*     the registration alive across rpcbind restarts"), unless            *)
(*     ugpibd-portmap is stopped or another program registered a port.     *)
(*   - A line typed into ugpibd-scpi ends with an answer, an error or the  *)
(*     end of the program.  Its HiSLIP and VXI-11 clients have no timeout, *)
(*     so client and front-end must agree on which lines are answered.     *)
Settles ==
    LET unsettled == Stopping \/ StartingUp \/ AdapterGone \/ Unknown \/ spos \in Waiting
    IN  unsettled ~> ~unsettled
=============================================================================
