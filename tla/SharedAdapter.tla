--------------------------- MODULE SharedAdapter ---------------------------
(***************************************************************************)
(* The adapter all front-ends share: the fair mutex around it and the mode *)
(* it is in (set_listen_only, set_device_mode and init of                  *)
(* src/backend/ni_usb_hs/mod.rs).                                          *)
(*                                                                         *)
(* The backend keeps two flags and the chip two facts: whether it is       *)
(* controller in charge, and whether it listens unaddressed.  A mode       *)
(* command is a sequence of register writes under one tenure of the mutex; *)
(* when it fails, the write that failed may have reached the chip or not.  *)
(***************************************************************************)
EXTENDS Naturals, Sequences, SequencesExt

VARIABLES
    busq,           \* the mutex: its owner and then its waiters, in order
    listen_only,    \* the backend's flag
    device_address, \* is the backend's device_address Some
    chip,           \* the state of the TNT4882
    lapse           \* history: a mode change failed and no init succeeded since

modeVars == <<listen_only, device_address, chip, lapse>>
adapterVars == <<busq, modeVars>>

Chip == [cic : BOOLEAN, lon : BOOLEAN]
Controller == [cic |-> TRUE, lon |-> FALSE]
Reset == [cic |-> FALSE, lon |-> FALSE]

(* Operations of the backend: "status" reads something of the bus or of an *)
(* instrument (serial_poll, srq_asserted, bus_lines), "command" only puts  *)
(* command bytes on it (trigger, device_clear, go_to_local, local_lockout, *)
(* ifc).  Neither looks at the mode.                                       *)
ModeChange == {"lon 1", "lon 0", "dev", "dev off"}
Operation == {"write", "read", "status", "command", "init"} \cup ModeChange

AdapterTypeOK ==
    /\ listen_only \in BOOLEAN /\ device_address \in BOOLEAN
    /\ chip \in Chip /\ lapse \in BOOLEAN

-----------------------------------------------------------------------------
(* The mutex.                                                              *)

Ask(t) == busq' = Append(busq, t)
OnBus(t) == busq # <<>> /\ Head(busq) = t
Release == busq' = Tail(busq)

(* A capture makes sense in either mode (can_capture).                     *)
Capturing == listen_only \/ device_address

-----------------------------------------------------------------------------
(* The modes.                                                              *)

(* init resets the chip, makes it system controller and pulses IFC to take *)
(* charge; it may fail before, between or after.                           *)
init(ok) ==
    /\ chip' \in IF ok THEN {Controller} ELSE {chip, Reset, Controller}
    /\ lapse' = ~ok

(* Entering a mode writes registers and then sets the flag.                *)
EnterListenOnly(ok) ==
    /\ chip' \in {[chip EXCEPT !.lon = TRUE]} \cup (IF ok THEN {} ELSE {chip})
    /\ listen_only' = (listen_only \/ ok)
    /\ lapse' = (lapse \/ ~ok)
    /\ UNCHANGED device_address

(* Device mode drops REN and system control; it takes over from            *)
(* listen-only, whose register it leaves alone.                            *)
EnterDeviceModeForgettingFlag(ok) ==
    /\ chip' \in {[chip EXCEPT !.cic = FALSE]} \cup (IF ok THEN {} ELSE {chip})
    /\ listen_only' = (listen_only /\ ~ok)
    /\ lapse' = (lapse \/ ~ok)
    /\ UNCHANGED device_address

EnterDeviceMode(ok) ==
    /\ chip' \in {[chip EXCEPT !.cic = FALSE]} \cup (IF ok THEN {} ELSE {chip})
    /\ device_address' = (device_address \/ ok)
    /\ listen_only' = (listen_only /\ ~ok)
    /\ lapse' = (lapse \/ ~ok)

(* Leaving a mode clears its flag, and only its own, and initialises.      *)
set_listen_only(enable, ok) ==
    IF enable THEN EnterListenOnly(ok)
    ELSE listen_only' = FALSE /\ init(ok) /\ UNCHANGED device_address

set_device_mode(enable, ok) ==
    IF enable THEN EnterDeviceMode(ok)
    ELSE device_address' = FALSE /\ init(ok) /\ UNCHANGED listen_only

(* What a finished operation has done to the modes.                        *)
Done(kind, ok) ==
    CASE kind = "lon 1" -> set_listen_only(TRUE, ok)
      [] kind = "lon 0" -> set_listen_only(FALSE, ok)
      [] kind = "dev" -> set_device_mode(TRUE, ok)
      [] kind = "dev off" -> set_device_mode(FALSE, ok)
      [] kind = "init" -> init(ok) /\ UNCHANGED <<listen_only, device_address>>
      [] OTHER -> UNCHANGED modeVars

(* write refuses before it touches the bus while either mode is on.        *)
Refused(kind) == kind = "write" /\ Capturing

(* The daemon starts as controller and may be told to start in a mode      *)
(* (--listen-address, --listen-only), or in both.                          *)
AdapterInit ==
    /\ busq = <<>>
    /\ listen_only \in BOOLEAN /\ device_address \in BOOLEAN
    /\ chip = [cic |-> ~device_address, lon |-> listen_only]
    /\ lapse = FALSE
=============================================================================
