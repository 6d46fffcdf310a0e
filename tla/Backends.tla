------------------------------ MODULE Backends ------------------------------
(* The adapter drivers behind the GpibBackend trait. open_selected opens   *)
(* one of them when the daemon starts, and every front-end uses that one:  *)
(* a behaviour is one driver's, with the others at rest.                   *)
EXTENDS NiUsbHs, Usbtmc, Agilent82357

VARIABLE backend  \* which one open_selected opened

backendVars == <<backend, vars, tmcVars, ctlVars>>

open_selected ==
    /\ backend \in {"ni_usb_hs", "usbtmc", "agilent_82357"}
    /\ Init /\ TmcInit /\ CtlInit

NiStep == backend = "ni_usb_hs" /\ Next /\ UNCHANGED <<backend, tmcVars, ctlVars>>
TmcStep == backend = "usbtmc" /\ TmcNext /\ UNCHANGED <<backend, vars, ctlVars>>
CtlStep == backend = "agilent_82357" /\ CtlNext /\ UNCHANGED <<backend, vars, tmcVars>>

(* A driver that was not opened has no step enabled, so its fairness asks  *)
(* for nothing.                                                            *)
BackendsSpec == /\ open_selected /\ [][NiStep \/ TmcStep \/ CtlStep]_backendVars
                /\ Fairness /\ TmcFairness /\ CtlFairness

-----------------------------------------------------------------------------
(* What all of the drivers behind the trait owe the front-ends.            *)

(* An exchange gets its own reply, however late the ones before it come:   *)
(* transact's draining and resynchronising on the NI adapter, the recovery *)
(* from a stall on the 82357, and on USBTMC the aborts and the clear that  *)
(* leave nothing of a failed operation behind (InStep).                    *)
OwnReply == NiOwnReply /\ RecoveryRestoresStep /\ InStep

(* No instrument that ignores its serial poll leaves the bus in serial     *)
(* poll mode, nor a stall an interface clear asserted.                     *)
PollModeEnds == NiPollModeEnds /\ BusReleased

(* What a driver has of an answer it passes on, and nothing else: the      *)
(* transfers of a USBTMC reply, what an 82357 collected in a capture.      *)
AnswersWhole == TmcAnswersWhole /\ CaptureUndisturbed

(* Every operation of the NI and the 82357 driver comes to its end: no     *)
(* failure, late answer or silent instrument keeps the bus mutex for ever. *)
(* And no sequence of failures leaves a USBTMC driver behind for ever.     *)
OperationEnds ==
    /\ (op # Idle \/ ctl # AtRest) ~> (op = Idle /\ ctl = AtRest)
    /\ Recovers
=============================================================================
