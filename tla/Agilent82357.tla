---------------------------- MODULE Agilent82357 ----------------------------
(* The Agilent 82357 driver: GpibController's operations as sequences of   *)
(* requests to the adapter's engine, and the recovery from a stall.        *)
(*                                                                         *)
(* The engine takes the requests of the bulk-out pipe one by one. It       *)
(* answers register accesses at once; it stays in a send until the bus     *)
(* accepts the bytes, and in a read until there are data, or until it is   *)
(* aborted. Replies come in order on the bulk-in pipe, and only those to   *)
(* register accesses say what they answer. A read that the driver gives up *)
(* leaves its URB queued, which changes nothing in that order.             *)
EXTENDS Naturals, Sequences

CONSTANTS
    MaxCtlFaults,  \* late or failing transfers, and aborted forwarders
    MaxOwed        \* requests and replies left over when one but init begins

ASSUME CtlAssumption == MaxCtlFaults \in Nat /\ MaxOwed \in Nat

VARIABLES
    ctl,            \* the operation in progress: its name, steps to go, phase
    engine,         \* requests at the adapter, the first one in progress
    replies,        \* completed bulk-in transfers not yet read
    irq,            \* write-complete interrupts the poller has not seen
    write_complete, \* the permit of the Notify
    chip9914,       \* the bus: poll mode, IFC, the adapter's listener states
    listen_only,    \* GpibController.listen_only
    ctlFaults,      \* how many so far
    past            \* what happened (see CtlInit)

engineVars == <<engine, replies, irq, chip9914>>
ctlVars == <<ctl, engineVars, write_complete, listen_only, ctlFaults, past>>

(* A step, and whether the operation goes on when it fails.                *)
Step(id, what, opt) == [id |-> id, what |-> what, opt |-> opt]
Cmd(what) == Step("send", what, FALSE)
Wr(what) == Step("wr", what, FALSE)
Rd == Step("rd", "", FALSE)
Ask(what) == Step("ask", what, FALSE)
Flush == Step("abort", "flush", TRUE)
Finalize == Step("abort", "", TRUE)
DrainPermit == Step("drain_write_complete", "", TRUE)
DrainIn == Step("drain_bulk_in", "", TRUE)

recover_from_stallNotDraining ==
    << Flush, Finalize, DrainPermit,
       Step("wr", "ifc_on", TRUE), Step("wr", "ifc_off", TRUE), DrainPermit >>

recover_from_stall ==
    << Flush, Step("drain_one", "", TRUE), Finalize, DrainPermit,
       Step("wr", "ifc_on", TRUE), Step("wr", "ifc_off", TRUE), DrainPermit >>

ifc_82357 == <<Wr("ifc_on"), Wr("ifc_off")>>

(* What a timed out capture read does after the salvage: with its data, or *)
(* without.                                                                *)
Salvaged == <<Finalize>>
NotSalvaged == <<Finalize, Flush, Finalize, DrainPermit, DrainIn>>

(* The operations. "command" stands for those of one addressed or          *)
(* universal command, "register" for those of one register write.          *)
init_82357 == <<DrainIn, Wr("reset"), Wr(""), Rd, Wr("")>> \o ifc_82357 \o <<Wr("")>>
write_82357 == <<Cmd("unlisten"), Cmd("data")>>
read_82357 == (IF listen_only THEN <<>> ELSE <<Cmd("listen")>>) \o <<Wr("gts"), Ask("data")>>
serial_poll_82357 == <<Cmd("spe"), Wr("gts"), Ask("byte"), Cmd("spd")>>
addressed_command == <<Cmd("unlisten")>>
go_to_remote == <<Wr(""), Cmd("unlisten")>>
bus_lines_82357 == <<Rd>>
register_write == <<Wr("")>>
set_listen_only(enable) ==
    IF enable THEN <<Step("try", "listen", TRUE), Flush, Finalize, DrainPermit, DrainIn, Wr("lon")>>
    ELSE <<Wr("lon_off")>>

Steps(name) ==
    CASE name = "init" -> init_82357
      [] name = "write" -> write_82357
      [] name = "read" -> read_82357
      [] name = "serial_poll" -> serial_poll_82357
      [] name = "command" -> addressed_command
      [] name = "go_to_remote" -> go_to_remote
      [] name = "bus_lines" -> bus_lines_82357
      [] name = "register" -> register_write
      [] name = "ifc" -> ifc_82357
      [] name \in {"lon", "lon_off"} -> set_listen_only(name = "lon")

CtlOperation == {"init", "write", "read", "serial_poll", "command", "go_to_remote",
                 "bus_lines", "register", "ifc", "lon", "lon_off"}

AtRest == [name |-> "none", todo |-> <<>>, ph |-> "next"]

(* A freshly initialised controller. past records that a request failed or *)
(* was taken for finished and nobody recovered from it, or the recovery    *)
(* failed (behind); that without any of this the driver met an earlier     *)
(* request's reply, or the engine still busy with one (crossed); that      *)
(* captured data were thrown away (lost), or a capture read cleared the    *)
(* interface (pulsed), before any fault.                                   *)
CtlInit ==
    /\ ctl = AtRest /\ engine = <<>> /\ replies = <<>> /\ irq = 0
    /\ write_complete = FALSE
    /\ chip9914 = [spe |-> FALSE, ifc |-> FALSE, listener |-> FALSE, lon |-> FALSE]
    /\ listen_only = FALSE /\ ctlFaults = 0
    /\ past = [crossed |-> FALSE, behind |-> FALSE, lost |-> FALSE, pulsed |-> FALSE]

This == Head(ctl.todo)
In(ph, ids) == ctl # AtRest /\ ctl.ph = ph /\ This.id \in ids
-----------------------------------------------------------------------------
(* The adapter and the bus: external, as the driver relies on them.        *)

Answered(kind) == Append(replies, [kind |-> kind, mine |-> Head(engine).mine, got |-> Head(engine).got])

(* Interface clear ends serial-poll mode, as IEEE 488.1 has it; the driver *)
(* sends the disabling command as well.                                    *)
OnChip(what) ==
    chip9914' = CASE what = "spe" -> [chip9914 EXCEPT !.spe = TRUE, !.listener = TRUE]
                  [] what = "spd" -> [chip9914 EXCEPT !.spe = FALSE]
                  [] what = "listen" -> [chip9914 EXCEPT !.listener = TRUE]
                  [] what = "unlisten" -> [chip9914 EXCEPT !.listener = FALSE]
                  [] what = "ifc_on" -> [chip9914 EXCEPT !.ifc = TRUE, !.spe = FALSE, !.listener = FALSE]
                  [] what = "ifc_off" -> [chip9914 EXCEPT !.ifc = FALSE]
                  [] what \in {"lon", "lon_off"} -> [chip9914 EXCEPT !.lon = (what = "lon")]
                  [] what = "reset" -> [chip9914 EXCEPT !.lon = FALSE, !.listener = FALSE]
                  [] OTHER -> chip9914

(* The bus has accepted a send; the interrupt says so.                     *)
Accepted ==
    /\ engine # <<>> /\ Head(engine).id = "send"
    /\ OnChip(Head(engine).what)
    /\ engine' = Tail(engine)
    /\ irq' = IF irq < 2 THEN irq + 1 ELSE irq
    /\ UNCHANGED <<ctl, replies, write_complete, listen_only, ctlFaults, past>>

RegisterAccess ==
    /\ engine # <<>> /\ Head(engine).id \in {"wr", "rd"}
    /\ OnChip(Head(engine).what)
    /\ replies' = Answered(Head(engine).id)
    /\ engine' = Tail(engine)
    /\ UNCHANGED <<ctl, irq, write_complete, listen_only, ctlFaults, past>>

Reading == engine # <<>> /\ Head(engine).id = "ask"
Listening == chip9914.listener \/ chip9914.lon

(* The instrument's message has ended, or the read was refused because the *)
(* adapter is no listener, which it says at once.                          *)
ReadEnds ==
    /\ Reading
    /\ replies' = Answered("data")
    /\ engine' = Tail(engine)
    /\ UNCHANGED <<ctl, irq, write_complete, chip9914, listen_only, ctlFaults, past>>

(* A talk-only instrument sends, and an armed read collects it.            *)
Collects ==
    /\ Reading /\ chip9914.lon /\ ~Head(engine).got
    /\ engine' = <<[Head(engine) EXCEPT !.got = TRUE]>> \o Tail(engine)
    /\ UNCHANGED <<ctl, replies, irq, write_complete, chip9914, listen_only, ctlFaults, past>>

Stuck == engine # <<>> /\ (Head(engine).id = "send" \/ (Reading /\ Listening))
NothingComes == replies = <<>> /\ (engine = <<>> \/ Stuck)
-----------------------------------------------------------------------------
(* Usb transport: the interrupt poller and the end of a step.              *)

interrupt_poller ==
    /\ irq > 0 /\ irq' = irq - 1
    /\ write_complete' = TRUE
    /\ UNCHANGED <<ctl, engine, replies, chip9914, listen_only, ctlFaults, past>>

StepsLeftPollingOn(ok) ==
    IF ok THEN Tail(ctl.todo)
    ELSE IF This.id = "ask" /\ This.what = "byte"
         THEN <<Flush, Step("drain_one", "", TRUE), Finalize, DrainPermit>>
    ELSE IF This.id \in {"send", "ask"}
         THEN recover_from_stall \o (IF This.opt THEN Tail(ctl.todo) ELSE <<>>)
    ELSE IF ~This.opt THEN <<>>
    ELSE Tail(ctl.todo)

(* What is left to do after a step. A failed send recovers by itself; ifc  *)
(* returns at its first failed write.                                      *)
StepsLeft(ok) ==
    IF ok THEN Tail(ctl.todo)
    ELSE IF This.id = "send" THEN recover_from_stall \o (IF This.opt THEN Tail(ctl.todo) ELSE <<>>)
    ELSE IF This.id = "ask"
         THEN recover_from_stall
              \o (IF This.what = "byte" THEN <<Step("send", "spd", TRUE)>> ELSE <<>>)
    ELSE IF ~This.opt THEN <<>>
    ELSE IF This.what = "ifc_on" THEN Tail(Tail(ctl.todo))
    ELSE Tail(ctl.todo)

GoOn(todo) == ctl' = IF todo = <<>> THEN AtRest ELSE [ctl EXCEPT !.todo = todo, !.ph = "next"]

(* set_listen_only notes the mode once its registers are written.          *)
Flagged(ok) ==
    listen_only' = IF ok /\ This.id = "wr" /\ This.what \in {"lon", "lon_off"}
                   THEN This.what = "lon" ELSE listen_only
Unless(cond) == IF cond THEN UNCHANGED ctlFaults ELSE ctlFaults < MaxCtlFaults /\ ctlFaults' = ctlFaults + 1
Fails82357 == Unless(FALSE)
Behind(b) == past' = [past EXCEPT !.behind = @ \/ b]

(* The oldest reply is read, for an answer or to throw it away.            *)
TakesReply(answer) ==
    /\ replies # <<>> /\ replies' = Tail(replies)
    /\ past' = [past EXCEPT
          !.crossed = @ \/ (answer /\ ~Head(replies).mine /\ ~past.behind),
          !.lost = @ \/ (~answer /\ ctlFaults = 0 /\ ctl.name = "read" /\ Head(replies).got)]
-----------------------------------------------------------------------------
(* Requests.                                                               *)

Old82357(q) == [i \in DOMAIN q |-> [q[i] EXCEPT !.mine = FALSE]]
Requested == [id |-> IF This.id = "try" THEN "send" ELSE This.id, what |-> This.what,
              mine |-> TRUE, got |-> FALSE]

write_bulk ==
    /\ In("next", {"send", "try", "wr", "rd", "ask"})
    /\ engine' = Append(Old82357(engine), Requested)
    /\ replies' = Old82357(replies)
    /\ ctl' = [ctl EXCEPT !.ph = "sent"]
    /\ past' = [past EXCEPT !.pulsed = @ \/ (ctlFaults = 0 /\ This.what = "ifc_on"
                                              /\ ctl.name = "read" /\ listen_only)]
    /\ UNCHANGED <<irq, write_complete, chip9914, listen_only, ctlFaults>>

(* The request may have been delivered all the same; nobody recovers.      *)
write_bulkFails ==
    /\ In("next", {"send", "try", "wr", "rd", "ask"}) /\ Fails82357
    /\ engine' \in {engine, Append(engine, Requested)}
    /\ GoOn(IF ~This.opt THEN <<>>
            ELSE IF This.what = "ifc_on" THEN Tail(Tail(ctl.todo)) ELSE Tail(ctl.todo))
    /\ Behind(TRUE)
    /\ UNCHANGED <<replies, irq, write_complete, chip9914, listen_only>>

await_write_complete ==
    /\ In("sent", {"send", "try"}) /\ write_complete
    /\ write_complete' = FALSE
    /\ ctl' = [ctl EXCEPT !.ph = "status"]
    /\ UNCHANGED <<engineVars, listen_only, ctlFaults, past>>

(* No interrupt in time; it is late when the poller is backing off.        *)
WriteTimesOut ==
    /\ In("sent", {"send", "try"}) /\ ~write_complete
    /\ Unless(irq = 0)
    /\ GoOn(StepsLeft(FALSE))
    /\ UNCHANGED <<engineVars, write_complete, listen_only, past>>

(* The status may be answered while the engine is still sending, if the    *)
(* permit was an old one.                                                  *)
get_xfer_status ==
    /\ In("status", {"send", "try"})
    /\ GoOn(Tail(ctl.todo))
    /\ Behind(This.id = "send" /\ \E i \in DOMAIN engine : engine[i].mine)
    /\ UNCHANGED <<engineVars, write_complete, listen_only, ctlFaults>>

StatusFails ==
    /\ In("status", {"send", "try"})
    /\ Unless(Stuck)
    /\ GoOn(StepsLeft(FALSE))
    /\ UNCHANGED <<engineVars, write_complete, listen_only, past>>

(* write_registers and read_registers: the reply to another kind of        *)
(* request is an error.                                                    *)
decode_response ==
    /\ In("sent", {"wr", "rd"}) /\ replies # <<>>
    /\ LET r == Head(replies)
           ok == r.kind = This.id
       IN  /\ replies' = Tail(replies)
           /\ GoOn(StepsLeft(ok)) /\ Flagged(ok)
           /\ past' = [past EXCEPT !.crossed = @ \/ (~r.mine /\ ~past.behind)]
    /\ UNCHANGED <<engine, irq, write_complete, chip9914, ctlFaults>>

RegistersTimeOut ==
    /\ In("sent", {"wr", "rd"})
    /\ Unless(NothingComes)
    /\ replies' \in {replies} \cup (IF replies = <<>> THEN {} ELSE {Tail(replies)})
    /\ GoOn(StepsLeft(FALSE))
    /\ past' = [past EXCEPT !.behind = TRUE,
                            !.crossed = @ \/ (NothingComes /\ ~past.behind)]
    /\ UNCHANGED <<engine, irq, write_complete, chip9914, listen_only>>
-----------------------------------------------------------------------------
(* read_data_body and the read of serial_poll.                             *)

ReadCompletes ==
    /\ In("sent", {"ask"}) /\ TakesReply(TRUE)
    /\ GoOn(Tail(ctl.todo))
    /\ UNCHANGED <<engine, irq, write_complete, chip9914, listen_only, ctlFaults>>

ReadTimesOutDroppingData ==
    /\ In("sent", {"ask"}) /\ Unless(NothingComes)
    /\ GoOn(IF listen_only /\ This.what = "data" THEN NotSalvaged ELSE StepsLeft(FALSE))
    /\ UNCHANGED <<engineVars, write_complete, listen_only, past>>

(* A capture read is ended at the adapter, the others are recovered from.  *)
ReadTimesOut ==
    /\ In("sent", {"ask"}) /\ Unless(NothingComes)
    /\ IF listen_only /\ This.what = "data"
       THEN ctl' = [ctl EXCEPT !.ph = "flush"]
       ELSE GoOn(StepsLeft(FALSE))
    /\ UNCHANGED <<engineVars, write_complete, listen_only, past>>

(* The transfer fails: recovered from even in a capture.                   *)
ReadFails ==
    /\ In("sent", {"ask"}) \/ In("salvage", {"ask"})
    /\ Fails82357
    /\ replies' \in {replies} \cup (IF replies = <<>> THEN {} ELSE {Tail(replies)})
    /\ GoOn((IF ctl.ph = "salvage" THEN Salvaged ELSE <<>>) \o StepsLeft(FALSE))
    /\ UNCHANGED <<engine, irq, write_complete, chip9914, listen_only, past>>

(* XFER_ABORT with flush ends the transfer in progress: a read with what   *)
(* it has, a send with some of its bytes or all of them.                   *)
XferAbort ==
    IF Reading THEN /\ replies' = Answered("data") /\ engine' = Tail(engine)
                    /\ UNCHANGED <<irq, chip9914>>
    ELSE IF engine # <<>> /\ Head(engine).id = "send"
         THEN /\ engine' = Tail(engine)
              /\ irq' \in {irq, IF irq < 2 THEN irq + 1 ELSE irq}
              /\ OnChip(Head(engine).what) \/ UNCHANGED chip9914
              /\ UNCHANGED replies
    ELSE UNCHANGED engineVars

SalvageFlush ==
    /\ In("flush", {"ask"})
    /\ ctl' = [ctl EXCEPT !.ph = "salvage"]
    /\ \/ XferAbort /\ UNCHANGED ctlFaults
       \/ Fails82357 /\ UNCHANGED engineVars
    /\ UNCHANGED <<write_complete, listen_only, past>>

Salvage ==
    /\ In("salvage", {"ask"}) /\ TakesReply(TRUE)
    /\ GoOn(Salvaged)
    /\ UNCHANGED <<engine, irq, write_complete, chip9914, listen_only, ctlFaults>>

SalvageTimesOut ==
    /\ In("salvage", {"ask"}) /\ Unless(NothingComes)
    /\ GoOn(NotSalvaged)
    /\ UNCHANGED <<engineVars, write_complete, listen_only, past>>
-----------------------------------------------------------------------------
(* The steps of a recovery.                                                *)

abort ==
    /\ In("next", {"abort"})
    /\ GoOn(Tail(ctl.todo))
    /\ \/ This.what = "flush" /\ XferAbort /\ UNCHANGED <<ctlFaults, past>>
       \/ /\ Unless(This.what # "flush")
          /\ Behind(This.what = "flush")
          /\ UNCHANGED engineVars
    /\ UNCHANGED <<write_complete, listen_only>>

(* One read of recover_from_stall, or all of drain_bulk_in.                *)
drain_bulk_in ==
    /\ In("next", {"drain_one", "drain_bulk_in"}) /\ TakesReply(FALSE)
    /\ GoOn(IF This.id = "drain_one" THEN Tail(ctl.todo) ELSE ctl.todo)
    /\ UNCHANGED <<engine, irq, write_complete, chip9914, listen_only, ctlFaults>>

DrainTimesOut ==
    /\ In("next", {"drain_one", "drain_bulk_in"})
    /\ Unless(NothingComes)
    /\ GoOn(Tail(ctl.todo))
    /\ Behind(~NothingComes)
    /\ UNCHANGED <<engineVars, write_complete, listen_only>>

(* The poller has had the turns of the transfers before this.              *)
drain_write_complete ==
    /\ In("next", {"drain_write_complete"})
    /\ Unless(irq = 0)
    /\ write_complete' = FALSE
    /\ GoOn(Tail(ctl.todo))
    /\ UNCHANGED <<engineVars, listen_only, past>>
-----------------------------------------------------------------------------
(* A front-end calls an operation with the bus mutex held; a write is      *)
(* refused in listen-only.                                                 *)
Operate(name) ==
    /\ ctl = AtRest /\ ~(name = "write" /\ listen_only)
    /\ Len(engine) + Len(replies) <= MaxOwed \/ (name = "init" /\ engine = <<>>)
    /\ ctl' = [name |-> name, todo |-> Steps(name), ph |-> "next"]
    /\ past' = [past EXCEPT !.behind = @ /\ ~(engine = <<>> /\ replies = <<>>
                                              /\ ~chip9914.spe /\ ~chip9914.ifc)]
    /\ UNCHANGED <<engineVars, write_complete, listen_only, ctlFaults>>

(* The HiSLIP forwarder is aborted in its poll or its look at the line.    *)
ForwarderAborted ==
    /\ ctl.name \in {"serial_poll", "bus_lines"} /\ Fails82357
    /\ ctl' = AtRest
    /\ Behind(TRUE)
    /\ UNCHANGED <<engineVars, write_complete, listen_only>>

CtlDriver ==
    \/ write_bulk \/ await_write_complete \/ WriteTimesOut \/ get_xfer_status \/ StatusFails
    \/ decode_response \/ RegistersTimeOut
    \/ ReadCompletes \/ ReadTimesOut \/ SalvageFlush \/ Salvage \/ SalvageTimesOut
    \/ abort \/ drain_bulk_in \/ DrainTimesOut \/ drain_write_complete

CtlNext ==
    \/ CtlDriver \/ write_bulkFails \/ ReadFails \/ ForwarderAborted
    \/ Accepted \/ RegisterAccess \/ ReadEnds \/ Collects \/ interrupt_poller
    \/ \E name \in CtlOperation : Operate(name)

(* The runtime runs the driver and the poller, and the adapter answers     *)
(* register accesses and reads it refuses; the bus may never accept or     *)
(* send anything.                                                          *)
CtlAdapter == RegisterAccess \/ (ReadEnds /\ ~Listening) \/ interrupt_poller
CtlFairness == WF_ctlVars(CtlDriver /\ UNCHANGED ctlFaults) /\ WF_ctlVars(CtlAdapter)
CtlSpec == CtlInit /\ [][CtlNext]_ctlVars /\ CtlFairness
-----------------------------------------------------------------------------
(* The recovery from a stalled send or read leaves driver and adapter in   *)
(* step: a register access, a read or a poll never meets the reply to an   *)
(* earlier request, or an engine still busy with one, unless a request     *)
(* failed that nobody recovers from or the recovery itself failed.         *)
RecoveryRestoresStep == ~past.crossed

(* Stalls leave the bus usable: with the driver and the engine at rest, no *)
(* serial-poll mode and no interface clear is left behind by an instrument *)
(* that ignored its poll, or by a bus that accepted nothing.               *)
BusReleased ==
    ctl = AtRest /\ engine = <<>> /\ ~past.behind => ~chip9914.spe /\ ~chip9914.ifc

(* A capture survives its quiet intervals: with an adapter that answers,   *)
(* a listen-only read throws away nothing the adapter has collected, and   *)
(* never clears the interface.                                             *)
CaptureUndisturbed == ~past.lost /\ ~past.pulsed
=============================================================================
