------------------------------ MODULE NiUsbHs ------------------------------
(* The NI GPIB-USB-HS driver: NiUsbHsBackend's operations as sequences of  *)
(* request/reply exchanges on a bulk pipe, NiUsbTransport::transact with   *)
(* its recovery after an abandoned exchange, and the one-shot SRQ monitor. *)
(*                                                                         *)
(* The bus mutex admits one operation at a time, so op is one record. Its  *)
(* task can be aborted at any await (Cancel): the HiSLIP SRQ forwarder is, *)
(* when its session ends. The adapter goes on with what it was sent, and   *)
(* its replies stay in the pipe. Time is abstracted to what the deadlines  *)
(* guarantee: the adapter answers before the deadline kept in abandoned.   *)
EXTENDS Naturals, Sequences

CONSTANTS Pad,          \* instruments polled, read and written
          NoPad,        \* no cached addressing
          MAX_RESYNC,   \* replies to earlier requests one exchange discards
          MaxFaults     \* failing transfers, and sessions that end with the bus

ASSUME NiAssumption == /\ NoPad \notin Pad
                       /\ MAX_RESYNC \in Nat \ {0}
                       /\ MaxFaults \in Nat

VARIABLES op,              \* the operation in progress, or Idle
          abandoned,       \* BulkIo.abandoned is Some
          outq, inq,       \* requests at the adapter, replies in the pipe
          bus,             \* the adapter's GPIB state
          read_addressing, \* NiUsbHsBackend.read_addressing: its talker
          armed,           \* the adapter watches the SRQ line
          srq_needs_rearm, \* the flag of the interrupt reader
          faults,          \* how many so far
          ghost            \* what happened (see Init)

monitorVars == <<armed, srq_needs_rearm>>
vars == <<op, abandoned, outq, inq, bus, read_addressing, monitorVars, faults, ghost>>

(* Requests by opcode, which is all a reply echoes, and what they ask for. *)
Opcode == {"take_control", "command", "go_to_standby", "data_write", "data_read",
           "register_read", "register_write", "interface_clear"}
Req(id, what) == [id |-> id, what |-> what]
TakeControl == Req("take_control", "")
Standby == Req("go_to_standby", "")
Command(what) == Req("command", what)
Lazy == Req("control", "rearm_srq_if_pending")
Rearm == Req("control", "rearm_srq")

Idle == [name |-> "idle", pad |-> NoPad, todo |-> <<>>, ph |-> "next", left |-> 0]

(* The exchanges of each operation, in order. *)
send_command(what, standby) ==
    <<TakeControl, Command(what)>> \o (IF standby THEN <<Standby>> ELSE <<>>)

write == <<Lazy>> \o send_command("write", TRUE) \o <<Req("data_write", "")>>

read(p) ==
    <<Lazy>> \o (IF read_addressing = p THEN <<>> ELSE send_command("read", TRUE))
             \o <<Req("data_read", "")>>

PollEnable == send_command("spe", FALSE) \o <<Req("register_write", "go")>>
PollDisable == <<Req("register_write", "stop")>> \o send_command("spd", FALSE)

serial_poll == PollEnable \o <<Standby, Req("register_read", "byte")>>
               \o PollDisable \o <<Rearm>>

Program(name, p) ==
    CASE name = "write" -> write
      [] name = "read" -> read(p)
      [] name = "serial_poll" -> serial_poll
      [] name = "bus_lines" -> <<Req("register_read", "lines")>>
      [] name = "device_clear" -> send_command("clear", FALSE)
      [] name = "ifc" -> <<Req("interface_clear", "")>>
      [] name = "set_atn" -> <<TakeControl>>
      [] name = "set_controller_pad" -> <<Req("register_write", "adr")>>

(* Those whose instrument the addressing of a later read depends on; whom  *)
(* a write or a clear is for makes no difference to it.                    *)
Addressed == {"read", "serial_poll"}
Operation == {"write", "read", "serial_poll", "bus_lines", "device_clear", "ifc",
              "set_atn", "set_controller_pad"}

TypeOK ==
    /\ op.name \in Operation \cup {"idle"} /\ op.pad \in Pad \cup {NoPad}
    /\ op.ph \in {"next", "drain", "drainmore", "sent", "control", "controlled"}
    /\ op.left \in 0..MAX_RESYNC
    /\ op.name = "idle" <=> op.todo = <<>>
    /\ abandoned \in BOOLEAN /\ read_addressing \in Pad \cup {NoPad}
    /\ \A i \in DOMAIN outq : outq[i].req.id \in Opcode
    /\ \A i \in DOMAIN inq : inq[i].id \in Opcode
    /\ bus.atn \in BOOLEAN /\ bus.spe \in BOOLEAN
    /\ <<armed, srq_needs_rearm>> \in BOOLEAN \X BOOLEAN
    /\ faults \in 0..MaxFaults

(* After init: the monitor is armed, nobody is addressed. ghost records an *)
(* answer taken from an earlier request (crossed), a drain that was        *)
(* aborted (cut), that the latest serial poll was aborted or an exchange   *)
(* of its enabling or restoring part failed (spoiled), a re-arming that    *)
(* was lost (lost), and that the adapter may have taken a new address      *)
(* although setting it failed, and no addressing has followed (stray).     *)
Init ==
    /\ op = Idle /\ abandoned = FALSE /\ outq = <<>> /\ inq = <<>>
    /\ bus = [atn |-> FALSE, spe |-> FALSE, talker |-> NoPad]
    /\ read_addressing = NoPad
    /\ armed = TRUE /\ srq_needs_rearm = FALSE
    /\ faults = 0
    /\ ghost = [crossed |-> FALSE, cut |-> FALSE, spoiled |-> "no", lost |-> FALSE,
                stray |-> FALSE]

Now == Head(op.todo)
Busy(ph) == op # Idle /\ op.ph = ph
-----------------------------------------------------------------------------
(* The adapter and the line: external, as the driver relies on them.       *)

(* Transfers whose status the driver looks at. *)
Fallible == {"command", "data_write", "data_read", "register_read", "register_write"}

(* The talker is the instrument addressed to talk to us, if one is.        *)
(* A new address of ours ends that. A transfer that fails may have been    *)
(* carried out or not.                                                     *)
Effect(r, p, ok) ==
    LET done == CASE r.id = "take_control" -> [bus EXCEPT !.atn = TRUE]
                  [] r.id = "go_to_standby" -> [bus EXCEPT !.atn = FALSE]
                  [] r.id = "interface_clear" -> [bus EXCEPT !.talker = NoPad,
                                                             !.spe = FALSE]
                  [] r.what = "adr" -> [bus EXCEPT !.talker = NoPad]
                  [] r.what = "spe" -> [bus EXCEPT !.spe = TRUE, !.talker = p]
                  [] r.what = "spd" -> [bus EXCEPT !.spe = FALSE, !.talker = NoPad]
                  [] r.id = "command" -> [bus EXCEPT !.talker = p]
                  [] OTHER -> bus
    IN  IF ok THEN {done} ELSE {bus, done}

(* The adapter carries out the oldest request and replies to it. *)
Execute(ok) ==
    /\ outq # <<>>
    /\ LET q == Head(outq)
       IN  /\ ok \/ q.req.id \in Fallible
           /\ bus' \in Effect(q.req, q.pad, ok)
           /\ inq' = Append(inq, [id |-> q.req.id, ok |-> ok, mine |-> q.mine])
    /\ outq' = Tail(outq)
    /\ UNCHANGED <<op, abandoned, read_addressing, monitorVars, faults, ghost>>

(* An armed monitor reports the SRQ line, once, whenever it is asserted,   *)
(* and the reader flags that the arming was used up.                       *)
interrupt_reader ==
    /\ armed
    /\ armed' = FALSE /\ srq_needs_rearm' = TRUE
    /\ UNCHANGED <<op, abandoned, outq, inq, bus, read_addressing, faults, ghost>>
-----------------------------------------------------------------------------
(* NiUsbTransport::transact.                                               *)

(* bulk_in_locked reads one whole reply, up to its termination block. *)
BulkIn == Busy("sent") /\ inq # <<>>

(* A reply still to come no longer answers the exchange in progress. *)
Old(q) == [i \in DOMAIN q |-> [q[i] EXCEPT !.mine = FALSE]]
Quiet(q) == outq' = Old(outq) /\ inq' = Old(q)

(* What is left of the operation when an exchange fails: its early returns *)
(* and, for a serial poll, the restoring it does whatever happened.        *)
Last(n) == SubSeq(op.todo, Len(op.todo) - n + 1, Len(op.todo))
SerialPollReturnsEarly ==
    LET n == Len(op.todo) IN IF n = 4 THEN Last(3) ELSE IF n \in {2, 3} THEN Last(1) ELSE <<>>

SerialPollGoesOn ==
    LET n == Len(op.todo)
    IN  IF n > 6 THEN <<>>                      \* enable, ready_acceptor: ?
        ELSE IF n \in {5, 6} THEN Last(4)        \* no byte: restore the bus
        ELSE IF n = 4 THEN Last(3)              \* and() evaluates both
        ELSE Last(1)                            \* re-arm in any case

Rest(ok) == IF ok THEN Tail(op.todo)
            ELSE IF op.name = "serial_poll" THEN SerialPollGoesOn ELSE <<>>

(* The operation goes on with todo, or returns. *)
Continue(todo) ==
    op' = IF todo = <<>> THEN Idle
          ELSE [op EXCEPT !.todo = todo, !.ph = "next", !.left = 0]

Spoils == op.name = "serial_poll" /\ Len(op.todo) \notin 4..6
Noted(ok) == [ghost EXCEPT !.spoiled = IF ~ok /\ Spoils THEN "failed" ELSE @,
                           !.stray = @ \/ (~ok /\ op.name = "set_controller_pad" /\ read_addressing # NoPad)]

(* The exchange is over; read sets read_addressing once it is addressed,   *)
(* and set_controller_pad clears it when the register is written.          *)
Finish(ok) ==
    /\ Continue(Rest(ok))
    /\ read_addressing' = IF ok /\ op.name = "read" /\ Now = Standby THEN op.pad
                          ELSE IF ok /\ op.name = "set_controller_pad" THEN NoPad
                          ELSE read_addressing

Submit ==
    /\ abandoned' = TRUE
    /\ outq' = Append(outq, [req |-> Now, pad |-> op.pad, mine |-> TRUE, behind |-> outq # <<>>])
    /\ op' = [op EXCEPT !.ph = "sent", !.left = MAX_RESYNC]

ForgetUnlessAtn ==
    /\ read_addressing' = IF Now.id = "interface_clear" \/ (Now.id = "take_control" /\ op.name # "set_atn")
                          THEN NoPad ELSE read_addressing
    /\ UNCHANGED ghost

(* send_command_bounded, ifc and set_atn forget the addressing first. *)
Forget ==
    LET forgets == Now.id \in {"take_control", "interface_clear"}
    IN  /\ read_addressing' = IF forgets THEN NoPad ELSE read_addressing
        /\ ghost' = [ghost EXCEPT !.stray = @ /\ ~forgets]

TransactNotDraining ==
    /\ Busy("next") /\ Now.id \in Opcode
    /\ Forget
    /\ Submit
    /\ UNCHANGED <<inq, bus, monitorVars, faults>>

Transact ==
    /\ Busy("next") /\ Now.id \in Opcode
    /\ Forget
    /\ IF abandoned
        THEN /\ abandoned' = FALSE            \* take()
             /\ op' = [op EXCEPT !.ph = "drain"]
             /\ UNCHANGED outq
        ELSE Submit
    /\ UNCHANGED <<inq, bus, monitorVars, faults>>

(* drain_bulk_in_locked takes a packet; the rest is expected at once. *)
Drain ==
    /\ Busy("drain") \/ Busy("drainmore")
    /\ inq # <<>> /\ inq' = Tail(inq)
    /\ op' = [op EXCEPT !.ph = "drainmore"]
    /\ UNCHANGED <<abandoned, outq, bus, read_addressing, monitorVars, faults, ghost>>

(* Nothing in the pipe. The first wait lasts until the adapter's deadline  *)
(* for the abandoned request, unless that was queued behind another one;   *)
(* after a packet the wait is DRAIN_POLL, and ends at any time.            *)
DrainDone ==
    /\ \/ Busy("drain") /\ (\A i \in DOMAIN outq : outq[Len(outq)].behind)
       \/ Busy("drainmore")
    /\ inq = <<>>
    /\ Submit
    /\ UNCHANGED <<inq, bus, read_addressing, monitorVars, faults, ghost>>

reply_answers_request(req, reply) == req.id = reply.id

ReceiveNoDeadline ==
    /\ BulkIn
    /\ LET r == Head(inq)
       IN  /\ reply_answers_request(Now, r)
           /\ Quiet(Tail(inq))
           /\ IF Now.what = "byte" /\ ~r.ok
               THEN Continue(op.todo) /\ UNCHANGED <<read_addressing, ghost>>
               ELSE Finish(r.ok) /\ UNCHANGED ghost
    /\ abandoned' = FALSE
    /\ UNCHANGED <<bus, monitorVars, faults>>

(* A status byte that is not there is asked for again. *)
take_status_byte(ok) ==
    /\ Now.what = "byte" /\ ~ok
    /\ Continue(op.todo)
    /\ UNCHANGED read_addressing

Receive ==
    /\ BulkIn
    /\ LET r == Head(inq)
       IN  /\ reply_answers_request(Now, r)
           /\ Quiet(Tail(inq))
           /\ \/ Finish(r.ok) /\ ghost' = [Noted(r.ok) EXCEPT !.crossed = @ \/ ~r.mine]
              \/ take_status_byte(r.ok) /\ ghost' = [ghost EXCEPT !.crossed = @ \/ ~r.mine]
    /\ abandoned' = FALSE
    /\ UNCHANGED <<bus, monitorVars, faults>>

(* A reply to an earlier request is discarded, MAX_RESYNC times at most. *)
Resync ==
    /\ BulkIn /\ ~reply_answers_request(Now, Head(inq))
    /\ IF op.left > 1
        THEN /\ op' = [op EXCEPT !.left = @ - 1]
             /\ inq' = Tail(inq)
             /\ UNCHANGED <<outq, read_addressing, ghost>>
        ELSE /\ Quiet(Tail(inq)) /\ Finish(FALSE)
             /\ ghost' = Noted(FALSE)
    /\ UNCHANGED <<abandoned, bus, monitorVars, faults>>

(* A bulk transfer fails. A failed bulk-out may not have been delivered.   *)
TransferFails ==
    /\ Busy("sent") /\ faults < MaxFaults /\ faults' = faults + 1
    /\ \/ Quiet(inq)
       \/ /\ outq # <<>> /\ outq[Len(outq)].mine
          /\ outq' = Old(SubSeq(outq, 1, Len(outq) - 1)) /\ inq' = Old(inq)
    /\ Finish(FALSE)
    /\ ghost' = Noted(FALSE)
    /\ UNCHANGED <<abandoned, bus, monitorVars>>
-----------------------------------------------------------------------------
(* The SRQ monitor: control transfers of the operation in progress.        *)

rearm_srq_if_pending ==
    /\ Busy("next") /\ Now = Lazy
    /\ IF srq_needs_rearm
        THEN srq_needs_rearm' = FALSE /\ op' = [op EXCEPT !.ph = "control"]
        ELSE Continue(Tail(op.todo)) /\ UNCHANGED srq_needs_rearm
    /\ UNCHANGED <<abandoned, outq, inq, bus, read_addressing, armed,
                   faults, ghost>>

rearm_srq ==
    /\ Busy("next") /\ Now = Rearm
    /\ op' = [op EXCEPT !.ph = "control"]
    /\ UNCHANGED <<abandoned, outq, inq, bus, read_addressing, monitorVars, faults, ghost>>

(* The adapter takes the request: the monitor is armed from here on. *)
Armed ==
    /\ Busy("control")
    /\ armed' = TRUE /\ op' = [op EXCEPT !.ph = "controlled"]
    /\ ghost' = [ghost EXCEPT !.lost = FALSE]
    /\ UNCHANGED <<abandoned, outq, inq, bus, read_addressing,
                   srq_needs_rearm, faults>>

RearmedSwappingLate ==
    /\ Busy("controlled")
    /\ srq_needs_rearm' = FALSE
    /\ ghost' = [ghost EXCEPT !.lost = (Now = Rearm /\ ~armed)]
    /\ Continue(Tail(op.todo))
    /\ UNCHANGED <<abandoned, outq, inq, bus, read_addressing, armed, faults>>

(* The control transfer has completed and the task goes on. *)
Rearmed ==
    /\ Busy("controlled")
    /\ srq_needs_rearm' = IF Now = Rearm THEN FALSE ELSE srq_needs_rearm
    /\ ghost' = [ghost EXCEPT !.lost = (Now = Rearm /\ ~armed)]
    /\ Continue(Tail(op.todo))
    /\ UNCHANGED <<abandoned, outq, inq, bus, read_addressing, armed, faults>>

RearmFails ==
    /\ Busy("control") /\ faults < MaxFaults /\ faults' = faults + 1
    /\ ghost' = [ghost EXCEPT !.lost = @ \/ Now = Lazy]
    /\ Continue(Tail(op.todo))
    /\ UNCHANGED <<abandoned, outq, inq, bus, read_addressing, monitorVars>>
-----------------------------------------------------------------------------
(* What an aborted drain let through is over once the pipe is empty, and   *)
(* no cached addressing or poll mode is left of it.                        *)
Forgiven ==
    LET empty == outq = <<>> /\ inq = <<>>
        over == empty /\ (ghost.crossed => read_addressing = NoPad /\ ~bus.spe)
    IN  [ghost EXCEPT !.cut = @ /\ ~over, !.crossed = @ /\ ~over]

(* A front-end calls an operation with the bus mutex held. *)
Call(name, p) ==
    /\ op = Idle
    /\ op' = [name |-> name, pad |-> p, todo |-> Program(name, p), ph |-> "next", left |-> 0]
    /\ ghost' = IF name = "serial_poll" \/ (~bus.spe /\ outq = <<>>) THEN [Forgiven EXCEPT !.spoiled = "no"] ELSE Forgiven
    /\ UNCHANGED <<abandoned, outq, inq, bus, read_addressing, monitorVars, faults>>

(* TaskGuard::drop aborts a HiSLIP forwarder wherever it waits: in its     *)
(* serial poll or in its look at the line.                                 *)
Cancel ==
    /\ op.name \in {"serial_poll", "bus_lines"}
    /\ op.ph # "next" /\ faults < MaxFaults /\ faults' = faults + 1
    /\ op' = Idle
    /\ Quiet(inq)
    /\ ghost' = [ghost EXCEPT !.cut = @ \/ op.ph \in {"drain", "drainmore"},
                             !.spoiled = IF op.name = "serial_poll" THEN "aborted" ELSE @]
    /\ UNCHANGED <<abandoned, bus, read_addressing, monitorVars>>

Adapter == Execute(TRUE) \/ Execute(FALSE)
Driver == \/ Transact \/ Drain \/ DrainDone \/ Receive \/ Resync
          \/ rearm_srq_if_pending \/ rearm_srq \/ Armed \/ Rearmed

Next == \/ Adapter \/ Driver \/ TransferFails \/ RearmFails
        \/ interrupt_reader
        \/ Cancel
        \/ \E name \in Addressed, p \in Pad : Call(name, p)
        \/ \E name \in Operation \ Addressed : Call(name, NoPad)

(* take_status_byte stops asking, or another exchange is through. *)
Deadline == Receive /\ op'.todo # op.todo

(* The runtime runs every task that can run, the adapter answers what it   *)
(* was sent, and the deadline of take_status_byte comes.                   *)
Spec == Init /\ [][Next]_vars
Fairness == /\ WF_vars(Adapter) /\ WF_vars(Driver)
            /\ SF_vars(Deadline)
-----------------------------------------------------------------------------
(* An exchange is answered by its own reply: transact drains what an       *)
(* abandoned exchange left in the pipe before it uses it again, late       *)
(* replies included. Only a drain that is aborted itself, after take() has *)
(* cleared the deadline, lets an earlier reply through.                    *)
NiOwnReply == ghost.crossed => ghost.cut

(* The addressing a read may skip is the addressing the bus has: nothing   *)
(* that moves the bus leaves read_addressing set, a client's own commands, *)
(* ATN and Bus Address included ("must not also get a skipped addressing   *)
(* on the next read"). The exception is a Bus Address that fails after the *)
(* register was written: it returns before it clears read_addressing.      *)
AddressingIsTrue ==
    (read_addressing # NoPad /\ op.name # "set_controller_pad"
        /\ ~ghost.crossed /\ ~ghost.stray) =>
            bus.talker = read_addressing /\ ~bus.atn

(* A serial poll the instrument does not answer does not leave the bus in  *)
(* serial-poll mode: the restoring commands follow whether or not the byte *)
(* arrived.                                                                *)
NiPollModeEnds ==
    (op = Idle /\ outq = <<>> /\ bus.spe) => (ghost.spoiled # "no" \/ ghost.crossed)

(* The monitor is never left unarmed with nobody to re-arm it: a report    *)
(* that consumed the arming is flagged until a re-arming follows it. The   *)
(* exceptions are a re-arming that fails and one that is reported on       *)
(* before rearm_srq clears the flag.                                       *)
MonitorKept ==
    armed \/ srq_needs_rearm \/ op.ph = "control" \/ ghost.lost

(* "A poll killed between Serial Poll Enable and its closing SPD/UNT        *)
(* strands the whole bus in serial-poll state": no poll is.                *)
NotStranded ==
    (op = Idle /\ outq = <<>> /\ ghost.spoiled = "aborted") => ~bus.spe
=============================================================================
