------------------------------- MODULE Usbtmc -------------------------------
(* The USBTMC / USB488 backend: bulk messages, the recovery of the pipe    *)
(* after a failed transfer (settle, the abort handshakes, INITIATE_CLEAR), *)
(* reads that span transfers and skip stale fragments, and the status byte *)
(* that comes over the interrupt endpoint.                                 *)
(*                                                                         *)
(* One operation at a time holds the bus mutex. A bTag only tells whether  *)
(* a reply answers the request that is waiting, so requests and replies    *)
(* are marked mine: 255 tags are taken to be enough that a fragment never  *)
(* meets its own tag again. An operation ends early only in a serial poll: *)
(* the task that is aborted while it holds the bus is the SRQ forwarder.   *)
EXTENDS Naturals, Sequences

CONSTANTS Parts,                 \* longest reply, in transfers of the device
          Sizes,                 \* what clients ask a read for, in the same unit
          READ_RESYNC_ATTEMPTS,
          MaxTmcFaults,          \* failing transfers and handshakes
          MaxLate                \* status bytes on their way, stale ones included

ASSUME TmcAssumption == /\ {Parts, READ_RESYNC_ATTEMPTS, MaxLate} \subseteq Nat \ {0}
                        /\ Sizes \subseteq Nat \ {0}
                        /\ MaxTmcFaults \in Nat

VARIABLES tmc,          \* the operation in progress
          pending_out,  \* pending_out and pending_in are Some
          pending_in,
          device,       \* the instrument's side of the bulk pipe
          status,       \* the status byte: notifications and the latch
          tmcFaults,
          misled,       \* a result told the driver less than the device did
          seen          \* what the client was given (see TmcInit)

pipeVars == <<pending_out, pending_in, device, misled>>
tmcVars == <<tmc, pipeVars, status, tmcFaults, seen>>

Free == [name |-> "free", ph |-> "", after |-> "", size |-> 0, out |-> <<>>, tries |-> 0]

(* An instrument as it is after init. device: the parts of its reply still *)
(* to be sent (resp), requests it has not answered (asked), transfers      *)
(* ready to be read (fifo), a message it has only in part (partial).       *)
(* status: bytes the device owes, bytes in the channel, the SRQ latch.     *)
(* seen: the part of the reply a read should begin with, 0 if there is no  *)
(* telling (next); a read that failed with a reply to be had (robbed); all *)
(* reads and polls gave what they should (whole).                          *)
TmcInit ==
    /\ tmc = Free
    /\ pending_out = FALSE /\ pending_in = FALSE
    /\ device = [resp |-> <<>>, asked |-> <<>>, fifo |-> <<>>, partial |-> FALSE]
    /\ status = [owed |-> <<>>, chan |-> <<>>, latch |-> FALSE]
    /\ tmcFaults = 0 /\ misled = FALSE
    /\ seen = [next |-> 0, robbed |-> FALSE, whole |-> TRUE]

At(ph) == tmc # Free /\ tmc.ph = ph
Fault == tmcFaults < MaxTmcFaults /\ tmcFaults' = tmcFaults + 1
NoFault == UNCHANGED tmcFaults
Settled == device.asked = <<>> /\ ~device.partial
-----------------------------------------------------------------------------
(* The device: external, as the driver and its comments describe it.       *)

NoData == [i |-> 0, eom |-> FALSE]
Fragment == [mine |-> FALSE, part |-> NoData]
NotMine(q) == [k \in DOMAIN q |-> [q[k] EXCEPT !.mine = FALSE]]
HasMine(q) == \E k \in DOMAIN q : q[k].mine
Reply(n) == [i \in 1..n |-> [i |-> i, eom |-> i = n]]

(* A message arrives: "write" is a whole command, "send" a trigger or data *)
(* without EOM, "read" a request. One that continues an unfinished         *)
(* transfer is lost in it; a command replaces the reply to the last one.   *)
Accept(d, name, mine) ==
    IF d.partial THEN {[d EXCEPT !.resp = <<>>, !.partial = FALSE]}
    ELSE CASE name = "read" -> {[d EXCEPT !.asked = Append(@, [mine |-> mine])]}
           [] name = "send" -> {d}
           [] name = "write" -> {[d EXCEPT !.resp = Reply(n)] : n \in 1..Parts}

(* The oldest request is answered with the next part of the reply, or with *)
(* nothing when there is none.                                             *)
Answers(part) ==
    /\ device.asked # <<>>
    /\ device' = [device EXCEPT !.asked = Tail(@),
                     !.resp = IF @ = <<>> THEN @ ELSE Tail(@),
                     !.fifo = Append(@, [mine |-> Head(device.asked).mine, part |-> part])]
    /\ UNCHANGED <<tmc, pending_out, pending_in, status, tmcFaults, misled, seen>>

DeviceAnswers == device.resp # <<>> /\ Answers(Head(device.resp))
DeviceAnswersEmpty == device.resp = <<>> /\ Answers(NoData)
-----------------------------------------------------------------------------
(* How operations go on and return.                                        *)

(* A read that fails leaves the client without a place in the reply.       *)
ReturnErr ==
    /\ tmc' = Free
    /\ seen' = [seen EXCEPT !.next = IF tmc.name = "read" THEN 0 ELSE @,
                            !.robbed = tmc.name = "read" /\ seen.next # 0]
ReturnOk == tmc' = Free /\ UNCHANGED seen

(* settle: bulk-IN first, then bulk-OUT. *)
settle(in, out) == IF in THEN "abort_in" ELSE IF out THEN "abort_out" ELSE "settled"

(* send_message settles the pipe, flags the message, then sends it. *)
send_message(op) ==
    LET ph == settle(pending_in, pending_out)
    IN  /\ tmc' = [op EXCEPT !.ph = IF ph = "settled" THEN "out" ELSE ph, !.after = "send"]
        /\ pending_out' = (pending_out \/ ph = "settled")

(* The flags are cleared, so nothing at the device counts as ours; what    *)
(* settle was called for goes on.                                          *)
SettledOk(d) ==
    /\ pending_in' = FALSE /\ pending_out' = (tmc.after = "send")
    /\ device' = [d EXCEPT !.asked = NotMine(@), !.fifo = NotMine(@)]
    /\ CASE tmc.after = "send" -> tmc' = [tmc EXCEPT !.ph = "out"] /\ UNCHANGED seen
         [] tmc.after = "fail" -> ReturnErr
         [] tmc.after = "ifc" -> ReturnOk

(* fail: a best-effort settle, then the error of the transfer. *)
fail == tmc' = [tmc EXCEPT !.ph = settle(pending_in, pending_out), !.after = "fail"]
-----------------------------------------------------------------------------
(* The handshakes.                                                         *)

BulkInAborted(d) ==
    IF pending_out
    THEN /\ tmc' = [tmc EXCEPT !.ph = "abort_out"] /\ device' = d
         /\ UNCHANGED <<pending_in, pending_out, seen>>
    ELSE SettledOk(d)

(* What the FIFO holds when the device says a transfer is aborted or the   *)
(* device cleared: nothing, or a fragment that some firmware keeps.        *)
Flushed(q) == IF q = <<>> THEN NoFault ELSE Fault
Residue == {<<>>, <<Fragment>>}

(* With nothing in progress at the device there is only the host's side.   *)
abort_bulk_in ==
    /\ At("abort_in")
    /\ IF HasMine(device.asked) \/ HasMine(device.fifo)
        THEN \E q \in Residue :
                /\ Flushed(q)
                /\ BulkInAborted([device EXCEPT
                      !.asked = SelectSeq(@, LAMBDA r : ~r.mine),
                      !.fifo = IF HasMine(@) THEN q ELSE @ \o q])
        ELSE BulkInAborted(device) /\ NoFault
    /\ UNCHANGED <<status, misled>>

abort_bulk_out ==
    /\ At("abort_out")
    /\ SettledOk([device EXCEPT !.partial = FALSE])
    /\ NoFault /\ UNCHANGED <<status, misled>>

(* After HANDSHAKE_POLLS PENDING answers an abort counts as complete. *)
StillPending ==
    /\ Fault
    /\ \/ At("abort_in") /\ BulkInAborted(device)
       \/ At("abort_out") /\ SettledOk(device)
    /\ misled' = TRUE /\ UNCHANGED status

(* A handshake that fails falls back to INITIATE_CLEAR. *)
AbortFails ==
    /\ At("abort_in") \/ At("abort_out")
    /\ Fault
    /\ tmc' = [tmc EXCEPT !.ph = "clear"]
    /\ UNCHANGED <<pipeVars, status, seen>>

(* The device forgets everything; so does the driver. init goes on to pull *)
(* out what firmware kept.                                                 *)
clear_device ==
    /\ At("clear")
    /\ \E q \in Residue :
          /\ Flushed(q)
          /\ device' = [resp |-> <<>>, asked |-> <<>>, fifo |-> q, partial |-> FALSE]
    /\ misled' = FALSE /\ pending_in' = FALSE
    /\ pending_out' = (tmc.after = "send")
    /\ tmc' = CASE tmc.after = "send" -> [tmc EXCEPT !.ph = "out"]
                [] tmc.after = "init" -> [tmc EXCEPT !.ph = "drain"]
                [] OTHER -> Free
    /\ seen' = [seen EXCEPT !.next = 0]
    /\ UNCHANGED status

ClearFailsForgetting ==
    /\ At("clear") /\ Fault
    /\ ReturnErr
    /\ pending_in' = FALSE /\ pending_out' = FALSE
    /\ device' = [device EXCEPT !.asked = NotMine(@), !.fifo = NotMine(@)]
    /\ UNCHANGED <<status, misled>>

(* The error is returned with the flags still set. *)
ClearFails ==
    /\ At("clear") /\ Fault
    /\ ReturnErr
    /\ UNCHANGED <<pipeVars, status>>

(* init's brief reads: READ_RESYNC_ATTEMPTS of them, or until one fails. *)
DrainAtOpen ==
    /\ At("drain")
    /\ IF device.fifo = <<>> \/ tmc.tries = READ_RESYNC_ATTEMPTS
        THEN ReturnOk /\ UNCHANGED device
        ELSE /\ tmc' = [tmc EXCEPT !.tries = @ + 1] /\ UNCHANGED seen
             /\ device' = [device EXCEPT !.fifo = Tail(@)]
    /\ UNCHANGED <<pending_out, pending_in, misled, status, tmcFaults>>
-----------------------------------------------------------------------------
(* Bulk transfers.                                                         *)

(* The message is out. A request is flagged and its reply waited for. *)
bulk_out ==
    /\ At("out")
    /\ pending_out' = FALSE
    /\ device' \in Accept(device, tmc.name, TRUE)
    /\ IF tmc.name = "read"
        THEN /\ pending_in' = TRUE
             /\ tmc' = [tmc EXCEPT !.ph = "in", !.tries = 0] /\ UNCHANGED seen
        ELSE /\ tmc' = Free
             /\ seen' = [seen EXCEPT !.next = IF tmc.name = "write" THEN 1 ELSE @]
             /\ UNCHANGED pending_in
    /\ UNCHANGED <<status, tmcFaults, misled>>

(* It fails or times out; the device may have none, some or all of it. *)
BulkOutFails ==
    /\ At("out") /\ Fault
    /\ device' \in {device, [device EXCEPT !.partial = TRUE]}
                   \cup Accept(device, tmc.name, FALSE)
    /\ misled' = (misled \/ device'.asked # device.asked)
    /\ fail
    /\ seen' = [seen EXCEPT !.next = 0]
    /\ UNCHANGED <<pending_in, pending_out, status>>

parse_dev_dep_msg_in(t) == t.mine

(* The read is over: it should give the parts from seen.next on, up to the *)
(* size asked for, the end of the reply, or an empty transfer.             *)
Give(out, last) ==
    /\ tmc' = Free
    /\ seen' = [seen EXCEPT
          !.next = IF last.eom \/ @ = 0 THEN 0 ELSE @ + Len(out),
          !.whole = @ /\ (misled \/ seen.next = 0 \/
                          /\ \A k \in DOMAIN out : out[k] = seen.next + k - 1
                          /\ last.eom \/ last = NoData \/ Len(out) = tmc.size)]
    /\ UNCHANGED pending_out

read_messageOneTransfer(part) ==
    Give(IF part = NoData THEN tmc.out ELSE Append(tmc.out, part.i), part)

(* read_message asks for more until the device marks the end. *)
read_message(part) ==
    LET out == IF part = NoData THEN tmc.out ELSE Append(tmc.out, part.i)
    IN  IF part.eom \/ Len(out) >= tmc.size \/ part = NoData
        THEN Give(out, part)
        ELSE send_message([tmc EXCEPT !.out = out]) /\ UNCHANGED seen

(* read_one_transfer takes a transfer: the reply, or a stale fragment that *)
(* it skips, READ_RESYNC_ATTEMPTS times before it gives up.                *)
TakeReply ==
    /\ At("in") /\ device.fifo # <<>> /\ parse_dev_dep_msg_in(Head(device.fifo))
    /\ device' = [device EXCEPT !.fifo = Tail(@)]
    /\ pending_in' = FALSE
    /\ read_message(Head(device.fifo).part)
    /\ UNCHANGED <<status, tmcFaults, misled>>

SkipStale ==
    /\ At("in") /\ device.fifo # <<>> /\ ~parse_dev_dep_msg_in(Head(device.fifo))
    /\ device' = [device EXCEPT !.fifo = Tail(@)]
    /\ IF tmc.tries < READ_RESYNC_ATTEMPTS THEN tmc' = [tmc EXCEPT !.tries = @ + 1] ELSE fail
    /\ UNCHANGED <<pending_in, pending_out, status, tmcFaults, misled, seen>>

BulkInTimesOutBriefly ==
    /\ At("in") /\ device.fifo = <<>>
    /\ NoFault
    /\ fail
    /\ UNCHANGED <<pipeVars, status, seen>>

(* Nothing comes: the device has nothing to say, or takes longer than the  *)
(* timeout, or than the brief wait behind a fragment.                      *)
BulkInTimesOut ==
    /\ At("in") /\ device.fifo = <<>>
    /\ IF device.resp = <<>> \/ tmc.tries > 0 THEN NoFault ELSE Fault
    /\ fail
    /\ UNCHANGED <<pipeVars, status, seen>>
-----------------------------------------------------------------------------
(* The status byte.                                                        *)

(* A poll takes the byte of a service request if one is latched, else it   *)
(* sends READ_STATUS_BYTE and waits for the notification with its tag.     *)
read_status_byte_native ==
    /\ tmc = Free
    /\ IF status.latch
        THEN status' = [status EXCEPT !.latch = FALSE] /\ UNCHANGED tmc
        ELSE /\ tmc' = [Free EXCEPT !.name = "serial_poll", !.ph = "notify"]
             /\ Len(status.owed) + Len(status.chan) < MaxLate
             /\ status' = [status EXCEPT !.owed = Append(@, [mine |-> TRUE])]
    /\ UNCHANGED <<pipeVars, tmcFaults, seen>>

(* interrupt_reader passes a status byte on; a service request it latches. *)
StatusByteArrives ==
    /\ status.owed # <<>>
    /\ status' = [status EXCEPT !.owed = Tail(@), !.chan = Append(@, Head(status.owed))]
    /\ UNCHANGED <<tmc, pipeVars, tmcFaults, seen>>

ServiceRequested ==
    /\ ~status.latch
    /\ status' = [status EXCEPT !.latch = TRUE]
    /\ UNCHANGED <<tmc, pipeVars, tmcFaults, seen>>

AnswersPoll(n) == n.mine

(* status_byte_notification drops what earlier polls were owed. *)
status_byte_notification ==
    /\ At("notify") /\ status.chan # <<>>
    /\ IF AnswersPoll(Head(status.chan))
        THEN /\ tmc' = Free
             /\ seen' = [seen EXCEPT !.whole = @ /\ Head(status.chan).mine]
             /\ status' = [status EXCEPT !.owed = NotMine(@), !.chan = NotMine(Tail(@))]
        ELSE status' = [status EXCEPT !.chan = Tail(@)] /\ UNCHANGED <<tmc, seen>>
    /\ UNCHANGED <<pipeVars, tmcFaults>>

(* STATUS_BYTE_WAIT_MS pass, or the forwarder that polls is aborted. *)
PollEnds ==
    /\ At("notify")
    /\ tmc' = Free
    /\ status' = [status EXCEPT !.owed = NotMine(@), !.chan = NotMine(@)]
    /\ UNCHANGED <<pipeVars, tmcFaults, seen>>
-----------------------------------------------------------------------------
(* A front-end calls, with the bus mutex held.                             *)

CallMessage(name, size) ==
    /\ tmc = Free
    /\ send_message([Free EXCEPT !.name = name, !.size = size])
    /\ misled' = (misled /\ ~(name = "write" /\ Settled))
    /\ seen' = [seen EXCEPT !.robbed = FALSE]
    /\ UNCHANGED <<pending_in, device, status, tmcFaults>>

CallClear(name) ==
    /\ tmc = Free
    /\ tmc' = [Free EXCEPT !.name = name, !.ph = "clear", !.after = name]
    /\ UNCHANGED <<pipeVars, status, tmcFaults, seen>>

ifc_usbtmc ==
    /\ tmc = Free /\ settle(pending_in, pending_out) # "settled"
    /\ tmc' = [Free EXCEPT !.name = "ifc", !.ph = settle(pending_in, pending_out), !.after = "ifc"]
    /\ UNCHANGED <<pipeVars, status, tmcFaults, seen>>

TmcDriver == \/ abort_bulk_in \/ abort_bulk_out \/ clear_device \/ DrainAtOpen
             \/ bulk_out \/ TakeReply \/ SkipStale \/ BulkInTimesOut
             \/ status_byte_notification \/ PollEnds

TmcNext == \/ TmcDriver \/ DeviceAnswers \/ DeviceAnswersEmpty
           \/ StillPending \/ AbortFails \/ ClearFails \/ BulkOutFails
           \/ read_status_byte_native \/ StatusByteArrives \/ ServiceRequested
           \/ \E size \in Sizes : CallMessage("read", size)
           \/ CallMessage("write", 0) \/ CallMessage("send", 0)
           \/ CallClear("device_clear") \/ CallClear("init")
           \/ ifc_usbtmc

(* Transfers and handshakes end, every one has its timeout; a device with  *)
(* a reply gives it.                                                       *)
TmcFairness == WF_tmcVars(TmcDriver) /\ WF_tmcVars(DeviceAnswers)
TmcSpec == TmcInit /\ [][TmcNext]_tmcVars /\ TmcFairness
-----------------------------------------------------------------------------
(* A read that succeeds gives the client the next parts of the reply to    *)
(* its last command, none missing and none of an earlier reply, up to the  *)
(* size it asked for or the device's end marker: read_message goes on over *)
(* the transfers of a device with a small buffer, and what aborted reads   *)
(* left in the pipe is skipped. A status byte is never an earlier poll's,  *)
(* one that arrives after its poll has given up included. The exception is *)
(* a driver that was misled: an abort still PENDING after HANDSHAKE_POLLS  *)
(* counts as complete, and a request whose transfer failed may have        *)
(* reached the device all the same.                                        *)
TmcAnswersWhole == seen.whole

(* "Rather than proceeding on a pipe known to be out of step": with both   *)
(* flags clear the device has no request or part of a message left of an   *)
(* operation that failed, whichever transfer or handshake failed and       *)
(* however often, unless the driver was misled.                            *)
InStep ==
    (tmc = Free /\ ~pending_in /\ ~pending_out /\ ~misled) => Settled

(* Once transfers stop failing and firmware stops leaving fragments, reads *)
(* get the replies there are: no sequence of failures leaves the pipe one  *)
(* reply behind "for the life of the session".                             *)
Recovers == <>[][seen.robbed \/ ~seen'.robbed]_seen
=============================================================================
