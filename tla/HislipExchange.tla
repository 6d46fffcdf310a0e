--------------------------- MODULE HislipExchange ---------------------------
(***************************************************************************)
(* One HiSLIP session exchanging messages (sync_loop and the device clear  *)
(* of async_loop in src/hislip/server.rs): messages that arrive in parts,  *)
(* replies that leave in chunks, the MessageIDs of both modes, MAV, and    *)
(* the device clear that runs over the other connection meanwhile.         *)
(*                                                                         *)
(* The two connections are independent: up and down are the two directions *)
(* of the synchronous one, and a device clear overtakes whatever is queued *)
(* in them.  MessageIDs count in steps of one from First, the id           *)
(* First - 1 standing for "nothing yet".  A generation is the part of the  *)
(* exchange between two device clears as the client sees it.               *)
(***************************************************************************)
EXTENDS Integers, Sequences

CONSTANTS
    SupportsOverlapped, \* Config::modes.supports_overlapped()
    MaxId,              \* bound: messages a client sends in a generation
    MaxClears,          \* bound: device clears
    MaxChunks,          \* bound: chunks of one reply
    MaxQueue            \* bound: unread messages in one direction

ASSUME ModeAssumption == SupportsOverlapped \in BOOLEAN
ASSUME BoundAssumption == /\ MaxId \in Nat /\ MaxClears \in Nat
                          /\ MaxChunks \in Nat /\ MaxQueue \in Nat

VARIABLES
    client,     \* what the client knows
    up,         \* messages on their way to the server
    down,       \* messages on their way to the client
    spc,        \* where the synchronous loop is
    cur,        \* the command it is executing
    left,       \* chunks of the reply still to be written
    buffer,     \* parts of the message being assembled
    epoch,      \* the loop's snapshot of clearEpoch
    clearEpoch, \* SessionEntry::clear_epoch
    mav,        \* SessionEntry::mav
    lastRead,   \* the last message read; its id is SessionEntry::last_message_id
    overlapped, \* SessionEntry::overlapped
    nextId,     \* SessionEntry::next_server_message_id
    apc,        \* where the device clear on the asynchronous loop is
    busq        \* the bus mutex: its owner and then its waiter

serverVars == <<buffer, epoch, clearEpoch, mav, lastRead, overlapped, nextId>>
vars == <<client, up, down, spc, cur, left, serverVars, apc, busq>>

First == 1

Gen == 0..MaxClears
Id == (First - 1)..MaxId
Origin == [gen : Gen, id : Id]          \* a message of the client
Part == [gen : Gen, seen : Gen]         \* its generation, the epoch at its reading
ClientMessage == [type : {"data", "end", "trigger", "complete"},
                  from : Origin, rmt : BOOLEAN, overlapped : BOOLEAN]
ServerMessage == [type : {"data", "end"}, id : Nat, of : Origin]
                 \cup [type : {"acknowledge"}, overlapped : BOOLEAN]

(* The client's view: whether it is in the middle of a device clear, the   *)
(* generation and id of its last message, the last server message it was   *)
(* handed, whether it has a delivered END to report, and the mode.         *)
ClientState == [phase : {"normal", "requested", "acknowledged", "completing"},
                gen : Gen, id : Id, received : Nat,
                delivered : BOOLEAN, overlapped : BOOLEAN]

TypeOK ==
    /\ client \in ClientState
    /\ up \in Seq(ClientMessage)
    /\ down \in Seq(ServerMessage)
    /\ spc \in {"reading", "queued", "onbus", "replying"}
    /\ cur \in Seq(Part)
    /\ left \in 0..MaxChunks
    /\ buffer \in Seq(Part)
    /\ epoch \in Gen /\ clearEpoch \in Gen
    /\ mav \in BOOLEAN /\ overlapped \in BOOLEAN
    /\ lastRead \in Origin
    /\ nextId \in Nat
    /\ apc \in {"reading", "queued", "onbus"}
    /\ busq \in Seq({"sync", "async"})

Init ==
    /\ \E o \in BOOLEAN :
          /\ o => SupportsOverlapped
          /\ overlapped = o
          /\ client = [phase |-> "normal", gen |-> 0, id |-> First - 1,
                       received |-> First - 1, delivered |-> FALSE,
                       overlapped |-> o]
    /\ up = <<>> /\ down = <<>>
    /\ spc = "reading" /\ cur = <<>> /\ left = 0
    /\ buffer = <<>> /\ epoch = 0 /\ clearEpoch = 0
    /\ mav = FALSE
    /\ lastRead = [gen |-> 0, id |-> First - 1]
    /\ nextId = First
    /\ apc = "reading" /\ busq = <<>>

-----------------------------------------------------------------------------
(* The client.                                                             *)

Send(type) ==
    /\ client.phase = "normal"
    /\ client.id < MaxId /\ Len(up) < MaxQueue
    /\ client' = [client EXCEPT !.id = @ + 1, !.delivered = FALSE]
    /\ up' = Append(up, [type |-> type, rmt |-> client.delivered,
                         from |-> [gen |-> client.gen, id |-> client.id + 1],
                         overlapped |-> FALSE])
    /\ UNCHANGED <<down, spc, cur, left, serverVars, apc, busq>>

IsData(m) == m.type \in {"data", "end"}

(* The client takes a message; in the middle of a device clear it discards *)
(* everything up to the acknowledgement, and starts afresh with that.      *)
Receive ==
    /\ down # <<>>
    /\ down' = Tail(down)
    /\ LET m == Head(down)
       IN  client' =
             IF m.type = "acknowledge"
             THEN [client EXCEPT !.phase = "normal", !.gen = @ + 1,
                     !.id = First - 1, !.received = First - 1,
                     !.delivered = FALSE, !.overlapped = m.overlapped]
             ELSE IF client.phase = "normal"
             THEN [client EXCEPT !.received = m.id,
                     !.delivered = @ \/ m.type = "end"]
             ELSE client
    /\ UNCHANGED <<up, spc, cur, left, serverVars, apc, busq>>

RequestClear ==
    /\ client.phase = "normal" /\ client.gen < MaxClears
    /\ client' = [client EXCEPT !.phase = "requested"]
    /\ UNCHANGED <<up, down, spc, cur, left, serverVars, apc, busq>>

CompleteClear(o) ==
    /\ client.phase = "acknowledged"
    /\ client' = [client EXCEPT !.phase = "completing"]
    /\ up' = Append(up, [type |-> "complete", rmt |-> FALSE, overlapped |-> o,
                         from |-> [gen |-> client.gen, id |-> client.id]])
    /\ UNCHANGED <<down, spc, cur, left, serverVars, apc, busq>>

-----------------------------------------------------------------------------
(* The synchronous loop.  A message that finds the epoch changed voids the *)
(* half-assembled one; then Data, DataEND and Trigger are noted.           *)

AssembledAnyway == buffer

Assembled == IF clearEpoch # epoch THEN <<>> ELSE buffer

note_client_message ==
    /\ lastRead' = Head(up).from
    /\ mav' = (mav /\ ~Head(up).rmt)

Read(type) ==
    /\ spc = "reading" /\ up # <<>> /\ Head(up).type = type
    /\ up' = Tail(up)
    /\ epoch' = clearEpoch

NewPart == [gen |-> Head(up).from.gen, seen |-> clearEpoch]

ReadData ==
    /\ Read("data")
    /\ note_client_message
    /\ buffer' = Append(Assembled, NewPart)
    /\ UNCHANGED <<client, down, spc, cur, left, clearEpoch, overlapped, nextId,
                   apc, busq>>

(* The command is complete, and goes to the bus.                           *)
ReadDataEnd ==
    /\ Read("end")
    /\ note_client_message
    /\ cur' = Append(Assembled, NewPart)
    /\ buffer' = <<>>
    /\ spc' = "queued"
    /\ busq' = Append(busq, "sync")
    /\ UNCHANGED <<client, down, left, clearEpoch, overlapped, nextId, apc>>

ReadTrigger ==
    /\ Read("trigger")
    /\ note_client_message
    /\ buffer' = Assembled
    /\ cur' = <<>>
    /\ spc' = "queued"
    /\ busq' = Append(busq, "sync")
    /\ UNCHANGED <<client, down, left, clearEpoch, overlapped, nextId, apc>>

set_overlappedKeepingIds(o) == mav' = FALSE /\ overlapped' = o /\ UNCHANGED nextId

set_overlappedKeepingMav(o) == overlapped' = o /\ nextId' = First /\ UNCHANGED mav

set_overlapped(o) ==
    /\ mav' = FALSE
    /\ overlapped' = o
    /\ nextId' = First

AcknowledgeOnlyOverlapped(o) ==
    IF o THEN down' = Append(down, [type |-> "acknowledge", overlapped |-> o])
         ELSE UNCHANGED down

Acknowledge(o) ==
    down' = Append(down, [type |-> "acknowledge", overlapped |-> o])

ReadClearComplete ==
    /\ Read("complete")
    /\ buffer' = Assembled
    /\ LET o == Head(up).overlapped /\ SupportsOverlapped
       IN  set_overlapped(o) /\ Acknowledge(o)
    /\ UNCHANGED <<client, spc, cur, left, clearEpoch, lastRead, apc, busq>>

SyncBusStart ==
    /\ spc = "queued" /\ Head(busq) = "sync"
    /\ spc' = "onbus"
    /\ UNCHANGED <<client, up, down, cur, left, serverVars, apc, busq>>

(* execute fails, or returns no data: nothing is pushed.  (Of the error    *)
(* message the client learns nothing that matters here.)                   *)
ExecuteQuiet ==
    /\ spc = "onbus"
    /\ spc' = "reading" /\ cur' = <<>>
    /\ busq' = Tail(busq)
    /\ UNCHANGED <<client, up, down, left, serverVars, apc>>

(* execute returns data: MAV is up before the first chunk is written.      *)
ExecuteData(n) ==
    /\ spc = "onbus" /\ cur # <<>>
    /\ spc' = "replying" /\ left' = n /\ cur' = <<>>
    /\ mav' = TRUE
    /\ busq' = Tail(busq)
    /\ UNCHANGED <<client, up, down, buffer, epoch, clearEpoch, lastRead,
                   overlapped, nextId, apc>>

response_message_id == IF overlapped THEN nextId ELSE lastRead.id

(* One chunk of write_response.                                            *)
WriteChunk ==
    /\ spc = "replying" /\ Len(down) < MaxQueue
    /\ down' = Append(down, [type |-> IF left = 1 THEN "end" ELSE "data",
                             id |-> response_message_id, of |-> lastRead])
    /\ nextId' = IF overlapped THEN nextId + 1 ELSE nextId
    /\ left' = left - 1
    /\ spc' = IF left = 1 THEN "reading" ELSE "replying"
    /\ UNCHANGED <<client, up, cur, buffer, epoch, clearEpoch, mav, lastRead,
                   overlapped, apc, busq>>

(* MAV as AsyncStatusQuery reports it to a client quoting the id q.        *)
mav_bit(q) == IF overlapped THEN q # nextId - 1 ELSE mav /\ q = lastRead.id

-----------------------------------------------------------------------------
(* The asynchronous loop: AsyncDeviceClear.  The epoch moves before the    *)
(* bus is asked for; the acknowledgement follows the clear.                *)

AsyncDeviceClear ==
    /\ apc = "reading" /\ client.phase = "requested"
    /\ clearEpoch' = clearEpoch + 1
    /\ apc' = "queued"
    /\ busq' = Append(busq, "async")
    /\ UNCHANGED <<client, up, down, spc, cur, left, buffer, epoch, mav, lastRead,
                   overlapped, nextId>>

AsyncBusStart ==
    /\ apc = "queued" /\ Head(busq) = "async"
    /\ apc' = "onbus"
    /\ UNCHANGED <<client, up, down, spc, cur, left, serverVars, busq>>

AsyncDeviceClearDoneAcknowledging ==
    /\ apc = "onbus"
    /\ apc' = "reading"
    /\ busq' = Tail(busq)
    /\ Acknowledge(overlapped)
    /\ UNCHANGED <<client, up, spc, cur, left, serverVars>>

AsyncDeviceClearDone ==
    /\ apc = "onbus"
    /\ apc' = "reading"
    /\ busq' = Tail(busq)
    /\ client' = [client EXCEPT !.phase = "acknowledged"]
    /\ UNCHANGED <<up, down, spc, cur, left, serverVars>>

-----------------------------------------------------------------------------
Next ==
    \/ \E type \in {"data", "end", "trigger"} : Send(type)
    \/ Receive
    \/ RequestClear
    \/ \E o \in BOOLEAN : CompleteClear(o)
    \/ ReadData \/ ReadDataEnd \/ ReadTrigger \/ ReadClearComplete
    \/ SyncBusStart \/ ExecuteQuiet
    \/ \E n \in 1..MaxChunks : ExecuteData(n)
    \/ WriteChunk
    \/ AsyncDeviceClear \/ AsyncBusStart \/ AsyncDeviceClearDone

(* The loops run whenever they can, a bus transaction ends, and a client   *)
(* that has asked for a device clear goes through with it, discarding what *)
(* it is sent meanwhile.                                                   *)
Fairness ==
    /\ WF_vars(ReadData \/ ReadDataEnd \/ ReadTrigger \/ ReadClearComplete)
    /\ WF_vars(SyncBusStart)
    /\ WF_vars(ExecuteQuiet \/ \E n \in 1..MaxChunks : ExecuteData(n))
    /\ WF_vars(WriteChunk)
    /\ WF_vars(AsyncDeviceClear) /\ WF_vars(AsyncBusStart)
    /\ WF_vars(AsyncDeviceClearDone)
    /\ WF_vars(Receive) /\ WF_vars(\E o \in BOOLEAN : CompleteClear(o))

Spec == Init /\ [][Next]_vars

FairSpec == Spec /\ Fairness

-----------------------------------------------------------------------------
(* Properties.                                                             *)

(* A reply belongs to its exchange: a client that is not in a device clear *)
(* is never handed the reply to a command from before its last one.        *)
RepliesAreCurrent ==
    client.phase = "normal" =>
        \A i \in DOMAIN down : IsData(down[i]) => down[i].of.gen = client.gen

(* In overlapped mode the server's MessageIDs follow the last one the      *)
(* client was handed without a gap, across device clears and changes of    *)
(* mode ("restarting at each device clear"), and so MAV, which compares    *)
(* them, is set exactly while something is on its way to the client.       *)
OverlappedNumbering ==
    client.phase = "normal" /\ overlapped =>
        /\ client.overlapped
        /\ \A i \in DOMAIN down : IsData(down[i]) => down[i].id = client.received + i
        /\ mav_bit(client.received) <=> down # <<>>

(* In synchronized mode a reply to the last command the server has read    *)
(* that the client has not taken yet is announced: a status query that     *)
(* quotes that command finds MAV set.                                      *)
MavNotMissed ==
    client.phase = "normal" /\ ~overlapped =>
        ((\E i \in DOMAIN down : IsData(down[i]) /\ down[i].of = lastRead)
            => mav_bit(lastRead.id))

(* MAV does not outlive its reply: it is set only while a reply is being   *)
(* written, is on its way, or has been delivered and the client's word of  *)
(* that has not reached the server yet.  A device clear ends it too.       *)
NoStaleMav ==
    client.phase = "normal" /\ ~overlapped /\ mav_bit(lastRead.id) =>
        \/ spc = "replying"
        \/ down # <<>>
        \/ client.delivered
        \/ \E i \in DOMAIN up : up[i].rmt

(* MAV tells the truth in synchronized mode, either way.                   *)
MavTruthful == MavNotMissed /\ NoStaleMav

(* The parts of a command that reaches the bus were all read between the   *)
(* same two device clears: a half-assembled message is dropped by a clear, *)
(* not finished after it.                                                  *)
NoMixedEpochs ==
    spc \in {"queued", "onbus"} =>
        \A i, j \in DOMAIN cur : cur[i].seen = cur[j].seen

(* A device clear always comes to its end, whatever the synchronous loop   *)
(* was doing when it was requested.                                        *)
ClearCompletes == (client.phase = "requested") ~> (client.phase = "normal")
=============================================================================
