------------------------------ MODULE HislipSrq ------------------------------
(***************************************************************************)
(* Service requests over HiSLIP (src/hislip/server.rs and instrument.rs).  *)
(* Four tasks of a session meet here: the synchronous loop, whose execute  *)
(* holds the bus, polls and reads, and may find or clear a request on the  *)
(* way; srq_forwarder, woken by the adapter's reports; async_pusher, which *)
(* writes what execute found; and the asynchronous loop, which answers     *)
(* status queries while it keeps the writer the other two need.            *)
(***************************************************************************)
EXTENDS SrqLine

CONSTANTS
    Session,         \* the HiSLIP sessions
    devOf,           \* the instrument of each session
    SRQ_QUEUE_DEPTH, \* the async_tx channel
    MaxCommands,     \* bound: commands a session executes
    MaxQueries       \* bound: status queries a session makes

ASSUME SessionAssumption == devOf \in [Session -> Dev]

VARIABLES
    fw,     \* srq_forwarder: where it is and the request it has taken
    ex,     \* the synchronous loop in execute
    aq,     \* the asynchronous loop: reading, or answering a status query
    pushq,  \* AsyncPush::ServiceRequest on their way to async_pusher
    held,   \* consumed_stb
    told,   \* requests announced by AsyncServiceRequest, counted
    handed, \* requests seen in a status response, counted
    spent   \* commands and queries made

sessionVars == <<fw, ex, aq, pushq, held, told, handed, spent>>

None == -1                        \* no byte; 0 is a byte with no request behind it
Forwarder(s) == <<"forwarder", s>>
Execute(s) == <<"execute", s>>

HislipTypeOK ==
    /\ fw \in [Session -> [pc : {"recv", "poll", "level", "write"}, got : Request]]
    /\ ex \in [Session -> [pc : {"idle", "hold", "poll", "look", "read",
                                 "check", "reply"},
                           query : BOOLEAN, sr : Request \cup {None},
                           took : Request]]
    /\ aq \in [Session -> {"reading", "polling"}]
    /\ \A s \in Session : /\ pushq[s] \in Seq(Request)
                          /\ Len(pushq[s]) <= SRQ_QUEUE_DEPTH
    /\ held \in [Session -> Request \cup {None}]
    /\ told \in [Session -> [Request -> Nat]]
    /\ handed \in [Session -> [Request -> Nat]]
    /\ spent \in [Session -> [commands : 0..MaxCommands, queries : 0..MaxQueries]]

NotExecuting == [pc |-> "idle", query |-> FALSE, sr |-> None, took |-> 0]

HislipInit ==
    /\ fw = [s \in Session |-> [pc |-> "recv", got |-> 0]]
    /\ ex = [s \in Session |-> NotExecuting]
    /\ aq = [s \in Session |-> "reading"]
    /\ pushq = [s \in Session |-> <<>>]
    /\ held = [s \in Session |-> None]
    /\ told = [s \in Session |-> [r \in Request |-> 0]]
    /\ handed = [s \in Session |-> [r \in Request |-> 0]]
    /\ spent = [s \in Session |-> [commands |-> 0, queries |-> 0]]

BusFree == bus = Free
BusFails == excused' = TRUE

-----------------------------------------------------------------------------
(* GpibInstrument::execute.  The bus is held until Reply.           *)

(* note_client_message: a fresh command makes a held byte stale.           *)
ReadCommand(s, query) ==
    /\ ex[s].pc = "idle" /\ spent[s].commands < MaxCommands
    /\ spent' = [spent EXCEPT ![s].commands = @ + 1]
    /\ ex' = [ex EXCEPT ![s] = [NotExecuting EXCEPT !.pc = "hold", !.query = query]]
    /\ held' = [held EXCEPT ![s] = None]
    /\ UNCHANGED <<lineVars, fw, aq, pushq, told, handed>>

(* Subscribe, then write.                                                  *)
ExecuteWrite(s, cls) ==
    /\ ex[s].pc = "hold" /\ BusFree
    /\ bus' = s
    /\ subscribe_srq(Execute(s))
    /\ inst' = Written(devOf[s], ex[s].query, cls)
    /\ ex' = [ex EXCEPT ![s].pc = IF ex[s].query THEN "look" ELSE "poll"]
    /\ UNCHANGED <<from, report, excused, fw, aq, pushq, held, told, handed, spent>>

ReleaseBus(s) == bus' = Free /\ tok' = [tok EXCEPT ![Execute(s)] = "off"]

Caught(d) == IF inst[d].req # 0 THEN inst[d].req ELSE None

(* The hint says no response: one poll, and a read only if output waits.   *)
ExecutePoll(s) ==
    /\ ex[s].pc = "poll"
    /\ inst' = Polled(devOf[s])
    /\ LET more == "MAV" \in inst[devOf[s]].bits
       IN  /\ ex' = [ex EXCEPT ![s].sr = Caught(devOf[s]),
                               ![s].pc = IF more THEN "read" ELSE "reply"]
           /\ IF more THEN UNCHANGED <<bus, tok>> ELSE ReleaseBus(s)
    /\ UNCHANGED <<from, report, excused, fw, aq, pushq, held, told, handed, spent>>

(* The hint says a response: a poll only if the line is asserted.  Neither *)
(* look nor poll stops the read if it fails.                               *)
ExecuteLook(s, ok) ==
    /\ ex[s].pc = "look"
    /\ inst' = IF ok /\ srq_asserted THEN Polled(devOf[s]) ELSE inst
    /\ ex' = [ex EXCEPT ![s].sr = IF ok THEN Caught(devOf[s]) ELSE None,
                        ![s].pc = "read"]
    /\ excused' = (excused \/ ~ok)
    /\ UNCHANGED <<from, report, tok, bus, fw, aq, pushq, held, told, handed, spent>>

ExecuteRead(s) ==
    /\ ex[s].pc = "read" /\ "MAV" \in inst[devOf[s]].bits
    /\ inst' = OutputRead(devOf[s])
    /\ ex' = [ex EXCEPT ![s].pc = "check",
                        ![s].took = IF inst[devOf[s]].mav THEN inst[devOf[s]].req
                                                          ELSE 0]
    /\ UNCHANGED <<from, report, tok, bus, excused, fw, aq, pushq, held, told,
                   handed, spent>>

(* The instrument stays silent: execute fails, and with it goes whatever   *)
(* the poll before the read had caught.                                    *)
ExecuteReadFails(s) ==
    /\ ex[s].pc = "read" /\ "MAV" \notin inst[devOf[s]].bits
    /\ ex' = [ex EXCEPT ![s] = NotExecuting]
    /\ ReleaseBus(s)
    /\ UNCHANGED <<inst, from, report, excused, fw, aq, pushq, held, told, handed,
                   spent>>

(* write fails, or the poll after it.                                      *)
ExecuteFails(s) ==
    /\ ex[s].pc = "poll" \/ (ex[s].pc = "hold" /\ BusFree)
    /\ BusFails
    /\ ex' = [ex EXCEPT ![s] = NotExecuting]
    /\ ReleaseBus(s)
    /\ UNCHANGED <<inst, from, report, fw, aq, pushq, held, told, handed, spent>>

(* srq_fired, and the line no longer asserted: the read took the output    *)
(* that had caused the request, and the byte is reconstructed.             *)
ExecuteCheck(s, ok) ==
    /\ ex[s].pc = "check"
    /\ ex' = [ex EXCEPT ![s].pc = "reply",
                ![s].sr = IF /\ @ = None /\ tok[Execute(s)] = "full"
                             /\ ok /\ ~srq_asserted
                          THEN ex[s].took ELSE @]
    /\ ReleaseBus(s)
    /\ excused' = (excused \/ ~ok)
    /\ UNCHANGED <<inst, from, report, fw, aq, pushq, held, told, handed, spent>>

raise_service_request(s, r) ==
    /\ held' = [held EXCEPT ![s] = r]
    /\ pushq' = IF Len(pushq[s]) < SRQ_QUEUE_DEPTH
                THEN [pushq EXCEPT ![s] = Append(@, r)] ELSE pushq

(* The reply is written, then the request raised.                          *)
ExecuteReply(s) ==
    /\ ex[s].pc = "reply"
    /\ IF ex[s].sr # None THEN raise_service_request(s, ex[s].sr)
                          ELSE UNCHANGED <<held, pushq>>
    /\ ex' = [ex EXCEPT ![s] = NotExecuting]
    /\ UNCHANGED <<lineVars, fw, aq, told, handed, spent>>

-----------------------------------------------------------------------------
(* The writers of the asynchronous connection share it behind a mutex,     *)
(* which the asynchronous loop keeps for as long as it answers a message.  *)
WriterFree(s) == aq[s] = "reading"

Announce(s, r) == told' = [told EXCEPT ![s][r] = @ + 1]

async_pusher(s) ==
    /\ pushq[s] # <<>> /\ WriterFree(s)
    /\ Announce(s, Head(pushq[s]))
    /\ pushq' = [pushq EXCEPT ![s] = Tail(@)]
    /\ UNCHANGED <<lineVars, fw, ex, aq, held, handed, spent>>

ForwarderRecv(s) ==
    /\ fw[s].pc = "recv" /\ tok[Forwarder(s)] = "full"
    /\ tok' = [tok EXCEPT ![Forwarder(s)] = "empty"]
    /\ fw' = [fw EXCEPT ![s].pc = "poll"]
    /\ UNCHANGED <<inst, from, report, bus, excused, ex, aq, pushq, held, told,
                   handed, spent>>

(* poll_for_service_request: a poll of our instrument...                   *)
ForwarderPoll(s) ==
    /\ fw[s].pc = "poll" /\ BusFree
    /\ inst' = Polled(devOf[s])
    /\ LET r == inst[devOf[s]].req
       IN  /\ fw' = [fw EXCEPT ![s] = [pc |-> IF r # 0 THEN "write" ELSE "level",
                                       got |-> r]]
           /\ held' = IF r # 0 THEN [held EXCEPT ![s] = r] ELSE held
    /\ UNCHANGED <<from, report, tok, bus, excused, ex, aq, pushq, told, handed,
                   spent>>

ForwarderLevelOnce(s) ==
    /\ fw[s].pc = "level" /\ BusFree
    /\ fw' = [fw EXCEPT ![s].pc = "recv"]
    /\ UNCHANGED <<lineVars, ex, aq, pushq, held, told, handed, spent>>

(* ...and, if it was not ours, again for as long as the line is asserted.  *)
ForwarderLevel(s) ==
    /\ fw[s].pc = "level" /\ BusFree
    /\ fw' = [fw EXCEPT ![s].pc = IF srq_asserted THEN "poll" ELSE "recv"]
    /\ UNCHANGED <<lineVars, ex, aq, pushq, held, told, handed, spent>>

(* The poll fails, or the line cannot be read, or SRQ_RECHECK_BUDGET ends. *)
ForwarderGivesUp(s) ==
    /\ fw[s].pc \in {"poll", "level"} /\ BusFree
    /\ BusFails
    /\ fw' = [fw EXCEPT ![s].pc = "recv"]
    /\ UNCHANGED <<inst, from, report, tok, bus, ex, aq, pushq, held, told, handed,
                   spent>>

ForwarderWrite(s) ==
    /\ fw[s].pc = "write" /\ WriterFree(s)
    /\ Announce(s, fw[s].got)
    /\ fw' = [fw EXCEPT ![s] = [pc |-> "recv", got |-> 0]]
    /\ UNCHANGED <<lineVars, ex, aq, pushq, held, handed, spent>>

-----------------------------------------------------------------------------
(* AsyncStatusQuery: a live poll, and if that is silent the byte held.     *)

ReadStatusQuery(s) ==
    /\ aq[s] = "reading" /\ spent[s].queries < MaxQueries
    /\ spent' = [spent EXCEPT ![s].queries = @ + 1]
    /\ aq' = [aq EXCEPT ![s] = "polling"]
    /\ UNCHANGED <<lineVars, fw, ex, pushq, held, told, handed>>

AnswerKeepingByte(s, byte) ==
    LET silent == byte.rqs = 0 /\ byte.bits = {}
        r == IF silent THEN held[s] ELSE byte.rqs
    IN  /\ handed' = IF r \in {None, 0} THEN handed
                                        ELSE [handed EXCEPT ![s][r] = @ + 1]
        /\ UNCHANGED held

Answer(s, byte) ==
    LET silent == byte.rqs = 0 /\ byte.bits = {}
        r == IF silent THEN held[s] ELSE byte.rqs
    IN  /\ handed' = IF r \in {None, 0} THEN handed
                                        ELSE [handed EXCEPT ![s][r] = @ + 1]
        /\ held' = [held EXCEPT ![s] = None]

AsyncStatusQuery(s) ==
    /\ aq[s] = "polling" /\ BusFree
    /\ inst' = Polled(devOf[s])
    /\ Answer(s, StatusByte(devOf[s]))
    /\ aq' = [aq EXCEPT ![s] = "reading"]
    /\ UNCHANGED <<from, report, tok, bus, excused, fw, ex, pushq, told, spent>>

AsyncStatusQueryFails(s) ==
    /\ aq[s] = "polling" /\ BusFree
    /\ BusFails
    /\ Answer(s, [rqs |-> 0, bits |-> {}])
    /\ aq' = [aq EXCEPT ![s] = "reading"]
    /\ UNCHANGED <<inst, from, report, tok, bus, fw, ex, pushq, told, spent>>

-----------------------------------------------------------------------------
SyncStep(s) ==
    \/ \E cls \in BOOLEAN : ExecuteWrite(s, cls)
    \/ ExecutePoll(s) \/ \E ok \in BOOLEAN : ExecuteLook(s, ok)
    \/ ExecuteRead(s) \/ ExecuteReadFails(s) \/ ExecuteFails(s)
    \/ \E ok \in BOOLEAN : ExecuteCheck(s, ok)
    \/ ExecuteReply(s)

HislipNext ==
    \E s \in Session :
        \/ \E query \in BOOLEAN : ReadCommand(s, query)
        \/ SyncStep(s)
        \/ async_pusher(s)
        \/ ForwarderRecv(s) \/ ForwarderPoll(s) \/ ForwarderLevel(s)
        \/ ForwarderGivesUp(s) \/ ForwarderWrite(s)
        \/ ReadStatusQuery(s) \/ AsyncStatusQuery(s) \/ AsyncStatusQueryFails(s)
=============================================================================
