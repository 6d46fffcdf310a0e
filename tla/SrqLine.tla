------------------------------ MODULE SrqLine ------------------------------
(***************************************************************************)
(* The SRQ line as the front-ends see it: instruments that request         *)
(* service, the line they share, the adapter that reports its edges, and   *)
(* the broadcast channel that carries the reports to whoever subscribed    *)
(* (subscribe_srq of src/backend/mod.rs, interrupt_poller and              *)
(* interrupt_reader of the adapters).                                      *)
(*                                                                         *)
(* The line is a wired-OR level, a report is an edge: an instrument that   *)
(* asserts a line already held produces none.  A report takes its time, so *)
(* the line may have fallen again when it arrives.  Requests are numbered  *)
(* in the order they are made; 0 is no request.                            *)
(***************************************************************************)
EXTENDS Integers, Sequences

CONSTANTS
    Dev,         \* the instruments on the bus
    sre,         \* the summary bits for which each makes a request
    MaxRequests, \* bound: service requests made
    Subscriber,  \* the tasks that may subscribe to reports
    User,        \* the tasks that may hold the bus across several steps
    Free         \* the bus mutex is not held

ASSUME LineAssumption == MaxRequests \in Nat /\ Free \notin User

VARIABLES
    inst,   \* the instruments
    from,   \* the instrument that made each request, in order
    report, \* an edge the adapter has seen and the daemon has not
    tok,    \* each subscription: none, nothing in it, or a report
    bus,    \* who holds the bus across steps
    excused \* some bus operation failed, or a forwarder gave up waiting

lineVars == <<inst, from, report, tok, bus, excused>>

Request == 0..MaxRequests

(* bits are the summary bits of the status byte, req the request that has  *)
(* the instrument assert SRQ, mav whether only the output queue is its     *)
(* cause, asked whether a query has been written that output may answer,   *)
(* edge whether the request took the line from low to high.                *)
Instrument == [bits : SUBSET {"MAV", "ESB"}, req : Request, mav : BOOLEAN,
               asked : BOOLEAN, edge : BOOLEAN]

LineTypeOK ==
    /\ inst \in [Dev -> Instrument]
    /\ from \in Seq(Dev)
    /\ report \in BOOLEAN
    /\ tok \in [Subscriber -> {"off", "empty", "full"}]
    /\ bus \in User \cup {Free}
    /\ excused \in BOOLEAN

LineInit ==
    /\ inst = [d \in Dev |-> [bits |-> {}, req |-> 0, mav |-> FALSE,
                              asked |-> FALSE, edge |-> FALSE]]
    /\ from = <<>>
    /\ report = FALSE
    /\ bus = Free
    /\ excused = FALSE

srq_asserted == \E d \in Dev : inst[d].req # 0

-----------------------------------------------------------------------------
(* What the instrument does, alone and when it is spoken to.               *)

(* A summary bit comes up; it makes a request if the instrument's mask     *)
(* says so and none is outstanding.  Output answers a query.               *)
InstrumentRaises(d, b) ==
    /\ b \notin inst[d].bits
    /\ b = "MAV" => inst[d].asked
    /\ LET new == b \in sre[d] /\ inst[d].req = 0
           i == [inst[d] EXCEPT !.bits = @ \cup {b},
                                !.asked = @ /\ b # "MAV"]
       IN  /\ new => Len(from) < MaxRequests
           /\ inst' = [inst EXCEPT ![d] =
                IF new THEN [i EXCEPT !.req = Len(from) + 1, !.mav = b = "MAV",
                                      !.edge = ~srq_asserted]
                ELSE [i EXCEPT !.mav = @ /\ (b \in sre[d] => b = "MAV")]]
           /\ from' = IF new THEN Append(from, d) ELSE from
           /\ report' = (report \/ (new /\ ~srq_asserted))
    /\ UNCHANGED <<tok, bus, excused>>

(* A serial poll takes the request and leaves the summary bits.            *)
Polled(d) == [inst EXCEPT ![d].req = 0, ![d].edge = FALSE]

StatusByte(d) == [rqs |-> inst[d].req, bits |-> inst[d].bits]

(* A command may be a query and may clear the event status.                *)
Written(d, query, cls) ==
    LET lift == cls /\ ~inst[d].mav
    IN  [inst EXCEPT ![d].asked = @ \/ query,
                     ![d].bits = IF cls THEN @ \ {"ESB"} ELSE @,
                     ![d].req = IF lift THEN 0 ELSE @,
                     ![d].edge = @ /\ ~lift]

(* Reading the output clears MAV, and the request if that was its cause.   *)
OutputRead(d) ==
    [inst EXCEPT ![d].bits = @ \ {"MAV"},
                 ![d].req = IF inst[d].mav THEN 0 ELSE @,
                 ![d].edge = @ /\ ~inst[d].mav]

-----------------------------------------------------------------------------
(* The adapter's report reaches the interrupt task, which broadcasts it; a *)
(* subscription that already holds one loses nothing by it.                *)
Broadcast ==
    /\ report
    /\ report' = FALSE
    /\ tok' = [x \in Subscriber |-> IF tok[x] = "off" THEN "off" ELSE "full"]
    /\ UNCHANGED <<inst, from, bus, excused>>

subscribe_srq(x) == tok' = [tok EXCEPT ![x] = "empty"]

LineNext ==
    \/ \E d \in Dev, b \in {"MAV", "ESB"} : InstrumentRaises(d, b)
    \/ Broadcast
=============================================================================
