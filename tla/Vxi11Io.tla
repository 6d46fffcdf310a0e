------------------------------ MODULE Vxi11Io ------------------------------
(***************************************************************************)
(* The I/O calls of the VXI-11 front-end (src/vxi11/server.rs) from the    *)
(* bus mutex to the reply: device_write and device_read in chunks or       *)
(* slices against a deadline, device_docmd, an abort that lands between    *)
(* two steps, and the adapter settings a call changes and puts back.       *)
(*                                                                         *)
(* Each connection has a device link to an instrument of its own, or one   *)
(* of them a link to the interface, whose client addresses the bus by hand *)
(* and whose transfers address nobody.  Time passes in units during bus    *)
(* operations; a chunk is WRITE_CHUNK bytes, and what an instrument has to *)
(* say is a number of pieces.                                              *)
(***************************************************************************)
EXTENDS Integers, Sequences, FiniteSetsExt

CONSTANTS
    Conn,       \* core connections
    Raw,        \* the one whose link may be to the interface
    Nobody,     \* no instrument
    Chunks,     \* chunks of a message
    Request,    \* pieces a device_read asks for
    Say,        \* pieces an instrument has to say, END with the last
    Budget,     \* io_timeout
    Slice,      \* read_slice_ms, or all of Budget for an exact adapter
    Floor,      \* the wait an attempt that timed out is padded to (50 ms)
    Steps,      \* the adapter's timeout steps
    Default     \* default_io_timeout_ms

ASSUME IoAssumption ==
    /\ Nobody \notin Conn /\ Raw \in Conn
    /\ {Chunks, Request, Say, Budget, Slice, Floor} \subseteq Nat \ {0}
    /\ Steps \subseteq Nat \ {0} /\ 1 \in Steps
    /\ Default \in Nat

(* The steps are a table: among those that fit a budget one is the longest. *)
ASSUME StepsAssumption ==
    \A left \in 1..Budget : \E s \in Steps :
        s <= left /\ \A u \in Steps : u <= left => u <= s

VARIABLES
    busq,       \* the mutex: owner, then waiters
    timeout,    \* the adapter's timeout
    eos,        \* is the adapter's terminator the one of a call
    interface,  \* the connection with a link to bare gpib0, if there is one
    listener,   \* the instrument addressed to listen
    talker,     \* the one left addressed to talk to us, for an interface link
    atn,        \* a client holds ATN
    call,       \* the call each connection is in
    aborted,    \* the flag in each link's operation window
    heard,      \* the message each instrument is being sent, as it hears it
    said,       \* pieces each instrument has said of its response
    owed        \* history: pieces said and neither given to the client nor
                \* lost with a failing bus operation

settings == <<timeout, eos>>
addressing == <<interface, listener, talker, atn>>
vars == <<busq, settings, addressing, call, aborted, heard, said, owed>>

Result == {"none", "ok", "timeout", "abort", "error"}

TypeOK ==
    /\ busq \in Seq(Conn)
    /\ timeout \in Steps \cup 1..Slice \cup {Default}
    /\ eos \in BOOLEAN
    /\ interface \in {Raw, Nobody} /\ atn \in BOOLEAN
    /\ {listener, talker} \subseteq Conn \cup {Nobody}
    /\ call \in [Conn -> [op : {"none", "write", "read", "docmd"},
                          pc : {"idle", "queued", "loop", "onbus"},
                          left : (1 - Floor)..Budget, n : Nat, res : Result]]
    /\ aborted \in [Conn -> BOOLEAN]
    /\ said \in [Conn -> 0..Say] /\ owed \in [Conn -> 0..Request]

Init ==
    /\ busq = <<>> /\ timeout = Default /\ eos = FALSE
    /\ interface \in {Raw, Nobody}
    /\ listener = Nobody /\ talker = Nobody /\ atn = FALSE
    /\ call = [c \in Conn |-> [op |-> "none", pc |-> "idle", left |-> 0, n |-> 0, res |-> "none"]]
    /\ aborted = [c \in Conn |-> FALSE]
    /\ heard = [c \in Conn |-> <<>>]
    /\ said = [c \in Conn |-> 0] /\ owed = [c \in Conn |-> 0]

OnBus(c) == busq # <<>> /\ Head(busq) = c
In(c, op, pc) == call[c].op = op /\ call[c].pc = pc
is_interface(c) == c = interface

(* What an addressed operation of the adapter leaves: ATN released, and    *)
(* one instrument listening to us, or talking to us.                       *)
Listens(c) == listener' = c /\ talker' = Nobody /\ atn' = FALSE /\ UNCHANGED interface
Talks(c) ==
    /\ listener' = Nobody /\ atn' = FALSE
    /\ talker' = IF interface = Nobody THEN Nobody ELSE c
    /\ UNCHANGED interface

-----------------------------------------------------------------------------
(* A call past the lock gate (Vxi11Links) opens its window and queues; a   *)
(* device_write's deadline runs from here.  A docmd on a device link, or   *)
(* with sizes that do not fit, is refused before that.                     *)
Call(c, op) ==
    /\ call[c].pc = "idle"
    /\ op = "docmd" => is_interface(c)
    /\ call' = [call EXCEPT ![c] = [op |-> op, pc |-> "queued", left |-> Budget,
                                    n |-> 0, res |-> "none"]]
    /\ busq' = Append(busq, c)
    /\ UNCHANGED <<settings, addressing, aborted, heard, said, owed>>

(* device_abort finds an open window.                                      *)
device_abort(c) ==
    /\ call[c].pc # "idle" /\ ~aborted[c]
    /\ aborted' = [aborted EXCEPT ![c] = TRUE]
    /\ UNCHANGED <<busq, settings, addressing, call, heard, said, owed>>

(* The bus is there.  A write has spent some of its budget in the queue, a *)
(* read starts its own now and sets the terminator.                        *)
HoldWrite(c) ==
    /\ In(c, "write", "queued") /\ OnBus(c)
    /\ \E rest \in 0..Budget : call' = [call EXCEPT ![c].pc = "loop", ![c].left = rest]
    /\ UNCHANGED <<busq, settings, addressing, aborted, heard, said, owed>>

HoldRead(c) ==
    /\ In(c, "read", "queued") /\ OnBus(c)
    /\ call' = [call EXCEPT ![c].pc = "loop"]
    /\ eos' = TRUE
    /\ UNCHANGED <<busq, timeout, addressing, aborted, heard, said, owed>>

(* The call returns: settings back, bus released, window closed.  A write  *)
(* that is complete still answers with an abort that came meanwhile.       *)
Outcome(c, res) ==
    IF res = "ok" /\ call[c].op = "write" /\ aborted[c] THEN "abort" ELSE res

ReturnKeepingTimeout(c, n, res) ==
    /\ call' = [call EXCEPT ![c] = [op |-> @.op, pc |-> "idle", left |-> 0,
                                    n |-> n, res |-> Outcome(c, res)]]
    /\ busq' = Tail(busq)
    /\ eos' = FALSE
    /\ timeout' = IF res = "ok" THEN Default ELSE timeout
    /\ aborted' = [aborted EXCEPT ![c] = FALSE]

Return(c, n, res) ==
    /\ call' = [call EXCEPT ![c] = [op |-> @.op, pc |-> "idle", left |-> 0,
                                    n |-> n, res |-> Outcome(c, res)]]
    /\ busq' = Tail(busq)
    /\ eos' = FALSE
    /\ timeout' = Default
    /\ aborted' = [aborted EXCEPT ![c] = FALSE]

-----------------------------------------------------------------------------
(* device_write.                                                           *)

adapter_floor_ms(left) == Max({s \in Steps : s <= left})

(* Before a chunk: an abort, the deadline, and the adapter's timeout.      *)
WriteLoopRestartingBudget(c) ==
    /\ In(c, "write", "loop")
    /\ \/ /\ aborted[c] /\ Return(c, call[c].n, "abort")
       \/ /\ ~aborted[c] /\ call[c].left <= 0 /\ Return(c, call[c].n, "timeout")
       \/ /\ ~aborted[c] /\ call[c].left > 0
          /\ timeout' = adapter_floor_ms(Budget)
          /\ call' = [call EXCEPT ![c].pc = "onbus"]
          /\ UNCHANGED <<busq, eos, aborted>>
    /\ UNCHANGED <<addressing, heard, said, owed>>

WriteLoop(c) ==
    /\ In(c, "write", "loop")
    /\ \/ /\ aborted[c] /\ Return(c, call[c].n, "abort")
       \/ /\ ~aborted[c] /\ call[c].left = 0 /\ Return(c, call[c].n, "timeout")
       \/ /\ ~aborted[c] /\ call[c].left > 0
          /\ timeout' = adapter_floor_ms(call[c].left)
          /\ call' = [call EXCEPT ![c].pc = "onbus"]
          /\ UNCHANGED <<busq, eos, aborted>>
    /\ UNCHANGED <<addressing, heard, said, owed>>

(* Chunk n + 1 has been sent in t units.  The first one of a device link   *)
(* addresses the instrument, the others go to whoever listens; END goes    *)
(* with the last.  Without a listener, or under ATN, no data move.         *)
Addresses(c, k) == k = 1 /\ ~is_interface(c)
Audience(c, k) == IF Addresses(c, k) THEN c ELSE listener

ChunkSentInTurns(c, t) ==
    LET k == call[c].n + 1
        to == Audience(c, k)
        piece == [of |-> c, k |-> k, end |-> k = Chunks]
    IN  /\ In(c, "write", "onbus")
        /\ Listens(to)
        /\ heard' = IF to = Nobody THEN heard
                    ELSE [heard EXCEPT ![to] = IF k = 1 THEN <<piece>> ELSE Append(@, piece)]
        /\ IF k = Chunks
           THEN Return(c, k, "ok")
           ELSE /\ call' = [call EXCEPT ![c].pc = "queued", ![c].n = k, ![c].left = @ - t]
                /\ busq' = Append(Tail(busq), c)
                /\ timeout' = Default
                /\ UNCHANGED <<eos, aborted>>
        /\ UNCHANGED <<said, owed>>

ChunkSent(c, t) ==
    LET k == call[c].n + 1
        to == Audience(c, k)
        piece == [of |-> c, k |-> k, end |-> k = Chunks]
    IN  /\ In(c, "write", "onbus")
        /\ to # Nobody /\ (atn => Addresses(c, k))
        /\ IF Addresses(c, k) THEN Listens(c) ELSE UNCHANGED addressing
        /\ heard' = [heard EXCEPT ![to] = IF k = 1 THEN <<piece>> ELSE Append(@, piece)]
        /\ IF k = Chunks
           THEN Return(c, k, "ok")
           ELSE /\ call' = [call EXCEPT ![c].pc = "loop", ![c].n = k, ![c].left = @ - t]
                /\ UNCHANGED <<busq, settings, aborted>>
        /\ UNCHANGED <<said, owed>>

(* The chunk failed, and so does the call; the addressing may be done.  A  *)
(* timeout is told by its wording, and one that says "timed out" instead   *)
(* (the USBTMC backend's) is reported as an error.                         *)
ChunkFails(c, res) ==
    /\ In(c, "write", "onbus")
    /\ UNCHANGED addressing \/ (Addresses(c, call[c].n + 1) /\ Listens(c))
    /\ Return(c, call[c].n, res)
    /\ UNCHANGED <<heard, said, owed>>

-----------------------------------------------------------------------------
(* device_read.                                                            *)

(* What was collected goes back with the reply, or is lost with an error.  *)
Settle(c, n) == owed' = [owed EXCEPT ![c] = @ - n]

(* Before a slice, as before a chunk; the data so far is returned.         *)
ReadLoopAbortingEmptyHanded(c) ==
    /\ In(c, "read", "loop")
    /\ \/ aborted[c] /\ Return(c, 0, "abort") /\ UNCHANGED owed
       \/ ~aborted[c] /\ call[c].left <= 0 /\ Return(c, 0, "timeout") /\ Settle(c, call[c].n)
       \/ /\ ~aborted[c] /\ call[c].left > 0
          /\ timeout' = IF call[c].left < Slice THEN call[c].left ELSE Slice
          /\ call' = [call EXCEPT ![c].pc = "onbus"]
          /\ UNCHANGED <<busq, eos, aborted, owed>>
    /\ UNCHANGED <<addressing, heard, said>>

ReadLoop(c) ==
    /\ In(c, "read", "loop")
    /\ \/ aborted[c] /\ Return(c, 0, "abort") /\ Settle(c, call[c].n)
       \/ ~aborted[c] /\ call[c].left <= 0 /\ Return(c, 0, "timeout") /\ Settle(c, call[c].n)
       \/ /\ ~aborted[c] /\ call[c].left > 0
          /\ timeout' = IF call[c].left < Slice THEN call[c].left ELSE Slice
          /\ call' = [call EXCEPT ![c].pc = "onbus"]
          /\ UNCHANGED <<busq, eos, aborted, owed>>
    /\ UNCHANGED <<addressing, heard, said>>

(* A device link addresses its instrument for every slice; over the        *)
(* interface the client has established the talker.                        *)
Source(c) == IF ~is_interface(c) THEN c ELSE IF atn THEN Nobody ELSE talker
Established(c) == IF is_interface(c) THEN UNCHANGED addressing ELSE Talks(c)

(* The instrument says k more pieces; after the last it starts again.      *)
Says(i, k) ==
    IF i = Nobody THEN k = 0 /\ UNCHANGED said
    ELSE /\ k <= Say - said[i]
         /\ said' = [said EXCEPT ![i] = (@ + k) % Say]

(* An attempt returned k pieces in t units; an empty one is padded to the  *)
(* slice.  END, the terminator and a full request end the read.            *)
PacedNot(k, t) == t

Paced(k, t) == IF k = 0 THEN timeout ELSE t

SliceRead(c, k, t, chr) ==
    LET n == call[c].n + k
        end == k > 0 /\ said[Source(c)] + k = Say
    IN  /\ In(c, "read", "onbus")
        /\ k <= Request - call[c].n /\ Says(Source(c), k)
        /\ Established(c)
        /\ IF end \/ n = Request \/ (chr /\ k > 0)
           THEN Return(c, 0, "ok") /\ Settle(c, call[c].n)
           ELSE /\ call' = [call EXCEPT ![c].pc = "loop", ![c].n = n, ![c].left = @ - Paced(k, t)]
                /\ owed' = [owed EXCEPT ![c] = @ + k]
                /\ UNCHANGED <<busq, settings, aborted>>
        /\ UNCHANGED heard

(* An attempt that timed out with an error is no failure.  The pieces it   *)
(* had are gone with the transfer (82357).                                 *)
SliceTimesOut(c, k, t) ==
    /\ In(c, "read", "onbus")
    /\ Says(Source(c), k)
    /\ Established(c)
    /\ call' = [call EXCEPT ![c].pc = "loop", ![c].left = @ - (IF t < Floor THEN Floor ELSE t)]
    /\ UNCHANGED <<busq, settings, aborted, heard, owed>>

(* Any other error ends the call, and the data so far is not returned.     *)
SliceFails(c) ==
    /\ In(c, "read", "onbus")
    /\ Settle(c, call[c].n)
    /\ UNCHANGED addressing \/ (~is_interface(c) /\ Talks(c))
    /\ Return(c, 0, "error")
    /\ UNCHANGED <<heard, said>>
-----------------------------------------------------------------------------
(* device_docmd, and the clear and trigger of an interface link.           *)

HoldDocmd(c) ==
    /\ In(c, "docmd", "queued") /\ OnBus(c)
    /\ call' = [call EXCEPT ![c].pc = "onbus"]
    /\ UNCHANGED <<busq, settings, addressing, aborted, heard, said, owed>>

(* Send Command: any addressing, after UNL and UNT; it ends in standby.    *)
SendCommand(c) ==
    \/ \E i \in Conn \ {c} : Listens(i) \/ Talks(i)
    \/ Listens(Nobody)

(* Bus Status reads a line, or answers from the daemon's own state.        *)
bus_status == UNCHANGED addressing

(* IFC ends all addressing; after Bus Address nobody talks to us: what a   *)
(* talker was told to talk to is no longer our address.  The others, REN,  *)
(* DCL and GET, leave it.                                                  *)
docmd(c, cmd) ==
    CASE cmd = "send_command" -> SendCommand(c)
      [] cmd = "atn" -> atn' \in BOOLEAN /\ UNCHANGED <<interface, listener, talker>>
      [] cmd = "ifc" -> listener' = Nobody /\ talker' = Nobody /\ UNCHANGED <<interface, atn>>
      [] cmd = "bus_address" -> talker' = Nobody /\ UNCHANGED <<interface, listener, atn>>
      [] cmd = "bus_status" -> bus_status
      [] cmd = "other" -> UNCHANGED addressing

Cmd == {"send_command", "atn", "ifc", "bus_address", "bus_status", "other"}

(* It has no timeout of its own: it runs with the daemon's settings.  A    *)
(* failing command may have had its effect.  What it answers, an abort     *)
(* that came meanwhile included, is not kept.                              *)
DocmdDone(c, cmd) ==
    /\ In(c, "docmd", "onbus")
    /\ docmd(c, cmd) \/ UNCHANGED addressing
    /\ Return(c, 0, "none")
    /\ UNCHANGED <<heard, said, owed>>
-----------------------------------------------------------------------------
Transfer(c) ==
    /\ call[c].pc = "onbus"
    /\ \/ \E res \in {"timeout", "error"} : ChunkFails(c, res)
       \/ SliceFails(c)
       \/ \E cmd \in Cmd : DocmdDone(c, cmd)
       \/ \E t \in 0..timeout : ChunkSent(c, t)
       \/ \E t \in 0..timeout, k \in 0..Request :
             \/ \E chr \in BOOLEAN : SliceRead(c, k, t, chr)
             \/ SliceTimesOut(c, k, t)

CallStep(c) ==
    \/ HoldWrite(c) \/ HoldRead(c) \/ HoldDocmd(c) \/ WriteLoop(c) \/ ReadLoop(c) \/ Transfer(c)

Next ==
    \E c \in Conn :
        \/ \E op \in {"write", "read", "docmd"} : Call(c, op)
        \/ device_abort(c)
        \/ CallStep(c)

Spec == Init /\ [][Next]_vars

(* Bus operations end, the adapter has its timeouts, and the mutex is fair. *)
FairSpec == Spec /\ \A c \in Conn : WF_vars(CallStep(c))

-----------------------------------------------------------------------------
(* Properties.                                                             *)

(* The adapter's timeout and terminator are those of the daemon whenever   *)
(* no call has changed them for itself: another front-end's operation, a   *)
(* docmd or the next call never runs with what an aborted, failed or       *)
(* timed-out call left behind ("save, set what this read needs ... and     *)
(* restore").                                                              *)
SettingsRestored ==
    (\A c \in Conn : call[c].pc \in {"idle", "queued"} \/ call[c].op = "docmd")
        => timeout = Default /\ ~eos

(* What is transferred is whole.  An instrument hears the chunks of one    *)
(* message in order, of its own link's or of one of the interface link,    *)
(* never one in the other: only the first chunk addresses ("the rest of    *)
(* the message must not re-address"), so the later ones reach the same     *)
(* instrument only because nobody else had the bus since.  END comes with  *)
(* the last chunk and no other, and the size that goes back (RULES B.6.20, *)
(* B.6.21) is what was heard.  And a read loses nothing: every piece an    *)
(* instrument has said was given to the client, with an abort or a timeout *)
(* too (RULES B.6.27, B.6.29), or is in the call in progress, or went with *)
(* a bus operation that failed.                                            *)
TransfersWhole ==
    /\ \A d \in Conn : \A j \in DOMAIN heard[d] :
          /\ heard[d][j] = [of |-> heard[d][1].of, k |-> j, end |-> j = Chunks]
          /\ heard[d][j].of \in {d, interface}
    /\ \A c \in Conn : call[c].op = "write" /\ call[c].pc = "idle" =>
          /\ heard[c] # <<>> /\ heard[c][1].of = c /\ call[c].n > 0 => Len(heard[c]) = call[c].n
          /\ call[c].res = "ok" => call[c].n = Chunks
    /\ \A c \in Conn : owed[c] = IF call[c].op = "read" THEN call[c].n ELSE 0

(* A call never outstays its io_timeout on the bus: a write not at all     *)
(* ("so the hardware never waits longer than the client allowed"), a read  *)
(* by less than the wait that paces a failed attempt.                      *)
TenureBounded ==
    \A c \in Conn :
        /\ call[c].op = "write" => call[c].left >= 0
        /\ call[c].op = "read" => call[c].left > -Floor

(* Every call returns, however its attempts end: an instrument that says   *)
(* nothing, or an adapter that fails at once, cannot keep a read going     *)
(* ("must not turn this loop into a spin").                                *)
CallsReturn == \A c \in Conn : (call[c].pc # "idle") ~> (call[c].pc = "idle")
=============================================================================
