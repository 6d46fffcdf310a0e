--------------------------- MODULE Vxi11IoProofs ---------------------------
(***************************************************************************)
(* The I/O calls of the VXI-11 front-end for any number of connections,    *)
(* chunks and pieces, any budget and any table of timeout steps.  QueueInv *)
(* is the exclusion the bus mutex gives; what a call needs of the timeout, *)
(* the addressing and the message in progress is kept by it alone.         *)
(***************************************************************************)
EXTENDS Vxi11Io, TLAPS

Ops == {"none", "write", "read", "docmd"}
Pcs == {"idle", "queued", "loop", "onbus"}
Calls == [op : Ops, pc : Pcs, left : Int, n : Nat, res : Result]
Pieces == [of : Conn, k : Nat, end : BOOLEAN]

TypeInv ==
    /\ busq \in Seq(Conn) /\ timeout \in Nat
    /\ interface \in {Raw, Nobody}
    /\ listener \in Conn \cup {Nobody} /\ talker \in Conn \cup {Nobody}
    /\ call \in [Conn -> Calls]
    /\ heard \in [Conn -> Seq(Pieces)]
    /\ owed \in [Conn -> Int]

(* The call runs with the mutex.                                           *)
Runs(c) == call[c].pc \in {"loop", "onbus"}

QueueInv ==
    /\ \A i, j \in DOMAIN busq : busq[i] = busq[j] => i = j
    /\ \A c \in Conn : call[c].pc = "idle" => \A i \in DOMAIN busq : busq[i] # c
    /\ \A c \in Conn : Runs(c) => busq # <<>> /\ busq[1] = c

(* The adapter's timeout is within what the call on the bus has left.      *)
TimeOf(c) ==
    /\ call[c].left <= Budget
    /\ call[c].op = "write" => call[c].left >= 0
    /\ call[c].op = "read" => call[c].left > -Floor
    /\ call[c].pc = "onbus" /\ call[c].op \in {"write", "read"} =>
          call[c].left > 0 /\ timeout <= call[c].left

TimeInv == \A c \in Conn : TimeOf(c)

(* The data.  Bare: no transfer of the interface link reaches an           *)
(* instrument of its own, for there is none.  Writing: between two chunks  *)
(* the instrument that heard the first still listens.  Told: what it heard *)
(* in the end is what the client was told.                                 *)
Bare == interface \in Conn => listener # interface /\ heard[interface] = <<>>

MessageOf(d) ==
    \A j \in DOMAIN heard[d] :
        /\ heard[d][j] = [of |-> heard[d][1].of, k |-> j, end |-> j = Chunks]
        /\ heard[d][j].of \in {d, interface}

Hears(d, c, n) == heard[d] # <<>> /\ heard[d][1].of = c /\ Len(heard[d]) = n

Writing(c) ==
    call[c].op = "write" =>
        /\ call[c].pc = "queued" => call[c].n = 0
        /\ Runs(c) /\ call[c].n > 0 =>
              /\ listener \in Conn /\ Hears(listener, c, call[c].n)
              /\ ~is_interface(c) => listener = c

Told(c) ==
    call[c].op = "write" /\ call[c].pc = "idle" =>
        /\ heard[c] # <<>> /\ heard[c][1].of = c /\ call[c].n > 0 => Len(heard[c]) = call[c].n
        /\ call[c].res = "ok" => call[c].n = Chunks

Owing(c) ==
    /\ owed[c] = IF call[c].op = "read" THEN call[c].n ELSE 0
    /\ call[c].op = "read" /\ call[c].pc = "idle" => call[c].n = 0
    /\ call[c].op = "docmd" => is_interface(c)

DataInv == Bare /\ \A c \in Conn : MessageOf(c) /\ Writing(c) /\ Told(c) /\ Owing(c)

IoInv == TypeInv /\ QueueInv /\ TimeInv /\ DataInv /\ SettingsRestored

-----------------------------------------------------------------------------
(* Sequences: a queue, one element longer and one shorter.                 *)
LEMMA SeqFacts ==
    ASSUME NEW S, NEW q \in Seq(S)
    PROVE  /\ Len(q) \in Nat /\ DOMAIN q = 1..Len(q)
           /\ q = <<>> <=> Len(q) = 0
           /\ \A i \in DOMAIN q : q[i] \in S
           /\ q # <<>> => Head(q) = q[1] /\ q[1] \in S
OBVIOUS

(* A queue with one more at its end.                                       *)
LEMMA AppendFacts ==
    ASSUME NEW S, NEW q \in Seq(S), NEW e \in S
    PROVE  /\ Append(q, e) \in Seq(S) /\ Len(Append(q, e)) = Len(q) + 1
           /\ DOMAIN Append(q, e) = 1..(Len(q) + 1)
           /\ \A i \in DOMAIN q : Append(q, e)[i] = q[i]
           /\ Append(q, e)[Len(q) + 1] = e
           /\ Append(q, e) # <<>>
OBVIOUS

(* A queue without its first.                                              *)
LEMMA TailFacts ==
    ASSUME NEW S, NEW q \in Seq(S), q # <<>>
    PROVE  /\ Tail(q) \in Seq(S) /\ Len(Tail(q)) = Len(q) - 1
           /\ DOMAIN Tail(q) = 1..(Len(q) - 1)
           /\ \A i \in 1..(Len(q) - 1) : i + 1 \in DOMAIN q /\ Tail(q)[i] = q[i + 1]
OBVIOUS

(* One connection's call becomes r, the others stay.                       *)
Becomes(c, r) == call' = [call EXCEPT ![c] = r]

(* The calls after such a step.                                            *)
LEMMA CallFacts ==
    ASSUME TypeInv, NEW c \in Conn, NEW r \in Calls, Becomes(c, r)
    PROVE  /\ call' \in [Conn -> Calls] /\ call'[c] = r
           /\ \A d \in Conn : d # c => call'[d] = call[d]
BY DEF TypeInv, Becomes

(* The longest step within what is left is there, and within it.           *)
LEMMA FloorFits ==
    ASSUME NEW left \in 1..Budget
    PROVE  adapter_floor_ms(left) \in Nat /\ adapter_floor_ms(left) <= left
<1> DEFINE Fits == {s \in Steps : s <= left}
<1>1. \E s \in Fits : \A u \in Fits : s >= u
  <2>1. PICK s \in Steps : s <= left /\ \A u \in Steps : u <= left => u <= s
    BY StepsAssumption
  <2>2. \A u \in Fits : u \in Nat /\ s \in Nat
    BY <2>1, IoAssumption
  <2> QED BY <2>1, <2>2
<1>2. adapter_floor_ms(left) \in Fits
  BY <1>1 DEF adapter_floor_ms, Max
<1> QED BY <1>2, IoAssumption, Zenon

-----------------------------------------------------------------------------
(* What a step leaves of the calls: c's moves on, or returns.              *)
OthersStay(c) == call' \in [Conn -> Calls] /\ \A d \in Conn : d # c => call'[d] = call[d]

Moved(c, pc, n, left) ==
    /\ OthersStay(c)
    /\ call'[c].op = call[c].op /\ call'[c].pc = pc
    /\ call'[c].left = left /\ call'[c].n = n /\ call'[c].res = call[c].res

Returned(c, n, res) ==
    /\ OthersStay(c)
    /\ call'[c].op = call[c].op /\ call'[c].pc = "idle"
    /\ call'[c].left = 0 /\ call'[c].n = n /\ call'[c].res = res
    /\ busq' = Tail(busq)
    /\ timeout' = Default /\ eos' = FALSE

(* Return leaves the call idle with its result, and the settings back.     *)
LEMMA ReturnShape ==
    ASSUME TypeInv, NEW c \in Conn, NEW n \in Nat, NEW res \in Result, Return(c, n, res)
    PROVE  Returned(c, n, Outcome(c, res)) /\ Outcome(c, res) \in Result
<1> DEFINE r == [op |-> call[c].op, pc |-> "idle", left |-> 0, n |-> n, res |-> Outcome(c, res)]
<1>1. Outcome(c, res) \in Result
  BY DEF Outcome, Result
<1>2. r \in Calls
  BY <1>1 DEF TypeInv, Calls, Pcs
<1>3. Becomes(c, r)
  BY DEF Return, Becomes
<1> QED BY <1>1, <1>2, <1>3, CallFacts DEF Returned, OthersStay, Return

(* A call that goes on, with more transferred and less time.               *)
LEMMA MoveShape ==
    ASSUME TypeInv, NEW c \in Conn, NEW pc \in Pcs, NEW n \in Nat, NEW left \in Int,
           call' = [call EXCEPT ![c].pc = pc, ![c].n = n, ![c].left = left]
    PROVE  Moved(c, pc, n, left)
<1>0. call[c] \in Calls
  BY DEF TypeInv
<1>1. \A d \in Conn : d # c => call'[d] = call[d]
  BY DEF TypeInv
<1>2. call'[c] \in Calls
  BY <1>0, Zenon DEF Calls, TypeInv
<1>3. call' \in [Conn -> Calls]
  BY <1>1, <1>2 DEF TypeInv
<1>4. /\ call'[c].op = call[c].op /\ call'[c].pc = pc
      /\ call'[c].left = left /\ call'[c].n = n /\ call'[c].res = call[c].res
  BY <1>0 DEF TypeInv, Calls
<1> QED BY <1>1, <1>3, <1>4 DEF Moved, OthersStay

(* The same when nothing is transferred.                                   *)
LEMMA LeftShape ==
    ASSUME TypeInv, NEW c \in Conn, NEW pc \in Pcs, NEW left \in Int,
           call' = [call EXCEPT ![c].pc = pc, ![c].left = left]
    PROVE  Moved(c, pc, call[c].n, left)
<1>0. call[c] \in Calls
  BY DEF TypeInv
<1>1. \A d \in Conn : d # c => call'[d] = call[d]
  BY DEF TypeInv
<1>2. call'[c] \in Calls
  BY <1>0, Zenon DEF Calls, TypeInv, Pcs
<1>3. call' \in [Conn -> Calls]
  BY <1>1, <1>2 DEF TypeInv
<1>4. /\ call'[c].op = call[c].op /\ call'[c].pc = pc
      /\ call'[c].left = left /\ call'[c].n = call[c].n /\ call'[c].res = call[c].res
  BY <1>0 DEF TypeInv, Calls
<1> QED BY <1>1, <1>3, <1>4 DEF Moved, OthersStay

(* The same when no time passes.                                           *)
LEMMA PcShape ==
    ASSUME TypeInv, NEW c \in Conn, NEW pc \in Pcs, call' = [call EXCEPT ![c].pc = pc]
    PROVE  Moved(c, pc, call[c].n, call[c].left)
<1>0. call[c] \in Calls
  BY DEF TypeInv
<1>1. \A d \in Conn : d # c => call'[d] = call[d]
  BY DEF TypeInv
<1>2. call'[c] \in Calls
  BY <1>0, Zenon DEF Calls, TypeInv, Pcs
<1>3. call' \in [Conn -> Calls]
  BY <1>1, <1>2 DEF TypeInv
<1>4. /\ call'[c].op = call[c].op /\ call'[c].pc = pc
      /\ call'[c].left = call[c].left /\ call'[c].n = call[c].n /\ call'[c].res = call[c].res
  BY <1>0 DEF TypeInv, Calls
<1> QED BY <1>1, <1>3, <1>4 DEF Moved, OthersStay

(* A call's own steps: it returns, or goes on with the mutex.              *)
ReturnStep(c) == Runs(c) /\ \E n \in Nat, res \in Result : Returned(c, n, res)

MoveStep(c) ==
    /\ OnBus(c) \/ Runs(c)
    /\ \E pc \in {"loop", "onbus"}, n \in Nat, left \in Int : Moved(c, pc, n, left)
    /\ busq' = busq

(* The types the arithmetic below needs.                                   *)
LEMMA Typed ==
    ASSUME TypeInv, NEW c \in Conn
    PROVE  /\ call[c] \in Calls /\ call[c].n \in Nat /\ call[c].left \in Int
           /\ call[c].res \in Result
           /\ {"loop", "onbus", "idle", "queued"} \subseteq Pcs
           /\ {"ok", "abort", "timeout", "error", "none"} \subseteq Result
           /\ timeout \in Nat /\ Floor \in Nat /\ Budget \in Nat /\ Slice \in Nat
           /\ Floor > 0 /\ Slice > 0 /\ Budget > 0
<1>1. call[c] \in Calls
  BY DEF TypeInv
<1>2. call[c].n \in Nat /\ call[c].left \in Int /\ call[c].res \in Result
  BY <1>1 DEF Calls
<1>3. /\ {"loop", "onbus", "idle", "queued"} \subseteq Pcs
      /\ {"ok", "abort", "timeout", "error", "none"} \subseteq Result
  BY DEF Pcs, Result
<1>4. /\ Floor \in Nat /\ Budget \in Nat /\ Slice \in Nat
      /\ Floor > 0 /\ Slice > 0 /\ Budget > 0
  BY IoAssumption
<1> QED BY <1>1, <1>2, <1>3, <1>4 DEF TypeInv

(* The three ways to get the bus.                                          *)
LEMMA HoldShape ==
    ASSUME TypeInv, NEW c \in Conn
    PROVE  /\ HoldWrite(c) => \E rest \in 0..Budget : Moved(c, "loop", call[c].n, rest)
           /\ HoldRead(c) => Moved(c, "loop", call[c].n, call[c].left)
           /\ HoldDocmd(c) => Moved(c, "onbus", call[c].n, call[c].left)
<1>1. ASSUME HoldWrite(c) PROVE \E rest \in 0..Budget : Moved(c, "loop", call[c].n, rest)
  <2>1. PICK rest \in 0..Budget : call' = [call EXCEPT ![c].pc = "loop", ![c].left = rest]
    BY <1>1, Zenon DEF HoldWrite
  <2>2. rest \in Int
    OBVIOUS
  <2> QED BY <2>1, <2>2, LeftShape, Typed, Zenon
<1>2. ASSUME HoldRead(c) PROVE Moved(c, "loop", call[c].n, call[c].left)
  BY <1>2, PcShape, Typed, Zenon DEF HoldRead
<1>3. ASSUME HoldDocmd(c) PROVE Moved(c, "onbus", call[c].n, call[c].left)
  BY <1>3, PcShape, Typed, Zenon DEF HoldDocmd
<1> QED BY <1>1, <1>2, <1>3

(* The write's steps on the bus.                                           *)
LEMMA WriteShape ==
    ASSUME TypeInv, NEW c \in Conn
    PROVE  /\ WriteLoop(c) =>
                 \/ \E res \in {"abort", "timeout"} : Returned(c, call[c].n, res)
                 \/ /\ Moved(c, "onbus", call[c].n, call[c].left)
                    /\ call[c].left > 0 /\ timeout' = adapter_floor_ms(call[c].left)
                    /\ busq' = busq
           /\ \A t \in 0..timeout : ChunkSent(c, t) =>
                 \/ /\ call[c].n + 1 = Chunks
                    /\ \E res \in Result : Returned(c, Chunks, res)
                 \/ /\ call[c].n + 1 # Chunks
                    /\ Moved(c, "loop", call[c].n + 1, call[c].left - t)
                    /\ UNCHANGED <<busq, timeout, eos>>
           /\ \A res \in {"timeout", "error"} : ChunkFails(c, res) =>
                 Returned(c, call[c].n, res)
<1>1. ASSUME WriteLoop(c)
      PROVE  \/ \E res \in {"abort", "timeout"} : Returned(c, call[c].n, res)
             \/ /\ Moved(c, "onbus", call[c].n, call[c].left)
                /\ call[c].left > 0 /\ timeout' = adapter_floor_ms(call[c].left)
                /\ busq' = busq
  <2>1. CASE Return(c, call[c].n, "abort")
    BY <2>1, ReturnShape, Typed DEF Outcome
  <2>2. CASE Return(c, call[c].n, "timeout")
    BY <2>2, ReturnShape, Typed DEF Outcome
  <2>3. CASE call' = [call EXCEPT ![c].pc = "onbus"] /\ call[c].left > 0
             /\ timeout' = adapter_floor_ms(call[c].left) /\ busq' = busq
    BY <2>3, PcShape, Typed, Zenon
  <2> QED BY <1>1, <2>1, <2>2, <2>3 DEF WriteLoop
<1>2. ASSUME NEW t \in 0..timeout, ChunkSent(c, t)
      PROVE  \/ /\ call[c].n + 1 = Chunks
                /\ \E res \in Result : Returned(c, Chunks, res)
             \/ /\ call[c].n + 1 # Chunks
                /\ Moved(c, "loop", call[c].n + 1, call[c].left - t)
                /\ UNCHANGED <<busq, timeout, eos>>
  <2>1. CASE call[c].n + 1 = Chunks /\ Return(c, call[c].n + 1, "ok")
    BY <2>1, ReturnShape, Typed, IoAssumption
  <2>2. CASE /\ call[c].n + 1 # Chunks /\ UNCHANGED <<busq, settings, aborted>>
             /\ call' = [call EXCEPT ![c].pc = "loop", ![c].n = call[c].n + 1,
                                     ![c].left = call[c].left - t]
    <3>1. call[c].n + 1 \in Nat /\ call[c].left - t \in Int
      BY Typed
    <3> QED BY <2>2, <3>1, MoveShape, Typed, Zenon DEF settings
  <2> QED BY <1>2, <2>1, <2>2 DEF ChunkSent
<1>3. ASSUME NEW res \in {"timeout", "error"}, ChunkFails(c, res)
      PROVE  Returned(c, call[c].n, res)
  <2>1. Return(c, call[c].n, res) /\ res \in Result
    BY <1>3, Typed DEF ChunkFails
  <2>2. Outcome(c, res) = res
    BY DEF Outcome
  <2> QED BY <2>1, <2>2, ReturnShape, Typed
<1> QED BY <1>1, <1>2, <1>3

(* The read's.                                                             *)
LEMMA ReadShape ==
    ASSUME TypeInv, NEW c \in Conn
    PROVE  /\ ReadLoop(c) =>
                 \/ (\E res \in Result : Returned(c, 0, res)) /\ Settle(c, call[c].n)
                 \/ /\ Moved(c, "onbus", call[c].n, call[c].left)
                    /\ call[c].left > 0 /\ timeout' \in 1..call[c].left
                    /\ busq' = busq /\ owed' = owed
           /\ \A k \in 0..Request, t \in 0..timeout, chr \in BOOLEAN :
                 SliceRead(c, k, t, chr) =>
                    \/ (\E res \in Result : Returned(c, 0, res)) /\ Settle(c, call[c].n)
                    \/ /\ \E u \in 0..timeout : Moved(c, "loop", call[c].n + k, call[c].left - u)
                       /\ owed' = [owed EXCEPT ![c] = @ + k]
                       /\ UNCHANGED <<busq, timeout, eos>>
           /\ \A k \in 0..Request, t \in 0..timeout :
                 SliceTimesOut(c, k, t) =>
                    /\ \E u \in 0..timeout \cup {Floor} :
                          Moved(c, "loop", call[c].n, call[c].left - u)
                    /\ UNCHANGED <<busq, timeout, eos, owed>>
           /\ SliceFails(c) =>
                 (\E res \in Result : Returned(c, 0, res)) /\ Settle(c, call[c].n)
<1>1. ASSUME ReadLoop(c)
      PROVE  \/ (\E res \in Result : Returned(c, 0, res)) /\ Settle(c, call[c].n)
             \/ /\ Moved(c, "onbus", call[c].n, call[c].left)
                /\ call[c].left > 0 /\ timeout' \in 1..call[c].left
                /\ busq' = busq /\ owed' = owed
  <2>1. CASE Return(c, 0, "abort") /\ Settle(c, call[c].n)
    BY <2>1, ReturnShape, Typed
  <2>2. CASE Return(c, 0, "timeout") /\ Settle(c, call[c].n)
    BY <2>2, ReturnShape, Typed
  <2>3. CASE /\ call[c].left > 0
             /\ timeout' = IF call[c].left < Slice THEN call[c].left ELSE Slice
             /\ call' = [call EXCEPT ![c].pc = "onbus"]
             /\ UNCHANGED <<busq, eos, aborted, owed>>
    <3>1. Moved(c, "onbus", call[c].n, call[c].left)
      BY <2>3, PcShape, Typed, Zenon
    <3>2. timeout' \in 1..call[c].left
      BY <2>3, Typed
    <3> QED BY <2>3, <3>1, <3>2
  <2> QED BY <1>1, <2>1, <2>2, <2>3 DEF ReadLoop
<1>2. ASSUME NEW k \in 0..Request, NEW t \in 0..timeout, NEW chr \in BOOLEAN,
             SliceRead(c, k, t, chr)
      PROVE  \/ (\E res \in Result : Returned(c, 0, res)) /\ Settle(c, call[c].n)
             \/ /\ \E u \in 0..timeout : Moved(c, "loop", call[c].n + k, call[c].left - u)
                /\ owed' = [owed EXCEPT ![c] = @ + k]
                /\ UNCHANGED <<busq, timeout, eos>>
  <2>1. CASE Return(c, 0, "ok") /\ Settle(c, call[c].n)
    BY <2>1, ReturnShape, Typed
  <2>2. CASE /\ call' = [call EXCEPT ![c].pc = "loop", ![c].n = call[c].n + k,
                                     ![c].left = call[c].left - Paced(k, t)]
             /\ owed' = [owed EXCEPT ![c] = @ + k]
             /\ UNCHANGED <<busq, settings, aborted>>
    <3>1. Paced(k, t) \in 0..timeout
      BY Typed DEF Paced
    <3>2. call[c].n + k \in Nat /\ call[c].left - Paced(k, t) \in Int
      BY <3>1, Typed, IoAssumption
    <3>3. Moved(c, "loop", call[c].n + k, call[c].left - Paced(k, t))
      BY <2>2, <3>2, MoveShape, Typed, Zenon
    <3> QED BY <2>2, <3>1, <3>3 DEF settings
  <2> QED BY <1>2, <2>1, <2>2 DEF SliceRead
<1>3. ASSUME NEW k \in 0..Request, NEW t \in 0..timeout, SliceTimesOut(c, k, t)
      PROVE  /\ \E u \in 0..timeout \cup {Floor} : Moved(c, "loop", call[c].n, call[c].left - u)
             /\ UNCHANGED <<busq, timeout, eos, owed>>
  <2> DEFINE u == IF t < Floor THEN Floor ELSE t
  <2>1. u \in 0..timeout \cup {Floor} /\ call[c].left - u \in Int
    BY Typed
  <2>2. call' = [call EXCEPT ![c].pc = "loop", ![c].left = call[c].left - u]
    BY <1>3 DEF SliceTimesOut
  <2>3. Moved(c, "loop", call[c].n, call[c].left - u)
    <3> HIDE DEF u
    <3> QED BY <2>1, <2>2, LeftShape, Typed, Zenon
  <2> QED BY <1>3, <2>1, <2>3 DEF SliceTimesOut, settings
<1>4. ASSUME SliceFails(c)
      PROVE  (\E res \in Result : Returned(c, 0, res)) /\ Settle(c, call[c].n)
  BY <1>4, ReturnShape, Typed DEF SliceFails
<1> QED BY <1>1, <1>2, <1>3, <1>4

(* Whatever the step, one of the two.                                      *)
LEMMA StepShape ==
    ASSUME TypeInv, NEW c \in Conn, CallStep(c)
    PROVE  ReturnStep(c) \/ MoveStep(c)
<1>1. CASE HoldWrite(c) \/ HoldRead(c) \/ HoldDocmd(c)
  <2>1. OnBus(c) /\ busq' = busq
    BY <1>1 DEF HoldWrite, HoldRead, HoldDocmd
  <2>2. \A rest \in 0..Budget : rest \in Int
    OBVIOUS
  <2> QED BY <1>1, <2>1, <2>2, HoldShape, Typed DEF MoveStep
<1>2. CASE WriteLoop(c)
  <2>1. Runs(c)
    BY <1>2 DEF WriteLoop, In, Runs
  <2> QED BY <1>2, <2>1, WriteShape, Typed DEF MoveStep, ReturnStep
<1>3. CASE ReadLoop(c)
  <2>1. Runs(c)
    BY <1>3 DEF ReadLoop, In, Runs
  <2> QED BY <1>3, <2>1, ReadShape, Typed DEF MoveStep, ReturnStep
<1>4. CASE Transfer(c)
  <2>1. Runs(c)
    BY <1>4 DEF Transfer, Runs
  <2>2. CASE \E res \in {"timeout", "error"} : ChunkFails(c, res)
    BY <2>1, <2>2, WriteShape, Typed DEF ReturnStep
  <2>3. CASE SliceFails(c)
    BY <2>1, <2>3, ReadShape, Typed DEF ReturnStep
  <2>4. CASE \E cmd \in Cmd : DocmdDone(c, cmd)
    BY <2>1, <2>4, ReturnShape, Typed DEF ReturnStep, DocmdDone
  <2>5. ASSUME NEW t \in 0..timeout, ChunkSent(c, t) PROVE ReturnStep(c) \/ MoveStep(c)
    <3>1. call[c].n + 1 \in Nat /\ call[c].left - t \in Int /\ Chunks \in Nat
      BY Typed, IoAssumption
    <3> QED BY <2>1, <2>5, <3>1, WriteShape DEF ReturnStep, MoveStep
  <2>6. ASSUME NEW t \in 0..timeout, NEW k \in 0..Request, NEW chr \in BOOLEAN,
               SliceRead(c, k, t, chr)
        PROVE  ReturnStep(c) \/ MoveStep(c)
    <3>1. \A u \in 0..timeout : call[c].n + k \in Nat /\ call[c].left - u \in Int
      BY Typed, IoAssumption
    <3> QED BY <2>1, <2>6, <3>1, ReadShape DEF ReturnStep, MoveStep
  <2>7. ASSUME NEW t \in 0..timeout, NEW k \in 0..Request, SliceTimesOut(c, k, t)
        PROVE  ReturnStep(c) \/ MoveStep(c)
    <3>1. \A u \in 0..timeout \cup {Floor} : call[c].n \in Nat /\ call[c].left - u \in Int
      BY Typed, IoAssumption
    <3> QED BY <2>1, <2>7, <3>1, ReadShape DEF ReturnStep, MoveStep
  <2> QED BY <1>4, <2>2, <2>3, <2>4, <2>5, <2>6, <2>7 DEF Transfer
<1> QED BY <1>1, <1>2, <1>3, <1>4 DEF CallStep

-----------------------------------------------------------------------------
(* Exclusion: a step of c keeps the queue's invariant.                     *)
LEMMA QueueReturn ==
    ASSUME TypeInv, QueueInv, NEW c \in Conn, ReturnStep(c)
    PROVE  QueueInv' /\ busq' \in Seq(Conn) /\ \A d \in Conn : ~Runs(d)'
<1>1. busq # <<>> /\ busq[1] = c /\ busq' = Tail(busq)
  BY DEF QueueInv, ReturnStep, Returned
<1>2. call'[c].pc = "idle" /\ \A d \in Conn : d # c => call'[d] = call[d]
  BY DEF ReturnStep, Returned, OthersStay
<1>3. /\ busq' \in Seq(Conn) /\ Len(busq) \in Nat /\ DOMAIN busq = 1..Len(busq)
      /\ DOMAIN busq' = 1..(Len(busq) - 1) /\ Len(busq) > 0
      /\ \A i \in 1..(Len(busq) - 1) : i + 1 \in DOMAIN busq /\ busq'[i] = busq[i + 1]
  <2>1. busq \in Seq(Conn)
    BY DEF TypeInv
  <2> QED BY <1>1, <2>1, SeqFacts, TailFacts
<1>4. ASSUME NEW i \in DOMAIN busq', NEW j \in DOMAIN busq', busq'[i] = busq'[j] PROVE i = j
  <2>1. i + 1 = j + 1
    BY <1>3, <1>4, Zenon DEF QueueInv
  <2> QED BY <1>3, <2>1
<1>5. \A i \in DOMAIN busq' : busq'[i] # c
  BY <1>1, <1>3 DEF QueueInv
<1>6. \A d \in Conn : call'[d].pc = "idle" => \A i \in DOMAIN busq' : busq'[i] # d
  <2>1. ASSUME NEW d \in Conn, d # c, call'[d].pc = "idle", NEW i \in DOMAIN busq'
        PROVE  busq'[i] # d
    <3>1. call[d].pc = "idle"
      BY <1>2, <2>1
    <3> QED BY <1>3, <2>1, <3>1, Zenon DEF QueueInv
  <2> QED BY <1>5, <2>1
<1>7. \A d \in Conn : ~Runs(d)'
  <2>1. ASSUME NEW d \in Conn, d # c PROVE ~Runs(d)
    BY <1>1, <2>1 DEF QueueInv
  <2> QED BY <1>2, <2>1 DEF Runs
<1> QED BY <1>3, <1>4, <1>6, <1>7, Zenon DEF QueueInv

(* A call that goes on keeps the mutex.                                    *)
LEMMA QueueMove ==
    ASSUME TypeInv, QueueInv, NEW c \in Conn, MoveStep(c)
    PROVE  QueueInv' /\ busq' \in Seq(Conn) /\ \A d \in Conn : d # c => ~Runs(d) /\ ~Runs(d)'
<1>1. busq # <<>> /\ busq[1] = c /\ busq' = busq /\ busq \in Seq(Conn)
  <2>1. busq \in Seq(Conn)
    BY DEF TypeInv
  <2> QED BY <2>1, SeqFacts DEF MoveStep, OnBus, QueueInv
<1>2. call'[c].pc # "idle" /\ \A d \in Conn : d # c => call'[d] = call[d]
  BY DEF MoveStep, Moved, OthersStay
<1>3. \A d \in Conn : d # c => ~Runs(d) /\ ~Runs(d)'
  BY <1>1, <1>2 DEF QueueInv, Runs
<1>4. \A d \in Conn : call'[d].pc = "idle" => \A i \in DOMAIN busq' : busq'[i] # d
  BY <1>1, <1>2 DEF QueueInv
<1> QED BY <1>1, <1>3, <1>4 DEF QueueInv

(* A new call queues behind the others.                                    *)
LEMMA QueueCall ==
    ASSUME TypeInv, QueueInv, NEW c \in Conn, NEW op \in Ops, Call(c, op)
    PROVE  /\ QueueInv' /\ busq' \in Seq(Conn) /\ OthersStay(c)
           /\ call'[c] = [op |-> op, pc |-> "queued", left |-> Budget, n |-> 0, res |-> "none"]
<1>1. call[c].pc = "idle" /\ busq' = Append(busq, c) /\ busq \in Seq(Conn)
  BY DEF Call, TypeInv
<1>2. /\ OthersStay(c)
      /\ call'[c] = [op |-> op, pc |-> "queued", left |-> Budget, n |-> 0, res |-> "none"]
  <2> DEFINE r == [op |-> op, pc |-> "queued", left |-> Budget, n |-> 0, res |-> "none"]
  <2>1. r \in Calls
    BY IoAssumption DEF Calls, Pcs, Result
  <2>2. Becomes(c, r)
    BY DEF Call, Becomes
  <2> QED BY <2>1, <2>2, CallFacts DEF OthersStay
<1>3. /\ busq' \in Seq(Conn) /\ Len(busq) \in Nat /\ DOMAIN busq = 1..Len(busq)
      /\ DOMAIN busq' = 1..(Len(busq) + 1) /\ busq' # <<>>
      /\ \A i \in DOMAIN busq : busq'[i] = busq[i]
      /\ busq'[Len(busq) + 1] = c
  BY <1>1, SeqFacts, AppendFacts
<1>4. \A i \in DOMAIN busq : busq[i] # c
  BY <1>1 DEF QueueInv
<1>5. \A i, j \in DOMAIN busq' : busq'[i] = busq'[j] => i = j
  BY <1>3, <1>4 DEF QueueInv
<1>6. ASSUME NEW d \in Conn, call'[d].pc = "idle", NEW i \in DOMAIN busq' PROVE busq'[i] # d
  <2>1. d # c /\ call[d].pc = "idle"
    BY <1>2, <1>6 DEF OthersStay
  <2> QED BY <1>3, <1>6, <2>1 DEF QueueInv
<1>7. ASSUME NEW d \in Conn, Runs(d)' PROVE busq'[1] = d
  <2>1. d # c /\ Runs(d)
    BY <1>2, <1>7 DEF OthersStay, Runs
  <2>2. busq # <<>> /\ busq[1] = d
    BY <2>1 DEF QueueInv
  <2>3. 1 \in DOMAIN busq
    BY <1>1, <1>3, <2>2, SeqFacts
  <2> QED BY <1>3, <2>2, <2>3
<1> QED BY <1>2, <1>3, <1>5, <1>6, <1>7 DEF QueueInv

-----------------------------------------------------------------------------
(* The time a call has left, and the timeout it set from it.               *)
LEMMA TimeReturn ==
    ASSUME TypeInv, QueueInv, TimeInv, NEW c \in Conn, ReturnStep(c)
    PROVE  TimeInv' /\ timeout' \in Nat
<1>1. \A d \in Conn : ~Runs(d)'
  BY QueueReturn
<1>2. call'[c].left = 0 /\ timeout' = Default
  BY DEF ReturnStep, Returned
<1>3. \A d \in Conn : d # c => call'[d] = call[d]
  BY DEF ReturnStep, Returned, OthersStay
<1>4. ASSUME NEW d \in Conn PROVE TimeOf(d)'
  <2>1. call'[d].left \in Int /\ Floor \in Nat /\ Floor > 0 /\ Budget \in Nat
    BY <1>2, <1>3, Typed
  <2>2. call'[d].pc # "onbus"
    BY <1>1 DEF Runs
  <2> QED BY <1>2, <1>3, <2>1, <2>2 DEF TimeInv, TimeOf
<1> QED BY <1>2, <1>4, IoAssumption DEF TimeInv

(* While c moves nobody else is on the bus, and only c's time matters.     *)
LEMMA TimeMove ==
    ASSUME TypeInv, QueueInv, TimeInv, NEW c \in Conn, MoveStep(c), TimeOf(c)'
    PROVE  TimeInv'
<1>1. \A d \in Conn : d # c => ~Runs(d)' /\ call'[d] = call[d]
  BY QueueMove DEF MoveStep, Moved, OthersStay
<1>2. ASSUME NEW d \in Conn, d # c PROVE TimeOf(d)'
  BY <1>1, <1>2 DEF TimeInv, TimeOf, Runs
<1> QED BY <1>2, Zenon DEF TimeInv

(* Each step of a call leaves it time, and the timeout within it.          *)
LEMMA TimeStep ==
    ASSUME TypeInv, QueueInv, TimeInv, NEW c \in Conn, CallStep(c)
    PROVE  TimeInv' /\ timeout' \in Nat
<1>0. TimeOf(c) /\ timeout \in Nat
  BY DEF TimeInv, TypeInv
<1>1. CASE ReturnStep(c)
  BY <1>1, TimeReturn
<1>2. CASE MoveStep(c)
  <2> SUFFICES TimeOf(c)' /\ timeout' \in Nat
    BY <1>2, TimeMove
  <2>1. call'[c].pc # "idle"
    BY <1>2 DEF MoveStep, Moved
  <2>2. CASE HoldWrite(c)
    <3>1. PICK rest \in 0..Budget : Moved(c, "loop", call[c].n, rest)
      BY <2>2, HoldShape
    <3>2. call[c].op = "write" /\ timeout' = timeout
      BY <2>2 DEF HoldWrite, In, settings
    <3> QED BY <1>0, <3>1, <3>2, Typed DEF Moved, TimeOf
  <2>3. CASE HoldRead(c) \/ HoldDocmd(c)
    <3>1. timeout' = timeout /\ call'[c].op = call[c].op /\ call'[c].left = call[c].left
      BY <2>3, HoldShape, Zenon DEF HoldRead, HoldDocmd, settings, Moved
    <3>2. call'[c].pc = "loop" \/ call'[c].op = "docmd"
      BY <2>3, HoldShape DEF HoldDocmd, In, Moved
    <3> QED BY <1>0, <3>1, <3>2 DEF TimeOf
  <2>4. CASE WriteLoop(c)
    <3>1. /\ Moved(c, "onbus", call[c].n, call[c].left)
          /\ call[c].left > 0 /\ timeout' = adapter_floor_ms(call[c].left)
      BY <2>1, <2>4, WriteShape, Zenon DEF Returned
    <3>2. call[c].left \in 1..Budget
      BY <1>0, <3>1, Typed DEF TimeOf
    <3>3. timeout' \in Nat /\ timeout' <= call[c].left
      BY <3>1, <3>2, FloorFits
    <3> QED BY <1>0, <3>1, <3>3 DEF Moved, TimeOf
  <2>5. CASE ReadLoop(c)
    <3>1. /\ Moved(c, "onbus", call[c].n, call[c].left)
          /\ call[c].left > 0 /\ timeout' \in 1..call[c].left
      BY <2>1, <2>5, ReadShape, Zenon DEF Returned
    <3>2. timeout' \in Nat /\ timeout' <= call[c].left
      BY <3>1, Typed
    <3> QED BY <1>0, <3>1, <3>2 DEF Moved, TimeOf
  <2>6. CASE Transfer(c)
    <3>0. call[c].op \in {"write", "read"} => call[c].left > 0 /\ timeout <= call[c].left
      BY <1>0, <2>6 DEF TimeOf, Transfer
    <3>1. ASSUME NEW t \in 0..timeout, ChunkSent(c, t) PROVE TimeOf(c)' /\ timeout' \in Nat
      <4>1. Moved(c, "loop", call[c].n + 1, call[c].left - t) /\ timeout' = timeout
        BY <2>1, <3>1, WriteShape, Zenon DEF Returned
      <4>2. call[c].op = "write"
        BY <3>1 DEF ChunkSent, In
      <4> QED BY <1>0, <3>0, <4>1, <4>2, Typed DEF Moved, TimeOf
    <3>2. ASSUME NEW t \in 0..timeout, NEW k \in 0..Request, NEW chr \in BOOLEAN,
                 SliceRead(c, k, t, chr)
          PROVE  TimeOf(c)' /\ timeout' \in Nat
      <4>1. PICK u \in 0..timeout : Moved(c, "loop", call[c].n + k, call[c].left - u)
        BY <2>1, <3>2, ReadShape, Zenon DEF Returned
      <4>2. call[c].op = "read" /\ timeout' = timeout
        BY <2>1, <3>2, ReadShape, Zenon DEF SliceRead, In, Returned
      <4> QED BY <1>0, <3>0, <4>1, <4>2, Typed DEF Moved, TimeOf
    <3>3. ASSUME NEW t \in 0..timeout, NEW k \in 0..Request, SliceTimesOut(c, k, t)
          PROVE  TimeOf(c)' /\ timeout' \in Nat
      <4>1. PICK u \in 0..timeout \cup {Floor} : Moved(c, "loop", call[c].n, call[c].left - u)
        BY <3>3, ReadShape
      <4>2. call[c].op = "read" /\ timeout' = timeout
        BY <3>3, ReadShape, Zenon DEF SliceTimesOut, In
      <4> QED BY <1>0, <3>0, <4>1, <4>2, Typed DEF Moved, TimeOf
    <3>4. CASE \E res \in {"timeout", "error"} : ChunkFails(c, res)
      BY <2>1, <3>4, WriteShape, Zenon DEF Returned
    <3>5. CASE SliceFails(c)
      BY <2>1, <3>5, ReadShape, Zenon DEF Returned
    <3>6. CASE \E cmd \in Cmd : DocmdDone(c, cmd)
      BY <2>1, <3>6, ReturnShape, Typed, Zenon DEF Returned, DocmdDone
    <3> QED BY <2>6, <3>1, <3>2, <3>3, <3>4, <3>5, <3>6 DEF Transfer
  <2> QED BY <2>2, <2>3, <2>4, <2>5, <2>6 DEF CallStep
<1> QED BY <1>1, <1>2, StepShape

-----------------------------------------------------------------------------
(* Only a call that addresses changes who listens; the interface link is   *)
(* the same throughout.                                                    *)
LEMMA AddressingStep ==
    ASSUME TypeInv, DataInv, NEW c \in Conn, CallStep(c)
    PROVE  /\ interface' = interface
           /\ listener' \in Conn \cup {Nobody} /\ talker' \in Conn \cup {Nobody}
           /\ interface \in Conn => listener' # interface
<1>0. /\ listener \in Conn \cup {Nobody} /\ talker \in Conn \cup {Nobody} /\ Nobody \notin Conn
      /\ interface \in Conn => listener # interface
  BY IoAssumption DEF TypeInv, DataInv, Bare
<1>1. CASE UNCHANGED addressing
  BY <1>0, <1>1 DEF addressing
<1>2. CASE ~is_interface(c) /\ (Listens(c) \/ Talks(c))
  BY <1>0, <1>2 DEF is_interface, Listens, Talks
<1>3. ASSUME NEW cmd \in Cmd, In(c, "docmd", "onbus"), docmd(c, cmd) PROVE
        /\ interface' = interface
        /\ listener' \in Conn \cup {Nobody} /\ talker' \in Conn \cup {Nobody}
        /\ interface \in Conn => listener' # interface
  <2>0. c = interface
    BY <1>3 DEF In, DataInv, Owing, is_interface
  <2>1. CASE cmd = "send_command"
    BY <1>0, <1>3, <2>0, <2>1 DEF docmd, SendCommand, Listens, Talks
  <2>2. CASE cmd \in {"bus_status", "other"}
    BY <1>0, <1>3, <2>2, Zenon DEF docmd, bus_status, addressing
  <2>3. CASE cmd \in {"atn", "ifc", "bus_address"}
    BY <1>0, <1>3, <2>3, Zenon DEF docmd
  <2> QED BY <2>1, <2>2, <2>3 DEF Cmd
<1>4. CASE Transfer(c)
  <2>1. ASSUME NEW t \in 0..timeout, ChunkSent(c, t)
        PROVE  UNCHANGED addressing \/ (~is_interface(c) /\ Listens(c))
    BY <2>1 DEF ChunkSent, Addresses
  <2>2. ASSUME NEW res \in {"timeout", "error"}, ChunkFails(c, res)
        PROVE  UNCHANGED addressing \/ (~is_interface(c) /\ Listens(c))
    BY <2>2 DEF ChunkFails, Addresses
  <2>3. ASSUME NEW t \in 0..timeout, NEW k \in 0..Request, NEW chr \in BOOLEAN,
               SliceRead(c, k, t, chr) \/ SliceTimesOut(c, k, t)
        PROVE  UNCHANGED addressing \/ (~is_interface(c) /\ Talks(c))
    BY <2>3 DEF SliceRead, SliceTimesOut, Established
  <2>4. ASSUME SliceFails(c)
        PROVE  UNCHANGED addressing \/ (~is_interface(c) /\ Talks(c))
    BY <2>4 DEF SliceFails
  <2>5. ASSUME NEW cmd \in Cmd, DocmdDone(c, cmd)
        PROVE  UNCHANGED addressing \/ (In(c, "docmd", "onbus") /\ docmd(c, cmd))
    BY <2>5 DEF DocmdDone
  <2> QED BY <1>1, <1>2, <1>3, <1>4, <2>1, <2>2, <2>3, <2>4, <2>5, Zenon DEF Transfer
<1>5. CASE HoldWrite(c) \/ HoldRead(c) \/ HoldDocmd(c) \/ WriteLoop(c) \/ ReadLoop(c)
  BY <1>1, <1>5 DEF HoldWrite, HoldRead, HoldDocmd, WriteLoop, ReadLoop
<1> QED BY <1>4, <1>5 DEF CallStep

(* Steps that are not a chunk leave what is heard; those of a write in     *)
(* progress leave who listens too.                                         *)
LEMMA Silent ==
    ASSUME TypeInv, NEW c \in Conn, CallStep(c)
    PROVE  \/ \E t \in 0..timeout : ChunkSent(c, t)
           \/ heard' = heard
<1>1. CASE Transfer(c)
  BY <1>1, Zenon DEF Transfer, ChunkFails, SliceFails, DocmdDone, SliceRead, SliceTimesOut
<1>2. CASE HoldWrite(c) \/ HoldRead(c) \/ HoldDocmd(c) \/ WriteLoop(c) \/ ReadLoop(c)
  BY <1>2 DEF HoldWrite, HoldRead, HoldDocmd, WriteLoop, ReadLoop
<1> QED BY <1>1, <1>2 DEF CallStep

(* What an instrument has heard with chunk n + 1 of c's message.           *)
LEMMA HeardNext ==
    ASSUME TypeInv, DataInv, NEW c \in Conn, NEW to \in Conn, NEW n \in Nat,
           NEW piece, piece = [of |-> c, k |-> n + 1, end |-> n + 1 = Chunks],
           c \in {to, interface}, interface' = interface,
           n > 0 => Hears(to, c, n),
           heard' = [heard EXCEPT ![to] = IF n + 1 = 1 THEN <<piece>> ELSE Append(heard[to], piece)]
    PROVE  /\ heard' \in [Conn -> Seq(Pieces)]
           /\ \A d \in Conn : d # to => heard'[d] = heard[d]
           /\ MessageOf(to)' /\ Hears(to, c, n + 1)'
<1>3. piece \in Pieces /\ heard[to] \in Seq(Pieces)
  BY DEF Pieces, TypeInv
<1>4. CASE n = 0
  <2>1. heard'[to] = <<piece>> /\ (\A d \in Conn : d # to => heard'[d] = heard[d])
    BY <1>4 DEF TypeInv
  <2>2. heard' \in [Conn -> Seq(Pieces)]
    <3>1. <<piece>> \in Seq(Pieces)
      BY <1>3
    <3> QED BY <1>4, <3>1 DEF TypeInv
  <2>3. MessageOf(to)'
    BY <1>3, <1>4, <2>1 DEF MessageOf
  <2>4. Hears(to, c, n + 1)'
    BY <1>4, <2>1 DEF Hears
  <2> QED BY <2>1, <2>2, <2>3, <2>4
<1>5. CASE n > 0
  <2>0. n + 1 # 1
    BY <1>5
  <2>1. heard'[to] = Append(heard[to], piece) /\ (\A d \in Conn : d # to => heard'[d] = heard[d])
    BY <2>0 DEF TypeInv
  <2>2. heard' \in [Conn -> Seq(Pieces)]
    <3>1. Append(heard[to], piece) \in Seq(Pieces)
      BY <1>3
    <3> QED BY <2>0, <3>1 DEF TypeInv
  <2>3. /\ Len(heard[to]) = n /\ heard[to][1].of = c /\ DOMAIN heard[to] = 1..n
        /\ DOMAIN heard'[to] = 1..(n + 1) /\ heard'[to][n + 1] = piece
        /\ \A i \in 1..n : heard'[to][i] = heard[to][i]
        /\ heard'[to] # <<>> /\ Len(heard'[to]) = n + 1
    BY <1>3, <1>5, <2>1, SeqFacts, AppendFacts DEF Hears
  <2>4. heard'[to][1] = heard[to][1]
    BY <1>5, <2>3
  <2>5. Hears(to, c, n + 1)'
    BY <2>3, <2>4, Zenon DEF Hears
  <2>6. ASSUME NEW j \in 1..n
        PROVE  heard'[to][j] = [of |-> c, k |-> j, end |-> j = Chunks]
    BY <2>3, <2>6, SMTT(30) DEF DataInv, MessageOf
  <2>7. ASSUME NEW j \in 1..(n + 1)
        PROVE  heard'[to][j] = [of |-> c, k |-> j, end |-> j = Chunks]
    <3>1. j \in 1..n \/ j = n + 1
      BY <2>7
    <3> QED BY <2>3, <2>6, <3>1
  <2>8. heard'[to][1].of = c
    BY <2>3, <2>4, Zenon
  <2>9. MessageOf(to)'
    BY <2>3, <2>7, <2>8 DEF MessageOf
  <2> QED BY <2>1, <2>2, <2>5, <2>9
<1> QED BY <1>4, <1>5

(* The instrument a chunk goes to.                                         *)
ChunkTo(c, to, n) ==
    /\ n = call[c].n /\ listener' = to
    /\ (is_interface(c) => to # c) /\ (~is_interface(c) => to = c)
    /\ heard' \in [Conn -> Seq(Pieces)]
    /\ \A d \in Conn : d # to => heard'[d] = heard[d]

(* A chunk reaches the one that heard those before it.                     *)
LEMMA ChunkHeard ==
    ASSUME TypeInv, QueueInv, DataInv, NEW c \in Conn, NEW t \in 0..timeout, ChunkSent(c, t)
    PROVE  \E to \in Conn, n \in Nat :
             ChunkTo(c, to, n) /\ MessageOf(to)' /\ Hears(to, c, n + 1)'
<1>0. call[c].n \in Nat /\ call[c].op = "write" /\ Runs(c)
  BY Typed DEF ChunkSent, In, Runs
<1>1. PICK n \in Nat : n = call[c].n
  BY <1>0
<1>2. PICK to \in Conn \cup {Nobody} : to = Audience(c, n + 1)
  BY DEF Audience, TypeInv
<1>3. PICK piece : piece = [of |-> c, k |-> n + 1, end |-> n + 1 = Chunks]
  OBVIOUS
<1>4. /\ to # Nobody
      /\ IF Addresses(c, n + 1) THEN Listens(c) ELSE UNCHANGED addressing
      /\ heard' = [heard EXCEPT ![to] = IF n + 1 = 1 THEN <<piece>> ELSE Append(heard[to], piece)]
  BY <1>1, <1>2, <1>3 DEF ChunkSent
<1>5. /\ to \in Conn /\ listener' = to /\ interface' = interface
      /\ (is_interface(c) => to # c) /\ (~is_interface(c) => to = c)
      /\ n > 0 => Hears(to, c, n)
  <2>1. CASE Addresses(c, n + 1)
    BY <1>2, <1>4, <2>1 DEF Addresses, Audience, Listens
  <2>2. CASE ~Addresses(c, n + 1)
    <3>1. to = listener /\ listener' = listener /\ interface' = interface
      BY <1>2, <1>4, <2>2 DEF Audience, addressing
    <3>2. to \in Conn
      BY <1>4, <3>1 DEF TypeInv
    <3>3. n > 0 => Hears(to, c, n) /\ (~is_interface(c) => to = c)
      BY <1>0, <1>1, <3>1 DEF DataInv, Writing
    <3>4. n > 0 \/ is_interface(c)
      BY <2>2 DEF Addresses
    <3>5. is_interface(c) => to # c
      BY <3>1 DEF DataInv, Bare, is_interface
    <3> QED BY <3>1, <3>2, <3>3, <3>4, <3>5
  <2> QED BY <2>1, <2>2
<1>6. c \in {to, interface}
  BY <1>5, Zenon DEF is_interface
<1>7. /\ heard' \in [Conn -> Seq(Pieces)]
      /\ \A d \in Conn : d # to => heard'[d] = heard[d]
      /\ MessageOf(to)' /\ Hears(to, c, n + 1)'
  BY <1>3, <1>4, <1>5, <1>6, HeardNext, Zenon
<1>8. ChunkTo(c, to, n)
  BY <1>1, <1>5, <1>7 DEF ChunkTo
<1> QED BY <1>5, <1>7, <1>8

(* What is owed.                                                           *)
LEMMA OwingStep ==
    ASSUME TypeInv, QueueInv, DataInv, NEW c \in Conn, CallStep(c)
    PROVE  owed' \in [Conn -> Int] /\ \A d \in Conn : Owing(d)'
<1>0. /\ owed \in [Conn -> Int] /\ call[c].n \in Nat /\ Owing(c) /\ Request \in Nat
      /\ interface' = interface
  BY Typed, AddressingStep, IoAssumption DEF TypeInv, DataInv
<1>1. /\ \A d \in Conn : d # c => call'[d] = call[d]
      /\ call'[c].op = call[c].op
  BY StepShape, Zenon DEF ReturnStep, MoveStep, Returned, Moved, OthersStay
<1>2. CASE owed' = owed /\ (call[c].op # "read" \/ (call'[c].n = call[c].n /\ call'[c].pc # "idle"))
  <2>1. Owing(c)'
    BY <1>0, <1>1, <1>2 DEF Owing, is_interface
  <2>2. ASSUME NEW d \in Conn, d # c PROVE Owing(d)'
    BY <1>0, <1>1, <1>2, <2>2 DEF DataInv, Owing, is_interface
  <2> QED BY <1>0, <1>2, <2>1, <2>2
<1>3. ASSUME call[c].op = "read", NEW n \in Int, owed' = [owed EXCEPT ![c] = n],
             call'[c].n = n, call'[c].pc = "idle" => n = 0
      PROVE  owed' \in [Conn -> Int] /\ \A d \in Conn : Owing(d)'
  <2>1. owed' \in [Conn -> Int] /\ owed'[c] = n /\ \A d \in Conn : d # c => owed'[d] = owed[d]
    BY <1>0, <1>3
  <2>2. Owing(c)'
    BY <1>0, <1>1, <1>3, <2>1, Zenon DEF Owing
  <2>3. ASSUME NEW d \in Conn, d # c PROVE Owing(d)'
    BY <1>0, <1>1, <2>1, <2>3, Zenon DEF DataInv, Owing, is_interface
  <2> QED BY <2>1, <2>2, <2>3
<1>4. ASSUME call[c].op = "read", Settle(c, call[c].n), NEW res, Returned(c, 0, res)
      PROVE  owed' \in [Conn -> Int] /\ \A d \in Conn : Owing(d)'
  <2>1. owed' = [owed EXCEPT ![c] = owed[c] - call[c].n] /\ owed[c] = call[c].n
    BY <1>0, <1>4 DEF Settle, Owing
  <2>2. owed[c] - call[c].n = 0
    BY <1>0, <2>1
  <2>3. owed' = [owed EXCEPT ![c] = 0]
    BY <2>1, <2>2, Zenon
  <2>4. call'[c].n = 0
    BY <1>4 DEF Returned
  <2>5. 0 \in Int
    OBVIOUS
  <2> QED BY <1>3, <1>4, <2>3, <2>4, <2>5, Zenon
<1>5. CASE HoldWrite(c) \/ HoldDocmd(c) \/ WriteLoop(c)
  BY <1>2, <1>5 DEF HoldWrite, HoldDocmd, WriteLoop, In
<1>6. CASE HoldRead(c)
  BY <1>2, <1>6, HoldShape DEF HoldRead, Moved
<1>7. CASE ReadLoop(c)
  <2>1. call[c].op = "read"
    BY <1>7 DEF ReadLoop, In
  <2> QED BY <1>2, <1>4, <1>7, <2>1, ReadShape DEF Moved
<1>8. CASE Transfer(c)
  <2>1. ASSUME NEW t \in 0..timeout, ChunkSent(c, t)
        PROVE  owed' \in [Conn -> Int] /\ \A d \in Conn : Owing(d)'
    BY <1>2, <2>1, Zenon DEF ChunkSent, In
  <2>2. ASSUME NEW res \in {"timeout", "error"}, ChunkFails(c, res)
        PROVE  owed' \in [Conn -> Int] /\ \A d \in Conn : Owing(d)'
    BY <1>2, <2>2, Zenon DEF ChunkFails, In
  <2>3. ASSUME NEW cmd \in Cmd, DocmdDone(c, cmd)
        PROVE  owed' \in [Conn -> Int] /\ \A d \in Conn : Owing(d)'
    BY <1>2, <2>3, Zenon DEF DocmdDone, In
  <2>4. ASSUME SliceFails(c)
        PROVE  owed' \in [Conn -> Int] /\ \A d \in Conn : Owing(d)'
    <3>1. call[c].op = "read"
      BY <2>4, Zenon DEF SliceFails, In
    <3> QED BY <1>4, <2>4, <3>1, ReadShape
  <2>5. ASSUME NEW t \in 0..timeout, NEW k \in 0..Request, NEW chr \in BOOLEAN,
               SliceRead(c, k, t, chr)
        PROVE  owed' \in [Conn -> Int] /\ \A d \in Conn : Owing(d)'
    <3>1. call[c].op = "read"
      BY <2>5, Zenon DEF SliceRead, In
    <3>2. CASE (\E res \in Result : Returned(c, 0, res)) /\ Settle(c, call[c].n)
      BY <1>4, <3>1, <3>2, Zenon
    <3>3. CASE /\ \E u \in 0..timeout : Moved(c, "loop", call[c].n + k, call[c].left - u)
               /\ owed' = [owed EXCEPT ![c] = @ + k]
      <4>1. call'[c].n = call[c].n + k /\ call'[c].pc = "loop"
        BY <3>3 DEF Moved
      <4>2. owed[c] = call[c].n
        BY <1>0, <3>1 DEF Owing
      <4>3. owed' = [owed EXCEPT ![c] = call[c].n + k]
        BY <3>3, <4>2
      <4>4. call[c].n + k \in Int
        BY <1>0
      <4> QED BY <1>3, <3>1, <4>1, <4>3, <4>4, Zenon
    <3> QED BY <2>5, <3>2, <3>3, ReadShape
  <2>6. ASSUME NEW t \in 0..timeout, NEW k \in 0..Request, SliceTimesOut(c, k, t)
        PROVE  owed' \in [Conn -> Int] /\ \A d \in Conn : Owing(d)'
    <3>1. owed' = owed /\ call'[c].n = call[c].n /\ call'[c].pc = "loop"
      BY <2>6, ReadShape DEF Moved
    <3> QED BY <1>2, <3>1
  <2> QED BY <1>8, <2>1, <2>2, <2>3, <2>4, <2>5, <2>6 DEF Transfer
<1> QED BY <1>5, <1>6, <1>7, <1>8 DEF CallStep

-----------------------------------------------------------------------------
(* Without a chunk, the message in progress stays where it is.             *)
Chunk(c) == \E t \in 0..timeout : ChunkSent(c, t)

(* What a write does besides: it starts, goes on, or ends short.           *)
LEMMA WriteSilent ==
    ASSUME TypeInv, NEW c \in Conn, CallStep(c), ~Chunk(c), call[c].op = "write"
    PROVE  \/ call[c].pc = "queued" /\ call'[c].pc = "loop" /\ call'[c].n = call[c].n
           \/ /\ Runs(c) /\ call'[c].n = call[c].n
              /\ \/ call'[c].pc = "onbus" /\ listener' = listener
                 \/ call'[c].pc = "idle" /\ call'[c].res # "ok"
<1>1. CASE WriteLoop(c)
  BY <1>1, WriteShape, Zenon DEF Moved, Returned, WriteLoop, In, Runs, addressing
<1>2. CASE HoldWrite(c)
  BY <1>2, HoldShape, Zenon DEF Moved, HoldWrite, In
<1>3. CASE Transfer(c)
  <2>1. ASSUME NEW res \in {"timeout", "error"}, ChunkFails(c, res)
        PROVE  Runs(c) /\ call'[c].n = call[c].n /\ call'[c].pc = "idle" /\ call'[c].res # "ok"
    BY <2>1, WriteShape, Zenon DEF ChunkFails, In, Runs, Returned
  <2> QED BY <1>3, <2>1 DEF Transfer, SliceFails, DocmdDone, SliceRead, SliceTimesOut, In, Chunk
<1> QED BY <1>1, <1>2, <1>3, Zenon DEF CallStep, HoldRead, HoldDocmd, ReadLoop, In

(* While one call steps no other runs, and none changes.                   *)
LEMMA StepOthers ==
    ASSUME TypeInv, QueueInv, NEW c \in Conn, CallStep(c)
    PROVE  /\ call' \in [Conn -> Calls] /\ call'[c].op = call[c].op
           /\ call[c].pc # "idle" /\ call'[c].pc # "queued"
           /\ \A d \in Conn : d # c => ~Runs(d)' /\ call'[d] = call[d]
<1>1. CASE ReturnStep(c)
  <2>1. \A d \in Conn : ~Runs(d)'
    BY <1>1, QueueReturn
  <2> QED BY <1>1, <2>1 DEF ReturnStep, Returned, OthersStay, Runs
<1>2. CASE MoveStep(c)
  <2>1. \A d \in Conn : d # c => ~Runs(d)'
    BY <1>2, QueueMove, Zenon
  <2>2. call[c].pc # "idle"
    <3>1. busq \in Seq(Conn)
      BY DEF TypeInv
    <3>2. OnBus(c) => 1 \in DOMAIN busq /\ busq[1] = c
      BY <3>1, SeqFacts DEF OnBus
    <3> QED BY <1>2, <3>2 DEF MoveStep, QueueInv, Runs
  <2> QED BY <1>2, <2>1, <2>2 DEF MoveStep, Moved, OthersStay
<1> QED BY <1>1, <1>2, StepShape

(* A step that is no chunk keeps the messages whole.                       *)
LEMMA DataSilent ==
    ASSUME TypeInv, QueueInv, DataInv, NEW c \in Conn, CallStep(c), ~Chunk(c)
    PROVE  heard' \in [Conn -> Seq(Pieces)] /\ DataInv'
<1>1. heard' = heard /\ heard \in [Conn -> Seq(Pieces)] /\ call[c].n \in Nat
  BY Silent, Typed, Zenon DEF Chunk, TypeInv
<1>2. Bare'
  BY <1>1, AddressingStep, Zenon DEF DataInv, Bare
<1>3. ASSUME NEW d \in Conn, d # c PROVE Writing(d)' /\ Told(d)'
  <2>1. ~Runs(d)' /\ call'[d] = call[d]
    BY <1>3, StepOthers, Zenon
  <2> QED BY <1>1, <1>3, <2>1, Zenon DEF DataInv, Writing, Told
<1>4. \A d \in Conn : MessageOf(d)'
  BY <1>1, AddressingStep, Zenon DEF DataInv, MessageOf
<1>5. ASSUME call[c].op # "write" PROVE Writing(c)' /\ Told(c)'
  BY <1>5, StepOthers, Zenon DEF Writing, Told
<1>6. ASSUME call[c].op = "write" PROVE Writing(c)' /\ Told(c)'
  <2>0. interface' = interface /\ Writing(c) /\ Bare
    BY AddressingStep, Zenon DEF DataInv
  <2>1. CASE call[c].pc = "queued" /\ call'[c].pc = "loop" /\ call'[c].n = call[c].n
    BY <1>6, <2>0, <2>1, SMTT(30) DEF Writing, Told
  <2>2. CASE /\ Runs(c) /\ call'[c].n = call[c].n
             /\ call'[c].pc = "onbus" /\ listener' = listener
    BY <1>1, <1>6, <2>0, <2>2 DEF Writing, Told, Hears, is_interface, Runs
  <2>3. CASE /\ Runs(c) /\ call'[c].n = call[c].n
             /\ call'[c].pc = "idle" /\ call'[c].res # "ok"
    <3>1. call[c].n > 0 /\ heard[c] # <<>> => Len(heard[c]) = call[c].n
      <4>1. CASE is_interface(c)
        BY <2>0, <4>1, Zenon DEF Bare, is_interface
      <4>2. CASE ~is_interface(c)
        BY <1>6, <2>0, <2>3, <4>2, Zenon DEF Writing, Hears
      <4> QED BY <4>1, <4>2
    <3>2. Writing(c)'
      BY <2>3, Zenon DEF Writing, Runs
    <3>3. Told(c)'
      BY <1>1, <2>3, <3>1 DEF Told
    <3> QED BY <3>2, <3>3, Zenon
  <2> QED BY <1>6, <2>1, <2>2, <2>3, WriteSilent
<1> QED BY <1>1, <1>2, <1>3, <1>4, <1>5, <1>6, OwingStep, Zenon DEF DataInv

(* And so does a chunk.                                                    *)
LEMMA DataChunk ==
    ASSUME TypeInv, QueueInv, DataInv, NEW c \in Conn, CallStep(c), Chunk(c)
    PROVE  heard' \in [Conn -> Seq(Pieces)] /\ DataInv'
<1>1. PICK t \in 0..timeout : ChunkSent(c, t)
  BY DEF Chunk
<1>2. PICK to \in Conn, n \in Nat : ChunkTo(c, to, n) /\ MessageOf(to)' /\ Hears(to, c, n + 1)'
  BY <1>1, ChunkHeard, Zenon
<1>3. interface' = interface /\ n = call[c].n /\ call[c].op = "write" /\ Chunks \in Nat
  BY <1>1, <1>2, AddressingStep, IoAssumption, Zenon DEF ChunkTo, ChunkSent, In
<1>4. Bare'
  BY <1>2, <1>3, Zenon DEF DataInv, Bare, ChunkTo, is_interface
<1>5. ASSUME NEW d \in Conn, d # to PROVE MessageOf(d)'
  <2>1. heard'[d] = heard[d] /\ MessageOf(d)
    BY <1>2, <1>5 DEF DataInv, ChunkTo
  <2> QED BY <1>3, <2>1 DEF MessageOf
<1>6. ASSUME NEW d \in Conn, d # c PROVE Writing(d)' /\ Told(d)'
  <2>1. ~Runs(d)' /\ call'[d] = call[d]
    BY <1>6, StepOthers, Zenon
  <2>2. Writing(d)'
    BY <1>6, <2>1 DEF DataInv, Writing
  <2>3. Told(d)
    BY Zenon DEF DataInv
  <2>4. ASSUME d = to PROVE Told(d)'
    BY <1>2, <1>6, <2>1, <2>3, <2>4, Zenon DEF Told, Hears
  <2>5. ASSUME d # to PROVE Told(d)'
    <3>1. heard'[d] = heard[d]
      BY <1>2, <2>5, Zenon DEF ChunkTo
    <3> QED BY <2>1, <2>3, <3>1, Zenon DEF Told
  <2> QED BY <2>2, <2>4, <2>5, Zenon
<1>7. CASE n + 1 = Chunks /\ \E res \in Result : Returned(c, Chunks, res)
  <2>1. call'[c].pc = "idle" /\ call'[c].n = n + 1
    BY <1>7, Zenon DEF Returned
  <2>2. Writing(c)'
    BY <2>1, Zenon DEF Writing, Runs
  <2>3. ASSUME to = c PROVE Told(c)'
    BY <1>2, <1>7, <2>1, <2>3, Zenon DEF Told, Hears
  <2>4. ASSUME to # c PROVE Told(c)'
    <3>1. heard'[c] = <<>>
      BY <1>2, <2>4, Zenon DEF ChunkTo, DataInv, Bare, is_interface
    <3> QED BY <1>7, <2>1, <3>1, Zenon DEF Told
  <2> QED BY <2>2, <2>3, <2>4, <1>2, <1>4, <1>5, <1>6, OwingStep, Zenon DEF DataInv, ChunkTo
<1>8. CASE Moved(c, "loop", n + 1, call[c].left - t)
  <2>1. call'[c].pc = "loop" /\ call'[c].n = n + 1
    BY <1>8, Zenon DEF Moved
  <2>2. Told(c)'
    BY <2>1, Zenon DEF Told
  <2>3. Writing(c)'
    BY <1>2, <1>3, <2>1, Zenon DEF Writing, ChunkTo, is_interface, Runs
  <2> QED BY <2>2, <2>3, <1>2, <1>4, <1>5, <1>6, OwingStep, Zenon DEF DataInv, ChunkTo
<1> QED BY <1>1, <1>3, <1>7, <1>8, WriteShape

-----------------------------------------------------------------------------
(* A call that returns puts the settings back, and one that goes on has    *)
(* them for itself.                                                        *)
LEMMA SettingsStep ==
    ASSUME TypeInv, QueueInv, SettingsRestored, NEW c \in Conn, CallStep(c)
    PROVE  SettingsRestored'
<1>1. CASE ReturnStep(c)
  BY <1>1 DEF ReturnStep, Returned, SettingsRestored
<1>2. CASE MoveStep(c) /\ call[c].op # "docmd"
  <2>1. call'[c].pc \in {"loop", "onbus"} /\ call'[c].op # "docmd"
    BY <1>2, Zenon DEF MoveStep, Moved
  <2> QED BY <2>1, Zenon DEF SettingsRestored
<1>3. CASE MoveStep(c) /\ call[c].op = "docmd"
  <2>1. HoldDocmd(c)
    <3>1. ASSUME NEW cmd \in Cmd, DocmdDone(c, cmd) PROVE FALSE
      <4>1. call'[c].pc = "idle"
        BY <3>1, ReturnShape, Typed, Zenon DEF DocmdDone, Returned
      <4> QED BY <1>3, <4>1, Zenon DEF MoveStep, Moved
    <3> QED BY <1>3, <3>1, Zenon DEF CallStep, HoldWrite, HoldRead, WriteLoop, ReadLoop, Transfer,
                ChunkFails, ChunkSent, SliceFails, SliceRead, SliceTimesOut, In
  <2>2. timeout' = timeout /\ eos' = eos
    BY <2>1 DEF HoldDocmd, settings
  <2>3. \A d \in Conn : d # c => call'[d] = call[d]
    BY <1>3 DEF MoveStep, Moved, OthersStay
  <2> QED BY <1>3, <2>2, <2>3, Zenon DEF SettingsRestored
<1> QED BY <1>1, <1>2, <1>3, StepShape, Zenon

(* The invariant holds at the start.                                       *)
LEMMA IoInit == Init => IoInv
<1> SUFFICES ASSUME Init PROVE IoInv
  OBVIOUS
<1>1. TypeInv
  <2>1. call \in [Conn -> Calls]
    BY DEF Init, Calls, Ops, Pcs, Result
  <2>2. heard \in [Conn -> Seq(Pieces)] /\ owed \in [Conn -> Int] /\ busq \in Seq(Conn)
    BY DEF Init
  <2> QED BY <2>1, <2>2, IoAssumption DEF Init, TypeInv
<1>2. QueueInv
  BY DEF Init, QueueInv, Runs
<1>3. TimeInv
  BY IoAssumption DEF Init, TimeInv, TimeOf
<1>4. DataInv
  <2>1. \A c \in Conn : /\ call[c].op = "none" /\ call[c].pc = "idle"
                        /\ heard[c] = <<>> /\ owed[c] = 0
    BY Zenon DEF Init
  <2>2. Bare
    BY <2>1, IoAssumption, Zenon DEF Init, Bare
  <2>3. \A c \in Conn : MessageOf(c)
    BY <2>1 DEF MessageOf
  <2> QED BY <2>1, <2>2, <2>3, Zenon DEF DataInv, Writing, Told, Owing
<1>5. SettingsRestored
  BY Zenon DEF Init, SettingsRestored
<1> QED BY <1>1, <1>2, <1>3, <1>4, <1>5 DEF IoInv

(* A call nothing happens to, and to nothing that it reads.                *)
LEMMA DataStays ==
    ASSUME NEW d \in Conn, call'[d] = call[d], UNCHANGED <<interface, listener, heard, owed>>
    PROVE  /\ Writing(d)' <=> Writing(d)
           /\ Told(d)' <=> Told(d)
           /\ Owing(d)' <=> Owing(d)
<1>1. /\ Runs(d)' <=> Runs(d)
      /\ is_interface(d)' <=> is_interface(d)
      /\ Hears(listener, d, call[d].n)' <=> Hears(listener, d, call[d].n)
  BY Zenon DEF Runs, is_interface, Hears
<1>2. Writing(d)' <=> Writing(d)
  BY <1>1, Zenon DEF Writing
<1>3. (Told(d)' <=> Told(d)) /\ (Owing(d)' <=> Owing(d))
  BY <1>1, Zenon DEF Told, Owing
<1> QED BY <1>2, <1>3, Zenon

(* A new call changes its own record and the queue.                        *)
LEMMA IoCall ==
    ASSUME IoInv, NEW c \in Conn, NEW op \in {"write", "read", "docmd"}, Call(c, op)
    PROVE  IoInv'
<1>0. TypeInv /\ QueueInv /\ TimeInv /\ DataInv /\ SettingsRestored /\ op \in Ops
  BY Zenon DEF IoInv, Ops
<1>1. /\ QueueInv' /\ busq' \in Seq(Conn) /\ call' \in [Conn -> Calls]
      /\ call'[c] = [op |-> op, pc |-> "queued", left |-> Budget, n |-> 0, res |-> "none"]
      /\ \A d \in Conn : d # c => call'[d] = call[d]
  BY <1>0, QueueCall, Zenon DEF OthersStay
<1>2. /\ call[c].pc = "idle" /\ (op = "docmd" => is_interface(c))
      /\ UNCHANGED <<timeout, eos, interface, listener, talker, heard, owed>>
  BY Zenon DEF Call, settings, addressing
<1>3. TypeInv'
  BY <1>0, <1>1, <1>2 DEF TypeInv
<1>4. TimeInv'
  <2>1. TimeOf(c)'
    BY <1>1, IoAssumption DEF TimeOf
  <2>2. ASSUME NEW d \in Conn, d # c PROVE TimeOf(d)'
    BY <1>0, <1>1, <1>2, <2>2 DEF TimeInv, TimeOf
  <2> QED BY <2>1, <2>2, Zenon DEF TimeInv
<1>5. DataInv'
  <2>1. Bare' /\ \A d \in Conn : MessageOf(d)'
    BY <1>0, <1>2, Zenon DEF DataInv, Bare, MessageOf
  <2>2. ASSUME NEW d \in Conn, d # c PROVE Writing(d)' /\ Told(d)' /\ Owing(d)'
    BY <1>0, <1>1, <1>2, <2>2, DataStays, Zenon DEF DataInv
  <2>3. owed[c] = 0
    BY <1>0, <1>2, Zenon DEF DataInv, Owing
  <2>4. Writing(c)' /\ Told(c)' /\ Owing(c)'
    <3>1. call'[c].op = op /\ call'[c].pc = "queued" /\ call'[c].n = 0
      BY <1>1
    <3>2. ~Runs(c)' /\ call'[c].pc # "idle"
      BY <3>1 DEF Runs
    <3>3. (op = "docmd" => is_interface(c)') /\ owed'[c] = 0
      BY <1>2, <2>3, Zenon DEF is_interface
    <3>4. Writing(c)' /\ Told(c)'
      BY <3>1, <3>2, Zenon DEF Writing, Told
    <3>5. Owing(c)'
      BY <3>1, <3>2, <3>3, Zenon DEF Owing
    <3> QED BY <3>4, <3>5, Zenon
  <2> QED BY <2>1, <2>2, <2>4, Zenon DEF DataInv
<1>6. SettingsRestored'
  BY <1>0, <1>1, <1>2, Zenon DEF SettingsRestored
<1> QED BY <1>1, <1>3, <1>4, <1>5, <1>6 DEF IoInv

(* An abort sets a flag that none of it reads.                             *)
LEMMA IoStill ==
    ASSUME IoInv, UNCHANGED <<busq, timeout, eos, interface, listener, talker, call, heard, owed>>
    PROVE  IoInv'
<1>1. TypeInv' /\ QueueInv'
  BY Zenon DEF IoInv, TypeInv, QueueInv, Runs
<1>2. TimeInv'
  BY Zenon DEF IoInv, TimeInv, TimeOf
<1>3. DataInv'
  <2>1. Bare' /\ \A d \in Conn : MessageOf(d)'
    BY Zenon DEF IoInv, DataInv, Bare, MessageOf
  <2> QED BY <2>1, DataStays, Zenon DEF IoInv, DataInv
<1>4. SettingsRestored'
  BY DEF IoInv, SettingsRestored
<1> QED BY <1>1, <1>2, <1>3, <1>4, Zenon DEF IoInv

(* Every step keeps the invariant.                                         *)
LEMMA IoNext == IoInv /\ [Next]_vars => IoInv'
<1> SUFFICES ASSUME IoInv, [Next]_vars PROVE IoInv'
  OBVIOUS
<1>1. CASE UNCHANGED vars
  BY <1>1, IoStill, Zenon DEF vars, settings, addressing
<1>2. ASSUME NEW c \in Conn, device_abort(c) PROVE IoInv'
  BY <1>2, IoStill DEF device_abort, settings, addressing
<1>3. ASSUME NEW c \in Conn, CallStep(c) PROVE IoInv'
  <2>0. TypeInv /\ QueueInv /\ TimeInv /\ DataInv /\ SettingsRestored
    BY DEF IoInv
  <2>1. QueueInv' /\ busq' \in Seq(Conn)
    BY <1>3, <2>0, StepShape, QueueReturn, QueueMove
  <2>2. TimeInv' /\ timeout' \in Nat
    BY <1>3, <2>0, TimeStep
  <2>3. DataInv' /\ heard' \in [Conn -> Seq(Pieces)]
    BY <1>3, <2>0, DataSilent, DataChunk
  <2>4. SettingsRestored'
    BY <1>3, <2>0, SettingsStep, Zenon
  <2>5. call' \in [Conn -> Calls] /\ owed' \in [Conn -> Int]
    BY <1>3, <2>0, StepOthers, OwingStep
  <2>6. /\ interface' = interface
        /\ listener' \in Conn \cup {Nobody} /\ talker' \in Conn \cup {Nobody}
    BY <1>3, <2>0, AddressingStep, Zenon
  <2>7. TypeInv'
    BY <2>0, <2>1, <2>2, <2>3, <2>5, <2>6, Zenon DEF TypeInv
  <2> QED BY <2>1, <2>2, <2>3, <2>4, <2>7 DEF IoInv
<1> QED BY <1>1, <1>2, <1>3, IoCall DEF Next

(* The invariant holds throughout.                                         *)
LEMMA Io == Spec => []IoInv
BY IoInit, IoNext, PTL DEF Spec

(* Whatever ends a call puts the adapter's timeout and terminator back.    *)
THEOREM SettingsComeBack == Spec => []SettingsRestored
<1>1. IoInv => SettingsRestored
  BY DEF IoInv
<1> QED BY <1>1, Io, PTL

(* No call outstays its io_timeout on the bus, whatever the steps of the   *)
(* adapter's timeout are, except for the pause after a failed attempt.     *)
THEOREM TenureHolds == Spec => []TenureBounded
<1>1. IoInv => TenureBounded
  BY DEF IoInv, TimeInv, TimeOf, TenureBounded
<1> QED BY <1>1, Io, PTL

(* A message of any length arrives in order and in one piece, and is       *)
(* answered with the size heard; a read loses nothing it collected.        *)
THEOREM TransfersStayWhole == Spec => []TransfersWhole
<1>1. IoInv => TransfersWhole
  BY DEF IoInv, DataInv, MessageOf, Told, Owing, TransfersWhole
<1> QED BY <1>1, Io, PTL
=============================================================================
