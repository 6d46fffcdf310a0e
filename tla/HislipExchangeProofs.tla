------------------------ MODULE HislipExchangeProofs ------------------------
(***************************************************************************)
(* The HiSLIP exchange with any number of messages, chunks, device clears  *)
(* and unread messages.  TypeInv is as much of the types as the proofs     *)
(* need; PhaseInv is the shape of the two queues in each phase of a device *)
(* clear, and NormalInv the agreement of client and server between two of  *)
(* them, from which the properties follow.                                 *)
(***************************************************************************)
EXTENDS HislipExchange, TLAPS

Origins == [gen : Nat, id : Nat]
Ups == [type : {"data", "end", "trigger", "complete"}, from : Origins,
        rmt : BOOLEAN, overlapped : BOOLEAN]
Downs == [type : {"data", "end"}, id : Nat, of : Origins]
         \cup [type : {"acknowledge"}, overlapped : BOOLEAN]

Clients == [phase : {"normal", "requested", "acknowledged", "completing"},
            gen : Nat, id : Nat, received : Nat,
            delivered : BOOLEAN, overlapped : BOOLEAN]

TypeInv ==
    /\ client \in Clients
    /\ up \in Seq(Ups) /\ down \in Seq(Downs)
    /\ lastRead \in Origins /\ nextId \in Nat
    /\ mav \in BOOLEAN /\ overlapped \in BOOLEAN

AllData == \A i \in DOMAIN down : IsData(down[i])

(* The client has sent its last word: it is on its way up, or its answer   *)
(* is on the way down and the server, with nothing to read, waits.         *)
Completing ==
    \/ /\ up # <<>> /\ AllData
       /\ \A i \in DOMAIN up : up[i].type = "complete" <=> i = Len(up)
    \/ /\ up = <<>> /\ spc = "reading" /\ down # <<>>
       /\ \A i \in DOMAIN down : IsData(down[i]) <=> i # Len(down)
       /\ down[Len(down)].overlapped = overlapped
       /\ nextId = First /\ mav = FALSE

PhaseInv ==
    /\ apc # "reading" => client.phase = "requested"
    /\ lastRead.gen <= client.gen
    /\ \A i \in DOMAIN up : up[i].from.gen = client.gen
    /\ client.phase = "completing" => Completing
    /\ client.phase # "completing" =>
          AllData /\ \A i \in DOMAIN up : up[i].type # "complete"

(* The message before the first unread one.                                *)
Base == client.id - Len(up)

Agreement ==
    /\ \A i \in DOMAIN up : up[i].from.id = Base + i
    /\ Base >= First - 1
    /\ \/ lastRead.gen = client.gen /\ lastRead.id = Base
       \/ /\ lastRead.gen # client.gen /\ Base = First - 1
          /\ spc = "reading" /\ down = <<>> /\ ~mav
    /\ \A i \in DOMAIN down : down[i].of.gen = client.gen /\ down[i].of.id <= lastRead.id
    /\ overlapped = client.overlapped
    /\ overlapped => /\ nextId = client.received + Len(down) + 1
                     /\ \A i \in DOMAIN down : down[i].id = client.received + i

MavInv ==
    /\ spc = "replying" => mav
    /\ \A i \in DOMAIN down : down[i].of = lastRead => mav
    /\ mav => \/ spc = "replying" \/ down # <<>> \/ client.delivered
              \/ \E i \in DOMAIN up : up[i].rmt
    /\ down # <<>> /\ spc # "replying" => down[Len(down)].type = "end"

NormalInv == client.phase = "normal" => Agreement /\ MavInv

EInv == TypeInv /\ PhaseInv /\ NormalInv

-----------------------------------------------------------------------------
(* Taking the first element of a queue, and adding one at its end.         *)
LEMMA EmptyFacts ==
    ASSUME NEW S, NEW q \in Seq(S)
    PROVE  /\ Len(q) \in Nat /\ DOMAIN q = 1..Len(q)
           /\ q = <<>> <=> Len(q) = 0
OBVIOUS

(* What remains of a queue without its first element.                      *)
LEMMA TailFacts ==
    ASSUME NEW S, NEW q \in Seq(S), q # <<>>
    PROVE  /\ Len(q) \in Nat /\ Len(q) > 0 /\ DOMAIN q = 1..Len(q)
           /\ Head(q) = q[1] /\ Head(q) \in S
           /\ Tail(q) \in Seq(S) /\ Len(Tail(q)) = Len(q) - 1
           /\ DOMAIN Tail(q) = 1..Len(q) - 1
           /\ Tail(q) = <<>> <=> Len(q) = 1
           /\ \A i \in 1..Len(q) - 1 : Tail(q)[i] = q[i + 1] /\ i + 1 \in 1..Len(q)
<1>1. /\ Len(q) \in Nat /\ Len(q) > 0 /\ DOMAIN q = 1..Len(q)
      /\ Head(q) = q[1] /\ Head(q) \in S
      /\ Tail(q) \in Seq(S) /\ Len(Tail(q)) = Len(q) - 1
      /\ DOMAIN Tail(q) = 1..Len(q) - 1
      /\ \A i \in 1..Len(q) - 1 : Tail(q)[i] = q[i + 1] /\ i + 1 \in 1..Len(q)
  OBVIOUS
<1>2. Tail(q) = <<>> <=> Len(Tail(q)) = 0
  BY <1>1, EmptyFacts
<1>3. Tail(q) = <<>> <=> Len(q) = 1
  BY <1>1, <1>2
<1> QED BY <1>1, <1>3

(* A queue with one more at its end.                                       *)
LEMMA AppendFacts ==
    ASSUME NEW S, NEW q \in Seq(S), NEW e \in S
    PROVE  /\ Len(q) \in Nat /\ DOMAIN q = 1..Len(q)
           /\ Append(q, e) \in Seq(S) /\ Len(Append(q, e)) = Len(q) + 1
           /\ DOMAIN Append(q, e) = 1..Len(q) + 1
           /\ Append(q, e)[Len(q) + 1] = e
           /\ \A i \in 1..Len(q) : Append(q, e)[i] = q[i]
           /\ Append(q, e) # <<>>
OBVIOUS

(* The invariant holds at the start.                                       *)
LEMMA EInit == Init => EInv
<1> SUFFICES ASSUME Init PROVE EInv
  OBVIOUS
<1>1. TypeInv
  <2>1. client \in Clients
    BY DEF Init, Clients, First
  <2>2. lastRead \in Origins /\ nextId \in Nat
    BY DEF Init, Origins, First
  <2>4. mav \in BOOLEAN /\ overlapped \in BOOLEAN
    BY Zenon DEF Init
  <2>3. up \in Seq(Ups) /\ down \in Seq(Downs)
    BY DEF Init
  <2> QED BY <2>1, <2>2, <2>3, <2>4 DEF TypeInv
<1>2. up = <<>> /\ down = <<>> /\ DOMAIN up = {} /\ DOMAIN down = {} /\ Len(up) = 0 /\ Len(down) = 0
  BY DEF Init
<1>3. PhaseInv
  BY <1>2 DEF Init, PhaseInv, AllData, First
<1>4. NormalInv
  BY <1>1, <1>2 DEF Init, NormalInv, Agreement, MavInv, Base, First, TypeInv, Clients
<1> QED BY <1>1, <1>3, <1>4 DEF EInv

-----------------------------------------------------------------------------
(* The client.                                                             *)
LEMMA SendKeeps ==
    ASSUME EInv, NEW type \in {"data", "end", "trigger"}, Send(type)
    PROVE  EInv'
<1> DEFINE m == [type |-> type, rmt |-> client.delivered,
                 from |-> [gen |-> client.gen, id |-> client.id + 1], overlapped |-> FALSE]
<1>0. TypeInv /\ PhaseInv /\ client.phase = "normal" /\ Agreement /\ MavInv
  BY DEF EInv, NormalInv, Send
<1>1. m \in Ups
  BY <1>0 DEF Ups, Origins, TypeInv, Clients
<1>2. up' = Append(up, m)
  BY DEF Send
<1>3. /\ m.type # "complete" /\ m.rmt = client.delivered
      /\ m.from.gen = client.gen /\ m.from.id = client.id + 1
  OBVIOUS
<1> HIDE DEF m
<1>4. /\ Len(up) \in Nat /\ DOMAIN up = 1..Len(up) /\ up' \in Seq(Ups) /\ Len(up') = Len(up) + 1
      /\ DOMAIN up' = 1..Len(up) + 1 /\ up'[Len(up) + 1] = m
      /\ \A i \in 1..Len(up) : up'[i] = up[i]
  BY <1>0, <1>1, <1>2, AppendFacts DEF TypeInv
<1>5. /\ client'.phase = "normal" /\ client'.gen = client.gen /\ client'.id = client.id + 1
      /\ client'.received = client.received /\ client'.delivered = FALSE
      /\ client'.overlapped = client.overlapped /\ client.id \in Nat
      /\ UNCHANGED <<down, spc, apc, mav, lastRead, overlapped, nextId>>
  BY <1>0 DEF Send, TypeInv, serverVars, Clients
<1>6. TypeInv'
  <2>1. client' \in Clients
    <3>1. client.id + 1 \in Nat /\ client \in Clients
      BY <1>0 DEF TypeInv, Clients
    <3>2. client' = [client EXCEPT !.id = client.id + 1, !.delivered = FALSE]
      BY DEF Send
    <3> QED BY <3>1, <3>2 DEF Clients
  <2> QED BY <1>0, <1>4, <1>5, <2>1 DEF TypeInv
<1>7. PhaseInv'
  BY <1>0, <1>3, <1>4, <1>5 DEF PhaseInv, AllData
<1>8. Base' = Base /\ Base \in Int /\ m.from.id = Base + (Len(up) + 1)
  BY <1>3, <1>4, <1>5 DEF Base
<1>9. Agreement'
  <2>1. \A i \in DOMAIN up' : up'[i].from.id = Base' + i
    BY <1>0, <1>3, <1>4, <1>8 DEF Agreement
  <2> QED BY <1>0, <1>5, <1>8, <2>1 DEF Agreement
<1>10. MavInv'
  BY <1>0, <1>3, <1>4, <1>5 DEF MavInv
<1> QED BY <1>6, <1>7, <1>9, <1>10 DEF EInv, NormalInv

(* DeviceClearComplete: the last word goes up behind whatever is unread.   *)
LEMMA CompleteClearKeeps ==
    ASSUME EInv, NEW o \in BOOLEAN, CompleteClear(o)
    PROVE  EInv'
<1> DEFINE m == [type |-> "complete", rmt |-> FALSE, overlapped |-> o,
                 from |-> [gen |-> client.gen, id |-> client.id]]
<1>0. TypeInv /\ PhaseInv /\ client.phase = "acknowledged"
  BY DEF EInv, CompleteClear
<1>1. m \in Ups
  BY <1>0 DEF Ups, Origins, TypeInv, Clients
<1>2. up' = Append(up, m)
  BY DEF CompleteClear
<1>3. m.type = "complete" /\ m.from.gen = client.gen
  OBVIOUS
<1> HIDE DEF m
<1>4. /\ Len(up) \in Nat /\ DOMAIN up = 1..Len(up) /\ up' \in Seq(Ups) /\ Len(up') = Len(up) + 1
      /\ DOMAIN up' = 1..Len(up) + 1 /\ up'[Len(up) + 1] = m /\ up' # <<>>
      /\ \A i \in 1..Len(up) : up'[i] = up[i]
  BY <1>0, <1>1, <1>2, AppendFacts DEF TypeInv
<1>5. /\ client'.phase = "completing" /\ client'.gen = client.gen
      /\ UNCHANGED <<down, apc, lastRead>>
  BY <1>0 DEF CompleteClear, TypeInv, serverVars, Clients
<1>6. TypeInv'
  BY <1>0, <1>4 DEF TypeInv, CompleteClear, serverVars, Clients
<1>7. \A i \in DOMAIN up' : up'[i].type = "complete" <=> i = Len(up')
  BY <1>0, <1>3, <1>4 DEF PhaseInv
<1>8. PhaseInv'
  BY <1>0, <1>3, <1>4, <1>5, <1>7 DEF PhaseInv, AllData, Completing
<1> QED BY <1>5, <1>6, <1>8 DEF EInv, NormalInv

(* In a device clear the client only waits for the acknowledgement, which  *)
(* is the last message of the queue and finds the other queue empty.       *)
LEMMA ReceiveKeeps ==
    ASSUME EInv, Receive
    PROVE  EInv'
<1>0. TypeInv /\ PhaseInv /\ NormalInv
  BY DEF EInv
<1>1. /\ Len(down) \in Nat /\ Len(down) > 0 /\ DOMAIN down = 1..Len(down)
      /\ Head(down) = down[1] /\ Head(down) \in Downs
      /\ down' \in Seq(Downs) /\ Len(down') = Len(down) - 1
      /\ DOMAIN down' = 1..Len(down) - 1
      /\ \A i \in 1..Len(down) - 1 : down'[i] = down[i + 1] /\ i + 1 \in 1..Len(down)
      /\ 1 \in DOMAIN down
  BY <1>0, TailFacts DEF Receive, TypeInv
<1>2. UNCHANGED <<up, spc, apc, mav, lastRead, overlapped, nextId>>
  BY DEF Receive, serverVars
<1>3. Len(up) \in Nat /\ DOMAIN up = 1..Len(up) /\ (up = <<>> <=> Len(up) = 0)
      /\ (down' = <<>> <=> Len(down') = 0)
  BY <1>0, <1>1, EmptyFacts DEF TypeInv
<1>4. CASE down[1].type = "acknowledge"
  <2>1. ~IsData(down[1])
    BY <1>4 DEF IsData
  <2>2. client.phase = "completing" /\ Completing /\ ~AllData
    BY <1>0, <1>1, <2>1 DEF PhaseInv, AllData
  <2>3. /\ up = <<>> /\ spc = "reading" /\ Len(down) = 1 /\ down[1].overlapped = overlapped
        /\ nextId = First /\ mav = FALSE
    BY <1>1, <2>1, <2>2 DEF Completing
  <2>4. /\ client' = [client EXCEPT !.phase = "normal", !.gen = client.gen + 1,
                        !.id = First - 1, !.received = First - 1,
                        !.delivered = FALSE, !.overlapped = down[1].overlapped]
    BY <1>1, <1>4 DEF Receive
  <2>5. /\ client'.phase = "normal" /\ client'.gen = client.gen + 1 /\ client'.id = 0
        /\ client'.received = 0 /\ client'.delivered = FALSE /\ client'.overlapped = overlapped
        /\ client.gen \in Nat /\ lastRead.gen \in Nat
    BY <1>0, <2>3, <2>4 DEF TypeInv, Clients, First, Origins
  <2>6. TypeInv'
    <3>1. client.gen + 1 \in Nat /\ First - 1 \in Nat /\ down[1].overlapped \in BOOLEAN
      BY <1>0, <2>3, <2>5 DEF TypeInv, First
    <3>2. client' \in Clients
      BY <1>0, <2>4, <3>1 DEF TypeInv, Clients
    <3> QED BY <1>0, <1>1, <1>2, <3>2 DEF TypeInv
  <2>7. DOMAIN up' = {} /\ DOMAIN down' = {} /\ down' = <<>> /\ Len(up') = 0 /\ Len(down') = 0
    BY <1>1, <1>2, <1>3, <2>3
  <2>8. PhaseInv'
    BY <1>0, <1>2, <2>2, <2>5, <2>7 DEF PhaseInv, AllData
  <2>9. Base' = 0 /\ lastRead.gen <= client.gen
    BY <1>0, <2>5, <2>7 DEF Base, PhaseInv
  <2>10. Agreement'
    BY <1>2, <2>3, <2>5, <2>7, <2>9 DEF Agreement, First
  <2>11. MavInv'
    BY <1>2, <2>3, <2>7 DEF MavInv
  <2> QED BY <2>6, <2>8, <2>10, <2>11 DEF EInv, NormalInv
<1>5. CASE down[1].type # "acknowledge" /\ client.phase = "normal"
  <2>1. Agreement /\ MavInv /\ AllData
    BY <1>0, <1>5 DEF NormalInv, PhaseInv
  <2>2. down[1] \in [type : {"data", "end"}, id : Nat, of : Origins]
    BY <1>1, <1>5 DEF Downs
  <2>3. /\ client' = [client EXCEPT !.received = down[1].id,
                        !.delivered = client.delivered \/ down[1].type = "end"]
        /\ down[1].id \in Nat
    BY <1>1, <1>5, <2>2 DEF Receive
  <2>4. /\ client'.phase = "normal" /\ client'.gen = client.gen /\ client'.id = client.id
        /\ client'.received = down[1].id /\ client'.overlapped = client.overlapped
        /\ client'.delivered = (client.delivered \/ down[1].type = "end")
    BY <1>0, <1>5, <2>3 DEF TypeInv, Clients
  <2>5. TypeInv'
    BY <1>0, <1>1, <1>2, <2>3 DEF TypeInv, Clients
  <2>6. PhaseInv'
    BY <1>0, <1>1, <1>2, <1>5, <2>1, <2>4 DEF PhaseInv, AllData
  <2>7. Base' = Base
    BY <1>2, <2>4 DEF Base
  <2>8. client.received \in Nat /\ (overlapped => client'.received = client.received + 1)
    BY <1>0, <1>1, <2>1, <2>4 DEF Agreement, TypeInv, Clients
  <2>9. Agreement'
    <3>1. lastRead.gen = client.gen /\ lastRead.id = Base
      BY <1>1, <2>1 DEF Agreement
    <3>2. /\ \A i \in DOMAIN up' : up'[i].from.id = Base' + i
          /\ Base' >= First - 1 /\ overlapped' = client'.overlapped
          /\ lastRead'.gen = client'.gen /\ lastRead'.id = Base'
      BY <1>2, <2>1, <2>4, <2>7, <3>1 DEF Agreement
    <3>3. \A i \in DOMAIN down' : down'[i].of.gen = client'.gen /\ down'[i].of.id <= lastRead'.id
      BY <1>1, <1>2, <2>1, <2>4 DEF Agreement
    <3>4. overlapped' => /\ nextId' = client'.received + Len(down') + 1
                         /\ \A i \in DOMAIN down' : down'[i].id = client'.received + i
      <4> SUFFICES ASSUME overlapped
                   PROVE  /\ nextId = client'.received + Len(down') + 1
                          /\ \A i \in DOMAIN down' : down'[i].id = client'.received + i
        BY <1>2
      <4>1. nextId = client.received + Len(down) + 1 /\ client'.received = client.received + 1
        BY <2>1, <2>8 DEF Agreement
      <4>2. ASSUME NEW i \in DOMAIN down' PROVE down'[i].id = client'.received + i
        <5>1. down'[i] = down[i + 1] /\ i + 1 \in DOMAIN down /\ i \in Nat
          BY <1>1
        <5>2. down[i + 1].id = client.received + (i + 1)
          BY <2>1, <5>1 DEF Agreement
        <5> QED BY <2>8, <4>1, <5>1, <5>2, SMTT(30)
      <4> QED BY <1>1, <2>8, <4>1, <4>2
    <3> QED BY <3>2, <3>3, <3>4 DEF Agreement
  <2>10. MavInv'
    <3>1. \A i \in DOMAIN down' : down'[i].of = lastRead' => mav'
      BY <1>1, <1>2, <2>1 DEF MavInv
    <3>2. down' # <<>> => down'[Len(down')] = down[Len(down)]
      BY <1>1, <1>3
    <3>3. down' = <<>> /\ spc # "replying" => client'.delivered
      <4>a. SUFFICES ASSUME down' = <<>>, spc # "replying" PROVE client'.delivered
        OBVIOUS
      <4>0. Len(down') = 0
        BY <4>a
      <4>1. Len(down) = 1
        <5>1. Len(down) \in Nat /\ Len(down') = Len(down) - 1
          BY <1>1
        <5> QED BY <4>0, <5>1
      <4>2. down # <<>>
        BY DEF Receive
      <4>3. down[1].type = "end"
        BY <2>1, <4>a, <4>1, <4>2 DEF MavInv
      <4> QED BY <2>4, <4>3
    <3>4. client.delivered => client'.delivered
      BY <2>4
    <3> QED BY <1>1, <1>2, <2>1, <3>1, <3>2, <3>3, <3>4 DEF MavInv
  <2> QED BY <2>5, <2>6, <2>9, <2>10 DEF EInv, NormalInv
<1>6. CASE down[1].type # "acknowledge" /\ client.phase # "normal"
  <2>1. UNCHANGED client
    BY <1>1, <1>6 DEF Receive
  <2>2. IsData(down[1])
    BY <1>1, <1>6 DEF Downs, IsData
  <2>3. TypeInv'
    BY <1>0, <1>1, <1>2, <2>1 DEF TypeInv
  <2>4. AllData => AllData'
    BY <1>1 DEF AllData
  <2>5. Completing => Completing'
    <3>1. ASSUME up = <<>>, spc = "reading", nextId = First, mav = FALSE,
                 \A i \in DOMAIN down : IsData(down[i]) <=> i # Len(down),
                 down[Len(down)].overlapped = overlapped
          PROVE  Completing'
      <4>1. Len(down) > 1
        BY <1>1, <2>2, <3>1
      <4>2. down' # <<>> /\ down'[Len(down')] = down[Len(down)]
        BY <1>1, <1>3, <4>1
      <4>3. \A i \in DOMAIN down' : IsData(down'[i]) <=> i # Len(down')
        <5> SUFFICES ASSUME NEW i \in DOMAIN down' PROVE IsData(down'[i]) <=> i # Len(down')
          OBVIOUS
        <5>1. down'[i] = down[i + 1] /\ i + 1 \in DOMAIN down /\ i \in Nat
          BY <1>1
        <5>2. i + 1 = Len(down) <=> i = Len(down')
          BY <1>1, <5>1
        <5> QED BY <3>1, <5>1, <5>2
      <4> QED BY <1>2, <3>1, <4>2, <4>3 DEF Completing
    <3>2. ASSUME up # <<>>, AllData, \A i \in DOMAIN up : up[i].type = "complete" <=> i = Len(up)
          PROVE  Completing'
      BY <1>2, <2>4, <3>2 DEF Completing
    <3> QED BY <3>1, <3>2 DEF Completing
  <2>6. PhaseInv'
    BY <1>0, <1>2, <2>1, <2>4, <2>5 DEF PhaseInv
  <2> QED BY <1>6, <2>1, <2>3, <2>6 DEF EInv, NormalInv
<1> QED BY <1>4, <1>5, <1>6

-----------------------------------------------------------------------------
(* The synchronous loop reads Data, DataEND or Trigger: the message is the *)
(* one after the last, so no reply to it can be on its way.                *)
LEMMA ReadKeeps ==
    ASSUME EInv, up # <<>>, spc = "reading", Head(up).type # "complete", up' = Tail(up),
           note_client_message, spc' # "replying",
           UNCHANGED <<client, down, overlapped, nextId, apc>>
    PROVE  EInv'
<1>0. TypeInv /\ PhaseInv /\ NormalInv
  BY DEF EInv
<1>1. /\ Len(up) \in Nat /\ Len(up) > 0 /\ DOMAIN up = 1..Len(up) /\ 1 \in DOMAIN up
      /\ Head(up) = up[1] /\ Head(up) \in Ups
      /\ up' \in Seq(Ups) /\ Len(up') = Len(up) - 1 /\ DOMAIN up' = 1..Len(up) - 1
      /\ \A i \in 1..Len(up) - 1 : up'[i] = up[i + 1] /\ i + 1 \in 1..Len(up)
  BY <1>0, TailFacts DEF TypeInv
<1>2. lastRead' = up[1].from /\ mav' = (mav /\ ~up[1].rmt)
  BY <1>1 DEF note_client_message
<1>3. lastRead' \in Origins /\ lastRead'.gen = client.gen
  BY <1>0, <1>1, <1>2 DEF Ups, PhaseInv
<1>4. TypeInv'
  BY <1>0, <1>1, <1>2, <1>3 DEF TypeInv
<1>5. client.gen \in Nat /\ client.id \in Nat
  BY <1>0 DEF TypeInv, Clients
<1>6. PhaseInv'
  <2>1. client.phase = "completing" => Completing'
    <3> SUFFICES ASSUME client.phase = "completing" PROVE Completing'
      OBVIOUS
    <3>1. AllData /\ \A i \in DOMAIN up : up[i].type = "complete" <=> i = Len(up)
      BY <1>0 DEF PhaseInv, Completing
    <3>2. Len(up) # 1
      BY <1>1, <3>1
    <3>4. up' # <<>>
      BY <1>0, <3>2, TailFacts DEF TypeInv
    <3>5. \A i \in DOMAIN up' : up'[i].type = "complete" <=> i = Len(up')
      <4> SUFFICES ASSUME NEW i \in DOMAIN up' PROVE up'[i].type = "complete" <=> i = Len(up')
        OBVIOUS
      <4>1. up'[i] = up[i + 1] /\ i + 1 \in DOMAIN up /\ i \in Nat
        BY <1>1
      <4>2. i + 1 = Len(up) <=> i = Len(up')
        BY <1>1, <4>1
      <4> QED BY <3>1, <4>1, <4>2
    <3> QED BY <3>1, <3>4, <3>5 DEF Completing, AllData
  <2>2. \A i \in DOMAIN up' : up'[i].from.gen = client.gen
    BY <1>0, <1>1 DEF PhaseInv
  <2>3. client.phase # "completing" => AllData' /\ \A i \in DOMAIN up' : up'[i].type # "complete"
    BY <1>0, <1>1 DEF PhaseInv, AllData
  <2> QED BY <1>0, <1>3, <1>5, <2>1, <2>2, <2>3 DEF PhaseInv
<1>7. ASSUME client.phase = "normal" PROVE Agreement' /\ MavInv'
  <2>0. Agreement /\ MavInv
    BY <1>0, <1>7 DEF NormalInv
  <2>1. Base \in Int /\ Base' = Base + 1 /\ up[1].from.id = Base + 1
    BY <1>1, <1>5, <2>0 DEF Base, Agreement
  <2>2. \A i \in DOMAIN up' : up'[i].from.id = Base' + i
    <3> SUFFICES ASSUME NEW i \in DOMAIN up' PROVE up'[i].from.id = Base' + i
      OBVIOUS
    <3>1. up'[i] = up[i + 1] /\ i + 1 \in DOMAIN up /\ i \in Nat
      BY <1>1
    <3>2. up[i + 1].from.id = Base + (i + 1)
      BY <2>0, <3>1 DEF Agreement
    <3> QED BY <2>1, <3>1, <3>2
  <2>3. \A i \in DOMAIN down : down[i].of.gen = client.gen /\ down[i].of.id <= Base
    BY <2>0 DEF Agreement
  <2>4. \A i \in DOMAIN down : down[i].of.id \in Nat
    <3> SUFFICES ASSUME NEW i \in DOMAIN down PROVE down[i].of.id \in Nat
      OBVIOUS
    <3>1. down[i] \in Downs /\ IsData(down[i])
      BY <1>0, <1>7 DEF TypeInv, PhaseInv, AllData
    <3> QED BY <3>1 DEF Downs, IsData, Origins
  <2>5. lastRead'.id = Base'
    BY <1>2, <2>1
  <2>6. Agreement'
    <3>1. \A i \in DOMAIN down' : down'[i].of.gen = client'.gen /\ down'[i].of.id <= lastRead'.id
      BY <2>1, <2>3, <2>4, <2>5
    <3>2. Base' >= First - 1
      BY <2>0, <2>1 DEF Agreement, First
    <3> QED BY <1>3, <2>0, <2>2, <2>5, <3>1, <3>2 DEF Agreement
  <2>7. \A i \in DOMAIN down : down[i].of # lastRead'
    BY <2>1, <2>3, <2>4, <2>5
  <2>8. ASSUME mav', down = <<>>, ~client.delivered PROVE \E i \in DOMAIN up' : up'[i].rmt
    <3>1. mav /\ ~up[1].rmt
      BY <1>2, <2>8
    <3>2. PICK i \in DOMAIN up : up[i].rmt
      BY <2>0, <2>8, <3>1 DEF MavInv
    <3>3. i \in 2..Len(up)
      BY <1>1, <3>1, <3>2
    <3>4. i - 1 \in DOMAIN up' /\ up'[i - 1] = up[i]
      BY <1>1, <3>3
    <3> QED BY <3>2, <3>4
  <2>9. MavInv'
    BY <2>0, <2>7, <2>8 DEF MavInv
  <2> QED BY <2>6, <2>9
<1> QED BY <1>4, <1>6, <1>7 DEF EInv, NormalInv

(* DeviceClearComplete is the last message there is, and its answer goes   *)
(* behind whatever is left of the exchange before.                         *)
LEMMA ReadClearCompleteKeeps ==
    ASSUME EInv, ReadClearComplete
    PROVE  EInv'
<1> DEFINE o == Head(up).overlapped /\ SupportsOverlapped
           m == [type |-> "acknowledge", overlapped |-> o]
<1>0. TypeInv /\ PhaseInv /\ up # <<>> /\ spc = "reading" /\ Head(up).type = "complete"
  BY DEF EInv, ReadClearComplete, Read
<1>1. /\ Len(up) \in Nat /\ Len(up) > 0 /\ DOMAIN up = 1..Len(up) /\ 1 \in DOMAIN up
      /\ Head(up) = up[1] /\ up' \in Seq(Ups) /\ Len(up') = Len(up) - 1
  BY <1>0, TailFacts DEF TypeInv, ReadClearComplete, Read
<1>2. client.phase = "completing" /\ AllData /\ Len(up) = 1
  BY <1>0, <1>1 DEF PhaseInv, Completing
<1>3. up' = <<>> /\ DOMAIN up' = {}
  BY <1>1, <1>2, EmptyFacts
<1>4. /\ mav' = FALSE /\ overlapped' = o /\ nextId' = First /\ down' = Append(down, m)
      /\ UNCHANGED <<client, spc, lastRead, apc>>
  BY DEF ReadClearComplete, set_overlapped, Acknowledge
<1>5. m \in Downs /\ m.type = "acknowledge" /\ m.overlapped = o /\ o \in BOOLEAN
  BY DEF Downs
<1> HIDE DEF m, o
<1>6. /\ Len(down) \in Nat /\ DOMAIN down = 1..Len(down) /\ down' \in Seq(Downs)
      /\ Len(down') = Len(down) + 1 /\ DOMAIN down' = 1..Len(down) + 1
      /\ down'[Len(down) + 1] = m /\ down' # <<>>
      /\ \A i \in 1..Len(down) : down'[i] = down[i]
  BY <1>0, <1>4, <1>5, AppendFacts DEF TypeInv
<1>7. \A i \in DOMAIN down' : IsData(down'[i]) <=> i # Len(down')
  BY <1>2, <1>5, <1>6 DEF AllData, IsData
<1>8. TypeInv'
  BY <1>0, <1>1, <1>4, <1>5, <1>6 DEF TypeInv, First
<1>9. down'[Len(down')].overlapped = overlapped'
  BY <1>4, <1>5, <1>6
<1>10. Completing'
  BY <1>0, <1>3, <1>4, <1>6, <1>7, <1>9 DEF Completing
<1>11. PhaseInv'
  BY <1>0, <1>2, <1>3, <1>4, <1>10 DEF PhaseInv
<1> QED BY <1>2, <1>4, <1>8, <1>11 DEF EInv, NormalInv

(* The loop goes to the bus and comes back from it.                        *)
LEMMA BusKeeps ==
    ASSUME EInv, spc # "reading", spc # "replying",
           UNCHANGED <<client, up, down, lastRead, overlapped, nextId, apc>>,
           \/ spc' = "replying" /\ mav' = TRUE
           \/ spc' # "replying" /\ UNCHANGED mav
    PROVE  EInv'
<1>0. TypeInv /\ PhaseInv /\ NormalInv
  BY DEF EInv
<1>1. TypeInv'
  BY <1>0 DEF TypeInv
<1>2. PhaseInv'
  BY <1>0 DEF PhaseInv, AllData, Completing
<1>3. ASSUME client.phase = "normal" PROVE Agreement' /\ MavInv'
  <2>1. Agreement /\ MavInv
    BY <1>0, <1>3 DEF NormalInv
  <2>2. Agreement'
    BY <2>1 DEF Agreement, Base
  <2>3. MavInv'
    BY <2>1 DEF MavInv
  <2> QED BY <2>2, <2>3
<1> QED BY <1>1, <1>2, <1>3 DEF EInv, NormalInv

(* A chunk of the reply goes down.                                         *)
LEMMA WriteChunkKeeps ==
    ASSUME EInv, WriteChunk
    PROVE  EInv'
<1> DEFINE m == [type |-> IF left = 1 THEN "end" ELSE "data",
                 id |-> response_message_id, of |-> lastRead]
<1>0. TypeInv /\ PhaseInv /\ NormalInv /\ spc = "replying"
  BY DEF EInv, WriteChunk
<1>1. /\ down' = Append(down, m) /\ UNCHANGED <<client, up, mav, lastRead, overlapped, apc>>
      /\ nextId' = IF overlapped THEN nextId + 1 ELSE nextId
      /\ spc' = IF left = 1 THEN "reading" ELSE "replying"
  BY DEF WriteChunk
<1>2. response_message_id \in Nat /\ lastRead \in Origins
  BY <1>0 DEF response_message_id, TypeInv, Origins
<1>3. /\ m \in Downs /\ IsData(m) /\ m.of = lastRead /\ m.id = response_message_id
      /\ spc' # "replying" => m.type = "end"
  BY <1>1, <1>2 DEF Downs, IsData
<1> HIDE DEF m
<1>4. /\ Len(down) \in Nat /\ DOMAIN down = 1..Len(down) /\ down' \in Seq(Downs)
      /\ Len(down') = Len(down) + 1 /\ DOMAIN down' = 1..Len(down) + 1
      /\ down'[Len(down) + 1] = m /\ down' # <<>>
      /\ \A i \in 1..Len(down) : down'[i] = down[i]
  BY <1>0, <1>1, <1>3, AppendFacts DEF TypeInv
<1>5. nextId \in Nat /\ nextId' \in Nat
  BY <1>0, <1>1 DEF TypeInv
<1>6. TypeInv'
  BY <1>0, <1>1, <1>4, <1>5 DEF TypeInv
<1>7. AllData => AllData'
  BY <1>3, <1>4 DEF AllData
<1>8. PhaseInv'
  BY <1>0, <1>1, <1>7 DEF PhaseInv, Completing
<1>9. ASSUME client.phase = "normal" PROVE Agreement' /\ MavInv'
  <2>0. Agreement /\ MavInv /\ Base' = Base
    BY <1>0, <1>1, <1>9 DEF NormalInv, Base
  <2>1. lastRead.gen = client.gen /\ lastRead.id = Base /\ lastRead.id \in Nat
    BY <1>0, <2>0 DEF Agreement, TypeInv, Origins
  <2>2. \A i \in DOMAIN down' : down'[i].of.gen = client'.gen /\ down'[i].of.id <= lastRead'.id
    BY <1>1, <1>3, <1>4, <2>0, <2>1 DEF Agreement
  <2>3. overlapped => /\ nextId' = client.received + Len(down') + 1
                      /\ \A i \in DOMAIN down' : down'[i].id = client.received + i
    <3> SUFFICES ASSUME overlapped
                 PROVE  /\ nextId' = client.received + Len(down') + 1
                        /\ \A i \in DOMAIN down' : down'[i].id = client.received + i
      OBVIOUS
    <3>1. /\ nextId = client.received + Len(down) + 1 /\ nextId' = nextId + 1
          /\ m.id = nextId /\ client.received \in Nat
      BY <1>0, <1>1, <1>3, <2>0 DEF Agreement, response_message_id, TypeInv, Clients
    <3>2. m.id = client.received + (Len(down) + 1)
      BY <1>4, <3>1
    <3>3. \A i \in 1..Len(down) : down'[i].id = client.received + i
      BY <1>4, <2>0 DEF Agreement
    <3>4. \A i \in DOMAIN down' : down'[i].id = client.received + i
      BY <1>4, <3>2, <3>3
    <3> QED BY <1>4, <3>1, <3>4
  <2>4. Agreement'
    BY <1>1, <2>0, <2>1, <2>2, <2>3 DEF Agreement
  <2>5. mav
    BY <1>0, <2>0 DEF MavInv
  <2>6. down'[Len(down')] = m
    BY <1>4
  <2>7. MavInv'
    BY <1>1, <1>3, <1>4, <2>5, <2>6 DEF MavInv
  <2> QED BY <2>4, <2>7
<1> QED BY <1>1, <1>6, <1>8, <1>9 DEF EInv, NormalInv

(* The request for a device clear, and the asynchronous loop.              *)
LEMMA ClearKeeps ==
    ASSUME EInv, \/ RequestClear \/ AsyncDeviceClear \/ AsyncBusStart \/ AsyncDeviceClearDone
    PROVE  EInv'
<1>0. TypeInv /\ PhaseInv /\ NormalInv
  BY DEF EInv
<1>1. UNCHANGED <<up, down, spc, mav, lastRead, overlapped, nextId>>
  BY DEF RequestClear, AsyncDeviceClear, AsyncBusStart, AsyncDeviceClearDone, serverVars
<1>2. /\ client' \in Clients /\ client'.gen = client.gen
      /\ \/ UNCHANGED client /\ (apc' # "reading" => client.phase = "requested")
         \/ /\ client.phase \in {"normal", "requested"}
            /\ client'.phase = "requested" \/ (client'.phase = "acknowledged" /\ apc' = "reading")
  BY <1>0 DEF RequestClear, AsyncDeviceClear, AsyncBusStart, AsyncDeviceClearDone, TypeInv,
              Clients, PhaseInv
<1>3. TypeInv'
  BY <1>0, <1>1, <1>2 DEF TypeInv
<1>4. (AllData => AllData') /\ (Completing => Completing')
  BY <1>1 DEF AllData, Completing
<1>5. PhaseInv'
  BY <1>0, <1>1, <1>2, <1>4 DEF PhaseInv
<1>6. NormalInv'
  BY <1>0, <1>1, <1>2 DEF NormalInv, Agreement, MavInv, Base
<1> QED BY <1>3, <1>5, <1>6 DEF EInv

(* Every step keeps the invariant.                                         *)
LEMMA ENext == EInv /\ [Next]_vars => EInv'
<1> SUFFICES ASSUME EInv, [Next]_vars PROVE EInv'
  OBVIOUS
<1>1. CASE ReadData \/ ReadDataEnd \/ ReadTrigger
  <2>1. /\ up # <<>> /\ spc = "reading" /\ Head(up).type # "complete" /\ up' = Tail(up)
        /\ note_client_message /\ spc' # "replying"
        /\ UNCHANGED <<client, down, overlapped, nextId, apc>>
    BY <1>1 DEF ReadData, ReadDataEnd, ReadTrigger, Read
  <2> QED BY <2>1, ReadKeeps
<1>2. CASE SyncBusStart \/ ExecuteQuiet \/ \E n \in 1..MaxChunks : ExecuteData(n)
  <2>1. /\ spc # "reading" /\ spc # "replying"
        /\ UNCHANGED <<client, up, down, lastRead, overlapped, nextId, apc>>
        /\ \/ spc' = "replying" /\ mav' = TRUE
           \/ spc' # "replying" /\ UNCHANGED mav
    BY <1>2 DEF SyncBusStart, ExecuteQuiet, ExecuteData, serverVars
  <2> QED BY <2>1, BusKeeps
<1>3. CASE UNCHANGED vars
  BY <1>3 DEF EInv, TypeInv, PhaseInv, NormalInv, Agreement, MavInv, Base, AllData, Completing,
              vars, serverVars
<1> QED BY <1>1, <1>2, <1>3, SendKeeps, CompleteClearKeeps, ReceiveKeeps,
           ReadClearCompleteKeeps, WriteChunkKeeps, ClearKeeps DEF Next

-----------------------------------------------------------------------------
(* The invariant holds throughout.                                         *)
LEMMA Exchange == Spec => []EInv
BY EInit, ENext, PTL DEF Spec

(* sync_loop and the device clear: for any bounds, a client outside of a   *)
(* device clear is never handed a reply from before its last one.          *)
THEOREM RepliesStayCurrent == Spec => []RepliesAreCurrent
<1>1. EInv => RepliesAreCurrent
  BY DEF EInv, NormalInv, Agreement, RepliesAreCurrent
<1> QED BY <1>1, Exchange, PTL

(* response_message_id and set_overlapped: the MessageIDs of overlapped    *)
(* mode never skip or repeat, and the MAV computed from them is exact.     *)
THEOREM NumberingHolds == Spec => []OverlappedNumbering
<1>1. ASSUME EInv, client.phase = "normal", overlapped
      PROVE  /\ client.overlapped
             /\ \A i \in DOMAIN down : IsData(down[i]) => down[i].id = client.received + i
             /\ mav_bit(client.received) <=> down # <<>>
  <2>1. Agreement /\ TypeInv
    BY <1>1 DEF EInv, NormalInv
  <2>2. /\ client.overlapped /\ nextId = client.received + Len(down) + 1
        /\ \A i \in DOMAIN down : down[i].id = client.received + i
    BY <1>1, <2>1 DEF Agreement
  <2>3. Len(down) \in Nat /\ (down = <<>> <=> Len(down) = 0) /\ client.received \in Nat
    BY <2>1, EmptyFacts DEF TypeInv, Clients
  <2>4. mav_bit(client.received) <=> client.received # nextId - 1
    BY <1>1 DEF mav_bit
  <2>5. client.received # nextId - 1 <=> Len(down) # 0
    BY <2>2, <2>3
  <2> QED BY <2>2, <2>3, <2>4, <2>5
<1>2. EInv => OverlappedNumbering
  BY <1>1 DEF OverlappedNumbering
<1> QED BY <1>2, Exchange, PTL

(* note_client_message, set_overlapped and the MAV set before the first    *)
(* chunk: in synchronized mode MAV is neither missed nor stale.            *)
THEOREM MavHolds == Spec => []MavTruthful
<1>1. EInv => MavTruthful
  BY DEF EInv, NormalInv, MavInv, MavTruthful, MavNotMissed, NoStaleMav, mav_bit
<1> QED BY <1>1, Exchange, PTL

-----------------------------------------------------------------------------
(* The half-assembled message was read in the epoch the loop has noted.    *)
Parts == [gen : Nat, seen : Nat]

Alike(parts) == \A i, j \in DOMAIN parts : parts[i].seen = parts[j].seen

EpochInv ==
    /\ buffer \in Seq(Parts) /\ epoch \in Nat /\ clearEpoch \in Nat
    /\ \A i \in DOMAIN buffer : buffer[i].seen = epoch
    /\ Alike(cur)

(* Nothing is assembled at the start.                                      *)
LEMMA EpochInit == Init => EpochInv
BY DEF Init, EpochInv, Alike

(* What the loop keeps of its buffer is of the current epoch.              *)
LEMMA AssembledFacts ==
    ASSUME EpochInv
    PROVE  /\ Assembled \in Seq(Parts)
           /\ \A i \in DOMAIN Assembled : Assembled[i].seen = clearEpoch
<1>1. CASE clearEpoch # epoch
  BY <1>1 DEF Assembled
<1>2. CASE clearEpoch = epoch
  BY <1>2 DEF Assembled, EpochInv
<1> QED BY <1>1, <1>2

(* What is assembled and the part just read were read in the same epoch.   *)
LEMMA PartAdded ==
    ASSUME TypeInv, EpochInv, up # <<>>
    PROVE  /\ Append(Assembled, NewPart) \in Seq(Parts)
           /\ \A i \in DOMAIN Append(Assembled, NewPart) :
                 Append(Assembled, NewPart)[i].seen = clearEpoch
<1>1. NewPart \in Parts /\ NewPart.seen = clearEpoch
  <2>1. Head(up) \in Ups
    BY TailFacts DEF TypeInv
  <2>2. Head(up).from.gen \in Nat
    BY <2>1 DEF Ups, Origins
  <2> QED BY <2>2 DEF NewPart, Parts, EpochInv
<1>2. /\ Assembled \in Seq(Parts)
      /\ \A i \in DOMAIN Assembled : Assembled[i].seen = clearEpoch
  BY AssembledFacts
<1> QED BY <1>1, <1>2, AppendFacts

(* Every step keeps the buffer in one epoch.                               *)
LEMMA EpochNext == TypeInv /\ EpochInv /\ [Next]_vars => EpochInv'
<1> SUFFICES ASSUME TypeInv, EpochInv, [Next]_vars PROVE EpochInv'
  OBVIOUS
<1> USE DEF serverVars
<1>1. CASE ReadData
  <2>1. up # <<>> /\ epoch' = clearEpoch /\ buffer' = Append(Assembled, NewPart)
        /\ UNCHANGED <<cur, clearEpoch>>
    BY <1>1 DEF ReadData, Read
  <2> QED BY <2>1, PartAdded DEF EpochInv
<1>2. CASE ReadDataEnd
  <2>1. up # <<>> /\ epoch' = clearEpoch /\ buffer' = <<>> /\ cur' = Append(Assembled, NewPart)
        /\ UNCHANGED clearEpoch
    BY <1>2 DEF ReadDataEnd, Read
  <2>2. Alike(cur')
    BY <2>1, PartAdded DEF Alike
  <2> QED BY <2>1, <2>2 DEF EpochInv
<1>3. CASE ReadTrigger \/ ReadClearComplete
  <2>1. epoch' = clearEpoch /\ buffer' = Assembled /\ (cur' = <<>> \/ UNCHANGED cur)
        /\ UNCHANGED clearEpoch
    BY <1>3 DEF ReadTrigger, ReadClearComplete, Read
  <2>2. Alike(cur')
    BY <2>1 DEF Alike, EpochInv
  <2> QED BY <2>1, <2>2, AssembledFacts DEF EpochInv
<1>4. CASE ExecuteQuiet \/ \E n \in 1..MaxChunks : ExecuteData(n)
  BY <1>4 DEF ExecuteQuiet, ExecuteData, EpochInv, Alike
<1>5. CASE AsyncDeviceClear
  BY <1>5 DEF AsyncDeviceClear, EpochInv, Alike
<1>6. ASSUME UNCHANGED <<buffer, epoch, clearEpoch, cur>> PROVE EpochInv'
  BY <1>6 DEF EpochInv, Alike
<1>7. CASE \/ \E type \in {"data", "end", "trigger"} : Send(type)
           \/ Receive \/ RequestClear \/ \E o \in BOOLEAN : CompleteClear(o)
           \/ SyncBusStart \/ WriteChunk \/ AsyncBusStart \/ AsyncDeviceClearDone
           \/ UNCHANGED vars
  BY <1>6, <1>7 DEF Send, Receive, RequestClear, CompleteClear, SyncBusStart, WriteChunk,
                    AsyncBusStart, AsyncDeviceClearDone, vars
<1> QED BY <1>1, <1>2, <1>3, <1>4, <1>5, <1>7 DEF Next

(* sync_loop's epoch check: the parts of a command that reaches the bus    *)
(* were read between the same two device clears.                           *)
THEOREM EpochsNeverMix == Spec => []NoMixedEpochs
<1>1. EpochInv => NoMixedEpochs
  BY DEF EpochInv, Alike, NoMixedEpochs
<1>2. EInv => TypeInv
  BY DEF EInv
<1> QED BY <1>1, <1>2, EpochInit, EpochNext, Exchange, PTL DEF Spec
=============================================================================
