-------------------------- MODULE HislipSrqProofs --------------------------
(***************************************************************************)
(* Service requests for any number of instruments, sessions, links,        *)
(* channels and requests, and any depth of the push queue.                 *)
(*                                                                         *)
(* A request is in one hand at a time: at its instrument, with one session *)
(* or with the links of its instrument (Apart).  Within a session, and for *)
(* a link, it is in one place on its way to being announced, and in one on *)
(* its way into a status byte (SessionOnce, LinkOnce).  The steps of the   *)
(* HiSLIP sessions keep it so.                                             *)
(***************************************************************************)
EXTENDS ServiceRequests, TLAPS

ExPlaces == {"idle", "hold", "poll", "look", "read", "check", "reply"}
Forwarders == [pc : {"recv", "poll", "level", "write"}, got : Request]
Executions == [pc : ExPlaces, query : BOOLEAN, sr : Request \cup {None}, took : Request]

LineTypes == inst \in [Dev -> Instrument] /\ from \in Seq(Dev) /\ Len(from) <= MaxRequests

SessionTypes ==
    /\ fw \in [Session -> Forwarders]
    /\ ex \in [Session -> Executions]
    /\ pushq \in [Session -> Seq(Request)]
    /\ held \in [Session -> Request \cup {None}]
    /\ told \in [Session -> [Request -> Nat]]
    /\ handed \in [Session -> [Request -> Nat]]

LinkTypes ==
    /\ handle \subseteq Link
    /\ \A l \in Interface : call # <<"readstb", l>>
    /\ sendq \subseteq [link : Link, req : Request]
    /\ lheld \in [Link -> Request \cup {NoByte}]
    /\ woken \in [Link -> [Request -> Nat]]
    /\ seen \in [Link -> [Request -> Nat]]

(* The requests as such, and those a session or a link has to do with.     *)
Numbers == Request \ {0}

Took(s, r) == ex[s].pc = "check" /\ ex[s].took = r
Pushed(s, r) == \E i \in DOMAIN pushq[s] : pushq[s][i] = r
Note(l, r) == [link |-> l, req |-> r]

(* On the way to be announced by the session, and to the status byte.      *)
Pending(s, r) == fw[s].got = r \/ ex[s].sr = r \/ Took(s, r) \/ Pushed(s, r)

SessionHas(s, r) == Pending(s, r) \/ held[s] = r \/ told[s][r] > 0 \/ handed[s][r] > 0
LinkHas(l, r) == Note(l, r) \in sendq \/ lheld[l] = r \/ woken[l][r] > 0 \/ seen[l][r] > 0

Origin == \A d \in Dev : inst[d].req # 0 => inst[d].req \in DOMAIN from /\ from[inst[d].req] = d

SessionApart ==
    \A s \in Session, r \in Numbers : SessionHas(s, r) =>
        /\ r \in DOMAIN from /\ from[r] = devOf[s] /\ inst[devOf[s]].req # r
        /\ \A t \in Session : SessionHas(t, r) => t = s
        /\ \A l \in Link : ~LinkHas(l, r)

LinkApart ==
    \A l \in Link, r \in Numbers : LinkHas(l, r) =>
        /\ l \notin Interface
        /\ r \in DOMAIN from /\ from[r] = linkDev[l] /\ inst[linkDev[l]].req # r

Apart == Origin /\ SessionApart /\ LinkApart

OnceIn(s, r) ==
    /\ told[s][r] <= 1 /\ handed[s][r] <= 1
    /\ Pending(s, r) => told[s][r] = 0
    /\ fw[s].got = r => ex[s].sr # r /\ ~Took(s, r) /\ ~Pushed(s, r)
    /\ ex[s].sr = r \/ Took(s, r) => ~Pushed(s, r) /\ handed[s][r] = 0 /\ held[s] # r
    /\ Took(s, r) => ex[s].sr # r
    /\ \A i, j \in DOMAIN pushq[s] : pushq[s][i] = r /\ pushq[s][j] = r => i = j
    /\ held[s] = r => handed[s][r] = 0

OnceFor(l, r) ==
    /\ woken[l][r] <= 1 /\ seen[l][r] <= 1
    /\ Note(l, r) \in sendq => woken[l][r] = 0
    /\ lheld[l] = r => seen[l][r] = 0

SessionOnce == \A s \in Session, r \in Numbers : OnceIn(s, r)
LinkOnce == \A l \in Link, r \in Numbers : OnceFor(l, r)

SrqInv == LineTypes /\ SessionTypes /\ LinkTypes /\ Apart /\ SessionOnce /\ LinkOnce

-----------------------------------------------------------------------------
(* What the invariant says of the request at an instrument: nobody has it. *)
LEMMA Untouched ==
    ASSUME SrqInv, NEW d \in Dev, inst[d].req # 0
    PROVE  /\ inst[d].req \in Numbers /\ inst[d].req \in DOMAIN from /\ from[inst[d].req] = d
           /\ \A s \in Session : ~SessionHas(s, inst[d].req)
           /\ \A l \in Link : ~LinkHas(l, inst[d].req)
<1>1. inst[d].req \in Numbers
  BY DEF SrqInv, LineTypes, Instrument, Numbers
<1>2. inst[d].req \in DOMAIN from /\ from[inst[d].req] = d
  BY DEF SrqInv, Apart, Origin
<1>3. \A s \in Session : ~SessionHas(s, inst[d].req)
  BY <1>1, <1>2 DEF SrqInv, Apart, SessionApart
<1>4. \A l \in Link : ~LinkHas(l, inst[d].req)
  BY <1>1, <1>2 DEF SrqInv, Apart, LinkApart
<1> QED BY <1>1, <1>2, <1>3, <1>4

(* A step after which instruments have the requests they had, or none.     *)
Settles ==
    /\ inst' \in [Dev -> Instrument] /\ from' = from
    /\ \A d \in Dev : inst'[d].req \in {0, inst[d].req}

Taken(d, r) == r # 0 /\ inst[d].req = r /\ inst'[d].req = 0

(* Session s steps: what it has it had, or has taken from its instrument.  *)
LEMMA SessionStep ==
    ASSUME SrqInv, Settles, SessionTypes', NEW s \in Session,
           UNCHANGED <<handle, call, sendq, lheld, woken, seen>>,
           \A t \in Session \ {s} :
              /\ fw'[t] = fw[t] /\ ex'[t] = ex[t] /\ pushq'[t] = pushq[t]
              /\ held'[t] = held[t] /\ told'[t] = told[t] /\ handed'[t] = handed[t],
           \A r \in Numbers : /\ SessionHas(s, r)' => SessionHas(s, r) \/ Taken(devOf[s], r)
                              /\ OnceIn(s, r)'
    PROVE  SrqInv'
<1>0. devOf[s] \in Dev /\ \A t \in Session : devOf[t] \in Dev
  BY SessionAssumption
<1>1. LineTypes'
  BY DEF Settles, SrqInv, LineTypes
<1>2. LinkTypes'
  BY DEF SrqInv, LinkTypes
<1>3. \A l \in Link, r \in Numbers : LinkHas(l, r)' <=> LinkHas(l, r)
  BY Zenon DEF LinkHas
<1>4. ASSUME NEW t \in Session \ {s}, NEW r \in Numbers
      PROVE  (SessionHas(t, r)' <=> SessionHas(t, r)) /\ OnceIn(t, r)'
  <2>1. OnceIn(t, r)
    BY <1>4, Zenon DEF SrqInv, SessionOnce
  <2> QED BY <1>4, <2>1, Zenon DEF SessionHas, Pending, Took, Pushed, OnceIn
<1>5. Origin'
  BY Zenon DEF SrqInv, Apart, Origin, Settles
<1>6. LinkApart'
  <2>1. ASSUME NEW l \in Link, NEW r \in Numbers, LinkHas(l, r)'
        PROVE  /\ l \notin Interface /\ r \in DOMAIN from' /\ from'[r] = linkDev[l]
               /\ inst'[linkDev[l]].req # r
    <3>1. l \notin Interface /\ r \in DOMAIN from /\ from[r] = linkDev[l] /\ inst[linkDev[l]].req # r
      BY <1>3, <2>1 DEF SrqInv, Apart, LinkApart
    <3>2. linkDev[l] \in Dev
      BY <3>1, LinkAssumption, Zenon
    <3> QED BY <3>1, <3>2 DEF Settles, Numbers
  <2> QED BY <2>1, Zenon DEF LinkApart
<1>7. ASSUME NEW r \in Numbers, SessionHas(s, r)'
      PROVE  /\ r \in DOMAIN from' /\ from'[r] = devOf[s] /\ inst'[devOf[s]].req # r
             /\ \A t \in Session : SessionHas(t, r)' => t = s
             /\ \A l \in Link : ~LinkHas(l, r)'
  <2>1. CASE SessionHas(s, r)
    BY <1>0, <1>3, <1>4, <2>1, SMTT(30) DEF SrqInv, Apart, SessionApart, Settles, Numbers
  <2>2. CASE Taken(devOf[s], r)
    BY <1>0, <1>3, <1>4, <2>2, Untouched, Zenon DEF Taken, Settles
  <2> QED BY <1>7, <2>1, <2>2, Zenon
<1>8. ASSUME NEW t \in Session \ {s}, NEW r \in Numbers, SessionHas(t, r)'
      PROVE  /\ r \in DOMAIN from' /\ from'[r] = devOf[t] /\ inst'[devOf[t]].req # r
             /\ \A u \in Session : SessionHas(u, r)' => u = t
             /\ \A l \in Link : ~LinkHas(l, r)'
  <2>1. SessionHas(t, r)
    BY <1>4, <1>8, Zenon
  <2>2. /\ r \in DOMAIN from /\ from[r] = devOf[t] /\ inst[devOf[t]].req # r
        /\ \A u \in Session : SessionHas(u, r) => u = t
        /\ \A l \in Link : ~LinkHas(l, r)
    BY <2>1, Zenon DEF SrqInv, Apart, SessionApart
  <2>3. ~SessionHas(s, r)'
    BY <1>7, <1>8, Zenon
  <2> QED BY <1>0, <1>3, <1>4, <2>2, <2>3, Zenon DEF Settles, Numbers
<1>9. SessionApart'
  BY <1>7, <1>8, Zenon DEF SessionApart
<1>10. SessionOnce'
  BY <1>4, Zenon DEF SessionOnce
<1>11. LinkOnce'
  BY DEF SrqInv, LinkOnce, OnceFor
<1> QED BY <1>1, <1>2, <1>5, <1>6, <1>9, <1>10, <1>11 DEF SrqInv, Apart

(* The links step, each having had what it has, or taken it.               *)
LEMMA LinkStep ==
    ASSUME SrqInv, Settles, LinkTypes',
           UNCHANGED <<fw, ex, pushq, held, told, handed>>,
           \A l \in Link, r \in Numbers :
              /\ LinkHas(l, r)' => LinkHas(l, r) \/ (l \notin Interface /\ Taken(linkDev[l], r))
              /\ OnceFor(l, r)'
    PROVE  SrqInv'
<1>0. /\ \A t \in Session : devOf[t] \in Dev
      /\ \A l \in Link \ Interface : linkDev[l] \in Dev
  BY SessionAssumption, LinkAssumption
<1>1. LineTypes'
  BY DEF Settles, SrqInv, LineTypes
<1>2. SessionTypes'
  BY DEF SrqInv, SessionTypes
<1>3. \A t \in Session, r \in Numbers : SessionHas(t, r)' <=> SessionHas(t, r)
  BY Zenon DEF SessionHas, Pending, Took, Pushed
<1>4. Origin'
  BY Zenon DEF SrqInv, Apart, Origin, Settles
<1>5. ASSUME NEW l \in Link, NEW r \in Numbers, LinkHas(l, r)'
      PROVE  /\ l \notin Interface /\ r \in DOMAIN from' /\ from'[r] = linkDev[l]
             /\ inst'[linkDev[l]].req # r
             /\ \A t \in Session : ~SessionHas(t, r)
  <2>1. CASE LinkHas(l, r)
    <3>1. l \notin Interface /\ r \in DOMAIN from /\ from[r] = linkDev[l] /\ inst[linkDev[l]].req # r
      BY <2>1 DEF SrqInv, Apart, LinkApart
    <3>2. \A t \in Session : ~SessionHas(t, r)
      BY <2>1, Zenon DEF SrqInv, Apart, SessionApart
    <3> QED BY <1>0, <3>1, <3>2 DEF Settles, Numbers
  <2>2. CASE l \notin Interface /\ Taken(linkDev[l], r)
    BY <1>0, <2>2, Untouched, Zenon DEF Taken, Settles
  <2> QED BY <1>5, <2>1, <2>2, Zenon
<1>6. LinkApart'
  BY <1>5, Zenon DEF LinkApart
<1>7. ASSUME NEW t \in Session, NEW r \in Numbers, SessionHas(t, r)'
      PROVE  /\ r \in DOMAIN from' /\ from'[r] = devOf[t] /\ inst'[devOf[t]].req # r
             /\ \A u \in Session : SessionHas(u, r)' => u = t
             /\ \A l \in Link : ~LinkHas(l, r)'
  <2>1. /\ r \in DOMAIN from /\ from[r] = devOf[t] /\ inst[devOf[t]].req # r
        /\ \A u \in Session : SessionHas(u, r) => u = t
    BY <1>3, <1>7, Zenon DEF SrqInv, Apart, SessionApart
  <2>2. \A l \in Link : ~LinkHas(l, r)'
    BY <1>3, <1>5, <1>7, Zenon
  <2> QED BY <1>0, <1>3, <2>1, <2>2, Zenon DEF Settles, Numbers
<1>8. SessionApart'
  BY <1>7, Zenon DEF SessionApart
<1>9. SessionOnce'
  BY SMTT(30) DEF SrqInv, SessionOnce, OnceIn, Pending, Took, Pushed
<1>10. LinkOnce'
  BY DEF LinkOnce
<1> QED BY <1>1, <1>2, <1>4, <1>6, <1>8, <1>9, <1>10 DEF SrqInv, Apart

(* Nothing that is claimed moves.                                          *)
LEMMA Quiet ==
    ASSUME SrqInv, Settles, LinkTypes', UNCHANGED <<fw, ex, pushq, held, told, handed>>,
           UNCHANGED <<sendq, lheld, woken, seen>>
    PROVE  SrqInv'
<1>1. ASSUME NEW l \in Link, NEW r \in Numbers
      PROVE  (LinkHas(l, r)' => LinkHas(l, r)) /\ OnceFor(l, r)'
  BY DEF LinkHas, SrqInv, LinkOnce, OnceFor
<1> QED BY <1>1, LinkStep, Zenon

-----------------------------------------------------------------------------
(* The instruments: a poll, a command and a read, and leaving them alone.  *)
LEMMA Alone == ASSUME SrqInv, UNCHANGED <<inst, from>> PROVE Settles
BY DEF SrqInv, LineTypes, Settles

(* A serial poll takes the request of its instrument.                      *)
LEMMA PollSettles ==
    ASSUME SrqInv, NEW d \in Dev, inst' = Polled(d), from' = from
    PROVE  /\ Settles /\ inst'[d].req = 0
           /\ \A r \in Numbers : inst[d].req = r => Taken(d, r)
<1>1. inst \in [Dev -> Instrument] /\ 0 \in Request
  BY LineAssumption DEF SrqInv, LineTypes, Request
<1>2. inst' \in [Dev -> Instrument] /\ inst'[d].req = 0
  BY <1>1, Zenon DEF Polled, Instrument
<1>3. \A e \in Dev : e # d => inst'[e] = inst[e]
  BY <1>1 DEF Polled
<1>4. Settles
  BY <1>2, <1>3 DEF Settles
<1> QED BY <1>2, <1>4 DEF Taken, Numbers

(* An instrument with some of its fields changed is one.                   *)
LEMMA Changed ==
    ASSUME NEW i \in Instrument, NEW bits \in SUBSET {"MAV", "ESB"}, NEW req \in Request,
           NEW asked \in BOOLEAN, NEW edge \in BOOLEAN
    PROVE  /\ [i EXCEPT !.asked = asked, !.bits = bits, !.req = req, !.edge = edge] \in Instrument
           /\ [i EXCEPT !.bits = bits, !.req = req, !.edge = edge] \in Instrument
BY Zenon DEF Instrument

(* A command may lift a request.                                           *)
LEMMA WriteSettles ==
    ASSUME SrqInv, NEW d \in Dev, NEW query \in BOOLEAN, NEW cls \in BOOLEAN,
           inst' = Written(d, query, cls), from' = from
    PROVE  Settles
<1>1. inst \in [Dev -> Instrument] /\ 0 \in Request
  BY LineAssumption DEF SrqInv, LineTypes, Request
<1>2. inst' \in [Dev -> Instrument]
  <2> DEFINE i == inst[d]
             lift == cls /\ ~i.mav
             bits == IF cls THEN i.bits \ {"ESB"} ELSE i.bits
             req == IF lift THEN 0 ELSE i.req
             asked == i.asked \/ query
             edge == i.edge /\ ~lift
  <2>1. i \in Instrument
    BY <1>1
  <2>2. bits \in SUBSET {"MAV", "ESB"} /\ req \in Request
    BY <1>1, <2>1 DEF Instrument
  <2>3. asked \in BOOLEAN /\ edge \in BOOLEAN
    OBVIOUS
  <2>4. inst' = [inst EXCEPT ![d] = [i EXCEPT !.asked = asked, !.bits = bits,
                                              !.req = req, !.edge = edge]]
    BY Zenon DEF Written
  <2> HIDE DEF i, bits, req, asked, edge
  <2>5. [i EXCEPT !.asked = asked, !.bits = bits, !.req = req, !.edge = edge] \in Instrument
    BY <2>1, <2>2, <2>3, Changed, Zenon
  <2> QED BY <1>1, <2>4, <2>5
<1>3. inst'[d].req \in {0, inst[d].req}
  BY <1>1 DEF Written, Instrument
<1>4. \A e \in Dev : e # d => inst'[e] = inst[e]
  BY <1>1 DEF Written
<1> QED BY <1>2, <1>3, <1>4 DEF Settles

(* And so may a read of the output.                                        *)
LEMMA ReadSettles ==
    ASSUME SrqInv, NEW d \in Dev, inst' = OutputRead(d), from' = from
    PROVE  /\ Settles
           /\ inst[d].mav => inst'[d].req = 0
           /\ \A r \in Numbers : inst[d].mav /\ inst[d].req = r => Taken(d, r)
<1>1. inst \in [Dev -> Instrument] /\ 0 \in Request
  BY LineAssumption DEF SrqInv, LineTypes, Request
<1>2. inst' \in [Dev -> Instrument]
  <2> DEFINE i == inst[d]
             bits == i.bits \ {"MAV"}
             req == IF i.mav THEN 0 ELSE i.req
             edge == i.edge /\ ~i.mav
  <2>1. i \in Instrument
    BY <1>1
  <2>2. bits \in SUBSET {"MAV", "ESB"} /\ req \in Request
    BY <1>1, <2>1 DEF Instrument
  <2>3. edge \in BOOLEAN
    OBVIOUS
  <2>4. inst' = [inst EXCEPT ![d] = [i EXCEPT !.bits = bits, !.req = req, !.edge = edge]]
    BY Zenon DEF OutputRead
  <2> HIDE DEF i, bits, req, edge
  <2>5. [i EXCEPT !.bits = bits, !.req = req, !.edge = edge] \in Instrument
    BY <2>1, <2>2, <2>3, Changed, Zenon
  <2> QED BY <1>1, <2>4, <2>5
<1>3. inst'[d].req = IF inst[d].mav THEN 0 ELSE inst[d].req
  BY <1>1 DEF OutputRead, Instrument
<1>4. \A e \in Dev : e # d => inst'[e] = inst[e]
  BY <1>1 DEF OutputRead
<1>5. Settles
  BY <1>2, <1>3, <1>4 DEF Settles
<1> QED BY <1>3, <1>5 DEF Taken, Numbers

-----------------------------------------------------------------------------
(* GpibInstrument::execute: the request it catches on the way.             *)
LEMMA ExOnly ==
    ASSUME SrqInv, Settles, NEW s \in Session,
           ex' \in [Session -> Executions], \A t \in Session \ {s} : ex'[t] = ex[t],
           UNCHANGED <<fw, pushq, held, told, handed, linkVars>>,
           \A r \in Numbers :
              /\ ex'[s].sr = r => ex[s].sr = r \/ Took(s, r) \/ Taken(devOf[s], r)
              /\ Took(s, r)' => Took(s, r) \/ Taken(devOf[s], r)
              /\ ~(Took(s, r)' /\ ex'[s].sr = r)
    PROVE  SrqInv'
<1>0. devOf[s] \in Dev
  BY SessionAssumption, Zenon
<1>1. SessionTypes'
  BY Zenon DEF SrqInv, SessionTypes
<1>2. ASSUME NEW r \in Numbers
      PROVE  (SessionHas(s, r)' => SessionHas(s, r) \/ Taken(devOf[s], r)) /\ OnceIn(s, r)'
  <2>0. OnceIn(s, r) /\ (Pushed(s, r)' <=> Pushed(s, r))
    BY <1>2, Zenon DEF SrqInv, SessionOnce, Pushed
  <2>1. SessionHas(s, r)' => SessionHas(s, r) \/ Taken(devOf[s], r)
    BY <1>2, <2>0, Zenon DEF SessionHas, Pending
  <2>2. told[s] \in [Request -> Nat] /\ handed[s] \in [Request -> Nat] /\ r \in Request
    BY <1>2, Zenon DEF SrqInv, SessionTypes, Numbers
  <2>3. Taken(devOf[s], r) =>
          /\ told[s][r] = 0 /\ handed[s][r] = 0 /\ held[s] # r
          /\ ~Pending(s, r)
    BY <1>0, <2>2, Untouched, SMTT(30) DEF Taken, SessionHas
  <2>4. Pending(s, r)' => Pending(s, r) \/ Taken(devOf[s], r)
    BY <1>2, <2>0, Zenon DEF Pending
  <2>5. OnceIn(s, r)'
    BY <1>2, <2>0, <2>3, <2>4 DEF OnceIn, Pending
  <2> QED BY <2>1, <2>5, Zenon
<1> QED BY <1>1, <1>2, SessionStep DEF linkVars

(* The fields of an execution that moves on.                               *)
LEMMA ExGoes ==
    ASSUME SrqInv, NEW s \in Session, NEW pc \in ExPlaces, ex' = [ex EXCEPT ![s].pc = pc]
    PROVE  /\ ex' \in [Session -> Executions] /\ \A t \in Session \ {s} : ex'[t] = ex[t]
           /\ ex'[s].pc = pc /\ ex'[s].sr = ex[s].sr /\ ex'[s].took = ex[s].took
<1>1. ex \in [Session -> Executions] /\ ex[s] \in Executions
  BY DEF SrqInv, SessionTypes
<1>2. ex'[s] \in Executions /\ ex'[s].pc = pc /\ ex'[s].sr = ex[s].sr /\ ex'[s].took = ex[s].took
  BY <1>1 DEF Executions
<1> QED BY <1>1, <1>2

(* It has caught a request by a poll.                                      *)
LEMMA ExCatches ==
    ASSUME SrqInv, NEW s \in Session, NEW pc \in ExPlaces, NEW sr \in Request \cup {None},
           \/ ex' = [ex EXCEPT ![s].sr = sr, ![s].pc = pc]
           \/ ex' = [ex EXCEPT ![s].pc = pc, ![s].sr = sr]
    PROVE  /\ ex' \in [Session -> Executions] /\ \A t \in Session \ {s} : ex'[t] = ex[t]
           /\ ex'[s].pc = pc /\ ex'[s].sr = sr
<1>1. ex \in [Session -> Executions] /\ ex[s] \in Executions
  BY DEF SrqInv, SessionTypes
<1>2. ex'[s] \in Executions /\ ex'[s].pc = pc /\ ex'[s].sr = sr
  BY <1>1 DEF Executions
<1> QED BY <1>1, <1>2

(* It has lifted one by reading the output.                                *)
LEMMA ExTakes ==
    ASSUME SrqInv, NEW s \in Session, NEW took \in Request,
           ex' = [ex EXCEPT ![s].pc = "check", ![s].took = took]
    PROVE  /\ ex' \in [Session -> Executions] /\ \A t \in Session \ {s} : ex'[t] = ex[t]
           /\ ex'[s].pc = "check" /\ ex'[s].sr = ex[s].sr /\ ex'[s].took = took
<1>1. ex \in [Session -> Executions] /\ ex[s] \in Executions
  BY DEF SrqInv, SessionTypes
<1>2. ex'[s] \in Executions /\ ex'[s].pc = "check" /\ ex'[s].sr = ex[s].sr /\ ex'[s].took = took
  BY <1>1, Zenon DEF Executions, ExPlaces
<1> QED BY <1>1, <1>2

(* And of one that is over, or has just begun.                             *)
LEMMA ExRests ==
    ASSUME SrqInv, NEW s \in Session, NEW pc \in {"idle", "hold"}, NEW query \in BOOLEAN,
           ex' = [ex EXCEPT ![s] = [NotExecuting EXCEPT !.pc = pc, !.query = query]]
    PROVE  /\ ex' \in [Session -> Executions] /\ \A t \in Session \ {s} : ex'[t] = ex[t]
           /\ \A r \in Numbers : ex'[s].sr # r /\ ~Took(s, r)'
<1>1. ex \in [Session -> Executions] /\ 0 \in Request /\ None \notin Numbers
  BY LineAssumption DEF SrqInv, SessionTypes, Request, Numbers, None
<1>2. ex'[s] = [pc |-> pc, query |-> query, sr |-> None, took |-> 0]
  BY <1>1, Zenon DEF NotExecuting
<1>3. [pc |-> pc, query |-> query, sr |-> None, took |-> 0] \in Executions
  BY <1>1 DEF Executions, ExPlaces
<1> QED BY <1>1, <1>2, <1>3, Zenon DEF Took

(* The synchronous loop, up to the reply.                                  *)
LEMMA ExecuteSteps ==
    ASSUME SrqInv, NEW s \in Session, UNCHANGED linkVars,
           \/ \E cls \in BOOLEAN : ExecuteWrite(s, cls)
           \/ ExecutePoll(s) \/ \E ok \in BOOLEAN : ExecuteLook(s, ok)
           \/ ExecuteRead(s) \/ ExecuteReadFails(s) \/ ExecuteFails(s)
           \/ \E ok \in BOOLEAN : ExecuteCheck(s, ok)
    PROVE  SrqInv'
<1>0. /\ devOf[s] \in Dev /\ ex[s] \in Executions /\ ex \in [Session -> Executions]
      /\ inst[devOf[s]] \in Instrument
  BY SessionAssumption DEF SrqInv, SessionTypes, LineTypes
<1>1. inst[devOf[s]].req \in Request /\ ex[s].sr \in Request \cup {None} /\ ex[s].took \in Request
      /\ ex[s].query \in BOOLEAN
  BY <1>0 DEF Instrument, Executions
<1>2. None \notin Numbers /\ 0 \in Request /\ 0 \notin Numbers
  BY LineAssumption DEF None, Numbers, Request
<1>3. ASSUME NEW r \in Numbers, Took(s, r) PROVE ex[s].sr # r
  BY <1>3 DEF SrqInv, SessionOnce, OnceIn
<1>4. ASSUME NEW cls \in BOOLEAN, ExecuteWrite(s, cls) PROVE SrqInv'
  <2>1. Settles
    BY <1>0, <1>1, <1>4, WriteSettles DEF ExecuteWrite
  <2>2. PICK pc \in {"look", "poll"} : ex' = [ex EXCEPT ![s].pc = pc]
    BY <1>4, Zenon DEF ExecuteWrite
  <2>3. /\ ex' \in [Session -> Executions] /\ \A t \in Session \ {s} : ex'[t] = ex[t]
        /\ ex'[s].pc = pc /\ ex'[s].sr = ex[s].sr
    BY <2>2, ExGoes, Zenon DEF ExPlaces
  <2>4. \A r \in Numbers : ~Took(s, r)'
    BY <2>3, Zenon DEF Took
  <2> QED BY <1>4, <2>1, <2>3, <2>4, ExOnly DEF ExecuteWrite
<1>5. ASSUME ExecutePoll(s) PROVE SrqInv'
  <2>1. Settles /\ \A r \in Numbers : inst[devOf[s]].req = r => Taken(devOf[s], r)
    BY <1>0, <1>5, PollSettles, Zenon DEF ExecutePoll
  <2>2. PICK pc \in {"read", "reply"} : ex' = [ex EXCEPT ![s].sr = Caught(devOf[s]), ![s].pc = pc]
    BY <1>5, Zenon DEF ExecutePoll
  <2>3. Caught(devOf[s]) \in Request \cup {None}
    BY <1>1 DEF Caught
  <2>4. /\ ex' \in [Session -> Executions] /\ \A t \in Session \ {s} : ex'[t] = ex[t]
        /\ ex'[s].pc = pc /\ ex'[s].sr = Caught(devOf[s])
    BY <2>2, <2>3, ExCatches, Zenon DEF ExPlaces
  <2>5. \A r \in Numbers : ~Took(s, r)'
    BY <2>4, Zenon DEF Took
  <2>6. \A r \in Numbers : ex'[s].sr = r => Taken(devOf[s], r)
    BY <1>2, <2>1, <2>4 DEF Caught
  <2> QED BY <1>5, <2>1, <2>4, <2>5, <2>6, ExOnly, Zenon DEF ExecutePoll
<1>6. ASSUME NEW ok \in BOOLEAN, ExecuteLook(s, ok) PROVE SrqInv'
  <2>1. CASE ok /\ srq_asserted
    <3>1. Settles /\ \A r \in Numbers : inst[devOf[s]].req = r => Taken(devOf[s], r)
      BY <1>0, <1>6, <2>1, PollSettles, Zenon DEF ExecuteLook
    <3>2. Caught(devOf[s]) \in Request \cup {None}
      BY <1>1, Zenon DEF Caught
    <3>3. /\ ex' \in [Session -> Executions] /\ \A t \in Session \ {s} : ex'[t] = ex[t]
          /\ ex'[s].pc = "read" /\ ex'[s].sr = Caught(devOf[s])
      BY <1>6, <2>1, <3>2, ExCatches, Zenon DEF ExPlaces, ExecuteLook
    <3>4. \A r \in Numbers : ~Took(s, r)'
      BY <3>3, Zenon DEF Took
    <3>5. \A r \in Numbers : ex'[s].sr = r => Taken(devOf[s], r)
      BY <1>2, <3>1, <3>3, Zenon DEF Caught
    <3> QED BY <1>6, <3>1, <3>3, <3>4, <3>5, ExOnly, Zenon DEF ExecuteLook
  <2>2. CASE ~(ok /\ srq_asserted)
    <3>1. Settles
      BY <1>6, <2>2, Alone, Zenon DEF ExecuteLook
    <3>2. (IF ok THEN Caught(devOf[s]) ELSE None) = None
      BY <1>0, <2>2, Zenon DEF Caught, srq_asserted
    <3>3. /\ ex' \in [Session -> Executions] /\ \A t \in Session \ {s} : ex'[t] = ex[t]
          /\ ex'[s].pc = "read" /\ ex'[s].sr = None
      BY <1>6, <3>2, ExCatches, Zenon DEF ExPlaces, ExecuteLook
    <3>4. \A r \in Numbers : ~Took(s, r)' /\ ex'[s].sr # r
      BY <1>2, <3>3, Zenon DEF Took
    <3> QED BY <1>6, <3>1, <3>3, <3>4, ExOnly, Zenon DEF ExecuteLook
  <2> QED BY <2>1, <2>2, Zenon
<1>7. ASSUME ExecuteRead(s) PROVE SrqInv'
  <2> DEFINE got == IF inst[devOf[s]].mav THEN inst[devOf[s]].req ELSE 0
  <2>1. Settles /\ \A r \in Numbers : inst[devOf[s]].mav /\ inst[devOf[s]].req = r => Taken(devOf[s], r)
    BY <1>0, <1>7, ReadSettles, Zenon DEF ExecuteRead
  <2>2. got \in Request
    BY <1>1, <1>2
  <2>3. ex' = [ex EXCEPT ![s].pc = "check", ![s].took = got]
    BY <1>7, Zenon DEF ExecuteRead
  <2>4. \A r \in Numbers : got = r => Taken(devOf[s], r)
    BY <1>2, <2>1
  <2> HIDE DEF got
  <2>5. /\ ex' \in [Session -> Executions] /\ \A t \in Session \ {s} : ex'[t] = ex[t]
        /\ ex'[s].pc = "check" /\ ex'[s].sr = ex[s].sr /\ ex'[s].took = got
    BY <2>2, <2>3, ExTakes, Zenon
  <2>6. \A r \in Numbers : Took(s, r)' => Taken(devOf[s], r)
    BY <2>4, <2>5 DEF Took
  <2>7. \A r \in Numbers : Taken(devOf[s], r) => ex[s].sr # r
    BY <1>0, Untouched, SMTT(30) DEF Taken, SessionHas, Pending
  <2> QED BY <1>7, <2>1, <2>5, <2>6, <2>7, ExOnly, Zenon DEF ExecuteRead
<1>8. ASSUME ExecuteReadFails(s) \/ ExecuteFails(s) PROVE SrqInv'
  <2>1. Settles
    BY <1>8, Alone, Zenon DEF ExecuteReadFails, ExecuteFails
  <2>2. ex' = [ex EXCEPT ![s] = [NotExecuting EXCEPT !.pc = "idle", !.query = FALSE]]
    BY <1>8, Zenon DEF ExecuteReadFails, ExecuteFails, NotExecuting
  <2>3. /\ ex' \in [Session -> Executions] /\ \A t \in Session \ {s} : ex'[t] = ex[t]
        /\ \A r \in Numbers : ex'[s].sr # r /\ ~Took(s, r)'
    BY <2>2, ExRests, Zenon
  <2> QED BY <1>8, <2>1, <2>3, ExOnly, Zenon DEF ExecuteReadFails, ExecuteFails
<1>9. ASSUME NEW ok \in BOOLEAN, ExecuteCheck(s, ok) PROVE SrqInv'
  <2>1. Settles
    BY <1>9, Alone, Zenon DEF ExecuteCheck
  <2>2. PICK sr \in {ex[s].sr, ex[s].took} : ex' = [ex EXCEPT ![s].pc = "reply", ![s].sr = sr]
    BY <1>0, <1>9, Zenon DEF ExecuteCheck, Executions
  <2> sr \in Request \cup {None} /\ "reply" \in ExPlaces
    BY <1>1 DEF ExPlaces
  <2>3. /\ ex' \in [Session -> Executions] /\ \A t \in Session \ {s} : ex'[t] = ex[t]
        /\ ex'[s].pc = "reply" /\ ex'[s].sr = sr
    <3>1. ex'[s] \in Executions /\ ex'[s].pc = "reply" /\ ex'[s].sr = sr
      BY <1>0, <2>2, Zenon DEF Executions
    <3> QED BY <1>0, <2>2, <3>1
  <2>4. \A r \in Numbers : ~Took(s, r)' /\ (ex'[s].sr = r => ex[s].sr = r \/ Took(s, r))
    BY <1>9, <2>3, Zenon DEF Took, ExecuteCheck
  <2> QED BY <1>9, <2>1, <2>3, <2>4, ExOnly, Zenon DEF ExecuteCheck
<1> QED BY <1>4, <1>5, <1>6, <1>7, <1>8, <1>9

(* A new command: the byte held for the client is dropped.                 *)
LEMMA ReadCommandStep ==
    ASSUME SrqInv, NEW s \in Session, UNCHANGED linkVars,
           NEW query \in BOOLEAN, ReadCommand(s, query)
    PROVE  SrqInv'
<1>1. Settles
  BY Alone, Zenon DEF ReadCommand, lineVars
<1>2. /\ ex' \in [Session -> Executions] /\ \A t \in Session \ {s} : ex'[t] = ex[t]
      /\ \A r \in Numbers : ex'[s].sr # r /\ ~Took(s, r)'
  BY ExRests, Zenon DEF ReadCommand
<1>3. held \in [Session -> Request \cup {None}] /\ None \notin Numbers
  BY DEF SrqInv, SessionTypes, None, Numbers, Request
<1>4. /\ held' \in [Session -> Request \cup {None}] /\ held'[s] = None
      /\ \A t \in Session \ {s} : held'[t] = held[t]
  BY <1>3 DEF ReadCommand
<1>5. UNCHANGED <<fw, pushq, told, handed>>
  BY Zenon DEF ReadCommand
<1>6. SessionTypes'
  BY <1>2, <1>4, <1>5, Zenon DEF SrqInv, SessionTypes
<1>7. ASSUME NEW r \in Numbers PROVE (SessionHas(s, r)' => SessionHas(s, r)) /\ OnceIn(s, r)'
  <2>1. OnceIn(s, r) /\ (Pushed(s, r)' <=> Pushed(s, r)) /\ held'[s] # r
    BY <1>3, <1>4, <1>5, Zenon DEF SrqInv, SessionOnce, Pushed
  <2>2. Pending(s, r)' => Pending(s, r)
    BY <1>2, <1>5, <2>1, Zenon DEF Pending
  <2> QED BY <1>2, <1>5, <2>1, <2>2, Zenon DEF SessionHas, OnceIn
<1> QED BY <1>1, <1>2, <1>4, <1>5, <1>6, <1>7, SessionStep DEF linkVars

(* Appending to the push queue.                                            *)
LEMMA Queued ==
    ASSUME NEW q \in Seq(Request), NEW r \in Request
    PROVE  /\ Append(q, r) \in Seq(Request)
           /\ DOMAIN Append(q, r) = DOMAIN q \cup {Len(q) + 1} /\ Len(q) + 1 \notin DOMAIN q
           /\ \A i \in DOMAIN q : Append(q, r)[i] = q[i]
           /\ Append(q, r)[Len(q) + 1] = r
<1>1. DOMAIN q = 1..Len(q) /\ Len(q) \in Nat /\ DOMAIN Append(q, r) = 1..Len(q) + 1
  OBVIOUS
<1>2. 1..Len(q) + 1 = 1..Len(q) \cup {Len(q) + 1}
  BY <1>1
<1> QED BY <1>1, <1>2

(* Taking the head of the push queue.                                      *)
LEMMA Dequeued ==
    ASSUME NEW q \in Seq(Request), q # <<>>
    PROVE  /\ Tail(q) \in Seq(Request) /\ Head(q) \in Request /\ 1 \in DOMAIN q /\ q[1] = Head(q)
           /\ \A i \in DOMAIN Tail(q) : i \in Nat \ {0} /\ i + 1 \in DOMAIN q /\ Tail(q)[i] = q[i + 1]
<1>1. Len(q) \in Nat /\ Len(q) > 0 /\ DOMAIN q = 1..Len(q)
  OBVIOUS
<1>2. Tail(q) \in Seq(Request) /\ Head(q) \in Request /\ DOMAIN Tail(q) = 1..Len(q) - 1
  BY <1>1
<1> QED BY <1>1, <1>2

(* The request that execute has found is held and queued for the pusher.   *)
LEMMA ExecuteReplyStep ==
    ASSUME SrqInv, NEW s \in Session, UNCHANGED linkVars, ExecuteReply(s)
    PROVE  SrqInv'
<1>1. Settles
  BY Alone, Zenon DEF ExecuteReply, lineVars
<1>2. /\ ex' \in [Session -> Executions] /\ \A t \in Session \ {s} : ex'[t] = ex[t]
      /\ \A r \in Numbers : ex'[s].sr # r /\ ~Took(s, r)'
  <2>1. ex' = [ex EXCEPT ![s] = [NotExecuting EXCEPT !.pc = "idle", !.query = FALSE]]
    BY Zenon DEF ExecuteReply, NotExecuting
  <2> QED BY <2>1, ExRests, Zenon
<1>3. /\ held \in [Session -> Request \cup {None}] /\ pushq \in [Session -> Seq(Request)]
      /\ pushq[s] \in Seq(Request) /\ ex[s].sr \in Request \cup {None}
  BY DEF SrqInv, SessionTypes, Executions
<1>4. UNCHANGED <<fw, told, handed>>
  BY DEF ExecuteReply
<1>5. CASE ex[s].sr = None
  <2>1. UNCHANGED <<held, pushq>>
    BY <1>5 DEF ExecuteReply
  <2> QED BY <1>1, <1>2, <1>4, <2>1, ExOnly
<1>6. CASE ex[s].sr # None
  <2>1. /\ held' = [held EXCEPT ![s] = ex[s].sr] /\ ex[s].sr \in Request
        /\ pushq' = pushq \/ pushq' = [pushq EXCEPT ![s] = Append(@, ex[s].sr)]
    BY <1>3, <1>6, Zenon DEF ExecuteReply, raise_service_request
  <2>2. /\ held' \in [Session -> Request \cup {None}] /\ held'[s] = ex[s].sr
        /\ \A t \in Session \ {s} : held'[t] = held[t]
    BY <1>3, <2>1, Zenon
  <2>3. pushq'[s] = pushq[s] \/ pushq'[s] = Append(pushq[s], ex[s].sr)
    BY <1>3, <2>1, Zenon
  <2>4. pushq' \in [Session -> Seq(Request)] /\ \A t \in Session \ {s} : pushq'[t] = pushq[t]
    <3>1. Append(pushq[s], ex[s].sr) \in Seq(Request)
      BY <1>3, <2>1, Queued
    <3> QED BY <1>3, <2>1, <3>1, Zenon
  <2>5. SessionTypes'
    BY <1>2, <1>4, <2>2, <2>4 DEF SrqInv, SessionTypes
  <2>6. ASSUME NEW r \in Numbers PROVE (SessionHas(s, r)' => SessionHas(s, r)) /\ OnceIn(s, r)'
    <3>1. OnceIn(s, r)
      BY DEF SrqInv, SessionOnce
    <3>2. Pushed(s, r)' => Pushed(s, r) \/ ex[s].sr = r
      <4>1. CASE pushq'[s] = pushq[s]
        BY <4>1, Zenon DEF Pushed
      <4>2. CASE pushq'[s] = Append(pushq[s], ex[s].sr)
        BY <1>3, <2>1, <4>2, Queued DEF Pushed
      <4> QED BY <2>3, <4>1, <4>2
    <3>3. Pending(s, r)' => Pending(s, r)
      BY <1>2, <1>4, <3>2, Zenon DEF Pending
    <3>4. SessionHas(s, r)' => SessionHas(s, r)
      BY <1>2, <1>4, <2>2, <3>3, Zenon DEF SessionHas, Pending
    <3>5. ASSUME NEW i \in DOMAIN pushq'[s], NEW j \in DOMAIN pushq'[s],
                 pushq'[s][i] = r, pushq'[s][j] = r
          PROVE  i = j
      <4>1. CASE pushq'[s] = pushq[s]
        BY <3>1, <3>5, <4>1, Zenon DEF OnceIn
      <4>2. CASE pushq'[s] = Append(pushq[s], ex[s].sr)
        <5>1. /\ DOMAIN pushq'[s] = DOMAIN pushq[s] \cup {Len(pushq[s]) + 1}
              /\ \A k \in DOMAIN pushq[s] : pushq'[s][k] = pushq[s][k]
              /\ pushq'[s][Len(pushq[s]) + 1] = ex[s].sr
          BY <1>3, <2>1, <4>2, Queued
        <5>2. CASE ex[s].sr = r
          BY <3>1, <3>5, <5>1, <5>2, Zenon DEF OnceIn, Pushed
        <5>3. CASE ex[s].sr # r
          BY <3>1, <3>5, <5>1, <5>3, Zenon DEF OnceIn
        <5> QED BY <5>2, <5>3, Zenon
      <4> QED BY <2>3, <4>1, <4>2, Zenon
    <3>6. OnceIn(s, r)'
      BY <1>2, <1>4, <2>2, <3>1, <3>2, <3>3, <3>5, Zenon DEF OnceIn, Pending
    <3> QED BY <3>4, <3>6
  <2> QED BY <1>1, <1>2, <1>4, <2>2, <2>4, <2>5, <2>6, SessionStep, Zenon DEF linkVars
<1> QED BY <1>5, <1>6, Zenon

(* async_pusher announces the oldest request of its queue.                 *)
LEMMA PusherStep ==
    ASSUME SrqInv, NEW s \in Session, UNCHANGED linkVars, async_pusher(s)
    PROVE  SrqInv'
<1>1. Settles
  BY Alone, Zenon DEF async_pusher, lineVars
<1>2. /\ pushq \in [Session -> Seq(Request)] /\ pushq[s] \in Seq(Request) /\ pushq[s] # <<>>
      /\ told \in [Session -> [Request -> Nat]] /\ told[s] \in [Request -> Nat]
  BY DEF SrqInv, SessionTypes, async_pusher
<1>3. PICK h \in Request : h = Head(pushq[s])
  BY <1>2, Dequeued, Zenon
<1>4. /\ pushq' \in [Session -> Seq(Request)] /\ pushq'[s] = Tail(pushq[s])
      /\ \A t \in Session \ {s} : pushq'[t] = pushq[t]
  BY <1>2, Dequeued, Zenon DEF async_pusher
<1>5. /\ told' \in [Session -> [Request -> Nat]]
      /\ told'[s] = [told[s] EXCEPT ![h] = told[s][h] + 1]
      /\ \A t \in Session \ {s} : told'[t] = told[t]
  BY <1>2, <1>3 DEF async_pusher, Announce
<1>6. UNCHANGED <<fw, ex, held, handed>>
  BY Zenon DEF async_pusher
<1>7. SessionTypes'
  BY <1>4, <1>5, <1>6, Zenon DEF SrqInv, SessionTypes
<1>8. ASSUME NEW r \in Numbers PROVE (SessionHas(s, r)' => SessionHas(s, r)) /\ OnceIn(s, r)'
  <2>0. OnceIn(s, r) /\ r \in Request
    BY Zenon DEF SrqInv, SessionOnce, Numbers
  <2>1. Took(s, r)' <=> Took(s, r)
    BY <1>6, Zenon DEF Took
  <2>2. Pushed(s, r)' => Pushed(s, r) /\ h # r
    BY <1>2, <1>3, <1>4, <2>0, Dequeued, SMTT(30) DEF Pushed, OnceIn
  <2>3. h = r => Pushed(s, r)
    BY <1>2, <1>3, Dequeued DEF Pushed
  <2>4. \A i, j \in DOMAIN pushq'[s] : pushq'[s][i] = r /\ pushq'[s][j] = r => i = j
    BY <1>2, <1>4, <2>0, Dequeued, SMTT(30) DEF OnceIn
  <2>5. told'[s][r] = IF r = h THEN told[s][r] + 1 ELSE told[s][r]
    BY <1>2, <1>5, <2>0, Zenon
  <2>6. Pending(s, r)' => Pending(s, r) /\ h # r
    BY <1>6, <2>0, <2>1, <2>2, <2>3, Zenon DEF Pending, OnceIn
  <2>7. SessionHas(s, r)' => SessionHas(s, r)
    BY <1>6, <2>3, <2>5, <2>6, Zenon DEF SessionHas, Pending
  <2>8. told'[s][r] <= 1
    <3>1. told[s][r] \in Nat /\ told[s][r] <= 1 /\ (r = h => told[s][r] = 0)
      BY <1>2, <2>0, <2>3, Zenon DEF OnceIn, Pending
    <3> QED BY <2>5, <3>1
  <2>9. OnceIn(s, r)'
    BY <1>6, <2>0, <2>1, <2>2, <2>4, <2>5, <2>6, <2>8, Zenon DEF OnceIn
  <2> QED BY <2>7, <2>9, Zenon
<1> QED BY <1>1, <1>4, <1>5, <1>6, <1>7, <1>8, SessionStep, Zenon DEF linkVars

-----------------------------------------------------------------------------
(* srq_forwarder moves without a request in its hands.                     *)
LEMMA ForwarderMoves ==
    ASSUME SrqInv, NEW s \in Session, UNCHANGED linkVars,
           ForwarderRecv(s) \/ ForwarderLevel(s) \/ ForwarderGivesUp(s)
    PROVE  SrqInv'
<1>1. Settles
  BY Alone DEF ForwarderRecv, ForwarderLevel, ForwarderGivesUp, lineVars
<1>2. PICK pc \in {"recv", "poll"} : fw' = [fw EXCEPT ![s].pc = pc]
  BY Zenon DEF ForwarderRecv, ForwarderLevel, ForwarderGivesUp
<1>3. fw \in [Session -> Forwarders] /\ fw[s] \in Forwarders
  BY DEF SrqInv, SessionTypes
<1>4. fw'[s] \in Forwarders /\ fw'[s].got = fw[s].got
  BY <1>2, <1>3 DEF Forwarders
<1>5. fw' \in [Session -> Forwarders] /\ \A t \in Session \ {s} : fw'[t] = fw[t]
  BY <1>2, <1>3, <1>4
<1>6. UNCHANGED <<ex, pushq, held, told, handed>>
  BY Zenon DEF ForwarderRecv, ForwarderLevel, ForwarderGivesUp
<1>7. SessionTypes'
  BY <1>5, <1>6 DEF SrqInv, SessionTypes
<1>8. ASSUME NEW r \in Numbers PROVE (SessionHas(s, r)' => SessionHas(s, r)) /\ OnceIn(s, r)'
  <2>1. OnceIn(s, r)
    BY Zenon DEF SrqInv, SessionOnce
  <2>2. (Took(s, r)' <=> Took(s, r)) /\ (Pushed(s, r)' <=> Pushed(s, r))
    BY <1>6, Zenon DEF Took, Pushed
  <2>3. Pending(s, r)' <=> Pending(s, r)
    BY <1>4, <1>6, <2>2, Zenon DEF Pending
  <2>4. SessionHas(s, r)' => SessionHas(s, r)
    BY <1>6, <2>3, Zenon DEF SessionHas
  <2>5. OnceIn(s, r)'
    BY <1>4, <1>6, <2>1, <2>2, <2>3, Zenon DEF OnceIn
  <2> QED BY <2>4, <2>5, Zenon
<1> QED BY <1>1, <1>5, <1>6, <1>7, <1>8, SessionStep, Zenon DEF linkVars

(* It takes a request, to announce it and to hold its byte.                *)
LEMMA ForwarderPollStep ==
    ASSUME SrqInv, NEW s \in Session, UNCHANGED linkVars, ForwarderPoll(s)
    PROVE  SrqInv'
<1>0. devOf[s] \in Dev /\ inst[devOf[s]] \in Instrument
  BY SessionAssumption, Zenon DEF SrqInv, LineTypes
<1>1. PICK q \in Request : q = inst[devOf[s]].req
  BY <1>0, Zenon DEF Instrument
<1>2. Settles /\ \A r \in Numbers : q = r => Taken(devOf[s], r)
  BY <1>0, <1>1, PollSettles, Zenon DEF ForwarderPoll
<1>3. \A r \in Numbers : q = r => ~SessionHas(s, r)
  BY <1>0, <1>1, Untouched, Zenon DEF Numbers
<1>4. fw \in [Session -> Forwarders] /\ held \in [Session -> Request \cup {None}]
  BY DEF SrqInv, SessionTypes
<1>5. fw' = [fw EXCEPT ![s] = [pc |-> IF q # 0 THEN "write" ELSE "level", got |-> q]]
  BY <1>1, Zenon DEF ForwarderPoll
<1>6. /\ fw' \in [Session -> Forwarders] /\ fw'[s].got = q
      /\ \A t \in Session \ {s} : fw'[t] = fw[t]
  BY <1>4, <1>5, Zenon DEF Forwarders
<1>7. /\ held' \in [Session -> Request \cup {None}]
      /\ held'[s] = IF q # 0 THEN q ELSE held[s]
      /\ \A t \in Session \ {s} : held'[t] = held[t]
  BY <1>1, <1>4, Zenon DEF ForwarderPoll
<1>8. UNCHANGED <<ex, pushq, told, handed>>
  BY Zenon DEF ForwarderPoll
<1>9. SessionTypes'
  BY <1>6, <1>7, <1>8, Zenon DEF SrqInv, SessionTypes
<1>10. ASSUME NEW r \in Numbers
       PROVE  (SessionHas(s, r)' => SessionHas(s, r) \/ Taken(devOf[s], r)) /\ OnceIn(s, r)'
  <2>0. OnceIn(s, r) /\ r # 0 /\ r \in Request
    BY Zenon DEF SrqInv, SessionOnce, Numbers
  <2>1. (Took(s, r)' <=> Took(s, r)) /\ (Pushed(s, r)' <=> Pushed(s, r))
    BY <1>8, Zenon DEF Took, Pushed
  <2>2. SessionHas(s, r)' => SessionHas(s, r) \/ q = r
    BY <1>6, <1>7, <1>8, <2>1, Zenon DEF SessionHas, Pending
  <2>3. told[s][r] \in Nat /\ handed[s][r] \in Nat
    BY <2>0, Zenon DEF SrqInv, SessionTypes
  <2>4. CASE q = r
    <3>1. ~Pending(s, r) /\ told[s][r] = 0 /\ handed[s][r] = 0
      BY <1>3, <2>3, <2>4 DEF SessionHas
    <3>2. OnceIn(s, r)'
      BY <1>6, <1>7, <1>8, <2>0, <2>1, <2>4, <3>1, Zenon DEF OnceIn, Pending
    <3> QED BY <1>2, <2>4, <3>2, Zenon
  <2>5. CASE q # r
    <3>1. Pending(s, r)' => Pending(s, r)
      BY <1>6, <1>8, <2>1, <2>5, Zenon DEF Pending
    <3>2. held'[s] = r => held[s] = r
      BY <1>7, <2>5, Zenon
    <3>3. OnceIn(s, r)'
      BY <1>6, <1>8, <2>0, <2>1, <2>5, <3>1, <3>2, Zenon DEF OnceIn
    <3> QED BY <2>2, <2>5, <3>3, Zenon
  <2> QED BY <2>4, <2>5
<1> QED BY <1>2, <1>6, <1>7, <1>8, <1>9, <1>10, SessionStep, Zenon DEF linkVars

(* And announces it.                                                       *)
LEMMA ForwarderWriteStep ==
    ASSUME SrqInv, NEW s \in Session, UNCHANGED linkVars, ForwarderWrite(s)
    PROVE  SrqInv'
<1>1. Settles
  BY Alone, Zenon DEF ForwarderWrite, lineVars
<1>2. /\ fw \in [Session -> Forwarders] /\ fw[s] \in Forwarders /\ 0 \in Request
      /\ told \in [Session -> [Request -> Nat]] /\ told[s] \in [Request -> Nat]
  BY LineAssumption DEF SrqInv, SessionTypes, Request
<1>3. PICK h \in Request : h = fw[s].got
  BY <1>2 DEF Forwarders
<1>4. /\ fw' \in [Session -> Forwarders] /\ fw'[s].got = 0
      /\ \A t \in Session \ {s} : fw'[t] = fw[t]
  BY <1>2 DEF ForwarderWrite, Forwarders
<1>5. /\ told' \in [Session -> [Request -> Nat]]
      /\ told'[s] = [told[s] EXCEPT ![h] = told[s][h] + 1]
      /\ \A t \in Session \ {s} : told'[t] = told[t]
  BY <1>2, <1>3 DEF ForwarderWrite, Announce
<1>6. UNCHANGED <<ex, pushq, held, handed>>
  BY Zenon DEF ForwarderWrite
<1>7. SessionTypes'
  BY <1>4, <1>5, <1>6, Zenon DEF SrqInv, SessionTypes
<1>8. ASSUME NEW r \in Numbers PROVE (SessionHas(s, r)' => SessionHas(s, r)) /\ OnceIn(s, r)'
  <2>0. OnceIn(s, r) /\ r \in Request /\ r # 0
    BY Zenon DEF SrqInv, SessionOnce, Numbers
  <2>1. (Took(s, r)' <=> Took(s, r)) /\ (Pushed(s, r)' <=> Pushed(s, r))
    BY <1>6 DEF Took, Pushed
  <2>2. told'[s][r] = IF r = h THEN told[s][r] + 1 ELSE told[s][r]
    BY <1>2, <1>5, <2>0, Zenon
  <2>3. h = r => Pending(s, r)
    BY <1>3, Zenon DEF Pending
  <2>4. Pending(s, r)' => Pending(s, r) /\ h # r
    BY <1>3, <1>4, <1>6, <2>0, <2>1, Zenon DEF Pending, OnceIn
  <2>5. SessionHas(s, r)' => SessionHas(s, r)
    BY <1>6, <2>2, <2>3, <2>4, Zenon DEF SessionHas
  <2>6. told'[s][r] <= 1
    <3>1. told[s][r] \in Nat /\ told[s][r] <= 1 /\ (r = h => told[s][r] = 0)
      BY <1>2, <2>0, <2>3, Zenon DEF OnceIn
    <3> QED BY <2>2, <3>1
  <2>7. fw'[s].got # r
    BY <1>4, <2>0, Zenon
  <2>8. OnceIn(s, r)'
    BY <1>6, <2>0, <2>1, <2>2, <2>4, <2>6, <2>7, Zenon DEF OnceIn
  <2> QED BY <2>5, <2>8, Zenon
<1> QED BY <1>1, <1>4, <1>5, <1>6, <1>7, <1>8, SessionStep, Zenon DEF linkVars

-----------------------------------------------------------------------------
(* A status query: the request is in the byte polled, or in the one held.  *)
LEMMA StatusQueryStep ==
    ASSUME SrqInv, NEW s \in Session, UNCHANGED linkVars,
           AsyncStatusQuery(s) \/ AsyncStatusQueryFails(s)
    PROVE  SrqInv'
<1>0. devOf[s] \in Dev /\ inst[devOf[s]] \in Instrument /\ inst[devOf[s]].req \in Request
  BY SessionAssumption, Zenon DEF SrqInv, LineTypes, Instrument
<1>1. Settles
  BY <1>0, Alone, PollSettles, Zenon DEF AsyncStatusQuery, AsyncStatusQueryFails
<1>2. /\ held \in [Session -> Request \cup {None}] /\ held[s] \in Request \cup {None}
      /\ handed \in [Session -> [Request -> Nat]] /\ handed[s] \in [Request -> Nat]
  BY DEF SrqInv, SessionTypes
<1> None \notin Numbers /\ 0 \notin Numbers /\ 0 \in Request
  BY LineAssumption DEF None, Numbers, Request
<1>3. /\ held' \in [Session -> Request \cup {None}] /\ held'[s] = None
      /\ \A t \in Session \ {s} : held'[t] = held[t]
  BY <1>2, Zenon DEF AsyncStatusQuery, AsyncStatusQueryFails, Answer
<1>4. PICK q \in Request \cup {None} :
         /\ q \in Numbers => held[s] = q \/ Taken(devOf[s], q)
         /\ handed' = IF q \in {None, 0} THEN handed ELSE [handed EXCEPT ![s][q] = @ + 1]
  <2>1. CASE AsyncStatusQuery(s)
    <3>1. \A r \in Numbers : inst[devOf[s]].req = r => Taken(devOf[s], r)
      BY <1>0, <2>1, PollSettles, Zenon DEF AsyncStatusQuery
    <3> DEFINE silent == inst[devOf[s]].req = 0 /\ inst[devOf[s]].bits = {}
               q == IF silent THEN held[s] ELSE inst[devOf[s]].req
    <3>2. handed' = IF q \in {None, 0} THEN handed ELSE [handed EXCEPT ![s][q] = @ + 1]
      BY <2>1, Zenon DEF AsyncStatusQuery, Answer, StatusByte
    <3>3. q \in Request \cup {None} /\ (q \in Numbers => held[s] = q \/ Taken(devOf[s], q))
      BY <1>0, <1>2, <3>1, Zenon
    <3> HIDE DEF q
    <3> QED BY <3>2, <3>3, Zenon
  <2>2. CASE AsyncStatusQueryFails(s)
    <3>1. handed' = IF held[s] \in {None, 0} THEN handed
                                             ELSE [handed EXCEPT ![s][held[s]] = @ + 1]
      BY <2>2 DEF AsyncStatusQueryFails, Answer
    <3> QED BY <1>2, <3>1, Zenon
  <2> QED BY <2>1, <2>2, Zenon
<1>5. /\ handed' \in [Session -> [Request -> Nat]]
      /\ \A t \in Session \ {s} : handed'[t] = handed[t]
  BY <1>2, <1>4
<1>6. \A r \in Numbers : handed'[s][r] = IF r = q THEN handed[s][r] + 1 ELSE handed[s][r]
  BY <1>2, <1>4 DEF Numbers
<1>7. UNCHANGED <<fw, ex, pushq, told>>
  BY Zenon DEF AsyncStatusQuery, AsyncStatusQueryFails
<1>8. SessionTypes'
  BY <1>3, <1>5, <1>7, Zenon DEF SrqInv, SessionTypes
<1>9. ASSUME NEW r \in Numbers
      PROVE  (SessionHas(s, r)' => SessionHas(s, r) \/ Taken(devOf[s], r)) /\ OnceIn(s, r)'
  <2>0. OnceIn(s, r) /\ handed[s][r] \in Nat /\ held'[s] # r
    BY <1>2, <1>3, Zenon DEF SrqInv, SessionOnce, Numbers
  <2>1. (Took(s, r)' <=> Took(s, r)) /\ (Pushed(s, r)' <=> Pushed(s, r))
    BY <1>7, Zenon DEF Took, Pushed
  <2>2. Pending(s, r)' <=> Pending(s, r)
    BY <1>7, <2>1, Zenon DEF Pending
  <2>3. SessionHas(s, r)' => SessionHas(s, r) \/ Taken(devOf[s], r)
    BY <1>4, <1>6, <1>7, <2>0, <2>2, Zenon DEF SessionHas
  <2>4. q = r => handed[s][r] = 0 /\ ex[s].sr # r /\ ~Took(s, r)
    <3>1. CASE held[s] = r
      BY <2>0, <3>1, Zenon DEF OnceIn
    <3>2. CASE Taken(devOf[s], r)
      <4>1. ~SessionHas(s, r)
        BY <1>0, <3>2, Untouched, Zenon DEF Taken
      <4>2. ~Pending(s, r) /\ ~(handed[s][r] > 0)
        BY <4>1, Zenon DEF SessionHas
      <4>3. handed[s][r] = 0
        BY <2>0, <4>2
      <4> QED BY <4>2, <4>3, Zenon DEF Pending
    <3> QED BY <1>4, <3>1, <3>2, Zenon
  <2>5. handed'[s][r] <= 1
    <3>1. handed[s][r] <= 1 /\ handed'[s][r] = IF r = q THEN handed[s][r] + 1 ELSE handed[s][r]
      BY <1>6, <2>0, Zenon DEF OnceIn
    <3> QED BY <2>0, <2>4, <3>1
  <2>6. r # q => handed'[s][r] = handed[s][r]
    BY <1>6, Zenon
  <2>7. OnceIn(s, r)'
    BY <1>7, <2>0, <2>1, <2>2, <2>4, <2>5, <2>6, Zenon DEF OnceIn
  <2> QED BY <2>3, <2>7, Zenon
<1> QED BY <1>1, <1>3, <1>5, <1>7, <1>8, <1>9, SessionStep, Zenon DEF linkVars

(* The HiSLIP sessions.                                                    *)
LEMMA SessionsStep ==
    ASSUME SrqInv, HislipNext, UNCHANGED linkVars
    PROVE  SrqInv'
<1>1. ASSUME NEW s \in Session, ReadStatusQuery(s) PROVE SrqInv'
  <2>1. Settles /\ LinkTypes'
    BY <1>1, Alone, Zenon DEF ReadStatusQuery, lineVars, linkVars, SrqInv, LinkTypes
  <2> QED BY <1>1, <2>1, Quiet DEF ReadStatusQuery, linkVars
<1> QED BY <1>1, ExecuteSteps, ReadCommandStep, ExecuteReplyStep, PusherStep, ForwarderMoves,
           ForwarderPollStep, ForwarderWriteStep, StatusQueryStep, Zenon DEF HislipNext, SyncStep
=============================================================================
