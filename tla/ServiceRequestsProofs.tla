----------------------- MODULE ServiceRequestsProofs -----------------------
(***************************************************************************)
(* The VXI-11 connection and the instruments keep the invariant of         *)
(* HislipSrqProofs as the sessions do, and with it no request is announced *)
(* or handed over twice.                                                   *)
(***************************************************************************)
EXTENDS HislipSrqProofs

(* VXI-11: the steps that carry no request.                                *)
LEMMA ChannelSteps ==
    ASSUME SrqInv, UNCHANGED sessionVars, NEW c \in Chan,
           \/ create_intr_chan(c) \/ ForwarderStarts(c) \/ ForwarderSubscribes(c)
           \/ WatcherRecv(c) \/ ForwarderStops(c) \/ ForwarderPassEnds(c)
           \/ \E d \in Dev : ForwarderPollFails(c, d)
    PROVE  SrqInv'
<1>1. UNCHANGED <<inst, from, handle, call, sendq, lheld, woken, seen>>
  BY Zenon DEF create_intr_chan, ForwarderStarts, ForwarderSubscribes, WatcherRecv, ForwarderStops,
         ForwarderPassEnds, ForwarderPollFails, lineVars
<1>2. Settles /\ LinkTypes'
  BY <1>1, Alone, Zenon DEF SrqInv, LinkTypes
<1> QED BY <1>1, <1>2, Quiet, Zenon DEF sessionVars

(* device_enable_srq and device_read.                                      *)
LEMMA CallSteps ==
    ASSUME SrqInv, UNCHANGED sessionVars, NEW l \in Link,
           (\E enable \in BOOLEAN : device_enable_srq(l, enable)) \/ device_read(l)
    PROVE  SrqInv'
<1>1. UNCHANGED <<sendq, lheld, woken, seen>>
  BY Zenon DEF device_enable_srq, device_read
<1>2. LinkTypes'
  <2>1. handle' \subseteq Link /\ \A k \in Interface : call' # <<"readstb", k>>
    BY SMTT(30) DEF device_enable_srq, device_read, Idle, SrqInv, LinkTypes
  <2> QED BY <1>1, <2>1, Zenon DEF SrqInv, LinkTypes
<1>3. Settles
  <2>1. CASE device_read(l)
    BY <2>1, LinkAssumption, ReadSettles, Zenon DEF device_read
  <2>2. CASE \E enable \in BOOLEAN : device_enable_srq(l, enable)
    BY <2>2, Alone, Zenon DEF device_enable_srq, lineVars
  <2> QED BY <2>1, <2>2, Zenon
<1> QED BY <1>1, <1>2, <1>3, Quiet, Zenon DEF sessionVars

(* Notifications that are dropped, or that are for no request.             *)
LEMMA NotesOnly ==
    ASSUME SrqInv, Settles, UNCHANGED <<fw, ex, pushq, held, told, handed>>,
           UNCHANGED <<handle, lheld, woken, seen>>,
           call' \in {call, Idle}, sendq' \subseteq [link : Link, req : Request],
           \A n \in sendq' : n \in sendq \/ n.req = 0
    PROVE  SrqInv'
<1>1. LinkTypes'
  BY DEF SrqInv, LinkTypes, Idle
<1>2. ASSUME NEW l \in Link, NEW r \in Numbers
      PROVE  (LinkHas(l, r)' => LinkHas(l, r)) /\ OnceFor(l, r)'
  <2>1. Note(l, r) \in sendq' => Note(l, r) \in sendq
    BY Zenon DEF Note, Numbers
  <2>2. Note(l, r)' = Note(l, r) /\ OnceFor(l, r)
    BY DEF Note, SrqInv, LinkOnce
  <2> QED BY <2>1, <2>2, Zenon DEF LinkHas, OnceFor
<1> QED BY <1>1, <1>2, LinkStep, Zenon

(* destroy_intr_chan, and notifications of the line rather than of a link. *)
LEMMA NoteSteps ==
    ASSUME SrqInv, UNCHANGED sessionVars,
           \/ destroy_intr_chan
           \/ \E l \in Link : EnableLooks(l)
           \/ \E c \in Chan, l \in Link : ForwarderNotifies(c, l)
    PROVE  SrqInv'
<1>0. sendq \subseteq [link : Link, req : Request] /\ 0 \in Request
  BY LineAssumption DEF SrqInv, LinkTypes, Request
<1>1. CASE destroy_intr_chan
  BY <1>1, Alone, NotesOnly, Zenon DEF destroy_intr_chan, lineVars, sessionVars
<1>2. ASSUME NEW l \in Link, EnableLooks(l) PROVE SrqInv'
  <2>1. /\ sendq' \subseteq [link : Link, req : Request]
        /\ \A n \in sendq' : n \in sendq \/ n.req = 0
    BY <1>0, <1>2 DEF EnableLooks
  <2> QED BY <1>2, <2>1, Alone, NotesOnly, Zenon DEF EnableLooks, lineVars, sessionVars
<1>3. ASSUME NEW c \in Chan, NEW l \in Link, ForwarderNotifies(c, l) PROVE SrqInv'
  <2>1. /\ sendq' \subseteq [link : Link, req : Request]
        /\ \A n \in sendq' : n \in sendq \/ n.req = 0
    BY <1>0, <1>3 DEF ForwarderNotifies, Notify
  <2> QED BY <1>3, <2>1, Alone, NotesOnly, Zenon DEF ForwarderNotifies, lineVars, sessionVars
<1> QED BY <1>1, <1>2, <1>3, Zenon

-----------------------------------------------------------------------------
(* A link's request goes into the byte held, and from there to its client. *)
LEMMA WriteStep ==
    ASSUME SrqInv, UNCHANGED sessionVars, NEW l \in Link, NEW query \in BOOLEAN,
           NEW cls \in BOOLEAN, device_write(l, query, cls)
    PROVE  SrqInv'
<1>1. Settles
  BY LinkAssumption, WriteSettles, Zenon DEF device_write
<1>2. lheld \in [Link -> Request \cup {NoByte}] /\ NoByte \notin Numbers
  BY DEF SrqInv, LinkTypes, NoByte, Numbers, Request
<1>3. /\ lheld' \in [Link -> Request \cup {NoByte}]
      /\ \A k \in Link : lheld'[k] \in {lheld[k], NoByte}
      /\ UNCHANGED <<handle, call, sendq, woken, seen>>
  BY <1>2, Zenon DEF device_write
<1>4. LinkTypes'
  BY <1>3, Zenon DEF SrqInv, LinkTypes
<1>5. ASSUME NEW k \in Link, NEW r \in Numbers
      PROVE  (LinkHas(k, r)' => LinkHas(k, r)) /\ OnceFor(k, r)'
  <2>1. (lheld'[k] = r => lheld[k] = r) /\ OnceFor(k, r)
    BY <1>2, <1>3, Zenon DEF SrqInv, LinkOnce
  <2>2. Note(k, r) \in sendq' <=> Note(k, r) \in sendq
    BY <1>3, Zenon
  <2> QED BY <1>3, <2>1, <2>2, Zenon DEF LinkHas, OnceFor, Note
<1> QED BY <1>1, <1>4, <1>5, LinkStep DEF sessionVars

(* The link sees request q: the one held, or the one it has polled.        *)
LEMMA Seen ==
    ASSUME SrqInv, Settles, NEW l \in Link \ Interface, NEW q \in Request \cup {NoByte},
           UNCHANGED <<fw, ex, pushq, held, told, handed>>, UNCHANGED <<handle, sendq, woken>>,
           \A k \in Interface : call' # <<"readstb", k>>,
           q \in Numbers => lheld[l] = q \/ Taken(linkDev[l], q),
           lheld' \in [Link -> Request \cup {NoByte}],
           \A k \in Link : lheld'[k] \in {lheld[k], NoByte}, q \in Numbers => lheld'[l] # q,
           See(l, q)
    PROVE  SrqInv'
<1>0. seen \in [Link -> [Request -> Nat]] /\ seen[l] \in [Request -> Nat]
  BY Zenon DEF SrqInv, LinkTypes
<1>1. NoByte \notin Numbers /\ 0 \notin Numbers /\ Numbers \subseteq Request
  BY DEF NoByte, Numbers, Request
<1>2. /\ seen' \in [Link -> [Request -> Nat]]
      /\ \A k \in Link, r \in Numbers :
            seen'[k][r] = IF k = l /\ r = q THEN seen[k][r] + 1 ELSE seen[k][r]
  <2>1. CASE q \in {0, NoByte}
    BY <1>0, <1>1, <2>1, Zenon DEF See
  <2>2. CASE q \notin {0, NoByte}
    <3>1. seen' = [seen EXCEPT ![l][q] = seen[l][q] + 1] /\ q \in Request
      BY <2>2 DEF See
    <3>2. seen[l][q] + 1 \in Nat
      BY <1>0, <3>1
    <3> QED BY <1>0, <1>1, <3>1, <3>2, Zenon
  <2> QED BY <2>1, <2>2, Zenon
<1>3. LinkTypes'
  BY <1>2 DEF SrqInv, LinkTypes
<1>4. ASSUME NEW k \in Link, NEW r \in Numbers
      PROVE  /\ LinkHas(k, r)' => LinkHas(k, r) \/ (k \notin Interface /\ Taken(linkDev[k], r))
             /\ OnceFor(k, r)'
  <2>1. OnceFor(k, r) /\ seen[k][r] \in Nat /\ (lheld'[k] = r => lheld[k] = r)
    BY <1>1, Zenon DEF SrqInv, LinkOnce, LinkTypes
  <2>2. Note(k, r) \in sendq' <=> Note(k, r) \in sendq
    OBVIOUS
  <2>3. CASE k = l /\ r = q
    <3>1. lheld[l] = r \/ Taken(linkDev[l], r)
      BY <2>3, Zenon
    <3>2. seen[l][r] = 0
      <4>1. CASE lheld[l] = r
        BY <2>1, <2>3, <4>1, Zenon DEF OnceFor
      <4>2. CASE Taken(linkDev[l], r)
        <5>1. ~LinkHas(l, r)
          BY <4>2, LinkAssumption, Untouched, Zenon DEF Taken
        <5>2. ~(seen[l][r] > 0)
          BY <5>1, Zenon DEF LinkHas
        <5> QED BY <2>1, <2>3, <5>2
      <4> QED BY <3>1, <4>1, <4>2, Zenon
    <3>3. seen'[k][r] = 1 /\ lheld'[k] # r
      BY <1>2, <2>3, <3>2
    <3>4. OnceFor(k, r)'
      BY <2>1, <2>2, <3>3 DEF OnceFor, Note
    <3>5. LinkHas(k, r) \/ Taken(linkDev[k], r)
      BY <2>3, <3>1, Zenon DEF LinkHas
    <3> QED BY <2>3, <3>4, <3>5, Zenon
  <2>4. CASE ~(k = l /\ r = q)
    <3>1. seen'[k][r] = seen[k][r]
      BY <1>2, <2>4, Zenon
    <3> QED BY <2>1, <2>2, <3>1, Zenon DEF OnceFor, LinkHas, Note
  <2> QED BY <2>3, <2>4, Zenon
<1> QED BY <1>3, <1>4, LinkStep, Zenon

(* device_readstb: the byte held if there is one, else a poll.             *)
LEMMA ReadstbSteps ==
    ASSUME SrqInv, UNCHANGED sessionVars, NEW l \in Link, device_readstb(l) \/ ReadstbPolls(l)
    PROVE  SrqInv'
<1>0. /\ lheld \in [Link -> Request \cup {NoByte}]
      /\ \A k \in Interface : call # <<"readstb", k>>
      /\ NoByte \notin Numbers
  BY DEF SrqInv, LinkTypes, NoByte, Numbers, Request
<1>1. ASSUME device_readstb(l), lheld[l] # NoByte PROVE SrqInv'
  <2>1. Settles
    BY <1>1, Alone, Zenon DEF device_readstb, lineVars
  <2>2. /\ lheld' \in [Link -> Request \cup {NoByte}] /\ lheld'[l] = NoByte
        /\ \A k \in Link : lheld'[k] \in {lheld[k], NoByte}
    BY <1>0, <1>1, Zenon DEF device_readstb
  <2>3. /\ l \notin Interface /\ See(l, lheld[l]) /\ UNCHANGED <<handle, call, sendq, woken>>
        /\ lheld[l] \in Request \cup {NoByte}
    BY <1>0, <1>1, Zenon DEF device_readstb
  <2> QED BY <1>0, <2>1, <2>2, <2>3, Seen, Zenon DEF sessionVars
<1>2. ASSUME device_readstb(l), lheld[l] = NoByte PROVE SrqInv'
  <2>1. Settles
    BY <1>2, Alone, Zenon DEF device_readstb, lineVars
  <2>2. /\ \A k \in Interface : call' # <<"readstb", k>>
        /\ UNCHANGED <<handle, sendq, woken, lheld, seen>>
    BY <1>2 DEF device_readstb
  <2>3. LinkTypes'
    BY <2>2, Zenon DEF SrqInv, LinkTypes
  <2> QED BY <2>1, <2>2, <2>3, Quiet, Zenon DEF sessionVars
<1>3. ASSUME ReadstbPolls(l) PROVE SrqInv'
  <2>1. l \notin Interface /\ linkDev[l] \in Dev
    BY <1>0, <1>3, LinkAssumption, Zenon DEF ReadstbPolls
  <2>2. inst[linkDev[l]].req \in Request
    BY <2>1, Zenon DEF SrqInv, LineTypes, Instrument
  <2>3. Settles /\ \A r \in Numbers : inst[linkDev[l]].req = r => Taken(linkDev[l], r)
    BY <1>3, <2>1, PollSettles, Zenon DEF ReadstbPolls
  <2>4. inst[linkDev[l]].req \in Numbers => lheld[l] # inst[linkDev[l]].req
    BY <2>1, Untouched, Zenon DEF LinkHas, Numbers
  <2>5. /\ \A k \in Interface : call' # <<"readstb", k>>
        /\ UNCHANGED <<handle, sendq, woken, lheld>> /\ See(l, inst[linkDev[l]].req)
    BY <1>3, Zenon DEF ReadstbPolls, Idle
  <2> QED BY <1>0, <2>1, <2>2, <2>3, <2>4, <2>5, Seen, Zenon DEF sessionVars
<1> QED BY <1>1, <1>2, <1>3, Zenon

(* A forwarder takes the request of an instrument for the links that have  *)
(* it: each holds the byte and is notified.                                *)
LEMMA PollsStep ==
    ASSUME SrqInv, UNCHANGED sessionVars, NEW c \in Chan, NEW d \in Dev, ForwarderPolls(c, d)
    PROVE  SrqInv'
<1>0. inst[d].req \in Request /\ handle \subseteq Link /\ sendq \subseteq [link : Link, req : Request]
      /\ lheld \in [Link -> Request \cup {NoByte}]
  BY Zenon DEF SrqInv, LineTypes, Instrument, LinkTypes
<1>1. PICK q \in Request : q = inst[d].req
  BY <1>0
<1>2. Settles /\ \A r \in Numbers : q = r => Taken(d, r)
  BY <1>1, PollSettles, Zenon DEF ForwarderPolls
<1>3. PICK ls : /\ \A l \in ls : l \notin Interface /\ linkDev[l] = d
                /\ lheld' = IF q = 0 THEN lheld
                            ELSE [l \in Link |-> IF l \in ls THEN q ELSE lheld[l]]
                /\ sendq' = IF q = 0 THEN sendq ELSE Notify(c, ls \cap handle, q)
  <2> DEFINE ls == {l \in fwd[c].todo \ Interface : linkDev[l] = d}
  <2>1. \A l \in ls : l \notin Interface /\ linkDev[l] = d
    OBVIOUS
  <2>2. /\ lheld' = IF q = 0 THEN lheld
                    ELSE [l \in Link |-> IF l \in ls THEN q ELSE lheld[l]]
        /\ sendq' = IF q = 0 THEN sendq ELSE Notify(c, ls \cap handle, q)
    BY <1>1 DEF ForwarderPolls
  <2> HIDE DEF ls
  <2> QED BY <2>1, <2>2, Zenon
<1>4. UNCHANGED <<handle, call, woken, seen>>
  BY DEF ForwarderPolls
<1>5. \A l \in Link, r \in Numbers : lheld'[l] = r => lheld[l] = r \/ (l \in ls /\ r = q)
  BY <1>3
<1>6. \A n \in sendq' : n \in sendq \/ (n.link \in ls /\ n.link \in Link /\ n.req = q /\ q # 0)
  BY <1>0, <1>3 DEF Notify
<1>7. LinkTypes'
  <2>1. lheld' \in [Link -> Request \cup {NoByte}]
    BY <1>0, <1>3, Zenon
  <2>2. sendq' \subseteq [link : Link, req : Request]
    BY <1>0, <1>3 DEF Notify
  <2> QED BY <1>4, <2>1, <2>2 DEF SrqInv, LinkTypes
<1>8. ASSUME NEW l \in Link, NEW r \in Numbers
      PROVE  /\ LinkHas(l, r)' => LinkHas(l, r) \/ (l \notin Interface /\ Taken(linkDev[l], r))
             /\ OnceFor(l, r)'
  <2>1. OnceFor(l, r) /\ woken[l][r] \in Nat /\ seen[l][r] \in Nat /\ r # 0
    BY DEF SrqInv, LinkOnce, LinkTypes, Numbers
  <2>2. Note(l, r) \in sendq' => Note(l, r) \in sendq \/ (l \in ls /\ r = q)
    BY <1>6, Zenon DEF Note
  <2>3. r = q => ~LinkHas(l, r)
    BY <1>1, <2>1, Untouched, Zenon
  <2>4. r = q => woken[l][r] = 0 /\ seen[l][r] = 0
    BY <2>1, <2>3 DEF LinkHas
  <2>5. OnceFor(l, r)'
    BY <1>4, <1>5, <2>1, <2>2, <2>4, Zenon DEF OnceFor, Note
  <2>6. LinkHas(l, r)' => LinkHas(l, r) \/ (l \in ls /\ r = q)
    BY <1>4, <1>5, <2>2, Zenon DEF LinkHas, Note
  <2> QED BY <1>2, <1>3, <2>5, <2>6
<1> QED BY <1>2, <1>7, <1>8, LinkStep, Zenon DEF sessionVars

(* The sender wakes the client of a link.                                  *)
LEMMA SenderStep ==
    ASSUME SrqInv, UNCHANGED sessionVars, NEW n \in sendq, Sender(n)
    PROVE  SrqInv'
<1>0. /\ sendq \subseteq [link : Link, req : Request] /\ n.link \in Link /\ n.req \in Request
      /\ n = Note(n.link, n.req) /\ woken \in [Link -> [Request -> Nat]]
  BY Zenon DEF SrqInv, LinkTypes, Note
<1>1. PICK k \in Link, q \in Request : k = n.link /\ q = n.req
  BY <1>0, Zenon
<1>2. Settles
  BY Alone, Zenon DEF Sender, lineVars
<1>3. woken' = [woken EXCEPT ![k][q] = woken[k][q] + 1] /\ sendq' = sendq \ {Note(k, q)}
  BY <1>0, <1>1, Zenon DEF Sender
<1>4. /\ woken' \in [Link -> [Request -> Nat]]
      /\ \A l \in Link, r \in Request :
            woken'[l][r] = IF l = k /\ r = q THEN woken[l][r] + 1 ELSE woken[l][r]
  BY <1>0, <1>3
<1>5. UNCHANGED <<handle, call, lheld, seen>>
  BY Zenon DEF Sender
<1>6. LinkTypes'
  BY <1>3, <1>4, <1>5, Zenon DEF SrqInv, LinkTypes
<1>7. ASSUME NEW l \in Link, NEW r \in Numbers
      PROVE  (LinkHas(l, r)' => LinkHas(l, r)) /\ OnceFor(l, r)'
  <2>1. OnceFor(l, r) /\ woken[l][r] \in Nat /\ r \in Request
    BY DEF SrqInv, LinkOnce, LinkTypes, Numbers
  <2>2. CASE l = k /\ r = q
    <3>1. Note(l, r) \in sendq /\ Note(l, r) \notin sendq'
      BY <1>0, <1>1, <1>3, <2>2, Zenon
    <3>2. woken'[l][r] = 1
      BY <1>4, <2>1, <2>2, <3>1 DEF OnceFor
    <3> QED BY <1>5, <2>1, <3>1, <3>2 DEF OnceFor, LinkHas, Note
  <2>3. CASE ~(l = k /\ r = q)
    <3>1. woken'[l][r] = woken[l][r]
      BY <1>4, <2>1, <2>3, Zenon
    <3>2. Note(l, r) \in sendq' => Note(l, r) \in sendq
      BY <1>3, Zenon
    <3> QED BY <1>5, <2>1, <3>1, <3>2, Zenon DEF OnceFor, LinkHas, Note
  <2> QED BY <2>2, <2>3, Zenon
<1> QED BY <1>2, <1>6, <1>7, LinkStep, Zenon DEF sessionVars

(* The VXI-11 connection.                                                  *)
LEMMA LinksStep ==
    ASSUME SrqInv, Vxi11Next, UNCHANGED sessionVars
    PROVE  SrqInv'
BY ChannelSteps, CallSteps, NoteSteps, WriteStep, ReadstbSteps, PollsStep, SenderStep
   DEF Vxi11Next, ForwarderStep

-----------------------------------------------------------------------------
(* The instruments: a summary bit, and with it perhaps a new request.  The *)
(* record that results has the type of one.                                *)
LEMMA RaisedType ==
    ASSUME NEW i \in Instrument, NEW bits \in SUBSET {"MAV", "ESB"}, NEW asked \in BOOLEAN,
           NEW req \in Request, NEW mav \in BOOLEAN, NEW edge \in BOOLEAN
    PROVE  /\ [[i EXCEPT !.bits = bits, !.asked = asked] EXCEPT
                  !.req = req, !.mav = mav, !.edge = edge] \in Instrument
           /\ [[i EXCEPT !.bits = bits, !.asked = asked] EXCEPT !.mav = mav] \in Instrument
BY Zenon DEF Instrument

(* What InstrumentRaises leaves: the request there was, or a new one.      *)
LEMMA Raised ==
    ASSUME SrqInv, NEW d \in Dev, NEW b \in {"MAV", "ESB"}, InstrumentRaises(d, b)
    PROVE  /\ inst' \in [Dev -> Instrument] /\ \A e \in Dev : e # d => inst'[e] = inst[e]
           /\ \/ inst'[d].req = inst[d].req /\ from' = from
              \/ /\ inst'[d].req = Len(from) + 1 /\ from' = Append(from, d)
                 /\ Len(from) < MaxRequests
<1>0. inst \in [Dev -> Instrument] /\ inst[d] \in Instrument /\ from \in Seq(Dev)
  BY DEF SrqInv, LineTypes
<1> DEFINE new == b \in sre[d] /\ inst[d].req = 0
           bits == inst[d].bits \cup {b}
           asked == inst[d].asked /\ b # "MAV"
           i == [inst[d] EXCEPT !.bits = bits, !.asked = asked]
           mav == b = "MAV"
           edge == ~srq_asserted
           still == inst[d].mav /\ (b \in sre[d] => b = "MAV")
<1>1. /\ new => Len(from) < MaxRequests
      /\ inst' = [inst EXCEPT ![d] =
            IF new THEN [i EXCEPT !.req = Len(from) + 1, !.mav = mav, !.edge = edge]
            ELSE [i EXCEPT !.mav = still]]
      /\ from' = IF new THEN Append(from, d) ELSE from
  BY <1>0, Zenon DEF InstrumentRaises, Instrument
<1>2. bits \in SUBSET {"MAV", "ESB"}
  BY <1>0, Zenon DEF Instrument
<1>3. asked \in BOOLEAN /\ mav \in BOOLEAN /\ edge \in BOOLEAN /\ still \in BOOLEAN
  OBVIOUS
<1> HIDE DEF new, bits, asked, mav, edge, still
<1>4. CASE new
  <2>1. Len(from) + 1 \in Request /\ Len(from) < MaxRequests
    BY <1>0, <1>1, <1>4, LineAssumption DEF Request
  <2>2. [i EXCEPT !.req = Len(from) + 1, !.mav = mav, !.edge = edge] \in Instrument
    BY <1>0, <1>2, <1>3, <2>1, RaisedType, Zenon
  <2>3. [i EXCEPT !.req = Len(from) + 1, !.mav = mav, !.edge = edge].req = Len(from) + 1
    BY <1>0 DEF Instrument
  <2> HIDE DEF i
  <2> QED BY <1>0, <1>1, <1>4, <2>1, <2>2, <2>3
<1>5. CASE ~new
  <2>1. [i EXCEPT !.mav = still] \in Instrument
    <3>1. 0 \in Request
      BY LineAssumption DEF Request
    <3> QED BY <1>0, <1>2, <1>3, <3>1, RaisedType, Zenon
  <2>2. [i EXCEPT !.mav = still].req = inst[d].req
    BY <1>0, Zenon DEF Instrument
  <2> HIDE DEF i
  <2> QED BY <1>0, <1>1, <1>5, <2>1, <2>2
<1> QED BY <1>4, <1>5, Zenon

(* A new request is one that nobody has heard of.                          *)
LEMMA LineStep ==
    ASSUME SrqInv, LineNext, UNCHANGED <<sessionVars, linkVars>>
    PROVE  SrqInv'
<1>0. LinkTypes' /\ SessionTypes'
  BY Zenon DEF SrqInv, LinkTypes, SessionTypes, linkVars, sessionVars
<1>1. CASE Broadcast
  BY <1>0, <1>1, Alone, Quiet, Zenon DEF Broadcast, sessionVars, linkVars
<1>2. ASSUME NEW d \in Dev, NEW b \in {"MAV", "ESB"}, InstrumentRaises(d, b) PROVE SrqInv'
  <2>1. inst' \in [Dev -> Instrument] /\ \A e \in Dev : e # d => inst'[e] = inst[e]
    BY <1>2, Raised, Zenon
  <2>2. CASE inst'[d].req = inst[d].req /\ from' = from
    <3>1. Settles
      BY <2>1, <2>2, Zenon DEF Settles
    <3> QED BY <1>0, <3>1, Quiet, Zenon DEF sessionVars, linkVars
  <2>3. CASE inst'[d].req = Len(from) + 1 /\ from' = Append(from, d) /\ Len(from) < MaxRequests
    <3>0. from \in Seq(Dev) /\ Len(from) \in Nat /\ DOMAIN from = 1..Len(from)
      BY DEF SrqInv, LineTypes
    <3>1. /\ from' \in Seq(Dev) /\ Len(from') = Len(from) + 1
          /\ \A r \in DOMAIN from : r \in DOMAIN from' /\ from'[r] = from[r] /\ r # Len(from) + 1
          /\ Len(from) + 1 \in DOMAIN from' /\ from'[Len(from) + 1] = d
      BY <2>3, <3>0
    <3>2. LineTypes'
      BY <2>1, <2>3, <3>0, <3>1, LineAssumption DEF LineTypes
    <3>3. /\ \A s \in Session, r \in Numbers : SessionHas(s, r)' <=> SessionHas(s, r)
          /\ \A l \in Link, r \in Numbers : LinkHas(l, r)' <=> LinkHas(l, r)
      BY Zenon DEF SessionHas, Pending, Took, Pushed, LinkHas, sessionVars, linkVars
    <3>4. \A e \in Dev, r \in DOMAIN from : inst[e].req # r => inst'[e].req # r
      BY <2>1, <2>3, <3>1, Zenon
    <3>5. Origin'
      BY <2>1, <2>3, <3>1 DEF SrqInv, Apart, Origin
    <3>6. SessionApart'
      BY <3>1, <3>3, <3>4, SessionAssumption, Zenon DEF SrqInv, Apart, SessionApart
    <3>7. LinkApart'
      BY <3>1, <3>3, <3>4, LinkAssumption DEF SrqInv, Apart, LinkApart
    <3>8. SessionOnce' /\ LinkOnce'
      <4>1. ASSUME NEW s \in Session, NEW r \in Numbers PROVE OnceIn(s, r)' <=> OnceIn(s, r)
        <5>1. (Took(s, r)' <=> Took(s, r)) /\ (Pushed(s, r)' <=> Pushed(s, r))
          BY Zenon DEF Took, Pushed, sessionVars
        <5>2. Pending(s, r)' <=> Pending(s, r)
          BY <5>1, Zenon DEF Pending, sessionVars
        <5> QED BY <5>1, <5>2, Zenon DEF OnceIn, sessionVars
      <4>2. \A l \in Link, r \in Numbers : OnceFor(l, r)' <=> OnceFor(l, r)
        BY Zenon DEF OnceFor, linkVars
      <4> QED BY <4>1, <4>2, Zenon DEF SrqInv, SessionOnce, LinkOnce
    <3> QED BY <1>0, <3>2, <3>5, <3>6, <3>7, <3>8, Zenon DEF SrqInv, Apart
  <2> QED BY <1>2, <2>2, <2>3, Raised, Zenon
<1> QED BY <1>1, <1>2, Zenon DEF LineNext

-----------------------------------------------------------------------------
(* No requests have been made.                                             *)
LEMMA SrqInit == Init => SrqInv
<1> SUFFICES ASSUME Init PROVE SrqInv
  OBVIOUS
<1>0. 0 \in Request /\ None \notin Numbers /\ NoByte \notin Numbers /\ 0 \notin Numbers
      /\ Numbers \subseteq Request
  BY LineAssumption DEF Request, None, NoByte, Numbers
<1>1. LineTypes
  <2>1. [bits |-> {}, req |-> 0, mav |-> FALSE, asked |-> FALSE, edge |-> FALSE] \in Instrument
    BY <1>0, Zenon DEF Instrument
  <2>2. <<>> \in Seq(Dev) /\ Len(<<>>) <= MaxRequests
    BY LineAssumption
  <2> QED BY <2>1, <2>2, Zenon DEF Init, LineInit, LineTypes
<1>2. SessionTypes
  <2>1. NotExecuting \in Executions /\ [pc |-> "recv", got |-> 0] \in Forwarders
    BY <1>0, Zenon DEF NotExecuting, Executions, ExPlaces, Forwarders
  <2> QED BY <1>0, <2>1 DEF Init, HislipInit, SessionTypes
<1>3. LinkTypes
  BY <1>0, Zenon DEF Init, Vxi11Init, LinkTypes, Idle
<1>4. ASSUME NEW s \in Session, NEW r \in Numbers PROVE ~SessionHas(s, r) /\ OnceIn(s, r)
  <2>1. /\ fw[s].got = 0 /\ ex[s].sr = None /\ ex[s].pc = "idle" /\ pushq[s] = <<>>
        /\ held[s] = None /\ told[s][r] = 0 /\ handed[s][r] = 0
    BY <1>0, Zenon DEF Init, HislipInit, NotExecuting
  <2> QED BY <1>0, <2>1 DEF SessionHas, OnceIn, Pending, Took, Pushed
<1>5. ASSUME NEW l \in Link, NEW r \in Numbers PROVE ~LinkHas(l, r) /\ OnceFor(l, r)
  <2>1. sendq = {} /\ lheld[l] = NoByte /\ woken[l][r] = 0 /\ seen[l][r] = 0
    BY <1>0, Zenon DEF Init, Vxi11Init
  <2> QED BY <1>0, <2>1 DEF LinkHas, OnceFor
<1>6. Origin
  BY Zenon DEF Init, LineInit, Origin
<1> QED BY <1>1, <1>2, <1>3, <1>4, <1>5, <1>6, Zenon
       DEF SrqInv, Apart, SessionApart, LinkApart, SessionOnce, LinkOnce

(* Every step keeps SrqInv.                                                *)
LEMMA SrqNext == SrqInv /\ [Next]_vars => SrqInv'
<1> SUFFICES ASSUME SrqInv, [Next]_vars PROVE SrqInv'
  OBVIOUS
<1>1. CASE UNCHANGED vars
  <2>1. Settles /\ LinkTypes'
    BY <1>1, Alone DEF vars, lineVars, linkVars, SrqInv, LinkTypes
  <2> QED BY <1>1, <2>1, Quiet, Zenon DEF vars, linkVars, sessionVars
<1> QED BY <1>1, LineStep, SessionsStep, LinksStep DEF Next

(* SrqInv is an invariant.                                                 *)
LEMMA SrqAlways == Spec => []SrqInv
BY SrqInit, SrqNext, PTL DEF Spec

(* Whatever the number of sessions, links, channels and instruments, and   *)
(* however their tasks interleave, a request is announced once, to the     *)
(* clients of the instrument that made it, on one of the front-ends.       *)
THEOREM AnnouncedHolds == Spec => []AnnouncedOnce
<1>1. SrqInv => AnnouncedOnce
  <2> SUFFICES ASSUME SrqInv, NEW r \in Made PROVE
         /\ \A s \in Session : told[s][r] > 0 =>
               /\ told[s][r] = 1 /\ from[r] = devOf[s]
               /\ \A t \in Session \ {s} : told[t][r] = 0
               /\ \A l \in Link : woken[l][r] = 0
         /\ \A l \in Link : woken[l][r] > 0 =>
               woken[l][r] = 1 /\ l \notin Interface /\ from[r] = linkDev[l]
    BY DEF AnnouncedOnce
  <2>1. r \in Numbers /\ r \in Request
    BY LineAssumption DEF SrqInv, LineTypes, Made, Numbers, Request
  <2>2. /\ \A s \in Session : told[s][r] \in Nat /\ told[s][r] <= 1
        /\ \A l \in Link : woken[l][r] \in Nat /\ woken[l][r] <= 1
    <3>1. ASSUME NEW s \in Session PROVE told[s][r] \in Nat /\ told[s][r] <= 1
      <4>1. OnceIn(s, r) /\ told[s] \in [Request -> Nat]
        BY <2>1, Zenon DEF SrqInv, SessionTypes, SessionOnce
      <4> QED BY <2>1, <4>1, Zenon DEF OnceIn
    <3>2. ASSUME NEW l \in Link PROVE woken[l][r] \in Nat /\ woken[l][r] <= 1
      BY <2>1, Zenon DEF SrqInv, LinkTypes, LinkOnce, OnceFor
    <3> QED BY <3>1, <3>2, Zenon
  <2>3. /\ \A s \in Session : told[s][r] > 0 => SessionHas(s, r)
        /\ \A l \in Link : woken[l][r] > 0 => LinkHas(l, r)
    BY Zenon DEF SessionHas, LinkHas
  <2>4. ASSUME NEW s \in Session, told[s][r] > 0
        PROVE  /\ told[s][r] = 1 /\ from[r] = devOf[s]
               /\ \A t \in Session \ {s} : told[t][r] = 0
               /\ \A l \in Link : woken[l][r] = 0
    <3>1. /\ from[r] = devOf[s] /\ \A t \in Session : SessionHas(t, r) => t = s
          /\ \A l \in Link : ~LinkHas(l, r)
      BY <2>1, <2>3, <2>4, Zenon DEF SrqInv, Apart, SessionApart
    <3> QED BY <2>2, <2>3, <2>4, <3>1
  <2>5. ASSUME NEW l \in Link, woken[l][r] > 0
        PROVE  woken[l][r] = 1 /\ l \notin Interface /\ from[r] = linkDev[l]
    <3>1. woken[l][r] = 1
      BY <2>2, <2>5
    <3> QED BY <2>1, <2>3, <2>5, <3>1, Zenon DEF SrqInv, Apart, LinkApart
  <2> QED BY <2>4, <2>5, Zenon
<1> QED BY <1>1, SrqAlways, PTL

(* No client finds a request twice in its status byte, and none is held    *)
(* for a client that has seen it, whichever tasks poll, read and answer.   *)
THEOREM HandedOverHolds == Spec => []HandedOverOnce
<1>1. SrqInv => HandedOverOnce
  <2> SUFFICES ASSUME SrqInv, NEW r \in Made PROVE
         /\ \A s \in Session : handed[s][r] + (IF held[s] = r THEN 1 ELSE 0) <= 1
         /\ \A l \in Link : seen[l][r] + (IF lheld[l] = r THEN 1 ELSE 0) <= 1
    BY Zenon DEF HandedOverOnce
  <2>1. r \in Numbers /\ r \in Request
    BY LineAssumption DEF SrqInv, LineTypes, Made, Numbers, Request
  <2>2. \A s \in Session : /\ handed[s][r] \in Nat /\ handed[s][r] <= 1
                           /\ held[s] = r => handed[s][r] = 0
    BY <2>1 DEF SrqInv, SessionTypes, SessionOnce, OnceIn
  <2>3. \A l \in Link : /\ seen[l][r] \in Nat /\ seen[l][r] <= 1
                        /\ lheld[l] = r => seen[l][r] = 0
    BY <2>1 DEF SrqInv, LinkTypes, LinkOnce, OnceFor
  <2>4. ASSUME NEW s \in Session
        PROVE  handed[s][r] + (IF held[s] = r THEN 1 ELSE 0) <= 1
    BY <2>2
  <2>5. ASSUME NEW l \in Link
        PROVE  seen[l][r] + (IF lheld[l] = r THEN 1 ELSE 0) <= 1
    BY <2>3
  <2> QED BY <2>4, <2>5, Zenon
<1> QED BY <1>1, SrqAlways, PTL
=============================================================================
