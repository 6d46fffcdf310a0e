------------------------------ MODULE Vxi11Srq ------------------------------
(***************************************************************************)
(* Service requests over VXI-11 (src/vxi11/server.rs): one client          *)
(* connection with its links, the interrupt channels it creates one after  *)
(* the other, the task each of them leaves on the bus (the forwarder), and *)
(* the calls that meet it.  A channel that is destroyed takes its sender   *)
(* along at once, its forwarder only at the top of the loop.               *)
(***************************************************************************)
EXTENDS SrqLine

CONSTANTS
    Link,      \* the links of the connection
    Interface, \* those of them that name the bus and no instrument
    Chan,      \* bound: the interrupt channels created
    linkDev,   \* the instrument of each other link
    MaxCalls   \* bound: enable, read-status and write calls

ASSUME LinkAssumption == linkDev \in [Link \ Interface -> Dev]

VARIABLES
    intr,   \* conn.intr: the channel in use, or NoChan
    fwd,    \* the forwarder of each channel
    handle, \* links with a srq_handle
    call,   \* the call the connection is in
    sendq,  \* notifications on their way to the sender
    lheld,  \* consumed_stb of each link
    woken,  \* notifications sent for each link, by the request they are for
    seen,   \* requests in the answers to device_readstb, counted
    calls   \* calls made

linkVars == <<intr, fwd, handle, call, sendq, lheld, woken, seen, calls>>

NoChan == 0
NoByte == -1
Idle == <<"idle">>
Watcher(c) == <<"watcher", c>>

IntrForwarder == [pc : {"off", "level", "subscribe", "recv", "pass", "done"},
                  first : BOOLEAN, todo : SUBSET Link, stop : BOOLEAN]

Vxi11TypeOK ==
    /\ intr \in Chan \cup {NoChan}
    /\ fwd \in [Chan -> IntrForwarder]
    /\ handle \subseteq Link
    /\ call \in {Idle} \cup ({"enable", "readstb"} \X Link)
    /\ sendq \subseteq [link : Link, req : Request]
    /\ lheld \in [Link -> Request \cup {NoByte}]
    /\ woken \in [Link -> [Request -> Nat]]
    /\ seen \in [Link -> [Request -> Nat]]
    /\ calls \in 0..MaxCalls

Vxi11Init ==
    /\ intr = NoChan
    /\ fwd = [c \in Chan |-> [pc |-> "off", first |-> FALSE, todo |-> {},
                              stop |-> FALSE]]
    /\ handle = {} /\ call = Idle /\ sendq = {}
    /\ lheld = [l \in Link |-> NoByte]
    /\ woken = [l \in Link |-> [r \in Request |-> 0]]
    /\ seen = [l \in Link |-> [r \in Request |-> 0]]
    /\ calls = 0

(* Notifications go to the sender of the channel, if it is still there.    *)
Notify(c, ls, r) ==
    IF c = intr THEN sendq \cup {[link |-> l, req |-> r] : l \in ls} ELSE sendq

-----------------------------------------------------------------------------
(* The calls; a connection makes one at a time.                            *)

Call == call = Idle /\ calls < MaxCalls /\ calls' = calls + 1

create_intr_chan(c) ==
    /\ call = Idle /\ intr = NoChan
    /\ fwd[c].pc = "off" /\ \A b \in Chan : b < c => fwd[b].pc # "off"
    /\ intr' = c
    /\ fwd' = [fwd EXCEPT ![c].pc = "level"]
    /\ UNCHANGED <<lineVars, handle, call, sendq, lheld, woken, seen, calls>>

destroy_intr_chanUnstored ==
    /\ call = Idle /\ intr # NoChan
    /\ fwd' = [fwd EXCEPT ![intr].stop = fwd[intr].pc = "recv"]
    /\ intr' = NoChan
    /\ sendq' = {}
    /\ UNCHANGED <<lineVars, handle, call, lheld, woken, seen, calls>>

(* The sender is aborted, the forwarder asked to stop.                     *)
destroy_intr_chan ==
    /\ call = Idle /\ intr # NoChan
    /\ fwd' = [fwd EXCEPT ![intr].stop = TRUE]
    /\ intr' = NoChan
    /\ sendq' = {}
    /\ UNCHANGED <<lineVars, handle, call, lheld, woken, seen, calls>>

(* Enabling a link looks at the line if a channel is there.                *)
device_enable_srq(l, enable) ==
    /\ Call
    /\ handle' = IF enable THEN handle \cup {l} ELSE handle \ {l}
    /\ call' = IF enable /\ l \notin handle /\ intr # NoChan THEN <<"enable", l>>
                                                            ELSE Idle
    /\ UNCHANGED <<lineVars, intr, fwd, sendq, lheld, woken, seen>>

EnableLooks(l) ==
    /\ call = <<"enable", l>> /\ bus = Free
    /\ sendq' = IF srq_asserted THEN sendq \cup {[link |-> l, req |-> 0]} ELSE sendq
    /\ call' = Idle
    /\ UNCHANGED <<lineVars, intr, fwd, handle, lheld, woken, seen, calls>>

See(l, r) == seen' = IF r \in {0, NoByte} THEN seen ELSE [seen EXCEPT ![l][r] = @ + 1]

(* device_readstb answers with the byte held, if there is one.             *)
device_readstb(l) ==
    /\ Call /\ l \notin Interface
    /\ IF lheld[l] # NoByte
       THEN /\ See(l, lheld[l])
            /\ lheld' = [lheld EXCEPT ![l] = NoByte]
            /\ UNCHANGED call
       ELSE /\ call' = <<"readstb", l>>
            /\ UNCHANGED <<lheld, seen>>
    /\ UNCHANGED <<lineVars, intr, fwd, handle, sendq, woken>>

ReadstbPolls(l) ==
    /\ call = <<"readstb", l>> /\ bus = Free
    /\ inst' = Polled(linkDev[l])
    /\ See(l, inst[linkDev[l]].req)
    /\ call' = Idle
    /\ UNCHANGED <<from, report, tok, bus, excused, intr, fwd, handle, sendq, lheld,
                   woken, calls>>

device_write(l, query, cls) ==
    /\ Call /\ l \notin Interface /\ bus = Free
    /\ lheld' = [lheld EXCEPT ![l] = NoByte]
    /\ inst' = Written(linkDev[l], query, cls)
    /\ UNCHANGED <<from, report, tok, bus, excused, intr, fwd, handle, call, sendq,
                   woken, seen>>

device_read(l) ==
    /\ Call /\ l \notin Interface /\ bus = Free
    /\ "MAV" \in inst[linkDev[l]].bits
    /\ inst' = OutputRead(linkDev[l])
    /\ UNCHANGED <<from, report, tok, bus, excused, intr, fwd, handle, call, sendq,
                   lheld, woken, seen>>

-----------------------------------------------------------------------------
(* The forwarder.                                                          *)

At(c, pc) == fwd[c].pc = pc

(* The line's level first, then the subscription: two turns on the bus.    *)
ForwarderStarts(c) ==
    /\ At(c, "level") /\ bus = Free
    /\ fwd' = [fwd EXCEPT ![c].pc = "subscribe", ![c].first = srq_asserted]
    /\ UNCHANGED <<lineVars, intr, handle, call, sendq, lheld, woken, seen, calls>>

ForwarderSubscribes(c) ==
    /\ At(c, "subscribe") /\ bus = Free
    /\ subscribe_srq(Watcher(c))
    /\ fwd' = [fwd EXCEPT ![c].first = FALSE,
                  ![c].pc = IF fwd[c].first THEN "pass" ELSE "recv",
                  ![c].todo = IF fwd[c].first THEN handle ELSE {}]
    /\ UNCHANGED <<inst, from, report, bus, excused, intr, handle, call, sendq, lheld,
                   woken, seen, calls>>

WatcherRecvOldTargets(c) ==
    /\ At(c, "recv") /\ tok[Watcher(c)] = "full"
    /\ tok' = [tok EXCEPT ![Watcher(c)] = "empty"]
    /\ fwd' = [fwd EXCEPT ![c].pc = "pass"]
    /\ UNCHANGED <<inst, from, report, bus, excused, intr, handle, call, sendq, lheld,
                   woken, seen, calls>>

WatcherRecv(c) ==
    /\ At(c, "recv") /\ tok[Watcher(c)] = "full"
    /\ tok' = [tok EXCEPT ![Watcher(c)] = "empty"]
    /\ fwd' = [fwd EXCEPT ![c].pc = "pass", ![c].todo = handle]
    /\ UNCHANGED <<inst, from, report, bus, excused, intr, handle, call, sendq, lheld,
                   woken, seen, calls>>

ForwarderStops(c) ==
    /\ At(c, "recv") /\ fwd[c].stop
    /\ tok' = [tok EXCEPT ![Watcher(c)] = "off"]
    /\ fwd' = [fwd EXCEPT ![c].pc = "done"]
    /\ UNCHANGED <<inst, from, report, bus, excused, intr, handle, call, sendq, lheld,
                   woken, seen, calls>>

ForwarderPollsNotifyingAll(c, d) ==
    LET ls == {l \in fwd[c].todo \ Interface : linkDev[l] = d}
        r == inst[d].req
    IN  /\ At(c, "pass") /\ ls # {} /\ bus = Free
        /\ inst' = Polled(d)
        /\ fwd' = [fwd EXCEPT ![c].todo = @ \ ls]
        /\ sendq' = IF r = 0 THEN sendq ELSE Notify(c, handle, r)
        /\ UNCHANGED <<from, report, tok, bus, excused, intr, handle, call, lheld,
                       woken, seen, calls>>

(* One poll per instrument; its links are notified if it has RQS set.      *)
ForwarderPolls(c, d) ==
    LET ls == {l \in fwd[c].todo \ Interface : linkDev[l] = d}
        r == inst[d].req
    IN  /\ At(c, "pass") /\ ls # {} /\ bus = Free
        /\ inst' = Polled(d)
        /\ fwd' = [fwd EXCEPT ![c].todo = @ \ ls]
        /\ lheld' = IF r = 0 THEN lheld
                    ELSE [l \in Link |-> IF l \in ls THEN r ELSE lheld[l]]
        /\ sendq' = IF r = 0 THEN sendq ELSE Notify(c, ls \cap handle, r)
        /\ UNCHANGED <<from, report, tok, bus, excused, intr, handle, call, woken,
                       seen, calls>>

ForwarderPollFails(c, d) ==
    LET ls == {l \in fwd[c].todo \ Interface : linkDev[l] = d}
    IN  /\ At(c, "pass") /\ ls # {} /\ bus = Free
        /\ excused' = TRUE
        /\ fwd' = [fwd EXCEPT ![c].todo = @ \ ls]
        /\ UNCHANGED <<inst, from, report, tok, bus, intr, handle, call, sendq, lheld,
                       woken, seen, calls>>

(* An interface link has no instrument: the line is its signal.            *)
ForwarderNotifies(c, l) ==
    /\ At(c, "pass") /\ l \in fwd[c].todo \cap Interface
    /\ fwd' = [fwd EXCEPT ![c].todo = @ \ {l}]
    /\ sendq' = Notify(c, {l} \cap handle, 0)
    /\ UNCHANGED <<lineVars, intr, handle, call, lheld, woken, seen, calls>>

ForwarderPassEnds(c) ==
    /\ At(c, "pass") /\ fwd[c].todo = {}
    /\ fwd' = [fwd EXCEPT ![c].pc = "recv"]
    /\ UNCHANGED <<lineVars, intr, handle, call, sendq, lheld, woken, seen, calls>>

(* In which order the notifications are sent nobody can tell.              *)
Sender(n) ==
    /\ n \in sendq
    /\ woken' = [woken EXCEPT ![n.link][n.req] = @ + 1]
    /\ sendq' = sendq \ {n}
    /\ UNCHANGED <<lineVars, intr, fwd, handle, call, lheld, seen, calls>>

-----------------------------------------------------------------------------
ForwarderStep(c) ==
    \/ ForwarderStarts(c) \/ ForwarderSubscribes(c)
    \/ WatcherRecv(c) \/ ForwarderStops(c)
    \/ \E d \in Dev : ForwarderPolls(c, d) \/ ForwarderPollFails(c, d)
    \/ \E l \in Link : ForwarderNotifies(c, l)
    \/ ForwarderPassEnds(c)

Vxi11Next ==
    \/ \E c \in Chan : create_intr_chan(c) \/ ForwarderStep(c)
    \/ destroy_intr_chan
    \/ \E l \in Link :
          \/ \E enable \in BOOLEAN : device_enable_srq(l, enable)
          \/ EnableLooks(l) \/ device_readstb(l) \/ ReadstbPolls(l)
          \/ \E query, cls \in BOOLEAN : device_write(l, query, cls)
          \/ device_read(l)
    \/ \E n \in sendq : Sender(n)
=============================================================================
