-------------------------- MODULE Vxi11LinksProofs --------------------------
(***************************************************************************)
(* Links, locks and aborts of the VXI-11 front-end, for any number of      *)
(* connections, links and max_links.                                       *)
(*                                                                         *)
(* Both arguments rest on lids being the affair of one connection: those   *)
(* it owns and the one its call is about are nobody else's, and older than *)
(* the next one to be given out (OwnInv).                                  *)
(***************************************************************************)
EXTENDS Vxi11Links, LockTableProofs

Places == InCall \cup {"reading", "replying", "closed"}

(* The lids a connection has to do with.                                   *)
Mine(c) == owned[c] \cup ({call[c]} \ {NoOne})

OwnInv ==
    /\ nextLid \in 1..MaxLid + 1
    /\ owned \in [Conn -> SUBSET Holder]
    /\ pc \in [Conn -> Places]
    /\ call \in [Conn -> Holder \cup {NoOne}]
    /\ result \in [Conn -> {"none", "done", "refused", "abort"}]
    /\ \A c \in Conn : \A l \in Mine(c) : l < nextLid
    /\ \A c, d \in Conn : c # d => Mine(c) \cap Mine(d) = {}
    /\ \A c \in Conn : pc[c] \in InCall \cup {"replying"} => call[c] \in Holder
    /\ \A c \in Conn : pc[c] \in InCall => call[c] \in owned[c]
    /\ \A c \in Conn : result[c] # "none" => pc[c] = "replying"

-----------------------------------------------------------------------------
(* A step of one connection that adds no lid to it but the next one.       *)
Moves(c) ==
    /\ pc' \in [Conn -> Places]
    /\ call' \in [Conn -> Holder \cup {NoOne}]
    /\ result' \in [Conn -> {"none", "done", "refused", "abort"}]
    /\ owned' \in [Conn -> SUBSET Holder]
    /\ \A d \in Conn \ {c} : /\ pc'[d] = pc[d] /\ call'[d] = call[d]
                             /\ result'[d] = result[d] /\ owned'[d] = owned[d]
    /\ pc'[c] \in InCall => call'[c] \in owned'[c]
    /\ pc'[c] = "replying" => call'[c] \in Holder
    /\ result'[c] # "none" => pc'[c] = "replying"
    /\ \/ UNCHANGED nextLid /\ Mine(c)' \subseteq Mine(c)
       \/ /\ nextLid <= MaxLid /\ nextLid' = nextLid + 1
          /\ Mine(c)' \subseteq Mine(c) \cup {nextLid}

(* Such a step keeps every lid with one connection.                        *)
LEMMA OwnStep ==
    ASSUME OwnInv, NEW c \in Conn, Moves(c)
    PROVE  OwnInv'
<1>0. /\ Holder \subseteq Nat /\ MaxLid \in Nat /\ nextLid \in 1..MaxLid + 1
      /\ nextLid' \in 1..MaxLid + 1 /\ nextLid' >= nextLid
  BY LidAssumption DEF OwnInv, Moves
<1>2. \A d \in Conn \ {c} : /\ pc'[d] = pc[d] /\ call'[d] = call[d]
                            /\ result'[d] = result[d] /\ owned'[d] = owned[d]
  BY DEF Moves
<1>3. \A d \in Conn \ {c} : Mine(d)' = Mine(d)
  BY <1>2 DEF Mine
<1>4. \A d \in Conn : Mine(d) \subseteq Nat /\ Mine(d)' \subseteq Nat
  <2>1. \A d \in Conn : /\ owned[d] \subseteq Holder /\ call[d] \in Holder \cup {NoOne}
                        /\ owned'[d] \subseteq Holder /\ call'[d] \in Holder \cup {NoOne}
    BY DEF OwnInv, Moves
  <2> QED BY <1>0, <2>1, Zenon DEF Mine
<1>5. \A d \in Conn : \A l \in Mine(d)' : l < nextLid'
  <2>1. ASSUME NEW l \in Mine(c)' PROVE l < nextLid'
    <3>1. \/ l \in Mine(c)
          \/ l = nextLid /\ nextLid' = nextLid + 1
      BY <2>1 DEF Moves
    <3>2. l \in Nat /\ (l \in Mine(c) => l < nextLid)
      BY <1>4, <2>1 DEF OwnInv
    <3> QED BY <1>0, <3>1, <3>2
  <2>2. ASSUME NEW d \in Conn \ {c}, NEW l \in Mine(d)' PROVE l < nextLid'
    <3>1. l \in Nat /\ l < nextLid
      BY <1>3, <1>4, <2>2 DEF OwnInv
    <3> QED BY <1>0, <3>1
  <2> QED BY <2>1, <2>2
<1>6. \A d \in Conn \ {c} : Mine(c)' \cap Mine(d)' = {}
  <2> SUFFICES ASSUME NEW d \in Conn \ {c}, NEW l \in Mine(c)', l \in Mine(d)' PROVE FALSE
    OBVIOUS
  <2>1. l \in Mine(d)
    BY <1>3
  <2>2. l \notin Mine(c)
    BY <2>1 DEF OwnInv
  <2>3. l < nextLid /\ l \in Nat
    BY <1>4, <2>1 DEF OwnInv
  <2>4. l # nextLid
    BY <1>0, <2>3
  <2> QED BY <2>2, <2>4 DEF Moves
<1>7. \A d, e \in Conn : d # e => Mine(d)' \cap Mine(e)' = {}
  BY <1>3, <1>6 DEF OwnInv
<1>8. \A d \in Conn : /\ pc'[d] \in InCall \cup {"replying"} => call'[d] \in Holder
                      /\ pc'[d] \in InCall => call'[d] \in owned'[d]
                      /\ result'[d] # "none" => pc'[d] = "replying"
  BY <1>2 DEF OwnInv, Moves
<1> QED BY <1>0, <1>5, <1>7, <1>8 DEF OwnInv, Moves

(* A step that touches neither lids nor calls.                             *)
LEMMA OwnStays ==
    ASSUME OwnInv, UNCHANGED <<nextLid, owned, pc, call, result>>
    PROVE  OwnInv'
BY DEF OwnInv, Mine

(* Nobody has a lid at the start.                                          *)
LEMMA OwnInit == Init => OwnInv
<1> SUFFICES ASSUME Init PROVE OwnInv
  OBVIOUS
<1>1. "reading" \in Places /\ "reading" \notin InCall
  BY DEF Places, InCall, Waiting
<1>2. nextLid \in 1..MaxLid + 1
  BY LidAssumption DEF Init
<1>3. \A c \in Conn : Mine(c) = {}
  BY DEF Init, Mine
<1> QED BY <1>1, <1>2, <1>3 DEF Init, OwnInv

(* The same for the ways the actions have of moving a connection on: the   *)
(* call is answered, it waits or goes on, it is over.                      *)
LEMMA OwnReplies ==
    ASSUME OwnInv, NEW c \in Conn, NEW l \in Mine(c), NEW o \in SUBSET owned[c],
           NEW r \in {"done", "refused", "abort"}, Reply(c, l, r),
           owned' = [owned EXCEPT ![c] = o], UNCHANGED nextLid
    PROVE  OwnInv'
<1>1. l \in Holder /\ o \in SUBSET Holder
  BY DEF OwnInv, Mine
<1>2. "replying" \in Places /\ "replying" \notin InCall
  BY DEF Places, InCall, Waiting
<1>3. Mine(c)' \subseteq Mine(c)
  BY DEF Mine, OwnInv, Reply, Goto
<1>4. Moves(c)
  BY <1>1, <1>2, <1>3 DEF Moves, OwnInv, Reply, Goto
<1> QED BY <1>4, OwnStep

(* The call waits, or goes on.                                             *)
LEMMA OwnWaits ==
    ASSUME OwnInv, NEW c \in Conn, pc[c] # "replying", NEW l \in owned[c],
           NEW w \in InCall, Wait(c, w, l), UNCHANGED <<nextLid, owned>>
    PROVE  OwnInv'
<1>1. l \in Holder
  BY DEF OwnInv
<1>2. w \in Places /\ w # "replying"
  BY DEF Places, InCall, Waiting
<1>3. Mine(c)' \subseteq Mine(c)
  BY DEF Mine, OwnInv, Wait, Goto
<1>4. Moves(c)
  BY <1>1, <1>2, <1>3 DEF Moves, OwnInv, Wait, Goto
<1> QED BY <1>4, OwnStep

(* The call, or the connection, is over.                                   *)
LEMMA OwnLeaves ==
    ASSUME OwnInv, NEW c \in Conn, NEW o \in SUBSET owned[c],
           NEW p \in {"reading", "closed"}, Goto(c, p, NoOne),
           result' = [result EXCEPT ![c] = "none"],
           owned' = [owned EXCEPT ![c] = o], UNCHANGED nextLid
    PROVE  OwnInv'
<1>1. o \in SUBSET Holder
  BY DEF OwnInv
<1>2. p \in Places /\ p \notin InCall /\ p # "replying"
  BY DEF Places, InCall, Waiting
<1>3. Mine(c)' \subseteq Mine(c)
  BY DEF Mine, OwnInv, Goto
<1>4. Moves(c)
  BY <1>1, <1>2, <1>3 DEF Moves, OwnInv, Goto
<1> QED BY <1>4, OwnStep

(* create_link gives the connection the lid nobody had.                    *)
LEMMA OwnCreates ==
    ASSUME OwnInv, NEW c \in Conn, NEW lock, CreateLink(c, lock)
    PROVE  OwnInv'
<1>1. nextLid \in Holder
  BY LidAssumption DEF OwnInv, CreateLink
<1>2. /\ call' = [call EXCEPT ![c] = nextLid] /\ nextLid' = nextLid + 1 /\ nextLid <= MaxLid
      /\ owned' = [owned EXCEPT ![c] = owned[c] \cup {nextLid}]
      /\ pc[c] = "reading" /\ result[c] = "none"
  BY DEF CreateLink, Wait, Reply, Goto, OwnInv, Called
<1>3. Mine(c)' \subseteq Mine(c) \cup {nextLid}
  BY <1>2 DEF Mine, OwnInv
<1>4. \/ pc' = [pc EXCEPT ![c] = "creating"] /\ UNCHANGED result
      \/ pc' = [pc EXCEPT ![c] = "replying"] /\ result' = [result EXCEPT ![c] = "done"]
  BY DEF CreateLink, Wait, Reply, Goto
<1>5. "creating" \in Places /\ "replying" \in Places /\ "replying" \notin InCall
  BY DEF Places, InCall, Waiting
<1>6. Moves(c)
  BY <1>1, <1>2, <1>3, <1>4, <1>5 DEF Moves, OwnInv
<1> QED BY <1>6, OwnStep

(* Every step keeps every lid with one connection.                         *)
LEMMA OwnNext == OwnInv /\ [Next]_vars => OwnInv'
<1> SUFFICES ASSUME OwnInv, [Next]_vars PROVE OwnInv'
  OBVIOUS
<1> USE DEF linkVars, abortVars
<1>0. /\ \A c \in Conn : owned = [owned EXCEPT ![c] = owned[c]]
      /\ \A c \in Conn : owned[c] \subseteq Mine(c)
      /\ \A c \in Conn : pc[c] \in InCall => call[c] \in owned[c]
      /\ {"creating", "locking", "gated", "queued", "onbus"} = InCall
  BY DEF OwnInv, Mine, InCall, Waiting
<1>1. ASSUME NEW c \in Conn, NEW b \in BOOLEAN, CreateLink(c, b) PROVE OwnInv'
  BY <1>1, OwnCreates
<1>2. ASSUME NEW c \in Conn, NEW b \in BOOLEAN, CreateLinkResume(c, b) PROVE OwnInv'
  <2>1. call[c] \in owned[c] /\ call[c] \in Mine(c) /\ UNCHANGED nextLid
    BY <1>0, <1>2 DEF CreateLinkResume
  <2>2. CASE Reply(c, call[c], "done") /\ UNCHANGED owned
    BY <1>0, <2>1, <2>2, OwnReplies
  <2>3. CASE Reply(c, call[c], "refused") /\ owned' = [owned EXCEPT ![c] = owned[c] \ {call[c]}]
    BY <2>1, <2>3, OwnReplies, Zenon
  <2>4. CASE UNCHANGED <<owned, pc, call, result>>
    BY <2>1, <2>4, OwnStays
  <2> QED BY <1>2, <2>2, <2>3, <2>4 DEF CreateLinkResume
<1>3. ASSUME NEW c \in Conn, NEW b \in BOOLEAN, DeviceLockResume(c, b) PROVE OwnInv'
  <2>1. call[c] \in Mine(c) /\ UNCHANGED <<nextLid, owned>>
    BY <1>0, <1>3 DEF DeviceLockResume
  <2>2. CASE Reply(c, call[c], "done") \/ Reply(c, call[c], "refused")
    BY <1>0, <2>1, <2>2, OwnReplies
  <2>3. CASE UNCHANGED <<pc, call, result>>
    BY <2>1, <2>3, OwnStays
  <2> QED BY <1>3, <2>2, <2>3 DEF DeviceLockResume
<1>4. ASSUME NEW c \in Conn, NEW b \in BOOLEAN, DeviceIoResume(c, b) PROVE OwnInv'
  <2>1. /\ call[c] \in owned[c] /\ call[c] \in Mine(c) /\ pc[c] # "replying"
        /\ UNCHANGED <<nextLid, owned>>
    BY <1>0, <1>4 DEF DeviceIoResume
  <2>2. CASE Wait(c, "queued", call[c])
    BY <1>0, <2>1, <2>2, OwnWaits
  <2>3. CASE Reply(c, call[c], "refused")
    BY <1>0, <2>1, <2>3, OwnReplies
  <2>4. CASE UNCHANGED <<pc, call, result>>
    BY <2>1, <2>4, OwnStays
  <2> QED BY <1>4, <2>2, <2>3, <2>4 DEF DeviceIoResume, PassGate
<1>5. ASSUME NEW c \in Conn, NEW l \in Holder, DestroyLink(c, l) PROVE OwnInv'
  <2>1. /\ l \in Mine(c) /\ Reply(c, l, "done") /\ UNCHANGED nextLid
        /\ owned' = [owned EXCEPT ![c] = owned[c] \ {l}]
    BY <1>0, <1>5 DEF DestroyLink
  <2> QED BY <2>1, OwnReplies, Zenon
<1>6. ASSUME NEW c \in Conn, NEW l \in Holder, DeviceLock(c, l) PROVE OwnInv'
  <2>1. l \in owned[c] /\ l \in Mine(c) /\ pc[c] # "replying" /\ UNCHANGED <<nextLid, owned>>
    BY <1>0, <1>6 DEF DeviceLock, Called
  <2>2. CASE Wait(c, "locking", l)
    BY <1>0, <2>1, <2>2, OwnWaits
  <2>3. CASE Reply(c, l, "done") \/ Reply(c, l, "refused")
    BY <1>0, <2>1, <2>3, OwnReplies
  <2> QED BY <1>6, <2>2, <2>3 DEF DeviceLock
<1>7. ASSUME NEW c \in Conn, NEW l \in Holder, DeviceUnlock(c, l) PROVE OwnInv'
  <2>1. /\ l \in Mine(c) /\ UNCHANGED <<nextLid, owned>>
        /\ Reply(c, l, "done") \/ Reply(c, l, "refused")
    BY <1>0, <1>7 DEF DeviceUnlock
  <2> QED BY <1>0, <2>1, OwnReplies
<1>8. ASSUME NEW c \in Conn, NEW l \in Holder, NEW w \in BOOLEAN, DeviceIo(c, l, w) PROVE OwnInv'
  <2>1. l \in owned[c] /\ l \in Mine(c) /\ pc[c] # "replying" /\ UNCHANGED <<nextLid, owned>>
    BY <1>0, <1>8 DEF DeviceIo, Called
  <2>2. CASE Wait(c, "queued", l) \/ Wait(c, "gated", l)
    BY <1>0, <2>1, <2>2, OwnWaits
  <2>3. CASE Reply(c, l, "refused")
    BY <1>0, <2>1, <2>3, OwnReplies
  <2> QED BY <1>8, <2>2, <2>3 DEF DeviceIo, PassGate
<1>9. ASSUME NEW c \in Conn, DeviceLockAbort(c) PROVE OwnInv'
  <2>1. call[c] \in Mine(c) /\ UNCHANGED <<nextLid, owned>>
    BY <1>0, <1>9 DEF DeviceLockAbort
  <2>2. CASE Reply(c, call[c], "abort")
    BY <1>0, <2>1, <2>2, OwnReplies
  <2>3. CASE UNCHANGED <<pc, call, result>>
    BY <2>1, <2>3, OwnStays
  <2> QED BY <1>9, <2>2, <2>3 DEF DeviceLockAbort
<1>10. ASSUME NEW c \in Conn, BusStart(c) PROVE OwnInv'
  <2>1. /\ call[c] \in owned[c] /\ pc[c] # "replying" /\ Wait(c, "onbus", call[c])
        /\ UNCHANGED <<nextLid, owned>>
    BY <1>0, <1>10 DEF BusStart
  <2> QED BY <1>0, <2>1, OwnWaits
<1>11. ASSUME NEW c \in Conn, NEW r \in {"done", "abort"}, BusDone(c, r) PROVE OwnInv'
  <2>1. call[c] \in Mine(c) /\ Reply(c, call[c], r) /\ UNCHANGED <<nextLid, owned>>
    BY <1>0, <1>11 DEF BusDone
  <2> QED BY <1>0, <2>1, OwnReplies
<1>12. ASSUME NEW c \in Conn, Replied(c) \/ ConnectionFails(c) PROVE OwnInv'
  <2>1. /\ Goto(c, "reading", NoOne) \/ Goto(c, "closed", NoOne)
        /\ result' = [result EXCEPT ![c] = "none"] /\ UNCHANGED <<nextLid, owned>>
    BY <1>12 DEF Replied, ConnectionFails
  <2> QED BY <1>0, <2>1, OwnLeaves, Zenon
<1>13. ASSUME NEW c \in Conn, CloseConnection(c) PROVE OwnInv'
  <2>1. /\ Goto(c, "closed", NoOne) /\ UNCHANGED nextLid
        /\ owned' = [owned EXCEPT ![c] = {}] /\ {} \in SUBSET owned[c]
    BY <1>13 DEF CloseConnection
  <2>2. result' = [result EXCEPT ![c] = "none"]
    BY <1>13 DEF CloseConnection, OwnInv
  <2> QED BY <2>1, <2>2, OwnLeaves, Zenon
<1>14. ASSUME UNCHANGED <<nextLid, owned, pc, call, result>> PROVE OwnInv'
  BY <1>14, OwnStays
<1>15. CASE \/ \E l \in Holder : DeviceAbort(l)
            \/ \E c \in Conn : \E how \in {"eof", "error"} : End(c, how)
            \/ UNCHANGED vars
  BY <1>14, <1>15 DEF DeviceAbort, End, vars
<1> QED BY <1>1, <1>2, <1>3, <1>4, <1>5, <1>6, <1>7, <1>8, <1>9, <1>10, <1>11, <1>12,
           <1>13, <1>15 DEF Next

-----------------------------------------------------------------------------
(* Where the operation window of the call is open.                         *)
Windowed == {"locking", "queued", "onbus"}

(* A window is open only while its call runs; a flag is up only in an open *)
(* window, and because of an abort during this call.                       *)
AbortInv ==
    /\ inFlight \in [Holder -> BOOLEAN]
    /\ aborted \in [Holder -> BOOLEAN]
    /\ hit \in [Holder -> BOOLEAN]
    /\ \A l \in Holder : inFlight[l] => \E c \in Conn : call[c] = l /\ pc[c] \in Windowed
    /\ \A l \in Holder : aborted[l] => inFlight[l] /\ hit[l]
    /\ AbortHitsItsCall

(* The call and the place of everyone but c stay as they are.              *)
Others(c) == \A d \in Conn \ {c} : pc'[d] = pc[d] /\ call'[d] = call[d] /\ result'[d] = result[d]

(* The ways to move a connection on leave the others.                      *)
LEMMA GotoOthers ==
    ASSUME OwnInv, NEW c \in Conn, NEW w, NEW l
    PROVE  /\ \A r : Reply(c, l, r) =>
                 Others(c) /\ pc'[c] = "replying" /\ call'[c] = l /\ result'[c] = r
           /\ Wait(c, w, l) =>
                 Others(c) /\ pc'[c] = w /\ call'[c] = l /\ result'[c] = result[c]
           /\ Goto(c, w, l) =>
                 /\ pc'[c] = w /\ call'[c] = l
                 /\ \A d \in Conn \ {c} : pc'[d] = pc[d] /\ call'[d] = call[d]
BY Zenon DEF OwnInv, Others, Reply, Wait, Goto

(* A step outside any window that leaves the flags alone.                  *)
LEMMA AbortKept ==
    ASSUME AbortInv, NEW c \in Conn, pc[c] \notin Windowed, Others(c),
           result'[c] # "abort", UNCHANGED <<inFlight, aborted, hit>>
    PROVE  AbortInv'
<1>1. \A l \in Holder : inFlight[l] => \E d \in Conn : call'[d] = l /\ pc'[d] \in Windowed
  BY DEF AbortInv, Others
<1>2. AbortHitsItsCall'
  BY DEF AbortInv, AbortHitsItsCall, Others
<1> QED BY <1>1, <1>2, Zenon DEF AbortInv

(* Nothing but the wake-up permit changes.                                 *)
LEMMA AbortStays ==
    ASSUME AbortInv, UNCHANGED <<inFlight, aborted, hit, pc, call, result>>
    PROVE  AbortInv'
BY Zenon DEF AbortInv, AbortHitsItsCall

(* The window of a call opens.                                             *)
LEMMA AbortOpens ==
    ASSUME OwnInv, AbortInv, NEW c \in Conn, NEW l \in Holder, NEW w \in Windowed,
           pc[c] \notin Windowed, pc[c] # "replying", OpenWindow(l), Wait(c, w, l)
    PROVE  AbortInv'
<1>1. /\ Others(c) /\ pc'[c] \in Windowed /\ call'[c] = l /\ result'[c] # "abort"
  BY GotoOthers DEF OwnInv
<1>2. /\ inFlight' = [inFlight EXCEPT ![l] = TRUE] /\ UNCHANGED <<aborted, hit>>
      /\ inFlight' \in [Holder -> BOOLEAN]
  BY Zenon DEF OpenWindow, AbortInv
<1>3. \A k \in Holder : inFlight'[k] => \E d \in Conn : call'[d] = k /\ pc'[d] \in Windowed
  <2> SUFFICES ASSUME NEW k \in Holder, inFlight'[k]
               PROVE  \E d \in Conn : call'[d] = k /\ pc'[d] \in Windowed
    OBVIOUS
  <2>1. CASE k = l
    BY <1>1, <2>1
  <2>2. CASE k # l
    BY <1>1, <1>2, <2>2 DEF AbortInv, Others
  <2> QED BY <2>1, <2>2
<1>4. \A k \in Holder : aborted'[k] => inFlight'[k] /\ hit'[k]
  BY <1>2, Zenon DEF AbortInv
<1>5. AbortHitsItsCall'
  BY <1>1, <1>2, Zenon DEF AbortInv, AbortHitsItsCall, Others
<1> QED BY <1>2, <1>3, <1>4, <1>5, Zenon DEF AbortInv

(* It closes, on an answer that tells an abort only if the flag was up.    *)
LEMMA AbortCloses ==
    ASSUME OwnInv, AbortInv, NEW c \in Conn, call[c] \in Holder, NEW r,
           Reply(c, call[c], r), CloseWindow(call[c]), UNCHANGED hit,
           r = "abort" => aborted[call[c]]
    PROVE  AbortInv'
<1>1. Others(c) /\ call'[c] = call[c] /\ result'[c] = r
  BY DEF OwnInv, Others, Reply, Goto
<1>2. /\ inFlight' = [inFlight EXCEPT ![call[c]] = FALSE]
      /\ aborted' = [aborted EXCEPT ![call[c]] = FALSE]
      /\ inFlight' \in [Holder -> BOOLEAN] /\ aborted' \in [Holder -> BOOLEAN]
  BY DEF CloseWindow, AbortInv
<1>3. \A k \in Holder : inFlight'[k] => k # call[c] /\ inFlight[k]
  BY <1>2 DEF AbortInv
<1>4. \A k \in Holder : inFlight'[k] => \E d \in Conn : call'[d] = k /\ pc'[d] \in Windowed
  BY <1>1, <1>3 DEF AbortInv, Others
<1>5. \A k \in Holder : aborted'[k] => inFlight'[k] /\ hit'[k]
  BY <1>2 DEF AbortInv
<1>6. AbortHitsItsCall'
  BY <1>1, Zenon DEF AbortInv, AbortHitsItsCall, Others
<1> QED BY <1>2, <1>4, <1>5, <1>6 DEF AbortInv

(* device_abort raises the flag of a call that runs, and so hits it.       *)
LEMMA AbortArrives ==
    ASSUME AbortInv, NEW l \in Holder, DeviceAbort(l)
    PROVE  AbortInv'
<1>1. /\ UNCHANGED <<inFlight, pc, call, result>>
      /\ aborted' = [aborted EXCEPT ![l] = aborted[l] \/ inFlight[l]]
  BY Zenon DEF DeviceAbort, AbortInv
<1>2. /\ hit' \in [Holder -> BOOLEAN]
      /\ \A k \in Holder : hit[k] => hit'[k]
      /\ (\E c \in Conn : call[c] = l /\ pc[c] \in Abortable) => hit'[l]
  BY Zenon DEF DeviceAbort, Hits, AbortInv
<1>3. inFlight[l] => hit'[l]
  BY <1>2 DEF AbortInv, Windowed, Abortable
<1>4. aborted' \in [Holder -> BOOLEAN]
  BY <1>1 DEF AbortInv
<1>5. \A k \in Holder : aborted'[k] => inFlight'[k] /\ hit'[k]
  BY <1>1, <1>2, <1>3 DEF AbortInv
<1>6. \A c \in Conn : result[c] = "abort" => hit'[call[c]]
  <2> SUFFICES ASSUME NEW c \in Conn, result[c] = "abort" PROVE hit'[call[c]]
    OBVIOUS
  <2>1. hit[call[c]]
    BY DEF AbortInv, AbortHitsItsCall
  <2> QED BY <2>1 DEF DeviceAbort, Hits, AbortInv
<1> QED BY <1>1, <1>2, <1>4, <1>5, <1>6, Zenon DEF AbortInv, AbortHitsItsCall

(* With the reply the call is over, and the next one starts unhit: no flag *)
(* of its link can be up, since no other connection has a call on it.      *)
LEMMA AbortOver ==
    ASSUME OwnInv, AbortInv, NEW c \in Conn, Replied(c)
    PROVE  AbortInv'
<1>0. pc[c] = "replying" /\ call[c] \in Holder /\ call[c] # NoOne
  BY SentinelsAssumption DEF Replied, OwnInv
<1>1. \A d \in Conn \ {c} : call[d] # call[c]
  BY <1>0 DEF OwnInv, Mine
<1>2. Others(c) /\ result'[c] = "none" /\ UNCHANGED <<inFlight, aborted>>
  BY DEF Replied, Goto, OwnInv, Others
<1>3. ~inFlight[call[c]]
  BY <1>0, <1>1 DEF AbortInv, Windowed
<1>4. /\ hit' \in [Holder -> BOOLEAN]
      /\ \A k \in Holder : k # call[c] => hit'[k] = hit[k]
  BY Zenon DEF Replied, AbortInv
<1>5. \A k \in Holder : aborted[k] => hit'[k]
  BY <1>3, <1>4 DEF AbortInv
<1>6. \A k \in Holder : inFlight[k] => \E d \in Conn : call'[d] = k /\ pc'[d] \in Windowed
  BY <1>0, <1>2 DEF AbortInv, Others, Windowed
<1>7. ASSUME NEW d \in Conn, result'[d] = "abort" PROVE hit'[call'[d]]
  <2>1. d # c
    BY <1>2, <1>7
  <2>2. result[d] = "abort" /\ call'[d] = call[d] /\ call[d] # call[c]
    BY <1>1, <1>2, <1>7, <2>1 DEF Others
  <2>3. call[d] \in Holder /\ hit[call[d]]
    BY <2>2 DEF OwnInv, AbortInv, AbortHitsItsCall
  <2> QED BY <1>4, <2>2, <2>3
<1> QED BY <1>2, <1>4, <1>5, <1>6, <1>7 DEF AbortInv, AbortHitsItsCall

(* No window is open at the start.                                         *)
LEMMA AbortInit == Init => AbortInv
BY DEF Init, AbortInv, AbortHitsItsCall

(* Every step keeps windows and flags with their calls.                    *)
LEMMA AbortNext == OwnInv /\ AbortInv /\ [Next]_vars => AbortInv'
<1> SUFFICES ASSUME OwnInv, AbortInv, [Next]_vars PROVE AbortInv'
  OBVIOUS
<1> USE DEF linkVars, abortVars
<1>0. /\ \A c \in Conn : pc[c] \in InCall => call[c] \in Holder
      /\ {"creating", "locking", "gated", "queued", "onbus"} = InCall
      /\ \A p \in {"reading", "replying", "creating", "gated"} : p \notin Windowed
      /\ "locking" \in Windowed /\ "queued" \in Windowed
  BY Zenon DEF OwnInv, InCall, Waiting, Windowed
<1>1. ASSUME NEW c \in Conn, pc[c] \in {"reading", "creating", "gated"},
             UNCHANGED <<inFlight, aborted, hit>>, NEW l,
             \/ \E r \in {"done", "refused"} : Reply(c, l, r)
             \/ \E w \in {"creating", "gated"} : Wait(c, w, l)
      PROVE  AbortInv'
  <2>1. result[c] = "none"
    BY <1>1 DEF OwnInv
  <2>2. Others(c) /\ result'[c] # "abort"
    BY <1>1, <2>1, GotoOthers, Zenon
  <2> QED BY <1>0, <1>1, <2>2, AbortKept
<1>2. ASSUME UNCHANGED <<inFlight, aborted, hit, pc, call, result>> PROVE AbortInv'
  BY <1>2, AbortStays
<1>3. ASSUME NEW c \in Conn, NEW b \in BOOLEAN, CreateLink(c, b) \/ CreateLinkResume(c, b)
      PROVE  AbortInv'
  <2>1. CASE CreateLink(c, b)
    BY <1>1, <2>1 DEF CreateLink, Called
  <2>2. CASE CreateLinkResume(c, b)
    BY <1>1, <1>2, <2>2 DEF CreateLinkResume
  <2> QED BY <1>3, <2>1, <2>2
<1>4. ASSUME NEW c \in Conn, NEW b \in BOOLEAN, DeviceLockResume(c, b) PROVE AbortInv'
  <2>1. call[c] \in Holder /\ UNCHANGED hit
    BY <1>0, <1>4 DEF DeviceLockResume
  <2>2. CASE \E r \in {"done", "refused"} : Reply(c, call[c], r) /\ CloseWindow(call[c])
    BY <2>1, <2>2, AbortCloses
  <2>3. CASE UNCHANGED <<inFlight, aborted, pc, call, result>>
    BY <1>2, <2>1, <2>3
  <2> QED BY <1>4, <2>2, <2>3 DEF DeviceLockResume
<1>5. ASSUME NEW c \in Conn, NEW b \in BOOLEAN, DeviceIoResume(c, b) PROVE AbortInv'
  <2>1. call[c] \in Holder /\ pc[c] = "gated"
    BY <1>0, <1>5, Zenon DEF DeviceIoResume
  <2>2. CASE PassGate(c, call[c])
    BY <1>0, <2>1, <2>2, AbortOpens, Zenon DEF PassGate
  <2>3. CASE ~PassGate(c, call[c])
    BY <1>1, <1>2, <1>5, <2>1, <2>3 DEF DeviceIoResume
  <2> QED BY <2>2, <2>3
<1>6. ASSUME NEW c \in Conn, NEW l \in Holder, DestroyLink(c, l) \/ DeviceUnlock(c, l)
      PROVE  AbortInv'
  BY <1>1, <1>6 DEF DestroyLink, DeviceUnlock, Called
<1>7. ASSUME NEW c \in Conn, NEW l \in Holder, DeviceLock(c, l) PROVE AbortInv'
  <2>1. pc[c] = "reading"
    BY <1>7 DEF DeviceLock, Called
  <2>2. CASE OpenWindow(l) /\ Wait(c, "locking", l)
    BY <1>0, <2>1, <2>2, AbortOpens, Zenon
  <2>3. CASE ~(OpenWindow(l) /\ Wait(c, "locking", l))
    BY <1>1, <1>7, <2>1, <2>3 DEF DeviceLock
  <2> QED BY <2>2, <2>3
<1>8. ASSUME NEW c \in Conn, NEW l \in Holder, NEW w \in BOOLEAN, DeviceIo(c, l, w)
      PROVE  AbortInv'
  <2>1. pc[c] = "reading"
    BY <1>8, Zenon DEF DeviceIo, Called
  <2>2. CASE PassGate(c, l)
    BY <1>0, <2>1, <2>2, AbortOpens, Zenon DEF PassGate
  <2>3. CASE ~PassGate(c, l)
    BY <1>1, <1>8, <2>1, <2>3 DEF DeviceIo
  <2> QED BY <2>2, <2>3, Zenon
<1>9. ASSUME NEW c \in Conn, DeviceLockAbort(c) PROVE AbortInv'
  <2>1. call[c] \in Holder /\ UNCHANGED hit
    BY <1>0, <1>9 DEF DeviceLockAbort
  <2>2. CASE aborted[call[c]]
    <3>1. Reply(c, call[c], "abort") /\ CloseWindow(call[c])
      BY <1>9, <2>2, Zenon DEF DeviceLockAbort
    <3> QED BY <2>1, <2>2, <3>1, AbortCloses, Zenon
  <2>3. CASE ~aborted[call[c]]
    BY <1>2, <1>9, <2>1, <2>3, Zenon DEF DeviceLockAbort
  <2> QED BY <2>2, <2>3, Zenon
<1>10. ASSUME NEW c \in Conn, BusStart(c) PROVE AbortInv'
  <2>1. /\ Others(c) /\ pc'[c] = "onbus" /\ call'[c] = call[c] /\ result'[c] = result[c]
        /\ UNCHANGED <<inFlight, aborted, hit>>
    BY <1>10, GotoOthers DEF BusStart
  <2>2. \A l \in Holder : inFlight[l] => \E d \in Conn : call'[d] = l /\ pc'[d] \in Windowed
    BY <2>1 DEF AbortInv, Others, Windowed
  <2>3. AbortHitsItsCall'
    BY <2>1, Zenon DEF AbortInv, AbortHitsItsCall, Others
  <2> QED BY <2>1, <2>2, <2>3, Zenon DEF AbortInv
<1>11. ASSUME NEW c \in Conn, NEW r \in {"done", "abort"}, BusDone(c, r) PROVE AbortInv'
  <2>1. /\ call[c] \in Holder /\ UNCHANGED hit /\ (r = "abort" => aborted[call[c]])
        /\ Reply(c, call[c], r) /\ CloseWindow(call[c])
    BY <1>0, <1>11 DEF BusDone
  <2> QED BY <2>1, AbortCloses
<1>12. ASSUME NEW c \in Conn, CloseConnection(c) \/ ConnectionFails(c) PROVE AbortInv'
  <2>1. /\ pc[c] \in {"reading", "replying"} /\ UNCHANGED <<inFlight, aborted, hit>>
        /\ Others(c) /\ result'[c] # "abort"
    BY <1>12 DEF CloseConnection, ConnectionFails, Goto, OwnInv, Others
  <2> QED BY <1>0, <2>1, AbortKept, Zenon
<1>13. CASE \/ \E c \in Conn : \E how \in {"eof", "error"} : End(c, how)
            \/ UNCHANGED vars
  BY <1>2, <1>13 DEF End, vars
<1> QED BY <1>3, <1>4, <1>5, <1>6, <1>7, <1>8, <1>9, <1>10, <1>11, <1>12, <1>13,
           AbortArrives, AbortOver DEF Next

(* device_abort (server.rs): for any number of connections and links, a    *)
(* call answers with the abort error only if an abort named its link while *)
(* that call was running.                                                  *)
THEOREM AbortsAreNeverStale == Spec => []AbortHitsItsCall
<1>1. Init => OwnInv /\ AbortInv
  BY OwnInit, AbortInit
<1>2. OwnInv /\ AbortInv /\ [Next]_vars => (OwnInv /\ AbortInv)'
  BY OwnNext, AbortNext
<1>3. OwnInv /\ AbortInv => AbortHitsItsCall
  BY DEF AbortInv
<1> QED BY <1>1, <1>2, <1>3, PTL DEF Spec

-----------------------------------------------------------------------------
(* Who waits for a lock has none, so that no grant nests.                  *)
TableInv ==
    /\ TableOK(table)
    /\ LinksAndLocksOwned
    /\ \A c \in Conn : pc[c] \in {"creating", "locking"} => Levels(table, call[c]) = 0

(* The links after a connection has got one, and after it has lost some.   *)
LEMMA LinksGained ==
    ASSUME OwnInv, LinksAndLocksOwned, NEW c \in Conn, NEW l,
           owned' = [owned EXCEPT ![c] = @ \cup {l}], links' = links \cup {l}
    PROVE  links' = UNION {owned'[d] : d \in Conn}
<1>1. /\ owned'[c] = owned[c] \cup {l}
      /\ \A d \in Conn \ {c} : owned'[d] = owned[d]
  BY DEF OwnInv
<1> QED BY <1>1 DEF LinksAndLocksOwned

(* The links after a connection has lost some.                             *)
LEMMA LinksLost ==
    ASSUME OwnInv, LinksAndLocksOwned, NEW c \in Conn, NEW S \in SUBSET owned[c],
           owned' = [owned EXCEPT ![c] = @ \ S], links' = links \ S
    PROVE  links' = UNION {owned'[d] : d \in Conn}
<1>1. /\ owned'[c] = owned[c] \ S
      /\ \A d \in Conn \ {c} : owned'[d] = owned[d] /\ owned[d] \cap S = {}
  BY DEF OwnInv, LinksAndLocksOwned
<1> QED BY <1>1 DEF LinksAndLocksOwned

(* The end of a connection takes every level off its links and none off    *)
(* the others.                                                             *)
LEMMA ReleaseLinksOK ==
    ASSUME NEW tbl, TableOK(tbl), NEW S \in SUBSET Holder
    PROVE  /\ TableOK(ReleaseLinks(tbl, S))
           /\ \A g \in Holder : Levels(ReleaseLinks(tbl, S), g) = IF g \in S THEN 0 ELSE Levels(tbl, g)
<1> DEFINE new == ReleaseLinks(tbl, S)
           s   == [l \in Holder |-> IF l \in S THEN 0 ELSE tbl.shared[l]]
           u   == IF tbl.exclusive \in S
                  THEN [tbl EXCEPT !.exclusive = NoOne, !.depth = 0] ELSE tbl
<1>0. tbl \in Table /\ \A g \in Holder : g # NoOne
  BY SentinelsAssumption DEF TableOK
<1>1. /\ u \in Table
      /\ u.shared = tbl.shared /\ u.sharedName = tbl.sharedName
      /\ u.exclusive = IF tbl.exclusive \in S THEN NoOne ELSE tbl.exclusive
      /\ u.depth = IF tbl.exclusive \in S THEN 0 ELSE tbl.depth
  BY <1>0, Zenon DEF Table
<1>2. s \in [Holder -> Nat] /\ \A g \in Holder : s[g] = IF g \in S THEN 0 ELSE tbl.shared[g]
  BY <1>0 DEF Table
<1>3. new = DropShared(u, s)
  BY DEF ReleaseLinks
<1>4. tbl.shared \in [Holder -> Nat]
  BY <1>0 DEF Table
<1> HIDE DEF u, s, new
<1>5. /\ new \in Table /\ new.exclusive = u.exclusive /\ new.depth = u.depth /\ new.shared = s
      /\ (\A g \in Holder : s[g] = 0) => new.sharedName = NoOne
      /\ (\E g \in Holder : s[g] # 0) => new.sharedName = tbl.sharedName
  BY <1>1, <1>2, <1>3, DropSharedFields
<1>6. SharedHolders(new) = SharedHolders(tbl) \ S
  BY <1>2, <1>4, <1>5 DEF SharedHolders
<1>7. SharedHolders(new) = {} <=> \A g \in Holder : s[g] = 0
  BY <1>2, <1>5 DEF SharedHolders
<1>8. TableOK(new)
  BY <1>0, <1>1, <1>5, <1>6, <1>7 DEF TableOK
<1>9. \A g \in Holder : Levels(new, g) = IF g \in S THEN 0 ELSE Levels(tbl, g)
  BY <1>0, <1>1, <1>2, <1>5 DEF Levels, Table
<1> QED BY <1>8, <1>9 DEF new

(* In terms of levels, what is left to show of a step: the new table is    *)
(* consistent, whoever has a level is in the new link table, and who waits *)
(* has none.                                                               *)
LEMMA TableFromLevels ==
    ASSUME OwnInv', TableOK(table'), links' = UNION {owned'[c] : c \in Conn},
           \A l \in Holder : Levels(table', l) <= 1 /\ (Levels(table', l) > 0 => l \in links'),
           \A c \in Conn : pc'[c] \in {"creating", "locking"} => Levels(table', call'[c]) = 0
    PROVE  TableInv'
<1>1. \A l \in Holder : Holds(table', l) => l \in links'
  BY HoldsHasLevels
<1>2. HoldersOf(table') \subseteq links'
  BY <1>1 DEF HoldersOf
<1>3. \A c, d \in Conn : c # d => owned'[c] \cap owned'[d] = {}
  BY Zenon DEF OwnInv, Mine
<1> QED BY <1>2, <1>3, Zenon DEF TableInv, LinksAndLocksOwned

(* The same facts of the state before the step.                            *)
LEMMA LevelsNow ==
    ASSUME TableInv
    PROVE  /\ TableOK(table) /\ links = UNION {owned[c] : c \in Conn}
           /\ \A l \in Holder : /\ Levels(table, l) \in Nat /\ Levels(table, l) <= 1
                                /\ Levels(table, l) > 0 => l \in links
                                /\ Holds(table, l) <=> Levels(table, l) > 0
<1>1. \A l \in Holder : Levels(table, l) \in Nat /\ (Holds(table, l) <=> Levels(table, l) > 0)
  BY HoldsHasLevels, Zenon DEF TableInv
<1> QED BY <1>1 DEF TableInv, LinksAndLocksOwned, HoldersOf

(* A step of c that grants nothing: levels stay or go, and a level that is *)
(* left is of a link that is left.                                         *)
LEMMA TableShrinks ==
    ASSUME OwnInv, OwnInv', TableInv, NEW c \in Conn, Others(c), TableOK(table'),
           links' = UNION {owned'[d] : d \in Conn},
           \A l \in Holder : \/ Levels(table', l) = 0
                             \/ Levels(table', l) <= Levels(table, l) /\ (l \in links => l \in links'),
           pc'[c] \in {"creating", "locking"} => Levels(table', call'[c]) = 0
    PROVE  TableInv'
<1>1. \A l \in Holder : /\ Levels(table, l) \in Nat /\ Levels(table, l) <= 1
                        /\ Levels(table, l) > 0 => l \in links
  BY LevelsNow, Zenon
<1>2. \A l \in Holder : Levels(table', l) \in Nat
  BY HoldsHasLevels, Zenon
<1>3. \A l \in Holder : Levels(table', l) <= 1 /\ (Levels(table', l) > 0 => l \in links')
  BY <1>1, <1>2
<1>4. \A d \in Conn \ {c} : pc'[d] \in {"creating", "locking"} => Levels(table', call'[d]) = 0
  <2> SUFFICES ASSUME NEW d \in Conn \ {c}, pc'[d] \in {"creating", "locking"}
               PROVE  Levels(table', call'[d]) = 0
    OBVIOUS
  <2>1. pc[d] \in {"creating", "locking"} /\ call'[d] = call[d]
    BY DEF Others
  <2>2. Levels(table, call[d]) = 0
    BY <2>1, Zenon DEF TableInv
  <2>3. call[d] \in Holder
    BY <2>1, Zenon DEF OwnInv, InCall, Waiting
  <2> QED BY <1>1, <1>2, <2>1, <2>2, <2>3
<1> QED BY <1>3, <1>4, TableFromLevels, Zenon

(* A step of c that grants a lock to a link of c that has none.            *)
LEMMA TableGrows ==
    ASSUME OwnInv, OwnInv', TableInv, NEW c \in Conn, Others(c), pc'[c] = "replying",
           NEW l \in Holder, l \in Mine(c)', l \in links', links \subseteq links',
           links' = UNION {owned'[d] : d \in Conn},
           Levels(table, l) = 0, CanGrant(table, l, Exclusive), table' = Grant(table, l, Exclusive)
    PROVE  TableInv'
<1>0. TableOK(table) /\ Exclusive \in LockString
  BY Zenon DEF TableInv, LockString
<1>1. \A g \in Holder : /\ Levels(table, g) \in Nat /\ Levels(table, g) <= 1
                        /\ Levels(table, g) > 0 => g \in links
  BY LevelsNow, Zenon
<1>2. TableOK(table')
  BY <1>0, GrantOK, Zenon
<1>3. \A g \in Holder : Levels(table', g) = Levels(table, g) + (IF g = l THEN 1 ELSE 0)
  BY <1>0, GrantLevels, Zenon
<1>4. \A g \in Holder : Levels(table', g) <= 1 /\ (Levels(table', g) > 0 => g \in links')
  BY <1>1, <1>3
<1>5. \A d \in Conn \ {c} : pc'[d] \in {"creating", "locking"} => Levels(table', call'[d]) = 0
  <2> SUFFICES ASSUME NEW d \in Conn \ {c}, pc'[d] \in {"creating", "locking"}
               PROVE  Levels(table', call'[d]) = 0
    OBVIOUS
  <2>1. pc[d] \in {"creating", "locking"} /\ call'[d] = call[d]
    BY Zenon DEF Others
  <2>2. Levels(table, call[d]) = 0
    BY <2>1, Zenon DEF TableInv
  <2>3. call[d] \in Holder /\ call'[d] \in Mine(d)'
    BY <2>1, SentinelsAssumption, Zenon DEF OwnInv, InCall, Waiting, Mine
  <2>4. call[d] # l
    BY <2>1, <2>3, Zenon DEF OwnInv
  <2> QED BY <1>1, <1>3, <2>1, <2>2, <2>3, <2>4, SMTT(30)
<1> QED BY <1>2, <1>4, <1>5, TableFromLevels, Zenon

(* A step that leaves table and links alone.                               *)
LEMMA TableKept ==
    ASSUME OwnInv, OwnInv', TableInv, NEW c \in Conn, Others(c), UNCHANGED <<table, links, owned>>,
           pc'[c] \in {"creating", "locking"} => Levels(table, call'[c]) = 0
    PROVE  TableInv'
<1>1. TableOK(table') /\ links' = UNION {owned'[d] : d \in Conn}
  BY LevelsNow, Zenon
<1>2. \A l \in Holder : Levels(table, l) \in Nat
  BY LevelsNow
<1>3. \A l \in Holder : Levels(table', l) <= Levels(table, l) /\ (l \in links => l \in links')
  BY <1>2
<1> QED BY <1>1, <1>3, TableShrinks, Zenon

(* A step that touches neither locks, links nor calls.                     *)
LEMMA TableStays ==
    ASSUME TableInv, UNCHANGED <<table, links, owned, pc, call>>
    PROVE  TableInv'
BY DEF TableInv, LinksAndLocksOwned

(* No lock is held at the start.                                           *)
LEMMA TableInit == Init => TableInv
<1> SUFFICES ASSUME Init PROVE TableInv
  OBVIOUS
<1>1. TableOK(table) /\ \A l \in Holder : Levels(table, l) = 0
  BY EmptyTableOK DEF Init
<1>2. HoldersOf(table) = {}
  BY <1>1, HoldsHasLevels DEF HoldersOf
<1> QED BY <1>1, <1>2 DEF Init, TableInv, LinksAndLocksOwned

-----------------------------------------------------------------------------
(* create_link with its lock request.                                      *)
LEMMA TableCreateLink ==
    ASSUME OwnInv, OwnInv', TableInv, NEW c \in Conn, NEW lock, CreateLink(c, lock)
    PROVE  TableInv'
<1>0. nextLid \in Holder /\ nextLid # NoOne
  BY LidAssumption, SentinelsAssumption, Zenon DEF CreateLink, OwnInv
<1>1. nextLid \notin links
  <2>1. \A d \in Conn : nextLid \notin owned[d]
    BY <1>0, LidAssumption DEF OwnInv, Mine
  <2> QED BY <2>1, Zenon DEF TableInv, LinksAndLocksOwned
<1>2. Levels(table, nextLid) = 0
  BY <1>0, <1>1, LevelsNow
<1>3. links' = links \cup {nextLid} /\ owned' = [owned EXCEPT ![c] = @ \cup {nextLid}]
  BY DEF CreateLink
<1>4. links' = UNION {owned'[d] : d \in Conn}
  BY <1>3, LinksGained, Zenon DEF TableInv
<1>5. Others(c) /\ call'[c] = nextLid /\ nextLid \in Mine(c)'
  BY <1>0 DEF CreateLink, Wait, Reply, Goto, OwnInv, Others, Mine
<1>6. CASE UNCHANGED table
  <2>1. TableOK(table') /\ \A l \in Holder : Levels(table, l) \in Nat
    BY <1>6, LevelsNow
  <2>2. \A l \in Holder : Levels(table', l) <= Levels(table, l) /\ (l \in links => l \in links')
    BY <1>3, <1>6, <2>1
  <2> QED BY <1>2, <1>4, <1>5, <1>6, <2>1, <2>2, TableShrinks
<1>7. CASE table' # table
  <2>1. /\ CanGrant(table, nextLid, Exclusive) /\ table' = Grant(table, nextLid, Exclusive)
        /\ pc'[c] = "replying"
    BY <1>7, Zenon DEF CreateLink, Reply, Goto, OwnInv
  <2> QED BY <1>0, <1>2, <1>3, <1>4, <1>5, <2>1, TableGrows, Zenon
<1> QED BY <1>6, <1>7, Zenon

(* A create_link that gives up takes its link back, which has no lock.     *)
LEMMA TableCreateLinkResume ==
    ASSUME OwnInv, OwnInv', TableInv, NEW c \in Conn, NEW late, CreateLinkResume(c, late)
    PROVE  TableInv'
<1>1. /\ pc[c] = "creating" /\ call[c] \in Holder /\ call[c] # NoOne /\ call[c] \in owned[c]
  BY SentinelsAssumption, Zenon DEF CreateLinkResume, OwnInv, InCall, Waiting
<1>2. call[c] \in links /\ Levels(table, call[c]) = 0
  BY <1>1, Zenon DEF TableInv, LinksAndLocksOwned
<1>3. CASE /\ CanGrant(table, call[c], Exclusive) /\ table' = Grant(table, call[c], Exclusive)
           /\ Reply(c, call[c], "done") /\ UNCHANGED <<links, owned>>
  <2>1. Others(c) /\ pc'[c] = "replying" /\ call'[c] = call[c]
    BY <1>3, Zenon DEF Reply, Goto, OwnInv, Others
  <2>2. call[c] \in Mine(c)' /\ links' = UNION {owned'[d] : d \in Conn}
    BY <1>1, <1>3, <2>1, Zenon DEF Mine, TableInv, LinksAndLocksOwned
  <2> QED BY <1>1, <1>2, <1>3, <2>1, <2>2, TableGrows, Zenon
<1>4. CASE /\ links' = links \ {call[c]} /\ owned' = [owned EXCEPT ![c] = @ \ {call[c]}]
           /\ Reply(c, call[c], "refused") /\ UNCHANGED table
  <2>1. Others(c) /\ pc'[c] = "replying"
    BY <1>4, Zenon DEF Reply, Goto, OwnInv, Others
  <2>2. links' = UNION {owned'[d] : d \in Conn}
    BY <1>1, <1>4, LinksLost, Zenon DEF TableInv
  <2>3. TableOK(table') /\ \A l \in Holder : Levels(table, l) \in Nat
    BY <1>4, LevelsNow
  <2>4. \A l \in Holder : \/ Levels(table', l) = 0
                          \/ Levels(table', l) <= Levels(table, l) /\ (l \in links => l \in links')
    BY <1>2, <1>4, <2>3
  <2> QED BY <2>1, <2>2, <2>3, <2>4, TableShrinks, Zenon
<1>5. CASE UNCHANGED <<links, owned, table, pc, call>>
  BY <1>5, TableStays
<1> QED BY <1>3, <1>4, <1>5, Zenon DEF CreateLinkResume

(* destroy_link takes the lock with the link.                              *)
LEMMA TableDestroyLink ==
    ASSUME OwnInv, OwnInv', TableInv, NEW c \in Conn, NEW l \in Holder, DestroyLink(c, l)
    PROVE  TableInv'
<1>1. /\ Others(c) /\ pc'[c] = "replying" /\ table' = ReleaseEvery(table, l)
      /\ links' = links \ {l} /\ owned' = [owned EXCEPT ![c] = @ \ {l}] /\ {l} \subseteq owned[c]
  BY DEF DestroyLink, Reply, Goto, OwnInv, Others
<1>2. links' = UNION {owned'[d] : d \in Conn}
  BY <1>1, LinksLost, Zenon DEF TableInv
<1>3. TableOK(ReleaseEvery(table, l))
  BY ReleaseEveryOK, Zenon DEF TableInv
<1>4. \A g \in Holder : Levels(ReleaseEvery(table, l), g) = IF g = l THEN 0 ELSE Levels(table, g)
  BY ReleaseEveryLevels DEF TableInv
<1>5. \A g \in Holder : Levels(table, g) \in Nat
  BY LevelsNow
<1>6. \A g \in Holder : \/ Levels(table', g) = 0
                        \/ Levels(table', g) <= Levels(table, g) /\ (g \in links => g \in links')
  BY <1>1, <1>4, <1>5
<1> QED BY <1>1, <1>2, <1>3, <1>6, TableShrinks

(* device_lock: granted, held already, or waiting.                         *)
LEMMA TableDeviceLock ==
    ASSUME OwnInv, OwnInv', TableInv, NEW c \in Conn, NEW l \in Holder, DeviceLock(c, l)
    PROVE  TableInv'
<1>1. /\ Others(c) /\ call'[c] = l /\ l \in owned[c] /\ l # NoOne /\ UNCHANGED <<links, owned>>
  BY SentinelsAssumption DEF DeviceLock, Wait, Reply, Goto, OwnInv, Others, linkVars
<1>2. l \in links /\ links' = UNION {owned'[d] : d \in Conn} /\ l \in Mine(c)'
  BY <1>1, Zenon DEF TableInv, LinksAndLocksOwned, Mine
<1>3. ~Holds(table, l) => Levels(table, l) = 0
  BY LevelsNow, SMTT(30)
<1>4. CASE Holds(table, l)
  <2>1. pc'[c] = "replying" /\ UNCHANGED table
    BY <1>4, Zenon DEF DeviceLock, Reply, Goto, OwnInv
  <2> QED BY <1>1, <2>1, TableKept, Zenon
<1>5. CASE ~Holds(table, l) /\ CanGrant(table, l, Exclusive)
  <2>1. pc'[c] = "replying" /\ table' = Grant(table, l, Exclusive)
    BY <1>5, Zenon DEF DeviceLock, Reply, Goto, OwnInv
  <2> QED BY <1>1, <1>2, <1>3, <1>5, <2>1, TableGrows, Zenon
<1>6. CASE ~Holds(table, l) /\ ~CanGrant(table, l, Exclusive)
  <2>1. UNCHANGED table
    BY <1>6, Zenon DEF DeviceLock
  <2> QED BY <1>1, <1>3, <1>6, <2>1, TableKept, Zenon
<1> QED BY <1>4, <1>5, <1>6

(* device_lock after a wait.                                               *)
LEMMA TableDeviceLockResume ==
    ASSUME OwnInv, OwnInv', TableInv, NEW c \in Conn, NEW late, DeviceLockResume(c, late)
    PROVE  TableInv'
<1>1. /\ pc[c] = "locking" /\ call[c] \in Holder /\ call[c] # NoOne /\ call[c] \in owned[c]
      /\ UNCHANGED <<links, owned>>
  BY SentinelsAssumption, Zenon DEF DeviceLockResume, OwnInv, InCall, Waiting, linkVars
<1>2. /\ call[c] \in links /\ Levels(table, call[c]) = 0
      /\ links' = UNION {owned'[d] : d \in Conn}
  BY <1>1, Zenon DEF TableInv, LinksAndLocksOwned
<1>3. CASE /\ CanGrant(table, call[c], Exclusive) /\ table' = Grant(table, call[c], Exclusive)
           /\ Reply(c, call[c], "done")
  <2>1. Others(c) /\ pc'[c] = "replying" /\ call'[c] = call[c]
    BY <1>3, Zenon DEF Reply, Goto, OwnInv, Others
  <2>2. call[c] \in Mine(c)'
    BY <1>1, <2>1, Zenon DEF Mine
  <2> QED BY <1>1, <1>2, <1>3, <2>1, <2>2, TableGrows, Zenon
<1>4. CASE Reply(c, call[c], "refused") /\ UNCHANGED table
  <2>1. Others(c) /\ pc'[c] = "replying"
    BY <1>4 DEF Reply, Goto, OwnInv, Others
  <2> QED BY <1>1, <1>4, <2>1, TableKept, Zenon
<1>5. CASE UNCHANGED <<table, pc, call>>
  BY <1>1, <1>5, TableStays
<1> QED BY <1>3, <1>4, <1>5, Zenon DEF DeviceLockResume

(* device_unlock.                                                          *)
LEMMA TableDeviceUnlock ==
    ASSUME OwnInv, OwnInv', TableInv, NEW c \in Conn, NEW l \in Holder, DeviceUnlock(c, l)
    PROVE  TableInv'
<1>1. /\ Others(c) /\ pc'[c] = "replying" /\ UNCHANGED <<links, owned>>
      /\ table' = ReleaseLevel(table, l)
  BY Zenon DEF DeviceUnlock, Reply, Goto, OwnInv, Others, linkVars
<1>2. links' = UNION {owned'[d] : d \in Conn} /\ table \in Table
  BY <1>1, Zenon DEF TableInv, LinksAndLocksOwned, TableOK
<1>3. CASE Holds(table, l)
  <2>1. TableOK(ReleaseLevel(table, l))
    BY <1>3, ReleaseLevelOK, Zenon DEF TableInv
  <2>2. \A g \in Holder : Levels(ReleaseLevel(table, l), g) = Levels(table, g) - (IF g = l THEN 1 ELSE 0)
    BY <1>3, ReleaseLevels DEF TableInv
  <2>3. \A g \in Holder : Levels(table, g) \in Nat
    BY LevelsNow
  <2>4. \A g \in Holder : Levels(table', g) <= Levels(table, g)
    BY <1>1, <2>2, <2>3
  <2> QED BY <1>1, <1>2, <2>1, <2>4, TableShrinks, Zenon
<1>4. CASE ~Holds(table, l)
  <2>1. ReleaseLevel(table, l) = table
    BY <1>4, Zenon DEF ReleaseLevel, Holds
  <2> QED BY <1>1, <2>1, TableKept
<1> QED BY <1>3, <1>4, Zenon

(* The end of a connection takes its locks with its links.                 *)
LEMMA TableCloseConnection ==
    ASSUME OwnInv, OwnInv', TableInv, NEW c \in Conn, CloseConnection(c)
    PROVE  TableInv'
<1>0. owned[c] \ owned[c] = {}
  OBVIOUS
<1>1. /\ Others(c) /\ pc'[c] = "closed" /\ table' = ReleaseLinks(table, owned[c])
      /\ links' = links \ owned[c] /\ owned' = [owned EXCEPT ![c] = @ \ owned[c]]
      /\ owned[c] \in SUBSET Holder
  BY <1>0, Zenon DEF CloseConnection, Goto, OwnInv, Others
<1>2. links' = UNION {owned'[d] : d \in Conn}
  BY <1>1, LinksLost, Zenon DEF TableInv
<1>3. /\ TableOK(table')
      /\ \A g \in Holder : Levels(table', g) = IF g \in owned[c] THEN 0 ELSE Levels(table, g)
  BY <1>1, ReleaseLinksOK, SMTT(30) DEF TableInv
<1>4. \A g \in Holder : Levels(table, g) \in Nat
  BY LevelsNow
<1>5. \A g \in Holder : \/ Levels(table', g) = 0
                        \/ Levels(table', g) <= Levels(table, g) /\ (g \in links => g \in links')
  BY <1>1, <1>3, <1>4
<1> QED BY <1>1, <1>2, <1>3, <1>5, TableShrinks

(* Every step keeps locks with links that are there.                       *)
LEMMA TableNext == OwnInv /\ OwnInv' /\ TableInv /\ [Next]_vars => TableInv'
<1> SUFFICES ASSUME OwnInv, OwnInv', TableInv, [Next]_vars PROVE TableInv'
  OBVIOUS
<1> USE DEF linkVars, abortVars
<1>1. ASSUME NEW c \in Conn, UNCHANGED <<table, links, owned>>, NEW l,
             \/ \E r \in {"done", "refused", "abort"} : Reply(c, l, r)
             \/ \E w \in {"gated", "queued", "onbus"} : Wait(c, w, l)
      PROVE  TableInv'
  <2>1. Others(c) /\ pc'[c] \notin {"creating", "locking"}
    BY <1>1 DEF Reply, Wait, Goto, OwnInv, Others
  <2> QED BY <1>1, <2>1, TableKept, Zenon
<1>2. ASSUME UNCHANGED <<table, links, owned, pc, call>> PROVE TableInv'
  BY <1>2, TableStays, Zenon
<1>3. ASSUME NEW c \in Conn, NEW b \in BOOLEAN, DeviceIoResume(c, b) PROVE TableInv'
  BY <1>1, <1>2, <1>3, Zenon DEF DeviceIoResume, PassGate
<1>4. ASSUME NEW c \in Conn, NEW l \in Holder, NEW w \in BOOLEAN, DeviceIo(c, l, w) PROVE TableInv'
  BY <1>1, <1>4, Zenon DEF DeviceIo, PassGate
<1>5. ASSUME NEW c \in Conn, DeviceLockAbort(c) PROVE TableInv'
  BY <1>1, <1>2, <1>5, Zenon DEF DeviceLockAbort
<1>6. ASSUME NEW c \in Conn, BusStart(c) \/ \E r \in {"done", "abort"} : BusDone(c, r)
      PROVE  TableInv'
  BY <1>1, <1>6, Zenon DEF BusStart, BusDone
<1>7. ASSUME NEW c \in Conn, Replied(c) \/ ConnectionFails(c) PROVE TableInv'
  <2>1. Others(c) /\ pc'[c] \notin {"creating", "locking"} /\ UNCHANGED <<table, links, owned>>
    BY <1>7, Zenon DEF Replied, ConnectionFails, Goto, OwnInv, Others
  <2> QED BY <2>1, TableKept, Zenon
<1>8. CASE \/ \E l \in Holder : DeviceAbort(l)
           \/ \E c \in Conn : \E how \in {"eof", "error"} : End(c, how)
           \/ UNCHANGED vars
  BY <1>2, <1>8 DEF DeviceAbort, End, vars
<1> QED BY <1>3, <1>4, <1>5, <1>6, <1>7, <1>8, TableCreateLink, TableCreateLinkResume,
           TableDestroyLink, TableDeviceLock, TableDeviceLockResume, TableDeviceUnlock,
           TableCloseConnection, Zenon DEF Next

(* create_link, destroy_link, device_lock, device_unlock and the end of a  *)
(* connection (server.rs): for any number of connections and links, every  *)
(* lock is of a link in the table, every link of one connection, and no    *)
(* lock nests.                                                             *)
THEOREM LocksGoWithLinks == Spec => []LinksAndLocksOwned
<1>1. Init => OwnInv /\ TableInv
  BY OwnInit, TableInit
<1>2. OwnInv /\ TableInv /\ [Next]_vars => (OwnInv /\ TableInv)'
  BY OwnNext, TableNext
<1>3. OwnInv /\ TableInv => LinksAndLocksOwned
  BY DEF TableInv
<1> QED BY <1>1, <1>2, <1>3, PTL DEF Spec
=============================================================================
