-------------------------- MODULE ServiceRequests --------------------------
(***************************************************************************)
(* The two front-ends that push service requests, on one bus: HiSLIP       *)
(* sessions and a VXI-11 connection share the instruments, the line and    *)
(* the adapter's reports, and whichever of their tasks polls an instrument *)
(* first takes its request.                                                *)
(***************************************************************************)
EXTENDS HislipSrq, Vxi11Srq

vars == <<lineVars, sessionVars, linkVars>>

TypeOK == LineTypeOK /\ HislipTypeOK /\ Vxi11TypeOK

(* The forwarders of the sessions have subscribed.                         *)
Init ==
    /\ LineInit /\ HislipInit /\ Vxi11Init
    /\ tok = [x \in Subscriber |->
                IF x \in {Forwarder(s) : s \in Session} THEN "empty" ELSE "off"]

Next ==
    \/ LineNext /\ UNCHANGED <<sessionVars, linkVars>>
    \/ HislipNext /\ UNCHANGED linkVars
    \/ Vxi11Next /\ UNCHANGED sessionVars

(* A task that can go on does so, and a bus operation ends.  Nothing is    *)
(* assumed of the instruments and of the clients.                          *)
Fairness ==
    /\ WF_vars(Broadcast /\ UNCHANGED <<sessionVars, linkVars>>)
    /\ \A s \in Session :
          /\ WF_vars(SyncStep(s) /\ UNCHANGED linkVars)
          /\ WF_vars(async_pusher(s) /\ UNCHANGED linkVars)
          /\ WF_vars(/\ \/ ForwarderRecv(s) \/ ForwarderPoll(s)
                        \/ ForwarderLevel(s) \/ ForwarderWrite(s)
                     /\ UNCHANGED linkVars)
          /\ WF_vars(AsyncStatusQuery(s) /\ UNCHANGED linkVars)
    /\ \A c \in Chan : WF_vars(ForwarderStep(c) /\ UNCHANGED sessionVars)
    /\ \A l \in Link : /\ WF_vars(EnableLooks(l) /\ UNCHANGED sessionVars)
                       /\ WF_vars(ReadstbPolls(l) /\ UNCHANGED sessionVars)

Spec == Init /\ [][Next]_vars

FairSpec == Spec /\ Fairness

-----------------------------------------------------------------------------
(* Properties.                                                             *)

Made == DOMAIN from

(* A service request is announced once, and to the clients of the          *)
(* instrument that made it: on one front-end, to one session or to the     *)
(* links of one instrument, however many tasks the report has woken.       *)
AnnouncedOnce ==
    \A r \in Made :
        /\ \A s \in Session : told[s][r] > 0 =>
              /\ told[s][r] = 1 /\ from[r] = devOf[s]
              /\ \A t \in Session \ {s} : told[t][r] = 0
              /\ \A l \in Link : woken[l][r] = 0
        /\ \A l \in Link : woken[l][r] > 0 =>
              woken[l][r] = 1 /\ l \notin Interface /\ from[r] = linkDev[l]

(* "Hold it and hand it over once": no client finds the same request twice *)
(* in its status byte, and a byte that is held has not been seen by the    *)
(* client it is held for.                                                  *)
HandedOverOnce ==
    \A r \in Made :
        /\ \A s \in Session : handed[s][r] + (IF held[s] = r THEN 1 ELSE 0) <= 1
        /\ \A l \in Link : seen[l][r] + (IF lheld[l] = r THEN 1 ELSE 0) <= 1

(* A request that raised the line is taken from its instrument: the report *)
(* reaches the session's forwarder whatever else the session, the bus and  *)
(* the other front-end are doing, and the forwarder polls.                 *)
EdgeRequestTaken ==
    \A s \in Session : inst[devOf[s]].edge ~> (~inst[devOf[s]].edge \/ excused)

(* A request that raised no edge is taken if the session's forwarder is    *)
(* still looking: "while the line is still asserted, keep asking".         *)
OverlapSeenWhileAsking ==
    \A s \in Session, r \in Request \ {0} :
        (inst[devOf[s]].req = r /\ fw[s].pc \in {"poll", "level"})
            ~> (inst[devOf[s]].req # r \/ excused)

(* What a forwarder has taken it announces: it waits the asynchronous      *)
(* loop's hold on the writer out, and the loop waits for nobody who waits  *)
(* for the writer.                                                         *)
TakenIsAnnounced ==
    \A s \in Session, r \in Request \ {0} :
        (fw[s].pc = "write" /\ fw[s].got = r) ~> (told[s][r] > 0)

(* The requests of a session's instrument surface: srq_forwarder takes     *)
(* those that raise the line and those it finds while it keeps asking, and *)
(* announces what it has taken.                                            *)
RequestsSurface == EdgeRequestTaken /\ OverlapSeenWhileAsking /\ TakenIsAnnounced

(* A VXI-11 forwarder with a report in its subscription takes the request  *)
(* of an enabled link, unless the channel or the link goes away meanwhile. *)
ReportReachesLink ==
    \A c \in Chan, l \in Link \ Interface :
        (/\ tok[Watcher(c)] = "full" /\ intr = c
         /\ l \in handle /\ inst[linkDev[l]].req # 0)
            ~> (\/ inst[linkDev[l]].req = 0 \/ l \notin handle
                \/ intr # c \/ excused)

(* The forwarder of a destroyed channel leaves the bus: it "is asked,      *)
(* never aborted", and however far it was the request to stop is kept for  *)
(* it.                                                                     *)
StoppedForwarderLeaves ==
    \A c \in Chan : (fwd[c].pc # "off" /\ intr # c) ~> (fwd[c].pc = "done")
=============================================================================
