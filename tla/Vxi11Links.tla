----------------------------- MODULE Vxi11Links -----------------------------
(***************************************************************************)
(* The VXI-11 front-end (src/vxi11/server.rs): core connections, the links *)
(* they create, the lock each link may hold, the calls that wait for a     *)
(* lock or for the bus, the abort channel, and what becomes of it all when *)
(* a connection ends.  Every link here addresses the same instrument.      *)
(*                                                                         *)
(* A link is named by its lid, and lids are never used again; Holder is    *)
(* the set of lids.  Calls name links of their own connection; the abort   *)
(* channel may name any.  A connection serves one call at a time, so its   *)
(* task is in one place, pc.  Each action runs from one await to the next. *)
(***************************************************************************)
EXTENDS LockTable, Sequences

CONSTANTS
    Conn,       \* core connections
    MaxLinks,   \* Config::max_links
    MaxLid      \* bound: links created in a behaviour

ASSUME LidAssumption == MaxLid \in Nat /\ Holder = 1..MaxLid
ASSUME ConnAssumption == MaxLinks \in Nat /\ NoOne \notin Conn

VARIABLES
    links,      \* the link table
    nextLid,
    owned,      \* ConnState::owned, the links each connection created
    pc,         \* where the task of a connection is
    call,       \* the link its current call is about
    result,     \* how the call ended, while the reply is being written
    inFlight,   \* Link::in_flight, the operation window
    aborted,    \* Link::aborted
    permit,     \* the permit stored in Link::abort_notify
    hit,        \* history: an abort named the link during its present call
    table,      \* the lock table of the instrument
    woken,      \* connections whose Notified future is complete
    busq,       \* the bus mutex: its owner and then its waiters, in order
    ended       \* how the client ended the connection: "no", "eof", "error"

linkVars == <<links, nextLid, owned>>
abortVars == <<inFlight, aborted, permit, hit>>
vars == <<linkVars, pc, call, result, abortVars, table, woken, busq, ended>>

Waiting == {"creating", "locking", "gated"}
Abortable == {"locking", "gated", "queued", "onbus"}
InCall == Waiting \cup {"queued", "onbus"}

TypeOK ==
    /\ links \subseteq Holder
    /\ nextLid \in 1..MaxLid + 1
    /\ owned \in [Conn -> SUBSET Holder]
    /\ pc \in [Conn -> InCall \cup {"reading", "replying", "closed"}]
    /\ call \in [Conn -> Holder \cup {NoOne}]
    /\ result \in [Conn -> {"none", "done", "refused", "abort"}]
    /\ inFlight \in [Holder -> BOOLEAN]
    /\ aborted \in [Holder -> BOOLEAN]
    /\ permit \in [Holder -> BOOLEAN]
    /\ hit \in [Holder -> BOOLEAN]
    /\ table \in Table
    /\ woken \subseteq Conn
    /\ busq \in Seq(Conn)
    /\ ended \in [Conn -> {"no", "eof", "error"}]

Init ==
    /\ links = {}
    /\ nextLid = 1
    /\ owned = [c \in Conn |-> {}]
    /\ pc = [c \in Conn |-> "reading"]
    /\ call = [c \in Conn |-> NoOne]
    /\ result = [c \in Conn |-> "none"]
    /\ inFlight = [l \in Holder |-> FALSE]
    /\ aborted = [l \in Holder |-> FALSE]
    /\ permit = [l \in Holder |-> FALSE]
    /\ hit = [l \in Holder |-> FALSE]
    /\ table = EmptyTable
    /\ woken = {}
    /\ busq = <<>>
    /\ ended = [c \in Conn |-> "no"]

Goto(c, where, l) ==
    /\ pc' = [pc EXCEPT ![c] = where]
    /\ call' = [call EXCEPT ![c] = l]

(* The call has its result and the reply is about to be written.           *)
Reply(c, l, r) ==
    /\ Goto(c, "replying", l)
    /\ result' = [result EXCEPT ![c] = r]

Wait(c, where, l) == Goto(c, where, l) /\ UNCHANGED result

(* The loop has read a call.  Calls sent before the connection ended are   *)
(* still served.                                                           *)
Called(c) == pc[c] = "reading"

NotifyWaiters == woken' = woken \cup {c \in Conn : pc[c] \in Waiting}

OpenWindow(l) ==
    /\ inFlight' = [inFlight EXCEPT ![l] = TRUE]
    /\ UNCHANGED <<aborted, permit, hit>>

(* OpWindow's Drop: an abort that nobody consumed is discarded.            *)
CloseWindow(l) ==
    /\ inFlight' = [inFlight EXCEPT ![l] = FALSE]
    /\ aborted' = [aborted EXCEPT ![l] = FALSE]

-----------------------------------------------------------------------------
(* create_link, plain or with lockDevice.  The link is in the table before *)
(* its lock is, and taken out again if the lock is not granted in time.    *)
CreateLink(c, lock) ==
    /\ Called(c)
    /\ Cardinality(links) < MaxLinks
    /\ nextLid <= MaxLid
    /\ links' = links \cup {nextLid}
    /\ owned' = [owned EXCEPT ![c] = @ \cup {nextLid}]
    /\ nextLid' = nextLid + 1
    /\ IF lock /\ ~CanGrant(table, nextLid, Exclusive)
       THEN Wait(c, "creating", nextLid)
       ELSE Reply(c, nextLid, "done")
    /\ table' = IF lock /\ CanGrant(table, nextLid, Exclusive)
                THEN Grant(table, nextLid, Exclusive) ELSE table
    /\ UNCHANGED <<abortVars, woken, busq, ended>>

(* Woken by a release, or late, by the timer.                              *)
CreateLinkResume(c, late) ==
    /\ pc[c] = "creating"
    /\ late \/ c \in woken
    /\ woken' = woken \ {c}
    /\ \/ /\ CanGrant(table, call[c], Exclusive)
          /\ table' = Grant(table, call[c], Exclusive)
          /\ Reply(c, call[c], "done")
          /\ UNCHANGED <<links, owned>>
       \/ /\ ~CanGrant(table, call[c], Exclusive) /\ late
          /\ links' = links \ {call[c]}
          /\ owned' = [owned EXCEPT ![c] = @ \ {call[c]}]
          /\ Reply(c, call[c], "refused")
          /\ UNCHANGED table
       \/ /\ ~CanGrant(table, call[c], Exclusive) /\ ~late
          /\ UNCHANGED <<links, owned, table, pc, call, result>>
    /\ UNCHANGED <<nextLid, abortVars, busq, ended>>

DestroyLinkKeepingLock(c, l) ==
    /\ Called(c) /\ l \in owned[c]
    /\ links' = links \ {l}
    /\ owned' = [owned EXCEPT ![c] = @ \ {l}]
    /\ Reply(c, l, "done")
    /\ UNCHANGED <<nextLid, abortVars, table, woken, busq, ended>>

DestroyLink(c, l) ==
    /\ Called(c) /\ l \in owned[c]
    /\ links' = links \ {l}
    /\ owned' = [owned EXCEPT ![c] = @ \ {l}]
    /\ table' = ReleaseEvery(table, l)
    /\ IF Holds(table, l) THEN NotifyWaiters ELSE UNCHANGED woken
    /\ Reply(c, l, "done")
    /\ UNCHANGED <<nextLid, abortVars, busq, ended>>

-----------------------------------------------------------------------------
(* device_lock.  Locks do not nest: a second request by the holder is the  *)
(* error a stranger gets.                                                  *)

DeviceLock(c, l) ==
    /\ Called(c) /\ l \in owned[c]
    /\ \/ /\ Holds(table, l)
          /\ Reply(c, l, "refused")
          /\ UNCHANGED <<abortVars, table>>
       \/ /\ ~Holds(table, l) /\ CanGrant(table, l, Exclusive)
          /\ table' = Grant(table, l, Exclusive)
          /\ Reply(c, l, "done")
          /\ UNCHANGED abortVars
       \/ /\ ~Holds(table, l) /\ ~CanGrant(table, l, Exclusive)
          /\ OpenWindow(l)
          /\ Wait(c, "locking", l)
          /\ UNCHANGED table
    /\ UNCHANGED <<linkVars, woken, busq, ended>>

(* The request future is ready: granted, or (late) its deadline passed.    *)
DeviceLockResume(c, late) ==
    LET l == call[c]
    IN  /\ pc[c] = "locking"
        /\ late \/ c \in woken
        /\ woken' = woken \ {c}
        /\ \/ /\ CanGrant(table, l, Exclusive)
              /\ table' = Grant(table, l, Exclusive)
              /\ Reply(c, l, "done") /\ CloseWindow(l)
           \/ /\ ~CanGrant(table, l, Exclusive) /\ late
              /\ Reply(c, l, "refused") /\ CloseWindow(l)
              /\ UNCHANGED table
           \/ /\ ~CanGrant(table, l, Exclusive) /\ ~late
              /\ UNCHANGED <<table, pc, call, result, inFlight, aborted>>
        /\ UNCHANGED <<linkVars, permit, hit, busq, ended>>

(* abort_notify wakes the wait.  A permit left over from an earlier window *)
(* finds no abort to take, and the wait goes on.                           *)
DeviceLockAbortTrustingPermit(c) ==
    LET l == call[c]
    IN  /\ pc[c] = "locking" /\ permit[l]
        /\ permit' = [permit EXCEPT ![l] = FALSE]
        /\ Reply(c, l, "abort") /\ CloseWindow(l)
        /\ UNCHANGED <<linkVars, hit, table, woken, busq, ended>>

DeviceLockAbort(c) ==
    LET l == call[c]
    IN  /\ pc[c] = "locking" /\ permit[l]
        /\ permit' = [permit EXCEPT ![l] = FALSE]
        /\ IF aborted[l]
           THEN Reply(c, l, "abort") /\ CloseWindow(l)
           ELSE UNCHANGED <<pc, call, result, inFlight, aborted>>
        /\ UNCHANGED <<linkVars, hit, table, woken, busq, ended>>

DeviceUnlock(c, l) ==
    /\ Called(c) /\ l \in owned[c]
    /\ table' = ReleaseLevel(table, l)
    /\ IF Holds(table, l)
       THEN NotifyWaiters /\ Reply(c, l, "done")
       ELSE UNCHANGED woken /\ Reply(c, l, "refused")
    /\ UNCHANGED <<linkVars, abortVars, busq, ended>>

-----------------------------------------------------------------------------
(* device_write, device_read and the generic operations: the lock gate     *)
(* (acquire_access, with or without waitlock), the operation window, the   *)
(* bus mutex, and slices of a transfer with a look at the abort flag       *)
(* between them.                                                           *)

PassGate(c, l) ==
    /\ OpenWindow(l)
    /\ Wait(c, "queued", l)
    /\ busq' = Append(busq, c)

DeviceIo(c, l, waitlock) ==
    /\ Called(c) /\ l \in owned[c]
    /\ \/ GrantsAccess(table, l) /\ PassGate(c, l)
       \/ /\ ~GrantsAccess(table, l)
          /\ IF waitlock THEN Wait(c, "gated", l) ELSE Reply(c, l, "refused")
          /\ UNCHANGED <<abortVars, busq>>
    /\ UNCHANGED <<linkVars, table, woken, ended>>

DeviceIoResume(c, late) ==
    /\ pc[c] = "gated"
    /\ late \/ c \in woken
    /\ woken' = woken \ {c}
    /\ \/ GrantsAccess(table, call[c]) /\ PassGate(c, call[c])
       \/ /\ ~GrantsAccess(table, call[c])
          /\ IF late THEN Reply(c, call[c], "refused")
                     ELSE UNCHANGED <<pc, call, result>>
          /\ UNCHANGED <<abortVars, busq>>
    /\ UNCHANGED <<linkVars, table, ended>>

BusStart(c) ==
    /\ pc[c] = "queued" /\ Head(busq) = c
    /\ Wait(c, "onbus", call[c])
    /\ UNCHANGED <<linkVars, abortVars, table, woken, busq, ended>>

(* The last slice is over, or the abort flag is seen before the next one.  *)
(* A transfer that ends by itself may end without looking at it again.     *)
BusDone(c, r) ==
    /\ pc[c] = "onbus"
    /\ r = "abort" => aborted[call[c]]
    /\ Reply(c, call[c], r)
    /\ CloseWindow(call[c])
    /\ busq' = Tail(busq)
    /\ UNCHANGED <<linkVars, permit, hit, table, woken, ended>>

-----------------------------------------------------------------------------
(* The abort channel.                                                      *)
Hits(l) ==
    hit' = [hit EXCEPT ![l] = @ \/ \E c \in Conn : call[c] = l /\ pc[c] \in Abortable]

DeviceAbortWithoutWakeup(l) ==
    /\ l \in links
    /\ IF inFlight[l]
       THEN aborted' = [aborted EXCEPT ![l] = TRUE]
       ELSE UNCHANGED aborted
    /\ Hits(l)
    /\ UNCHANGED <<linkVars, pc, call, result, inFlight, permit, table, woken, busq, ended>>

(* Success means delivered, no more: without an open window it is a no-op. *)
DeviceAbort(l) ==
    /\ l \in links
    /\ IF inFlight[l]
       THEN /\ aborted' = [aborted EXCEPT ![l] = TRUE]
            /\ permit' = [permit EXCEPT ![l] = TRUE]
       ELSE UNCHANGED <<aborted, permit>>
    /\ Hits(l)
    /\ UNCHANGED <<linkVars, pc, call, result, inFlight, table, woken, busq, ended>>

-----------------------------------------------------------------------------
(* The connection loop: the reply, and the end.                            *)

Replied(c) ==
    /\ pc[c] = "replying"
    /\ Goto(c, "reading", NoOne)
    /\ result' = [result EXCEPT ![c] = "none"]
    /\ hit' = [hit EXCEPT ![call[c]] = FALSE]
    /\ UNCHANGED <<linkVars, inFlight, aborted, permit, table, woken, busq, ended>>

End(c, how) ==
    /\ pc[c] # "closed" /\ ended[c] = "no"
    /\ ended' = [ended EXCEPT ![c] = how]
    /\ UNCHANGED <<linkVars, pc, call, result, abortVars, table, woken, busq>>

(* release_all for each of a set of links.                                 *)
ReleaseLinks(tbl, lids) ==
    LET unlocked == IF tbl.exclusive \in lids
                    THEN [tbl EXCEPT !.exclusive = NoOne, !.depth = 0]
                    ELSE tbl
    IN  DropShared(unlocked,
                   [l \in Holder |-> IF l \in lids THEN 0 ELSE tbl.shared[l]])

(* End of file between two calls: every link of the connection goes, and   *)
(* its lock with it.                                                       *)
CloseConnection(c) ==
    /\ pc[c] = "reading" /\ ended[c] = "eof"
    /\ Goto(c, "closed", NoOne)
    /\ links' = links \ owned[c]
    /\ table' = ReleaseLinks(table, owned[c])
    /\ IF \E l \in owned[c] : Holds(table, l)
       THEN NotifyWaiters ELSE UNCHANGED woken
    /\ owned' = [owned EXCEPT ![c] = {}]
    /\ UNCHANGED <<nextLid, result, abortVars, busq, ended>>

(* A read or a write fails: serve_connection returns at once.              *)
ConnectionFails(c) ==
    /\ pc[c] \in {"reading", "replying"} /\ ended[c] # "no"
    /\ ended[c] = "eof" => pc[c] = "replying"
    /\ Goto(c, "closed", NoOne)
    /\ result' = [result EXCEPT ![c] = "none"]
    /\ UNCHANGED <<linkVars, abortVars, table, woken, busq, ended>>

-----------------------------------------------------------------------------
Next ==
    \/ \E c \in Conn, b \in BOOLEAN :
          CreateLink(c, b) \/ CreateLinkResume(c, b)
          \/ DeviceLockResume(c, b) \/ DeviceIoResume(c, b)
    \/ \E c \in Conn, l \in Holder :
          \/ DestroyLink(c, l) \/ DeviceLock(c, l) \/ DeviceUnlock(c, l)
          \/ \E waitlock \in BOOLEAN : DeviceIo(c, l, waitlock)
    \/ \E c \in Conn : DeviceLockAbort(c) \/ BusStart(c)
                       \/ \E r \in {"done", "abort"} : BusDone(c, r)
    \/ \E l \in Holder : DeviceAbort(l)
    \/ \E c \in Conn : Replied(c) \/ CloseConnection(c) \/ ConnectionFails(c)
                       \/ \E how \in {"eof", "error"} : End(c, how)

(* Woken tasks are polled, the adapter bounds every transfer, and replies  *)
(* are written.  Timers are left out: they may be as long as clients like. *)
Fairness ==
    \A c \in Conn :
        /\ WF_vars(CreateLinkResume(c, FALSE))
        /\ WF_vars(DeviceLockResume(c, FALSE))
        /\ WF_vars(DeviceIoResume(c, FALSE))
        /\ WF_vars(DeviceLockAbort(c))
        /\ WF_vars(BusStart(c))
        /\ WF_vars(\E r \in {"done", "abort"} : BusDone(c, r))
        /\ WF_vars(Replied(c) \/ ConnectionFails(c))
        /\ WF_vars(CloseConnection(c))

Spec == Init /\ [][Next]_vars

FairSpec == Spec /\ Fairness

-----------------------------------------------------------------------------
(* Properties.                                                             *)

(* Locks belong to links and links to connections: a lid that holds a lock *)
(* is in the link table, and a lid in the table is owned by one connection *)
(* and no other, so whatever frees a link (destroy_link, a create_link     *)
(* that did not get its lock, the end of the connection) frees its lock.   *)
(* Locks do not nest (RULE B.6.72): one device_unlock always frees a link. *)
LinksAndLocksOwned ==
    /\ HoldersOf(table) \subseteq links
    /\ links = UNION {owned[c] : c \in Conn}
    /\ \A c, d \in Conn : c # d => owned[c] \cap owned[d] = {}
    /\ \A l \in Holder : Levels(table, l) <= 1

(* "RULE B.6.77: locks are tied to the core connection": a connection that *)
(* is over, broken or closed, has no link left that holds a lock.          *)
BrokenConnectionReleases ==
    \A c \in Conn : pc[c] = "closed" => owned[c] \cap HoldersOf(table) = {}

(* An abort hits the call it was meant for: a call answers with the abort  *)
(* error only if an abort named its link during that very call, never      *)
(* because of a flag or a stored wake-up left by an earlier one.           *)
AbortHitsItsCall ==
    \A c \in Conn : result[c] = "abort" => hit[call[c]]

(* An abort ends the wait of device_lock by itself: no timer, and no       *)
(* release by the holder, is needed for the call to be answered.           *)
AbortEndsLockWait ==
    \A c \in Conn :
        (pc[c] = "locking" /\ aborted[call[c]]) ~> (pc[c] # "locking")
=============================================================================
