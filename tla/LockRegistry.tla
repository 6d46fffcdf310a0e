---------------------------- MODULE LockRegistry ----------------------------
(***************************************************************************)
(* The daemon-wide lock registry of src/frontend/lock.rs: the tables, the  *)
(* Notify that a release fires, and the tasks that call it.  A task is a   *)
(* channel or a connection acting for one holder; several tasks may act    *)
(* for the same holder (a HiSLIP session has two channels).                *)
(*                                                                         *)
(* The daemon runs on a current_thread runtime, so a task runs from one    *)
(* await to the next without interruption: each action below is such a     *)
(* segment.                                                                *)
(***************************************************************************)
EXTENDS LockTable

CONSTANTS
    Resource,   \* the resource keys, gpib<PAD>
    Task,       \* callers of the registry
    HolderOf,   \* the holder each task acts for
    MaxDepth    \* bound: no new request by a holder nested this deep

ASSUME TaskAssumption == HolderOf \in [Task -> Holder]
ASSUME DepthAssumption == MaxDepth \in Nat
ASSUME NoOneAssumption == NoOne \notin Resource

VARIABLES
    tables,     \* the lock table of each resource
    pc,         \* "idle", or parked in "request" or in "access"
    res,        \* the resource a parked task waits for
    lock,       \* the lock string a parked request asks for
    bounded,    \* does the wait have a deadline
    notified,   \* the Notified future of the wait has been completed
    expired,    \* the deadline of the wait has passed
    balance     \* history: grants minus releases answered with success

waits == <<pc, res, lock, bounded, notified, expired>>
vars == <<tables, waits, balance>>

TypeOK ==
    /\ tables \in [Resource -> Table]
    /\ pc \in [Task -> {"idle", "request", "access"}]
    /\ res \in [Task -> Resource \cup {NoOne}]
    /\ lock \in [Task -> LockString]
    /\ bounded \in [Task -> BOOLEAN]
    /\ notified \in [Task -> BOOLEAN]
    /\ expired \in [Task -> BOOLEAN]
    /\ balance \in [Resource -> [Holder -> Nat]]

Init ==
    /\ tables = [r \in Resource |-> EmptyTable]
    /\ pc = [t \in Task |-> "idle"]
    /\ res = [t \in Task |-> NoOne]
    /\ lock = [t \in Task |-> Exclusive]
    /\ bounded = [t \in Task |-> FALSE]
    /\ notified = [t \in Task |-> FALSE]
    /\ expired = [t \in Task |-> FALSE]
    /\ balance = [r \in Resource |-> [h \in Holder |-> 0]]

Depth(r, h) == Levels(tables[r], h)

-----------------------------------------------------------------------------
(* A call subscribes, tests once and either returns or parks.  A timeout   *)
(* of zero that meets a conflict answers Failure and changes nothing.      *)

Park(t, kind, r, l, b) ==
    /\ pc' = [pc EXCEPT ![t] = kind]
    /\ res' = [res EXCEPT ![t] = r]
    /\ lock' = [lock EXCEPT ![t] = l]
    /\ bounded' = [bounded EXCEPT ![t] = b]
    /\ notified' = [notified EXCEPT ![t] = FALSE]
    /\ expired' = [expired EXCEPT ![t] = FALSE]

Return(t) == Park(t, "idle", NoOne, Exclusive, FALSE)

Acquire(r, h, l) ==
    /\ tables' = [tables EXCEPT ![r] = Grant(@, h, l)]
    /\ balance' = [balance EXCEPT ![r][h] = @ + 1]

RequestGranted(t, r, l) ==
    /\ pc[t] = "idle"
    /\ Depth(r, HolderOf[t]) < MaxDepth
    /\ CanGrant(tables[r], HolderOf[t], l)
    /\ Acquire(r, HolderOf[t], l)
    /\ UNCHANGED waits

RequestParks(t, r, l) ==
    /\ pc[t] = "idle"
    /\ Depth(r, HolderOf[t]) < MaxDepth
    /\ ~CanGrant(tables[r], HolderOf[t], l)
    /\ Park(t, "request", r, l, TRUE)
    /\ UNCHANGED <<tables, balance>>

(* wait_for_access (b = FALSE) and wait_for_access_timeout (b = TRUE).     *)
AccessParks(t, r, b) ==
    /\ pc[t] = "idle"
    /\ ~GrantsAccess(tables[r], HolderOf[t])
    /\ Park(t, "access", r, Exclusive, b)
    /\ UNCHANGED <<tables, balance>>

-----------------------------------------------------------------------------
(* notify_waiters completes the future of every parked task, whichever     *)
(* resource it waits for.                                                  *)

NotifyWaiters ==
    /\ notified' = [t \in Task |-> notified[t] \/ pc[t] # "idle"]
    /\ UNCHANGED <<pc, res, lock, bounded, expired>>

Release(t, r) ==
    /\ pc[t] = "idle"
    /\ Holds(tables[r], HolderOf[t])
    /\ tables' = [tables EXCEPT ![r] = ReleaseLevel(@, HolderOf[t])]
    /\ balance' = [balance EXCEPT ![r][HolderOf[t]] = @ - 1]
    /\ NotifyWaiters

(* Called from Drop and from destroy_link, not by a task of the holder;    *)
(* without anything to free it notifies nobody.                            *)
ReleaseAllQuietly(h) ==
    /\ \E r \in Resource : Holds(tables[r], h)
    /\ tables' = [r \in Resource |-> ReleaseEvery(tables[r], h)]
    /\ balance' = [r \in Resource |-> [balance[r] EXCEPT ![h] = 0]]
    /\ UNCHANGED waits

ReleaseAll(h) ==
    /\ \E r \in Resource : Holds(tables[r], h)
    /\ tables' = [r \in Resource |-> ReleaseEvery(tables[r], h)]
    /\ balance' = [r \in Resource |-> [balance[r] EXCEPT ![h] = 0]]
    /\ NotifyWaiters

-----------------------------------------------------------------------------
(* The timer of a bounded wait fires.                                      *)
Expire(t) ==
    /\ pc[t] # "idle" /\ bounded[t] /\ ~expired[t]
    /\ expired' = [expired EXCEPT ![t] = TRUE]
    /\ UNCHANGED <<tables, balance, pc, res, lock, bounded, notified>>

Awake(t) == pc[t] # "idle" /\ (notified[t] \/ expired[t])

(* The loop goes round: subscribe again, test again, and only then look at *)
(* the clock.                                                              *)
ResumeParkedIgnoringDeadline(t) ==
    /\ notified' = [notified EXCEPT ![t] = FALSE]
    /\ UNCHANGED <<pc, res, lock, bounded, expired>>

ResumeParked(t) ==
    IF expired[t]
    THEN Return(t)
    ELSE /\ notified' = [notified EXCEPT ![t] = FALSE]
         /\ UNCHANGED <<pc, res, lock, bounded, expired>>

ResumeRequest(t) ==
    /\ pc[t] = "request" /\ Awake(t)
    /\ \/ /\ CanGrant(tables[res[t]], HolderOf[t], lock[t])
          /\ Acquire(res[t], HolderOf[t], lock[t])
          /\ Return(t)
       \/ /\ ~CanGrant(tables[res[t]], HolderOf[t], lock[t])
          /\ ResumeParked(t)
          /\ UNCHANGED <<tables, balance>>

ResumeAccess(t) ==
    /\ pc[t] = "access" /\ Awake(t)
    /\ IF GrantsAccess(tables[res[t]], HolderOf[t])
       THEN Return(t)
       ELSE ResumeParked(t)
    /\ UNCHANGED <<tables, balance>>

(* The caller drops the future: a VXI-11 device_abort ends a lock wait.    *)
Abandon(t) ==
    /\ pc[t] = "request"
    /\ Return(t)
    /\ UNCHANGED <<tables, balance>>

Next ==
    \/ \E t \in Task, r \in Resource, l \in LockString :
           RequestGranted(t, r, l) \/ RequestParks(t, r, l)
    \/ \E t \in Task, r \in Resource, b \in BOOLEAN : AccessParks(t, r, b)
    \/ \E t \in Task, r \in Resource : Release(t, r)
    \/ \E h \in Holder : ReleaseAll(h)
    \/ \E t \in Task : Expire(t) \/ ResumeRequest(t) \/ ResumeAccess(t)
                       \/ Abandon(t)

(* The runtime polls every woken task, and its timers fire.  Nothing makes *)
(* a client release a lock, so the releases get no fairness.               *)
Fairness ==
    \A t \in Task : /\ WF_vars(Expire(t))
                    /\ WF_vars(ResumeRequest(t))
                    /\ WF_vars(ResumeAccess(t))

Spec == Init /\ [][Next]_vars

FairSpec == Spec /\ Fairness

-----------------------------------------------------------------------------
(* Properties.                                                             *)

(* An exclusive lock excludes every other holder: while one session has    *)
(* it, no other session holds a shared lock on that instrument, whatever   *)
(* the nesting and whoever waited meanwhile (try_request, release).        *)
Exclusion ==
    \A r \in Resource :
        tables[r].exclusive # NoOne =>
            SharedHolders(tables[r]) \subseteq {tables[r].exclusive}

(* The fields of a table agree: the exclusive depth is positive exactly    *)
(* while there is an exclusive holder, and a shared name is on record      *)
(* exactly while somebody shares it, so a name never outlives its group    *)
(* and blocks the next one (release and release_all clear it).             *)
TablesAgree ==
    \A r \in Resource :
        /\ (tables[r].depth = 0) <=> (tables[r].exclusive = NoOne)
        /\ (tables[r].sharedName = NoOne) <=> (SharedHolders(tables[r]) = {})

(* Locks nest: a holder keeps its hold until as many releases have         *)
(* succeeded as requests were granted, with exclusive and shared levels    *)
(* counted together in any order (lock.rs, "Locks nest").                  *)
Balanced ==
    \A r \in Resource, h \in Holder : balance[r][h] = Depth(r, h)

(* No lost wake-up in request: a task parked on a lock that nothing is     *)
(* about to wake really is in conflict.                                    *)
RequestWaiterBlocked ==
    \A t \in Task : (pc[t] = "request" /\ ~Awake(t)) =>
                        ~CanGrant(tables[res[t]], HolderOf[t], lock[t])

(* No lost wake-up in wait_for_access: nobody sleeps on an instrument that *)
(* is free.                                                                *)
NoSleepOnFree ==
    \A t \in Task : (pc[t] = "access" /\ ~Awake(t)) =>
                        ~IsEmpty(tables[res[t]])

(* No wake-up is lost, neither by a request nor by a message that waits    *)
(* for access.                                                             *)
NoLostWakeups == RequestWaiterBlocked /\ NoSleepOnFree

(* Every lock request is answered: its wait ends in a grant, in Failure    *)
(* once its deadline has passed, or is abandoned.                          *)
RequestAnswered ==
    \A t \in Task : (pc[t] = "request") ~> (pc[t] # "request")

-----------------------------------------------------------------------------
(* The registry implements the abstract lock.                              *)

Abstract == INSTANCE InstrumentLock WITH
    owner     <- [r \in Resource |-> tables[r].exclusive],
    sharers   <- [r \in Resource |-> SharedHolders(tables[r])],
    groupName <- [r \in Resource |-> tables[r].sharedName]

(* Every behaviour of the registry is one of the viLock semantics in       *)
(* InstrumentLock, nested requests and releases being stuttering steps.    *)
ImplementsInstrumentLock == Abstract!Spec
=============================================================================
