--------------------------- MODULE HislipSessions ---------------------------
(***************************************************************************)
(* HiSLIP sessions over their whole life (src/hislip/server.rs), with the  *)
(* lock table of the one instrument they all address and the bus mutex:    *)
(* session ids and the registry, the two connections that make a session,  *)
(* lock requests on the asynchronous one, lock-gated I/O on both, and the  *)
(* teardown that follows a disconnect.                                     *)
(*                                                                         *)
(* The lock registry knows a session by its id, so Holder is the set of    *)
(* ids, and an id that is used again is the same holder.  Each action runs *)
(* from one await to the next.                                             *)
(***************************************************************************)
EXTENDS LockTable, Sequences

CONSTANTS
    Client,       \* clients, each opening one session in its life
    MaxSessions,  \* Config::max_sessions
    MaxLevels,    \* bound: no lock request by a session nested this deep
    OrderlyClose  \* do clients end their asynchronous connection first

ASSUME HolderAssumption == Holder \subseteq Nat
ASSUME SessionsAssumption == /\ MaxSessions \in Nat
                             /\ MaxLevels \in Nat
                             /\ OrderlyClose \in BOOLEAN
                             /\ NoOne \notin Client

VARIABLES
    registry,   \* the session entry, named by its client, under each id
    id,         \* the id each client was given
    entry,      \* the session entry an asynchronous connection is bound to
    bound,      \* SessionEntry::async_bound
    cleanup,    \* sessions whose detached removal task has not run yet
    pc,         \* where the task of each connection is
    busq,       \* the bus mutex: its owner and then its waiters, in order
    hung,       \* the connections their client has ended
    table,      \* the lock table of the instrument
    want,       \* the lock string a waiting request asks for
    woken       \* tasks whose Notified future is complete

sessionVars == <<registry, id, entry, bound, cleanup>>
lockVars == <<table, want, woken>>
vars == <<sessionVars, pc, busq, hung, lockVars>>

(* A task serves one connection of one client.                             *)
Sync == {"sync"} \X Client
Async == {"async"} \X Client
Task == Sync \cup Async

SyncOf(c) == <<"sync", c>>
AsyncOf(c) == <<"async", c>>

Waiting == {"gated", "locking"}
Serving == {"reading", "gated", "queued", "onbus"}

TypeOK ==
    /\ registry \in [Holder -> Client \cup {NoOne}]
    /\ id \in [Client -> Holder \cup {NoOne}]
    /\ entry \in [Client -> Client \cup {NoOne}]
    /\ bound \in [Client -> BOOLEAN]
    /\ cleanup \subseteq Client
    /\ pc \in [Task -> {"new", "responding", "locking", "closed"} \cup Serving]
    /\ busq \in Seq(Task)
    /\ hung \subseteq Task
    /\ table \in Table
    /\ want \in [Client -> LockString]
    /\ woken \subseteq Task

Init ==
    /\ registry = [i \in Holder |-> NoOne]
    /\ id = [c \in Client |-> NoOne]
    /\ entry = [c \in Client |-> NoOne]
    /\ bound = [c \in Client |-> FALSE]
    /\ cleanup = {}
    /\ pc = [t \in Task |-> "new"]
    /\ busq = <<>>
    /\ hung = {}
    /\ table = EmptyTable
    /\ want = [c \in Client |-> Exclusive]
    /\ woken = {}

Goto(t, where) == pc' = [pc EXCEPT ![t] = where]

(* The session a task acts for: an asynchronous connection uses the entry  *)
(* it found in the registry.                                               *)
IdOf(t) == IF t \in Sync THEN id[t[2]] ELSE id[entry[t[2]]]

(* notify_waiters of the lock registry.                                    *)
NotifyWaiters == woken' = woken \cup {t \in Task : pc[t] \in Waiting}

-----------------------------------------------------------------------------
(* The synchronous connection opens a session.                             *)

UsedIds == {i \in Holder : registry[i] # NoOne}

LiveIds == {id[c] : c \in {d \in Client : pc[SyncOf(d)] \in Serving}}

FreeIdIgnoringCleanup(i) ==
    i \notin LiveIds /\ \A j \in Holder : j < i => j \in LiveIds

(* The search from 0 upwards: the smallest id without an entry.            *)
FreeId(i) == i \notin UsedIds /\ \A j \in Holder : j < i => j \in UsedIds

(* handle_connection and init_sync, up to the InitializeResponse.          *)
Initialize(c) ==
    /\ pc[SyncOf(c)] = "new"
    /\ Cardinality(UsedIds) < MaxSessions
    /\ \E i \in Holder :
          /\ FreeId(i)
          /\ id' = [id EXCEPT ![c] = i]
          /\ registry' = [registry EXCEPT ![i] = c]
    /\ Goto(SyncOf(c), "responding")
    /\ UNCHANGED <<entry, bound, cleanup, busq, hung, lockVars>>

(* Too many sessions, a first message that is not an Initialize, or an     *)
(* unknown subaddress: a fatal error, and the connection is over.          *)
InitializeRefused(c) ==
    /\ pc[SyncOf(c)] = "new"
    /\ Goto(SyncOf(c), "closed")
    /\ UNCHANGED <<sessionVars, busq, hung, lockVars>>

(* The response is written, and only then is there a RegistrationGuard.    *)
Initialized(c) ==
    /\ pc[SyncOf(c)] = "responding"
    /\ Goto(SyncOf(c), "reading")
    /\ UNCHANGED <<sessionVars, busq, hung, lockVars>>

(* Writing it fails: the task returns, and the id it was going to tell the *)
(* client is gone with it.  The registry keeps the entry.                  *)
InitializeResponseFails(c) ==
    /\ pc[SyncOf(c)] = "responding"
    /\ SyncOf(c) \in hung
    /\ Goto(SyncOf(c), "closed")
    /\ id' = [id EXCEPT ![c] = NoOne]
    /\ UNCHANGED <<registry, entry, bound, cleanup, busq, hung, lockVars>>

(* init_async: the client quotes the id it was given.  It finds no entry,  *)
(* or one that has its asynchronous channel already, or binds to it.       *)
AsyncInitialize(c) ==
    /\ pc[AsyncOf(c)] = "new"
    /\ id[c] # NoOne /\ pc[SyncOf(c)] # "responding"
    /\ OrderlyClose => SyncOf(c) \notin hung
    /\ LET e == registry[id[c]]
       IN  IF e # NoOne /\ ~bound[e]
           THEN /\ bound' = [bound EXCEPT ![e] = TRUE]
                /\ entry' = [entry EXCEPT ![c] = e]
                /\ Goto(AsyncOf(c), "reading")
           ELSE /\ Goto(AsyncOf(c), "closed")
                /\ UNCHANGED <<entry, bound>>
    /\ UNCHANGED <<registry, id, cleanup, busq, hung, lockVars>>

-----------------------------------------------------------------------------
(* Lock-gated work: DataEND and Trigger on the synchronous channel,        *)
(* AsyncDeviceClear on the asynchronous one.  First the gate,              *)
(* wait_for_access, then the queue of the bus mutex.                       *)

PassGate(t) ==
    /\ Goto(t, "queued")
    /\ busq' = Append(busq, t)

Message(t) ==
    /\ pc[t] = "reading"
    /\ IF GrantsAccess(table, IdOf(t))
       THEN PassGate(t)
       ELSE Goto(t, "gated") /\ UNCHANGED busq
    /\ UNCHANGED <<sessionVars, hung, lockVars>>

Resume(t) ==
    /\ pc[t] = "gated" /\ t \in woken
    /\ woken' = woken \ {t}
    /\ IF GrantsAccess(table, IdOf(t))
       THEN PassGate(t)
       ELSE UNCHANGED <<pc, busq>>
    /\ UNCHANGED <<sessionVars, hung, table, want>>

BusStart(t) ==
    /\ pc[t] = "queued" /\ Head(busq) = t
    /\ Goto(t, "onbus")
    /\ UNCHANGED <<sessionVars, busq, hung, lockVars>>

(* The transaction ends, the mutex passes on and the reply is written.     *)
BusDone(t) ==
    /\ pc[t] = "onbus"
    /\ Goto(t, "reading")
    /\ busq' = Tail(busq)
    /\ UNCHANGED <<sessionVars, hung, lockVars>>

-----------------------------------------------------------------------------
(* AsyncLock.  A release of a lock the session does not hold is answered   *)
(* with an error and changes nothing.                                      *)

Lock(c, l) ==
    LET t == AsyncOf(c)
    IN  /\ pc[t] = "reading"
        /\ Levels(table, IdOf(t)) < MaxLevels
        /\ IF CanGrant(table, IdOf(t), l)
           THEN /\ table' = Grant(table, IdOf(t), l)
                /\ UNCHANGED <<pc, want>>
           ELSE /\ Goto(t, "locking")
                /\ want' = [want EXCEPT ![c] = l]
                /\ UNCHANGED table
        /\ UNCHANGED <<sessionVars, busq, hung, woken>>

(* Woken by a release, or late, by the timer: one more attempt, and        *)
(* Failure if the deadline has passed.                                     *)
LockResume(c, late) ==
    LET t == AsyncOf(c)
    IN  /\ pc[t] = "locking"
        /\ late \/ t \in woken
        /\ woken' = woken \ {t}
        /\ IF CanGrant(table, IdOf(t), want[c])
           THEN /\ table' = Grant(table, IdOf(t), want[c])
                /\ Goto(t, "reading")
           ELSE /\ IF late THEN Goto(t, "reading") ELSE UNCHANGED pc
                /\ UNCHANGED table
        /\ UNCHANGED <<sessionVars, busq, hung, want>>

Unlock(c) ==
    LET t == AsyncOf(c)
    IN  /\ pc[t] = "reading"
        /\ Holds(table, IdOf(t))
        /\ table' = ReleaseLevel(table, IdOf(t))
        /\ NotifyWaiters
        /\ UNCHANGED <<sessionVars, pc, busq, hung, want>>

-----------------------------------------------------------------------------
(* The end.  A client ends a connection by closing it or with a fatal      *)
(* error; the daemon finds out when the task of that connection reads or   *)
(* writes.                                                                 *)

HangUpSync(c) ==
    /\ pc[SyncOf(c)] # "new"
    /\ OrderlyClose => pc[AsyncOf(c)] \in {"new", "closed"}
    /\ hung' = hung \cup {SyncOf(c)}
    /\ UNCHANGED <<sessionVars, pc, busq, lockVars>>

HangUpAsync(c) ==
    /\ pc[AsyncOf(c)] # "new"
    /\ hung' = hung \cup {AsyncOf(c)}
    /\ UNCHANGED <<sessionVars, pc, busq, lockVars>>

SyncCloseKeepingLocks(c) ==
    /\ pc[SyncOf(c)] = "reading"
    /\ SyncOf(c) \in hung
    /\ Goto(SyncOf(c), "closed")
    /\ cleanup' = cleanup \cup {c}
    /\ UNCHANGED <<registry, id, entry, bound, busq, hung, lockVars>>

SyncCloseQuietly(c) ==
    /\ pc[SyncOf(c)] = "reading"
    /\ SyncOf(c) \in hung
    /\ Goto(SyncOf(c), "closed")
    /\ table' = ReleaseEvery(table, id[c])
    /\ cleanup' = cleanup \cup {c}
    /\ UNCHANGED <<registry, id, entry, bound, busq, hung, want, woken>>

(* sync_loop returns and the RegistrationGuard is dropped: release_all,    *)
(* and a detached task for the registry.                                   *)
SyncClose(c) ==
    /\ pc[SyncOf(c)] = "reading"
    /\ SyncOf(c) \in hung
    /\ Goto(SyncOf(c), "closed")
    /\ table' = ReleaseEvery(table, id[c])
    /\ IF Holds(table, id[c]) THEN NotifyWaiters ELSE UNCHANGED woken
    /\ cleanup' = cleanup \cup {c}
    /\ UNCHANGED <<registry, id, entry, bound, busq, hung, want>>

(* The detached task removes whatever is registered under the id.          *)
RemoveEntry(c) ==
    /\ c \in cleanup
    /\ cleanup' = cleanup \ {c}
    /\ registry' = [registry EXCEPT ![id[c]] = NoOne]
    /\ UNCHANGED <<id, entry, bound, pc, busq, hung, lockVars>>

(* async_loop returns; that tears nothing down.                            *)
AsyncClose(c) ==
    /\ pc[AsyncOf(c)] = "reading"
    /\ AsyncOf(c) \in hung
    /\ Goto(AsyncOf(c), "closed")
    /\ UNCHANGED <<sessionVars, busq, hung, lockVars>>

-----------------------------------------------------------------------------
Next ==
    \/ \E c \in Client :
          \/ Initialize(c) \/ InitializeRefused(c)
          \/ Initialized(c) \/ InitializeResponseFails(c)
          \/ AsyncInitialize(c)
          \/ \E l \in LockString : Lock(c, l)
          \/ \E late \in BOOLEAN : LockResume(c, late)
          \/ Unlock(c)
          \/ HangUpSync(c) \/ HangUpAsync(c)
          \/ SyncClose(c) \/ RemoveEntry(c) \/ AsyncClose(c)
    \/ \E t \in Task : Message(t) \/ Resume(t) \/ BusStart(t) \/ BusDone(t)

(* The runtime polls woken and spawned tasks, timers fire, the adapter     *)
(* bounds a bus transaction, and the end of a connection is read once the  *)
(* finitely many messages before it are.  Clients may stay silent for      *)
(* ever, holding their locks.                                              *)
Fairness ==
    /\ \A c \in Client :
          /\ WF_vars(Initialized(c) \/ InitializeResponseFails(c))
          /\ WF_vars(LockResume(c, TRUE))
          /\ SF_vars(SyncClose(c))
          /\ SF_vars(AsyncClose(c))
          /\ WF_vars(RemoveEntry(c))
    /\ \A t \in Task : WF_vars(Resume(t)) /\ WF_vars(BusStart(t))
                       /\ WF_vars(BusDone(t))

Spec == Init /\ [][Next]_vars

FairSpec == Spec /\ Fairness

-----------------------------------------------------------------------------
(* Properties.                                                             *)

(* An id belongs to one session from its allocation to its removal: the    *)
(* entry under it is the session's own while the session is served and     *)
(* until its detached removal task has run, so that task can never unplug  *)
(* a later session that was given the same id (RegistrationGuard::drop).   *)
EntryIsOwn ==
    \A c \in Client :
        (pc[SyncOf(c)] \in Serving \cup {"responding"} \/ c \in cleanup)
            => registry[id[c]] = c

(* Locks go away with the session: whoever holds a lock is a session whose *)
(* synchronous connection is being served (lock.rs: a lock "goes away when *)
(* the session does").                                                     *)
LocksBelongToSessions ==
    \A h \in HoldersOf(table) :
        \E c \in Client : id[c] = h /\ pc[SyncOf(c)] \in Serving

(* A client that crashes holding a lock, or waiting for one, does not lock *)
(* the instrument out: no lock belongs to a session that has no connection *)
(* left.                                                                   *)
NoOrphanLock ==
    \A h \in HoldersOf(table) :
        \E c \in Client :
            id[c] = h /\ ~(pc[SyncOf(c)] = "closed" /\ pc[AsyncOf(c)] = "closed")

(* A client that has gone costs the daemon nothing in the end: once the    *)
(* instrument is free for good, its session is torn down and its place     *)
(* under max_sessions is free again, wherever its task was when the client *)
(* left, parked behind a lock included.                                    *)
SlotReclaimed ==
    \A c \in Client :
        <>[]IsEmpty(table) =>
            ((SyncOf(c) \in hung /\ pc[SyncOf(c)] \in Serving)
                ~> (\A i \in Holder : registry[i] # c))
=============================================================================
