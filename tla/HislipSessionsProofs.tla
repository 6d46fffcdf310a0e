------------------------ MODULE HislipSessionsProofs ------------------------
(***************************************************************************)
(* Session ids and locks of the HiSLIP front-end, for any number of        *)
(* clients, ids and lock names and any max_sessions.                       *)
(*                                                                         *)
(* That an entry is its session's own needs only that a session being      *)
(* removed is closed (SessionInv).  That locks go away with the session    *)
(* holds for clients that end the asynchronous connection first: then an   *)
(* asynchronous task that can still ask for a lock is bound to its own     *)
(* session, and that session is being served (LockInv).                    *)
(***************************************************************************)
EXTENDS HislipSessions, LockTableProofs

SyncPlaces == Serving \cup {"new", "responding", "closed"}
AsyncPlaces == Serving \cup {"new", "locking", "closed"}

(* The registry, the ids and the places of the tasks have their types.     *)
SessionTypes ==
    /\ registry \in [Holder -> Client \cup {NoOne}]
    /\ id \in [Client -> Holder \cup {NoOne}]
    /\ cleanup \subseteq Client
    /\ pc \in [Task -> SyncPlaces \cup AsyncPlaces]
    /\ \A c \in Client : pc[SyncOf(c)] \in SyncPlaces

Registered(c) == pc[SyncOf(c)] \in Serving \cup {"responding"} \/ c \in cleanup

SessionInv ==
    /\ SessionTypes
    /\ \A c \in Client : Registered(c) => id[c] \in Holder /\ registry[id[c]] = c
    /\ \A c \in cleanup : pc[SyncOf(c)] = "closed"
    /\ \A c \in Client : pc[SyncOf(c)] = "new" => id[c] = NoOne

-----------------------------------------------------------------------------
(* The tasks of two connections are different tasks.                       *)
LEMMA TaskFacts ==
    /\ \A c \in Client : SyncOf(c) \in Task /\ AsyncOf(c) \in Task
    /\ \A c, d \in Client : SyncOf(c) = SyncOf(d) => c = d
    /\ \A c, d \in Client : AsyncOf(c) = AsyncOf(d) => c = d
    /\ \A c, d \in Client : SyncOf(c) # AsyncOf(d)
    /\ \A t \in Task : \E c \in Client : t \in {SyncOf(c), AsyncOf(c)}
<1>1. \A c, d : SyncOf(c) # AsyncOf(d)
  BY "sync" # "async" DEF SyncOf, AsyncOf
<1>2. \A t \in Task : \E c \in Client : t \in {SyncOf(c), AsyncOf(c)}
  BY DEF Task, Sync, Async, SyncOf, AsyncOf
<1> QED BY <1>1, <1>2 DEF Task, Sync, Async, SyncOf, AsyncOf

(* An asynchronous task acts for the session it was bound to.              *)
LEMMA IdOfAsync == \A c \in Client : IdOf(AsyncOf(c)) = id[entry[c]]
BY "sync" # "async" DEF IdOf, AsyncOf, Sync

(* A step that moves synchronous tasks within a session that is served,    *)
(* and asynchronous ones anywhere, leaves the sessions as they are.        *)
LEMMA WithinSessions ==
    ASSUME SessionInv, UNCHANGED <<registry, id, cleanup>>,
           NEW t \in Task, NEW to \in AsyncPlaces,
           pc' = [pc EXCEPT ![t] = to],
           \A c \in Client : t = SyncOf(c) => pc[t] \in Serving /\ to \in Serving
    PROVE  SessionInv'
<1>1. pc' \in [Task -> SyncPlaces \cup AsyncPlaces]
  BY DEF SessionInv, SessionTypes
<1>2. \A c \in Client : \/ pc'[SyncOf(c)] = pc[SyncOf(c)]
                        \/ pc[SyncOf(c)] \in Serving /\ pc'[SyncOf(c)] \in Serving
  BY TaskFacts DEF SessionInv, SessionTypes
<1>3. \A p \in Serving : p \in SyncPlaces /\ p \notin {"new", "responding", "closed"}
  BY DEF Serving, SyncPlaces
<1> QED BY <1>1, <1>2, <1>3 DEF SessionInv, SessionTypes, Registered

(* A step that moves no task and changes no session.                       *)
LEMMA SessionsAsTheyAre ==
    ASSUME SessionInv, UNCHANGED <<registry, id, cleanup, pc>>
    PROVE  SessionInv'
BY DEF SessionInv, SessionTypes, Registered

(* No client has a session at the start.                                   *)
LEMMA SessionInit == Init => SessionInv
<1> SUFFICES ASSUME Init PROVE SessionInv
  OBVIOUS
<1>1. \A c \in Client : pc[SyncOf(c)] = "new"
  BY TaskFacts DEF Init
<1>2. "new" \in SyncPlaces /\ "new" \notin Serving \cup {"responding", "closed"}
  BY DEF SyncPlaces, Serving
<1> QED BY <1>1, <1>2 DEF Init, SessionInv, SessionTypes, Registered

(* init_sync gives out an id without an entry.                             *)
LEMMA InitializeKeeps ==
    ASSUME SessionInv, NEW c \in Client, Initialize(c)
    PROVE  SessionInv'
<1>1. PICK i \in Holder : /\ registry[i] = NoOne
                          /\ id' = [id EXCEPT ![c] = i]
                          /\ registry' = [registry EXCEPT ![i] = c]
  BY DEF Initialize, FreeId, UsedIds
<1>2. /\ pc[SyncOf(c)] = "new" /\ pc' = [pc EXCEPT ![SyncOf(c)] = "responding"]
      /\ cleanup' = cleanup
  BY DEF Initialize, Goto
<1>3. c \notin cleanup
  BY <1>2 DEF SessionInv
<1>4. /\ pc'[SyncOf(c)] = "responding"
      /\ \A d \in Client : d # c => pc'[SyncOf(d)] = pc[SyncOf(d)]
  BY <1>2, TaskFacts DEF SessionInv, SessionTypes
<1>5. /\ registry' \in [Holder -> Client \cup {NoOne}]
      /\ id' \in [Client -> Holder \cup {NoOne}]
      /\ pc' \in [Task -> SyncPlaces \cup AsyncPlaces]
  BY <1>1, <1>2, "responding" \in SyncPlaces DEF SessionInv, SessionTypes, SyncPlaces
<1>6. id'[c] = i /\ registry'[i] = c
  BY <1>1 DEF SessionInv, SessionTypes
<1>7. \A d \in Client : d # c /\ Registered(d)' => id'[d] \in Holder /\ registry'[id'[d]] = d
  <2> SUFFICES ASSUME NEW d \in Client, d # c, Registered(d)'
               PROVE  id'[d] \in Holder /\ registry'[id'[d]] = d
    OBVIOUS
  <2>1. Registered(d)
    BY <1>2, <1>4 DEF Registered
  <2>2. id[d] \in Holder /\ registry[id[d]] = d
    BY <2>1 DEF SessionInv
  <2>3. id[d] # i
    BY <1>1, <2>2, SessionsAssumption
  <2> QED BY <1>1, <2>2, <2>3 DEF SessionInv, SessionTypes
<1>8. "responding" \in SyncPlaces /\ "responding" # "new"
  BY DEF SyncPlaces
<1>9. \A d \in Client : pc'[SyncOf(d)] \in SyncPlaces
  BY <1>4, <1>8 DEF SessionInv, SessionTypes
<1>10. \A d \in Client : pc'[SyncOf(d)] = "new" => id'[d] = NoOne
  BY <1>1, <1>4, <1>8 DEF SessionInv, SessionTypes
<1>11. \A d \in cleanup' : pc'[SyncOf(d)] = "closed"
  BY <1>2, <1>3, <1>4 DEF SessionInv, SessionTypes
<1> QED BY <1>2, <1>5, <1>6, <1>7, <1>9, <1>10, <1>11 DEF SessionInv, SessionTypes

(* A synchronous task ends: refused, with its response unwritten, or torn  *)
(* down, and then its removal is under way.                                *)
LEMMA CloseKeeps ==
    ASSUME SessionInv, NEW c \in Client,
           pc' = [pc EXCEPT ![SyncOf(c)] = "closed"], registry' = registry,
           \/ pc[SyncOf(c)] = "new" /\ UNCHANGED <<id, cleanup>>
           \/ pc[SyncOf(c)] = "responding" /\ id' = [id EXCEPT ![c] = NoOne] /\ cleanup' = cleanup
           \/ pc[SyncOf(c)] = "reading" /\ id' = id /\ cleanup' = cleanup \cup {c}
    PROVE  SessionInv'
<1>1. "closed" \in SyncPlaces /\ "closed" \notin Serving \cup {"new", "responding"}
  BY DEF SyncPlaces, Serving
<1>2. "reading" \in Serving
  BY DEF Serving
<1>3. /\ pc'[SyncOf(c)] = "closed"
      /\ \A d \in Client : d # c => pc'[SyncOf(d)] = pc[SyncOf(d)]
      /\ pc' \in [Task -> SyncPlaces \cup AsyncPlaces]
  BY <1>1, TaskFacts DEF SessionInv, SessionTypes
<1>4. pc[SyncOf(c)] # "closed" /\ c \notin cleanup
  BY <1>1, <1>2 DEF SessionInv
<1>5. \A d \in Client : d # c => id'[d] = id[d] /\ (d \in cleanup' <=> d \in cleanup)
  BY DEF SessionInv, SessionTypes
<1>6. id' \in [Client -> Holder \cup {NoOne}] /\ cleanup' \subseteq Client
  BY DEF SessionInv, SessionTypes
<1>7. c \in cleanup' => id'[c] \in Holder /\ registry[id'[c]] = c
  BY <1>2, <1>4 DEF SessionInv, Registered
<1>8. \A d \in Client : Registered(d)' => id'[d] \in Holder /\ registry'[id'[d]] = d
  BY <1>1, <1>3, <1>5, <1>7 DEF SessionInv, Registered
<1>9. \A d \in cleanup' : pc'[SyncOf(d)] = "closed"
  BY <1>3, <1>5, <1>6 DEF SessionInv
<1>10. \A d \in Client : /\ pc'[SyncOf(d)] \in SyncPlaces
                         /\ pc'[SyncOf(d)] = "new" => id'[d] = NoOne
  BY <1>1, <1>3, <1>5 DEF SessionInv, SessionTypes
<1> QED BY <1>3, <1>6, <1>8, <1>9, <1>10 DEF SessionInv, SessionTypes

(* The detached task of RegistrationGuard::drop removes its own entry.     *)
LEMMA RemoveKeeps ==
    ASSUME SessionInv, NEW c \in Client, RemoveEntry(c)
    PROVE  SessionInv'
<1>1. /\ c \in cleanup /\ cleanup' = cleanup \ {c}
      /\ registry' = [registry EXCEPT ![id[c]] = NoOne]
      /\ UNCHANGED <<id, pc>>
  BY DEF RemoveEntry
<1>2. id[c] \in Holder /\ registry[id[c]] = c /\ pc[SyncOf(c)] = "closed"
  BY <1>1 DEF SessionInv, Registered
<1>3. "closed" \notin Serving \cup {"responding"}
  BY DEF Serving
<1>4. \A d \in Client : Registered(d)' => id'[d] \in Holder /\ registry'[id'[d]] = d
  <2> SUFFICES ASSUME NEW d \in Client, Registered(d)'
               PROVE  id'[d] \in Holder /\ registry'[id'[d]] = d
    OBVIOUS
  <2>1. Registered(d) /\ d # c
    BY <1>1, <1>2, <1>3 DEF Registered
  <2>2. id[d] \in Holder /\ registry[id[d]] = d
    BY <2>1 DEF SessionInv
  <2>3. id[d] # id[c]
    BY <1>2, <2>1, <2>2
  <2> QED BY <1>1, <2>2, <2>3 DEF SessionInv, SessionTypes
<1>5. registry' \in [Holder -> Client \cup {NoOne}]
  BY <1>1 DEF SessionInv, SessionTypes
<1> QED BY <1>1, <1>4, <1>5 DEF SessionInv, SessionTypes

(* Every step keeps ids, entries and places in agreement.                  *)
LEMMA SessionNext == SessionInv /\ [Next]_vars => SessionInv'
<1> SUFFICES ASSUME SessionInv, [Next]_vars PROVE SessionInv'
  OBVIOUS
<1>0. /\ Serving \subseteq AsyncPlaces /\ {"locking", "closed"} \subseteq AsyncPlaces
      /\ {"reading", "gated", "queued", "onbus"} \subseteq Serving
  BY DEF Serving, AsyncPlaces
<1>1. ASSUME NEW c \in Client, Initialize(c) PROVE SessionInv'
  BY <1>1, InitializeKeeps
<1>2. ASSUME NEW c \in Client, InitializeRefused(c) PROVE SessionInv'
  BY <1>2, CloseKeeps DEF InitializeRefused, Goto, sessionVars
<1>3. ASSUME NEW c \in Client, Initialized(c) PROVE SessionInv'
  <2>1. /\ pc[SyncOf(c)] = "responding" /\ pc' = [pc EXCEPT ![SyncOf(c)] = "reading"]
        /\ UNCHANGED <<registry, id, cleanup>>
    BY <1>3 DEF Initialized, Goto, sessionVars
  <2>2. /\ pc'[SyncOf(c)] = "reading"
        /\ \A d \in Client : d # c => pc'[SyncOf(d)] = pc[SyncOf(d)]
        /\ pc' \in [Task -> SyncPlaces \cup AsyncPlaces]
    BY <1>0, <2>1, TaskFacts DEF SessionInv, SessionTypes
  <2>3. "reading" \in SyncPlaces /\ "reading" # "new"
    BY <1>0 DEF SyncPlaces
  <2>4. Registered(c) /\ c \notin cleanup
    BY <2>1 DEF SessionInv, Registered
  <2> QED BY <2>1, <2>2, <2>3, <2>4 DEF SessionInv, SessionTypes, Registered
<1>4. ASSUME NEW c \in Client, InitializeResponseFails(c) PROVE SessionInv'
  BY <1>4, CloseKeeps DEF InitializeResponseFails, Goto
<1>5. ASSUME NEW c \in Client, AsyncInitialize(c) PROVE SessionInv'
  <2>1. PICK to \in {"reading", "closed"} : pc' = [pc EXCEPT ![AsyncOf(c)] = to]
    BY <1>5 DEF AsyncInitialize, Goto
  <2>2. UNCHANGED <<registry, id, cleanup>>
    BY <1>5 DEF AsyncInitialize
  <2>3. AsyncOf(c) \in Task /\ to \in AsyncPlaces /\ \A d \in Client : AsyncOf(c) # SyncOf(d)
    BY <1>0, <2>1, TaskFacts
  <2> QED BY <2>1, <2>2, <2>3, WithinSessions
<1>6. ASSUME NEW c \in Client, NEW l \in LockString, Lock(c, l) PROVE SessionInv'
  <2>1. UNCHANGED <<registry, id, cleanup>>
    BY <1>6 DEF Lock, sessionVars
  <2>2. pc' = pc \/ pc' = [pc EXCEPT ![AsyncOf(c)] = "locking"]
    BY <1>6 DEF Lock, Goto
  <2> QED BY <1>0, <2>1, <2>2, TaskFacts, WithinSessions, SessionsAsTheyAre
<1>7. ASSUME NEW c \in Client, NEW late \in BOOLEAN, LockResume(c, late) PROVE SessionInv'
  <2>1. UNCHANGED <<registry, id, cleanup>>
    BY <1>7 DEF LockResume, sessionVars
  <2>2. pc' = pc \/ pc' = [pc EXCEPT ![AsyncOf(c)] = "reading"]
    BY <1>7 DEF LockResume, Goto
  <2> QED BY <1>0, <2>1, <2>2, TaskFacts, WithinSessions, SessionsAsTheyAre
<1>8. ASSUME NEW c \in Client, Unlock(c) \/ HangUpSync(c) \/ HangUpAsync(c) PROVE SessionInv'
  BY <1>8, SessionsAsTheyAre DEF Unlock, HangUpSync, HangUpAsync, sessionVars
<1>9. ASSUME NEW c \in Client, SyncClose(c) PROVE SessionInv'
  BY <1>9, CloseKeeps DEF SyncClose, Goto
<1>10. ASSUME NEW c \in Client, RemoveEntry(c) PROVE SessionInv'
  BY <1>10, RemoveKeeps
<1>11. ASSUME NEW c \in Client, AsyncClose(c) PROVE SessionInv'
  <2>1. UNCHANGED <<registry, id, cleanup>> /\ pc' = [pc EXCEPT ![AsyncOf(c)] = "closed"]
    BY <1>11 DEF AsyncClose, Goto, sessionVars
  <2>2. AsyncOf(c) \in Task /\ "closed" \in AsyncPlaces /\ \A d \in Client : AsyncOf(c) # SyncOf(d)
    BY <1>0, TaskFacts
  <2> QED BY <2>1, <2>2, WithinSessions
<1>12. ASSUME NEW t \in Task, Message(t) \/ Resume(t) \/ BusStart(t) \/ BusDone(t)
       PROVE  SessionInv'
  <2>1. UNCHANGED <<registry, id, cleanup>>
    BY <1>12 DEF Message, Resume, BusStart, BusDone, sessionVars
  <2>2. \/ pc' = pc
        \/ /\ pc[t] \in Serving
           /\ \E to \in Serving : pc' = [pc EXCEPT ![t] = to]
    BY <1>0, <1>12 DEF Message, Resume, BusStart, BusDone, PassGate, Goto
  <2> QED BY <1>0, <2>1, <2>2, WithinSessions, SessionsAsTheyAre
<1>13. CASE UNCHANGED vars
  BY <1>13, SessionsAsTheyAre DEF vars, sessionVars
<1> QED BY <1>1, <1>2, <1>3, <1>4, <1>5, <1>6, <1>7, <1>8, <1>9, <1>10, <1>11, <1>12, <1>13 DEF Next

(* Until its removal has run, the entry under a session's id is its own:   *)
(* the detached removal never unplugs a later session (SessionRegistry,    *)
(* RegistrationGuard::drop), however the two connections end.              *)
THEOREM EntriesOwned == Spec => []EntryIsOwn
<1>1. SessionInv => EntryIsOwn
  BY DEF SessionInv, EntryIsOwn, Registered
<1> QED BY <1>1, SessionInit, SessionNext, PTL DEF Spec

-----------------------------------------------------------------------------
(* Locks, with clients that close in order.                                *)

AsyncAlive(c) == pc[AsyncOf(c)] \notin {"new", "closed"}

(* An asynchronous task that is alive serves its own session, which is     *)
(* served too and not about to end; a session ends only after its client   *)
(* ended the connection.                                                   *)
ConnInv ==
    /\ entry \in [Client -> Client \cup {NoOne}]
    /\ \A c \in Client : AsyncAlive(c) =>
          entry[c] = c /\ SyncOf(c) \notin hung /\ pc[SyncOf(c)] \in Serving
    /\ \A c \in Client : pc[SyncOf(c)] = "closed" /\ id[c] # NoOne => SyncOf(c) \in hung

LockInv ==
    /\ SessionInv
    /\ ConnInv
    /\ TableOK(table)
    /\ want \in [Client -> LockString]
    /\ LocksBelongToSessions

(* What a step may change about the connections of a client.               *)
Effects(c) ==
    /\ pc[SyncOf(c)] \in Serving =>
          id'[c] = id[c] /\ (pc'[SyncOf(c)] \in Serving \/ SyncClose(c))
    /\ pc'[SyncOf(c)] = "closed" =>
          \/ pc[SyncOf(c)] = "closed" /\ id'[c] = id[c]
          \/ id'[c] = NoOne
          \/ SyncOf(c) \in hung
    /\ AsyncAlive(c)' => (AsyncAlive(c) /\ entry'[c] = entry[c]) \/ AsyncInitialize(c)
    /\ hung \subseteq hung'
    /\ SyncOf(c) \in hung' => SyncOf(c) \in hung \/ HangUpSync(c)

(* A task moves and everything else about the connections stays.           *)
LEMMA MoveEffects ==
    ASSUME SessionInv, UNCHANGED <<id, hung, entry>>, NEW c \in Client,
           NEW t \in Task, NEW to, pc' = [pc EXCEPT ![t] = to],
           pc[t] \notin {"new", "closed"},
           \A d \in Client : t = SyncOf(d) => to \in Serving
    PROVE  Effects(c)
<1>1. "closed" \notin Serving
  BY DEF Serving
<1>2. /\ pc'[SyncOf(c)] = IF t = SyncOf(c) THEN to ELSE pc[SyncOf(c)]
      /\ pc'[AsyncOf(c)] = IF t = AsyncOf(c) THEN to ELSE pc[AsyncOf(c)]
  BY TaskFacts DEF SessionInv, SessionTypes
<1> QED BY <1>1, <1>2 DEF Effects, AsyncAlive

(* A synchronous task moves; asynchronous ones stay.                       *)
LEMMA SyncEffects ==
    ASSUME SessionInv, UNCHANGED <<id, hung, entry>>, NEW c \in Client, NEW d \in Client,
           NEW to \in SyncPlaces, pc' = [pc EXCEPT ![SyncOf(d)] = to],
           pc[SyncOf(d)] \notin Serving \/ SyncClose(d),
           to = "closed" => id[d] = NoOne \/ SyncOf(d) \in hung
    PROVE  Effects(c)
<1>1. /\ pc'[SyncOf(c)] = IF c = d THEN to ELSE pc[SyncOf(c)]
      /\ pc'[AsyncOf(c)] = pc[AsyncOf(c)]
  BY TaskFacts DEF SessionInv, SessionTypes
<1> QED BY <1>1 DEF Effects, AsyncAlive

(* Whatever the step, its effects on a client are of these kinds.          *)
LEMMA StepEffects ==
    ASSUME SessionInv, entry \in [Client -> Client \cup {NoOne}], [Next]_vars, NEW c \in Client
    PROVE  Effects(c)
<1>0. /\ {"reading", "gated", "queued", "onbus"} \subseteq Serving
      /\ \A p \in Serving : p \notin {"new", "closed"}
      /\ {"new", "responding"} \cap Serving = {}
      /\ {"reading", "responding", "closed"} \subseteq SyncPlaces
  BY DEF Serving, SyncPlaces
<1>1. ASSUME NEW d \in Client, Initialize(d) PROVE Effects(c)
  <2>1. /\ pc[SyncOf(d)] \notin Serving /\ pc' = [pc EXCEPT ![SyncOf(d)] = "responding"]
        /\ hung' = hung /\ entry' = entry
    BY <1>0, <1>1 DEF Initialize, Goto
  <2>2. c # d => id'[c] = id[c]
    BY <1>1 DEF Initialize, SessionInv, SessionTypes
  <2>3. /\ pc'[SyncOf(c)] = IF c = d THEN "responding" ELSE pc[SyncOf(c)]
        /\ pc'[AsyncOf(c)] = pc[AsyncOf(c)]
    BY <2>1, TaskFacts DEF SessionInv, SessionTypes
  <2> QED BY <2>1, <2>2, <2>3 DEF Effects, AsyncAlive
<1>2. ASSUME NEW d \in Client, InitializeRefused(d) PROVE Effects(c)
  <2>1. /\ pc[SyncOf(d)] = "new" /\ pc' = [pc EXCEPT ![SyncOf(d)] = "closed"]
        /\ UNCHANGED <<id, hung, entry>>
    BY <1>2 DEF InitializeRefused, Goto, sessionVars
  <2>2. id[d] = NoOne /\ pc[SyncOf(d)] \notin Serving
    BY <1>0, <2>1 DEF SessionInv
  <2> QED BY <2>1, <2>2, <1>0, SyncEffects
<1>3. ASSUME NEW d \in Client, Initialized(d) PROVE Effects(c)
  <2>1. /\ pc[SyncOf(d)] \notin Serving /\ pc' = [pc EXCEPT ![SyncOf(d)] = "reading"]
        /\ UNCHANGED <<id, hung, entry>>
    BY <1>0, <1>3 DEF Initialized, Goto, sessionVars
  <2> QED BY <2>1, <1>0, SyncEffects
<1>4. ASSUME NEW d \in Client, InitializeResponseFails(d) PROVE Effects(c)
  <2>1. /\ pc[SyncOf(d)] \notin Serving /\ pc' = [pc EXCEPT ![SyncOf(d)] = "closed"]
        /\ hung' = hung /\ entry' = entry /\ SyncOf(d) \in hung
    BY <1>0, <1>4 DEF InitializeResponseFails, Goto
  <2>2. c # d => id'[c] = id[c]
    BY <1>4 DEF InitializeResponseFails, SessionInv, SessionTypes
  <2>3. /\ pc'[SyncOf(c)] = IF c = d THEN "closed" ELSE pc[SyncOf(c)]
        /\ pc'[AsyncOf(c)] = pc[AsyncOf(c)]
    BY <2>1, TaskFacts DEF SessionInv, SessionTypes
  <2> QED BY <2>1, <2>2, <2>3 DEF Effects, AsyncAlive
<1>5. ASSUME NEW d \in Client, AsyncInitialize(d) PROVE Effects(c)
  <2>1. PICK to \in {"reading", "closed"} : pc' = [pc EXCEPT ![AsyncOf(d)] = to]
    BY <1>5 DEF AsyncInitialize, Goto
  <2>2. UNCHANGED <<id, hung>> /\ \A e \in Client : e # d => entry'[e] = entry[e]
    BY <1>5 DEF AsyncInitialize
  <2>3. /\ pc'[SyncOf(c)] = pc[SyncOf(c)]
        /\ c # d => pc'[AsyncOf(c)] = pc[AsyncOf(c)]
    BY <2>1, TaskFacts DEF SessionInv, SessionTypes
  <2> QED BY <1>5, <2>2, <2>3 DEF Effects, AsyncAlive
<1>6. ASSUME UNCHANGED <<id, hung, entry, pc>> PROVE Effects(c)
  BY <1>6 DEF Effects, AsyncAlive
<1>7. ASSUME NEW d \in Client, NEW l \in LockString, Lock(d, l) PROVE Effects(c)
  <2>1. UNCHANGED <<id, hung, entry>> /\ pc[AsyncOf(d)] = "reading"
    BY <1>7 DEF Lock, sessionVars
  <2>2. pc' = pc \/ pc' = [pc EXCEPT ![AsyncOf(d)] = "locking"]
    BY <1>7 DEF Lock, Goto
  <2> QED BY <1>6, <2>1, <2>2, TaskFacts, MoveEffects
<1>8. ASSUME NEW d \in Client, NEW late \in BOOLEAN, LockResume(d, late) PROVE Effects(c)
  <2>1. UNCHANGED <<id, hung, entry>> /\ pc[AsyncOf(d)] = "locking"
    BY <1>8 DEF LockResume, sessionVars
  <2>2. pc' = pc \/ pc' = [pc EXCEPT ![AsyncOf(d)] = "reading"]
    BY <1>8 DEF LockResume, Goto
  <2> QED BY <1>6, <2>1, <2>2, TaskFacts, MoveEffects
<1>9. ASSUME NEW d \in Client, Unlock(d) \/ RemoveEntry(d) PROVE Effects(c)
  BY <1>6, <1>9 DEF Unlock, RemoveEntry, sessionVars
<1>10. ASSUME NEW d \in Client, HangUpSync(d) PROVE Effects(c)
  <2>1. UNCHANGED <<id, entry, pc>> /\ hung' = hung \cup {SyncOf(d)}
    BY <1>10 DEF HangUpSync, sessionVars
  <2> QED BY <1>10, <2>1, TaskFacts DEF Effects, AsyncAlive
<1>11. ASSUME NEW d \in Client, HangUpAsync(d) PROVE Effects(c)
  <2>1. UNCHANGED <<id, entry, pc>> /\ hung' = hung \cup {AsyncOf(d)}
    BY <1>11 DEF HangUpAsync, sessionVars
  <2> QED BY <2>1, TaskFacts DEF Effects, AsyncAlive
<1>12. ASSUME NEW d \in Client, SyncClose(d) PROVE Effects(c)
  <2>1. /\ pc' = [pc EXCEPT ![SyncOf(d)] = "closed"] /\ SyncOf(d) \in hung
        /\ UNCHANGED <<id, hung, entry>>
    BY <1>12 DEF SyncClose, Goto
  <2> QED BY <1>12, <2>1, <1>0, SyncEffects
<1>13. ASSUME NEW d \in Client, AsyncClose(d) PROVE Effects(c)
  <2>1. /\ pc' = [pc EXCEPT ![AsyncOf(d)] = "closed"] /\ pc[AsyncOf(d)] = "reading"
        /\ UNCHANGED <<id, hung, entry>>
    BY <1>13 DEF AsyncClose, Goto, sessionVars
  <2>2. AsyncOf(d) \in Task /\ \A e \in Client : AsyncOf(d) # SyncOf(e)
    BY TaskFacts
  <2>3. pc[AsyncOf(d)] \notin {"new", "closed"}
    BY <2>1
  <2> QED BY <2>1, <2>2, <2>3, MoveEffects
<1>14. ASSUME NEW t \in Task, Message(t) \/ Resume(t) \/ BusStart(t) \/ BusDone(t)
       PROVE  Effects(c)
  <2>1. UNCHANGED <<id, hung, entry>>
    BY <1>14 DEF Message, Resume, BusStart, BusDone, sessionVars
  <2>2. \/ pc' = pc
        \/ /\ pc[t] \in Serving
           /\ \E to \in Serving : pc' = [pc EXCEPT ![t] = to]
    BY <1>0, <1>14 DEF Message, Resume, BusStart, BusDone, PassGate, Goto
  <2> QED BY <1>0, <1>6, <2>1, <2>2, MoveEffects
<1>15. CASE UNCHANGED vars
  BY <1>6, <1>15 DEF vars, sessionVars
<1> QED BY <1>1, <1>2, <1>3, <1>4, <1>5, <1>7, <1>8, <1>9, <1>10, <1>11, <1>12, <1>13, <1>14, <1>15 DEF Next

(* A client keeps its own entry until it goes.                             *)
LEMMA ConnNext == ASSUME OrderlyClose, SessionInv, ConnInv, [Next]_vars PROVE ConnInv'
<1>1. \A c \in Client : Effects(c)
  BY StepEffects DEF ConnInv
<1>2. entry' \in [Client -> Client \cup {NoOne}]
  <2>1. CASE UNCHANGED entry
    BY <2>1 DEF ConnInv
  <2>2. ASSUME NEW c \in Client, AsyncInitialize(c) PROVE entry' \in [Client -> Client \cup {NoOne}]
    <3>1. registry[id[c]] \in Client \cup {NoOne}
      BY <2>2 DEF AsyncInitialize, SessionInv, SessionTypes
    <3> QED BY <2>2, <3>1 DEF AsyncInitialize, ConnInv
  <2>3. (\E c \in Client : AsyncInitialize(c)) \/ UNCHANGED entry
    BY DEF Next, Initialize, InitializeRefused, Initialized, InitializeResponseFails, Lock,
           LockResume, Unlock, HangUpSync, HangUpAsync, SyncClose, RemoveEntry, AsyncClose,
           Message, Resume, BusStart, BusDone, vars, sessionVars
  <2> QED BY <2>1, <2>2, <2>3
<1>3. ASSUME NEW c \in Client, AsyncAlive(c)'
      PROVE  entry'[c] = c /\ SyncOf(c) \notin hung' /\ pc'[SyncOf(c)] \in Serving
  <2>1. CASE AsyncAlive(c) /\ entry'[c] = entry[c]
    <3>1. entry[c] = c /\ SyncOf(c) \notin hung /\ pc[SyncOf(c)] \in Serving
      BY <2>1 DEF ConnInv
    <3>2. ~SyncClose(c)
      BY <3>1 DEF SyncClose
    <3>3. ~HangUpSync(c)
      BY <2>1 DEF HangUpSync, AsyncAlive
    <3> QED BY <1>1, <2>1, <3>1, <3>2, <3>3 DEF Effects
  <2>2. CASE AsyncInitialize(c)
    <3>1. /\ id[c] # NoOne /\ pc[SyncOf(c)] # "responding" /\ SyncOf(c) \notin hung
          /\ pc[AsyncOf(c)] = "new" /\ hung' = hung
      BY <2>2 DEF AsyncInitialize
    <3>2. pc[SyncOf(c)] \in Serving
      BY <3>1 DEF SessionInv, SessionTypes, SyncPlaces, ConnInv
    <3>3. registry[id[c]] = c
      BY <3>2 DEF SessionInv, Registered
    <3>4. pc'[AsyncOf(c)] # "closed"
      BY <1>3 DEF AsyncAlive
    <3>5. pc' # [pc EXCEPT ![AsyncOf(c)] = "closed"]
      BY <3>4, TaskFacts DEF SessionInv, SessionTypes
    <3>6. entry' = [entry EXCEPT ![c] = c] /\ pc' = [pc EXCEPT ![AsyncOf(c)] = "reading"]
      BY <2>2, <3>3, <3>5 DEF AsyncInitialize, Goto
    <3>7. entry'[c] = c /\ pc'[SyncOf(c)] = pc[SyncOf(c)]
      BY <3>6, TaskFacts DEF ConnInv, SessionInv, SessionTypes
    <3> QED BY <3>1, <3>2, <3>7
  <2> QED BY <1>1, <1>3, <2>1, <2>2 DEF Effects
<1>4. ASSUME NEW c \in Client, pc'[SyncOf(c)] = "closed", id'[c] # NoOne
      PROVE  SyncOf(c) \in hung'
  BY <1>1, <1>4 DEF Effects, ConnInv
<1> QED BY <1>2, <1>3, <1>4 DEF ConnInv

(* Nobody gains a lock but sessions that are served, and these stay so.    *)
LEMMA LocksKept ==
    ASSUME LocksBelongToSessions, \A c \in Client : Effects(c) /\ ~SyncClose(c),
           \A h \in HoldersOf(table') :
              \/ h \in HoldersOf(table)
              \/ \E c \in Client : id[c] = h /\ pc[SyncOf(c)] \in Serving
    PROVE  LocksBelongToSessions'
BY DEF LocksBelongToSessions, Effects

(* The session of an asynchronous task that asks for a lock is its own.    *)
LEMMA AsksForItself ==
    ASSUME SessionInv, ConnInv, NEW c \in Client, AsyncAlive(c)
    PROVE  /\ IdOf(AsyncOf(c)) = id[c] /\ id[c] \in Holder
           /\ pc[SyncOf(c)] \in Serving /\ ~SyncClose(c)
<1>1. entry[c] = c /\ SyncOf(c) \notin hung /\ pc[SyncOf(c)] \in Serving
  BY DEF ConnInv
<1> QED BY <1>1, IdOfAsync DEF SessionInv, Registered, SyncClose

(* release_all: what is left belongs to other sessions.                    *)
LEMMA CloseReleases ==
    ASSUME LockInv, NEW c \in Client, SyncClose(c)
    PROVE  TableOK(table)' /\ LocksBelongToSessions'
<1>1. /\ pc[SyncOf(c)] = "reading" /\ pc' = [pc EXCEPT ![SyncOf(c)] = "closed"]
      /\ table' = ReleaseEvery(table, id[c]) /\ id' = id
  BY DEF SyncClose, Goto
<1>2. id[c] \in Holder
  <2>1. pc[SyncOf(c)] \in Serving
    BY <1>1 DEF Serving
  <2> QED BY <2>1 DEF LockInv, SessionInv, Registered
<1>3. TableOK(table') /\ HoldersOf(table') = HoldersOf(table) \ {id[c]}
  <2>1. TableOK(ReleaseEvery(table, id[c]))
    BY <1>2, ReleaseEveryOK DEF LockInv
  <2>2. HoldersOf(ReleaseEvery(table, id[c])) = HoldersOf(table) \ {id[c]}
    BY <1>2, HoldersAfter DEF LockInv
  <2> QED BY <1>1, <2>1, <2>2
<1>4. \A d \in Client : d # c => pc'[SyncOf(d)] = pc[SyncOf(d)]
  BY <1>1, TaskFacts DEF LockInv, SessionInv, SessionTypes
<1>5. LocksBelongToSessions'
  BY <1>1, <1>3, <1>4 DEF LockInv, LocksBelongToSessions
<1> QED BY <1>3, <1>5

(* Every step keeps locks with sessions that live.                         *)
LEMMA LockNext == ASSUME OrderlyClose, LockInv, [Next]_vars PROVE LockInv'
<1>1. SessionInv' /\ ConnInv'
  BY SessionNext, ConnNext DEF LockInv
<1>2. \A c \in Client : Effects(c)
  BY StepEffects DEF LockInv, ConnInv
<1>3. want' \in [Client -> LockString]
  BY DEF Next, Initialize, InitializeRefused, Initialized, InitializeResponseFails, AsyncInitialize,
         Lock, LockResume, Unlock, HangUpSync, HangUpAsync, SyncClose, RemoveEntry, AsyncClose,
         Message, Resume, BusStart, BusDone, vars, lockVars, LockInv
<1>4. ASSUME NEW c \in Client, SyncClose(c) PROVE TableOK(table)' /\ LocksBelongToSessions'
  BY <1>4, CloseReleases
<1>5. ASSUME \A c \in Client : ~SyncClose(c) PROVE TableOK(table)' /\ LocksBelongToSessions'
  <2>1. ASSUME NEW c \in Client, NEW l \in LockString, AsyncAlive(c),
               CanGrant(table, IdOf(AsyncOf(c)), l),
               table' = Grant(table, IdOf(AsyncOf(c)), l)
        PROVE  TableOK(table)' /\ LocksBelongToSessions'
    <3>1. IdOf(AsyncOf(c)) = id[c] /\ id[c] \in Holder /\ pc[SyncOf(c)] \in Serving
      BY <2>1, AsksForItself DEF LockInv
    <3>2. TableOK(table') /\ HoldersOf(table') = HoldersOf(table) \cup {id[c]}
      BY <2>1, <3>1, GrantOK, HoldersAfter DEF LockInv
    <3> QED BY <1>2, <1>5, <3>1, <3>2, LocksKept DEF LockInv
  <2>2. ASSUME table' = table PROVE TableOK(table)' /\ LocksBelongToSessions'
    BY <1>2, <1>5, <2>2, LocksKept DEF LockInv
  <2>3. ASSUME NEW c \in Client, Unlock(c) PROVE TableOK(table)' /\ LocksBelongToSessions'
    <3>1. /\ AsyncAlive(c) /\ Holds(table, IdOf(AsyncOf(c)))
          /\ table' = ReleaseLevel(table, IdOf(AsyncOf(c)))
      BY <2>3 DEF Unlock, AsyncAlive
    <3>2. IdOf(AsyncOf(c)) \in Holder
      BY <3>1, AsksForItself DEF LockInv
    <3>3. TableOK(table') /\ HoldersOf(table') \subseteq HoldersOf(table)
      BY <3>1, <3>2, ReleaseLevelOK, HoldersAfter DEF LockInv
    <3> QED BY <1>2, <1>5, <3>3, LocksKept DEF LockInv
  <2>4. ASSUME NEW c \in Client, NEW l \in LockString, Lock(c, l)
        PROVE  TableOK(table)' /\ LocksBelongToSessions'
    BY <2>1, <2>2, <2>4 DEF Lock, AsyncAlive
  <2>5. ASSUME NEW c \in Client, NEW late \in BOOLEAN, LockResume(c, late)
        PROVE  TableOK(table)' /\ LocksBelongToSessions'
    <3>1. PICK l \in LockString : want[c] = l
      BY DEF LockInv
    <3>2. AsyncAlive(c)
      BY <2>5 DEF LockResume, AsyncAlive
    <3>3. \/ /\ CanGrant(table, IdOf(AsyncOf(c)), l)
             /\ table' = Grant(table, IdOf(AsyncOf(c)), l)
          \/ table' = table
      BY <2>5, <3>1 DEF LockResume
    <3> QED BY <2>1, <2>2, <3>2, <3>3
  <2>6. \/ \E c \in Client : \/ Unlock(c)
                             \/ \E l \in LockString : Lock(c, l)
                             \/ \E late \in BOOLEAN : LockResume(c, late)
        \/ table' = table
    BY <1>5 DEF Next, Initialize, InitializeRefused, Initialized, InitializeResponseFails,
           AsyncInitialize, HangUpSync, HangUpAsync, RemoveEntry, AsyncClose,
           Message, Resume, BusStart, BusDone, vars, lockVars
  <2> QED BY <2>2, <2>3, <2>4, <2>5, <2>6
<1> QED BY <1>1, <1>2, <1>3, <1>4, <1>5 DEF LockInv

(* No lock is held at the start.                                           *)
LEMMA LockInit == Init => LockInv
<1> SUFFICES ASSUME Init PROVE LockInv
  OBVIOUS
<1>1. SessionInv
  BY SessionInit
<1>2. \A c \in Client : pc[SyncOf(c)] = "new" /\ pc[AsyncOf(c)] = "new"
  BY TaskFacts DEF Init
<1>3. ConnInv
  BY <1>2 DEF ConnInv, AsyncAlive, Init
<1>4. TableOK(table) /\ HoldersOf(table) = {}
  BY EmptyTableOK, HoldsHasLevels DEF Init, HoldersOf
<1>5. want \in [Client -> LockString]
  BY DEF Init, LockString
<1> QED BY <1>1, <1>3, <1>4, <1>5 DEF LockInv, LocksBelongToSessions

(* Locks go away with the session, for clients that close their            *)
(* asynchronous connection first: every lock belongs to a session whose    *)
(* synchronous connection is served (RegistrationGuard::drop releases them *)
(* all, and no request is granted afterwards).                             *)
THEOREM LocksGoWithSessions ==
    ASSUME OrderlyClose
    PROVE  Spec => []LocksBelongToSessions
<1>1. LockInv /\ [Next]_vars => LockInv'
  BY LockNext
<1>2. LockInv => LocksBelongToSessions
  BY DEF LockInv
<1> QED BY <1>1, <1>2, LockInit, PTL DEF Spec
=============================================================================
