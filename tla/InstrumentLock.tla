--------------------------- MODULE InstrumentLock ---------------------------
(***************************************************************************)
(* What the lock registry promises its clients, without tables, nesting,   *)
(* tasks or timeouts: the viLock semantics listed at the head of           *)
(* src/frontend/lock.rs.  An exclusive owner excludes every other holder;  *)
(* sharers agree on one name, which cannot change under them.              *)
(***************************************************************************)
CONSTANTS Holder, Name, NoOne, Resource

VARIABLES
    owner,      \* the exclusive holder of each resource, or NoOne
    sharers,    \* its shared holders
    groupName   \* the name they share under, or NoOne

vars == <<owner, sharers, groupName>>

Init ==
    /\ owner = [r \in Resource |-> NoOne]
    /\ sharers = [r \in Resource |-> {}]
    /\ groupName = [r \in Resource |-> NoOne]

LockExclusive(r, h) ==
    /\ owner[r] = NoOne
    /\ sharers[r] \subseteq {h}
    /\ owner' = [owner EXCEPT ![r] = h]
    /\ UNCHANGED <<sharers, groupName>>

LockShared(r, h, n) ==
    /\ owner[r] \in {NoOne, h}
    /\ sharers[r] = {} \/ groupName[r] = n
    /\ sharers' = [sharers EXCEPT ![r] = @ \cup {h}]
    /\ groupName' = [groupName EXCEPT ![r] = n]
    /\ UNCHANGED owner

UnlockExclusive(r, h) ==
    /\ owner[r] = h
    /\ owner' = [owner EXCEPT ![r] = NoOne]
    /\ UNCHANGED <<sharers, groupName>>

NameAfter(group, name) == IF group = {} THEN NoOne ELSE name

UnlockShared(r, h) ==
    /\ h \in sharers[r]
    /\ sharers' = [sharers EXCEPT ![r] = @ \ {h}]
    /\ groupName' = [groupName EXCEPT ![r] = NameAfter(sharers[r] \ {h}, @)]
    /\ UNCHANGED owner

Leave(h) ==
    /\ owner' = [r \in Resource |-> IF owner[r] = h THEN NoOne ELSE owner[r]]
    /\ sharers' = [r \in Resource |-> sharers[r] \ {h}]
    /\ groupName' = [r \in Resource |->
                        NameAfter(sharers[r] \ {h}, groupName[r])]

Next ==
    \/ \E r \in Resource, h \in Holder :
           \/ LockExclusive(r, h)
           \/ \E n \in Name : LockShared(r, h, n)
           \/ UnlockExclusive(r, h)
           \/ UnlockShared(r, h)
    \/ \E h \in Holder : Leave(h)

Spec == Init /\ [][Next]_vars
=============================================================================
