------------------------------ MODULE LockTable ------------------------------
(***************************************************************************)
(* Who holds what on one instrument: the LockTable of                      *)
(* src/frontend/lock.rs and the tests and updates that the registry's      *)
(* operations make on it while they hold the registry's mutex.  Both       *)
(* front-ends that take locks, HiSLIP and VXI-11, act on these tables.     *)
(***************************************************************************)
EXTENDS Naturals, FiniteSets

CONSTANTS
    Holder,     \* HolderId: HiSLIP sessions and VXI-11 links, one name space
    Name,       \* the non-empty lock strings: shared locks
    Exclusive,  \* the empty lock string: the exclusive lock
    NoOne       \* Rust's None, for a holder and for a name

ASSUME SentinelsAssumption ==
    /\ NoOne \notin Holder
    /\ NoOne \notin Name
    /\ Exclusive \notin Name

LockString == Name \cup {Exclusive}

(* A shared depth of 0 stands for a holder absent from the map.            *)
Table == [exclusive  : Holder \cup {NoOne},
          depth      : Nat,
          sharedName : Name \cup {NoOne},
          shared     : [Holder -> Nat]]

(* The registry drops a table when it becomes empty; a missing table and   *)
(* an empty one answer every question alike, so both are this value.       *)
EmptyTable == [exclusive  |-> NoOne,
               depth      |-> 0,
               sharedName |-> NoOne,
               shared     |-> [h \in Holder |-> 0]]

SharedHolders(tbl) == {h \in Holder : tbl.shared[h] > 0}

Holds(tbl, h) == tbl.exclusive = h \/ tbl.shared[h] > 0

(* How deep a holder is nested, both kinds of lock together.               *)
Levels(tbl, h) ==
    (IF tbl.exclusive = h THEN tbl.depth ELSE 0) + tbl.shared[h]

HoldersOf(tbl) == {h \in Holder : Holds(tbl, h)}

IsEmpty(tbl) == tbl.exclusive = NoOne /\ SharedHolders(tbl) = {}

GrantsAccess(tbl, h) == Holds(tbl, h) \/ IsEmpty(tbl)

-----------------------------------------------------------------------------
(* try_request, first the test and then the update.                        *)

CanGrantIgnoringShared(tbl, h, l) ==
    IF l = Exclusive
    THEN tbl.exclusive \in {NoOne, h}
    ELSE tbl.exclusive \in {NoOne, h} /\ tbl.sharedName \in {NoOne, l}

CanGrant(tbl, h, l) ==
    IF l = Exclusive
    THEN \/ tbl.exclusive = h
         \/ tbl.exclusive = NoOne /\ SharedHolders(tbl) \subseteq {h}
    ELSE tbl.exclusive \in {NoOne, h} /\ tbl.sharedName \in {NoOne, l}

GrantWithoutNesting(tbl, h, l) ==
    IF l = Exclusive
    THEN [tbl EXCEPT !.exclusive = h, !.depth = 1]
    ELSE [tbl EXCEPT !.sharedName = l, !.shared[h] = @ + 1]

Grant(tbl, h, l) ==
    IF l = Exclusive
    THEN [tbl EXCEPT !.exclusive = h,
                     !.depth = IF tbl.exclusive = h THEN @ + 1 ELSE 1]
    ELSE [tbl EXCEPT !.sharedName = l, !.shared[h] = @ + 1]

-----------------------------------------------------------------------------
(* release: one level of the exclusive lock if the caller has it, else one *)
(* level of its shared lock, else nothing (LockResponse::Error).           *)

KeepSharedName(tbl, shared) == [tbl EXCEPT !.shared = shared]

DropShared(tbl, shared) ==
    [tbl EXCEPT !.shared = shared,
                !.sharedName = IF \A h \in Holder : shared[h] = 0
                               THEN NoOne ELSE @]

ReleaseLevelKeepingHolder(tbl, h) ==
    IF tbl.exclusive = h
    THEN [tbl EXCEPT !.depth = @ - 1]
    ELSE IF tbl.shared[h] > 0
         THEN DropShared(tbl, [tbl.shared EXCEPT ![h] = @ - 1])
         ELSE tbl

ReleaseLevel(tbl, h) ==
    IF tbl.exclusive = h
    THEN IF tbl.depth = 1
         THEN [tbl EXCEPT !.exclusive = NoOne, !.depth = 0]
         ELSE [tbl EXCEPT !.depth = @ - 1]
    ELSE IF tbl.shared[h] > 0
         THEN DropShared(tbl, [tbl.shared EXCEPT ![h] = @ - 1])
         ELSE tbl

(* release_all on one table: every level of both kinds.                    *)
ReleaseEvery(tbl, h) ==
    LET unlocked == IF tbl.exclusive = h
                    THEN [tbl EXCEPT !.exclusive = NoOne, !.depth = 0]
                    ELSE tbl
    IN  IF tbl.shared[h] > 0
        THEN DropShared(unlocked, [tbl.shared EXCEPT ![h] = 0])
        ELSE unlocked

=============================================================================
