-------------------------- MODULE LockTableProofs --------------------------
(***************************************************************************)
(* What a grant and a release do to one lock table, for any holders and    *)
(* names: the lemmas the proofs about the registry and about the two       *)
(* front-ends that take locks rest on.                                     *)
(***************************************************************************)
EXTENDS LockTable, TLAPS

(* The fields of a table agree with one another.                           *)
TableOK(tbl) ==
    /\ tbl \in Table
    /\ (tbl.depth = 0) <=> (tbl.exclusive = NoOne)
    /\ (tbl.sharedName = NoOne) <=> (SharedHolders(tbl) = {})
    /\ tbl.exclusive # NoOne => SharedHolders(tbl) \subseteq {tbl.exclusive}

-----------------------------------------------------------------------------
(* The fields of the table try_request leaves when it grants an exclusive  *)
(* lock.                                                                   *)
LEMMA GrantExclusiveFields ==
    ASSUME NEW tbl \in Table, NEW h \in Holder
    PROVE  LET new == Grant(tbl, h, Exclusive)
           IN  /\ new \in Table
               /\ new.exclusive = h
               /\ new.depth = IF tbl.exclusive = h THEN tbl.depth + 1 ELSE 1
               /\ new.shared = tbl.shared
               /\ new.sharedName = tbl.sharedName
<1> DEFINE d == IF tbl.exclusive = h THEN tbl.depth + 1 ELSE 1
<1>1. d \in Nat
  BY DEF Table
<1>2. Grant(tbl, h, Exclusive) = [tbl EXCEPT !.exclusive = h, !.depth = d]
  BY DEF Grant
<1>3. d = IF tbl.exclusive = h THEN tbl.depth + 1 ELSE 1
  OBVIOUS
<1> HIDE DEF d
<1> QED BY <1>1, <1>2, <1>3 DEF Table

(* The same for a shared lock.                                             *)
LEMMA GrantSharedFields ==
    ASSUME NEW tbl \in Table, NEW h \in Holder, NEW l \in Name
    PROVE  LET new == Grant(tbl, h, l)
           IN  /\ new \in Table
               /\ new.exclusive = tbl.exclusive
               /\ new.depth = tbl.depth
               /\ new.shared = [tbl.shared EXCEPT ![h] = @ + 1]
               /\ new.sharedName = l
<1> DEFINE s == [tbl.shared EXCEPT ![h] = @ + 1]
<1>1. s \in [Holder -> Nat]
  BY DEF Table
<1>2. Grant(tbl, h, l) = [tbl EXCEPT !.sharedName = l, !.shared = s]
  BY SentinelsAssumption DEF Grant, Table
<1>3. s = [tbl.shared EXCEPT ![h] = @ + 1]
  OBVIOUS
<1> HIDE DEF s
<1> QED BY <1>1, <1>2, <1>3 DEF Table

(* Removing shared levels forgets the name with the last sharer and        *)
(* touches nothing else.                                                   *)
LEMMA DropSharedFields ==
    ASSUME NEW tbl \in Table, NEW s \in [Holder -> Nat]
    PROVE  LET new == DropShared(tbl, s)
           IN  /\ new \in Table
               /\ new.exclusive = tbl.exclusive
               /\ new.depth = tbl.depth
               /\ new.shared = s
               /\ (\A g \in Holder : s[g] = 0) => new.sharedName = NoOne
               /\ (\E g \in Holder : s[g] # 0) =>
                      new.sharedName = tbl.sharedName
<1> DEFINE n == IF \A h \in Holder : s[h] = 0 THEN NoOne ELSE tbl.sharedName
<1>1. n \in Name \cup {NoOne}
  BY DEF Table
<1>2. /\ (\A g \in Holder : s[g] = 0) => n = NoOne
      /\ (\E g \in Holder : s[g] # 0) => n = tbl.sharedName
  OBVIOUS
<1>3. DropShared(tbl, s) = [tbl EXCEPT !.shared = s, !.sharedName = n]
  BY DEF DropShared
<1> HIDE DEF n
<1> QED BY <1>1, <1>2, <1>3 DEF Table

(* release without a lock leaves the table alone; with one, it takes off   *)
(* an exclusive level before any shared one.                               *)
LEMMA ReleaseLevelCases ==
    ASSUME NEW tbl \in Table, NEW h \in Holder
    PROVE  LET new == ReleaseLevel(tbl, h)
               s   == [tbl.shared EXCEPT ![h] = @ - 1]
           IN  /\ (tbl.exclusive = h /\ tbl.depth = 1) =>
                     new = [tbl EXCEPT !.exclusive = NoOne, !.depth = 0]
               /\ (tbl.exclusive = h /\ tbl.depth # 1) =>
                     new = [tbl EXCEPT !.depth = @ - 1]
               /\ (tbl.exclusive # h /\ tbl.shared[h] > 0) =>
                     new = DropShared(tbl, s) /\ s \in [Holder -> Nat]
BY DEF ReleaseLevel, Table

(* try_request: a grant keeps the table consistent and exclusive, and      *)
(* leaves it with a holder.                                                *)
LEMMA GrantOK ==
    ASSUME NEW tbl, TableOK(tbl), NEW h \in Holder, NEW l \in LockString,
           CanGrant(tbl, h, l)
    PROVE  /\ TableOK(Grant(tbl, h, l))
           /\ ~IsEmpty(Grant(tbl, h, l))
<1> DEFINE new == Grant(tbl, h, l)
<1>0. tbl \in Table /\ h # NoOne
  BY SentinelsAssumption DEF TableOK
<1>1. CASE l = Exclusive
  <2>1. /\ new \in Table
        /\ new.exclusive = h
        /\ new.depth = IF tbl.exclusive = h THEN tbl.depth + 1 ELSE 1
        /\ new.shared = tbl.shared
        /\ new.sharedName = tbl.sharedName
    BY <1>0, <1>1, GrantExclusiveFields
  <2>2. SharedHolders(new) = SharedHolders(tbl)
    BY <2>1 DEF SharedHolders
  <2>3. SharedHolders(tbl) \subseteq {h}
    BY <1>0, <1>1 DEF CanGrant, TableOK
  <2> HIDE DEF new
  <2>4. new.depth > 0
    BY <1>0, <2>1 DEF Table
  <2>5. TableOK(new)
    BY <1>0, <2>1, <2>2, <2>3, <2>4 DEF TableOK
  <2>6. ~IsEmpty(new)
    BY <1>0, <2>1 DEF IsEmpty
  <2> QED BY <2>5, <2>6 DEF new
<1>2. CASE l # Exclusive
  <2>0. l \in Name /\ l # NoOne
    BY <1>2, SentinelsAssumption DEF LockString
  <2>1. /\ new \in Table
        /\ new.exclusive = tbl.exclusive
        /\ new.depth = tbl.depth
        /\ new.shared = [tbl.shared EXCEPT ![h] = @ + 1]
        /\ new.sharedName = l
    BY <1>0, <2>0, GrantSharedFields
  <2>2. SharedHolders(new) = SharedHolders(tbl) \cup {h}
    BY <1>0, <2>1 DEF SharedHolders, Table
  <2>3. tbl.exclusive \in {NoOne, h}
    BY <1>2 DEF CanGrant
  <2> HIDE DEF new
  <2>4. TableOK(new)
    BY <2>0, <2>1, <2>2, <2>3 DEF TableOK
  <2>5. ~IsEmpty(new)
    BY <2>2 DEF IsEmpty
  <2> QED BY <2>4, <2>5 DEF new
<1> QED BY <1>1, <1>2

(* try_request: a grant to one caller never turns another caller's         *)
(* conflict into a grant, which is why a grant need not notify requests.   *)
LEMMA GrantKeepsConflicts ==
    ASSUME NEW tbl, TableOK(tbl),
           NEW h \in Holder, NEW l \in LockString, CanGrant(tbl, h, l),
           NEW g \in Holder, NEW m \in LockString, ~CanGrant(tbl, g, m)
    PROVE  ~CanGrant(Grant(tbl, h, l), g, m)
<1> DEFINE new == Grant(tbl, h, l)
<1>0. tbl \in Table /\ h # NoOne
  BY SentinelsAssumption DEF TableOK
<1>1. CASE l = Exclusive
  <2>1. /\ new.exclusive = h
        /\ new.shared = tbl.shared
        /\ new.sharedName = tbl.sharedName
    BY <1>0, <1>1, GrantExclusiveFields
  <2>2. SharedHolders(new) = SharedHolders(tbl)
    BY <2>1 DEF SharedHolders
  <2>3. \/ tbl.exclusive = h
        \/ tbl.exclusive = NoOne /\ SharedHolders(tbl) \subseteq {h}
    BY <1>1 DEF CanGrant
  <2> HIDE DEF new
  <2>4. ~CanGrant(new, g, m)
    BY <1>0, <2>1, <2>2, <2>3 DEF CanGrant, TableOK
  <2> QED BY <2>4 DEF new
<1>2. CASE l # Exclusive
  <2>0. l \in Name /\ l # NoOne
    BY <1>2, SentinelsAssumption DEF LockString
  <2>1. /\ new.exclusive = tbl.exclusive
        /\ new.shared = [tbl.shared EXCEPT ![h] = @ + 1]
        /\ new.sharedName = l
    BY <1>0, <2>0, GrantSharedFields
  <2>2. SharedHolders(new) = SharedHolders(tbl) \cup {h}
    BY <1>0, <2>1 DEF SharedHolders, Table
  <2>3. tbl.exclusive \in {NoOne, h} /\ tbl.sharedName \in {NoOne, l}
    BY <1>2 DEF CanGrant
  <2> HIDE DEF new
  <2>4. ~CanGrant(new, g, m)
    BY <1>0, <2>0, <2>1, <2>2, <2>3, SentinelsAssumption DEF CanGrant, TableOK
  <2> QED BY <2>4 DEF new
<1> QED BY <1>1, <1>2

(* release keeps the table consistent and exclusive.                       *)
LEMMA ReleaseLevelOK ==
    ASSUME NEW tbl, TableOK(tbl), NEW h \in Holder, Holds(tbl, h)
    PROVE  TableOK(ReleaseLevel(tbl, h))
<1> DEFINE new == ReleaseLevel(tbl, h)
           s   == [tbl.shared EXCEPT ![h] = @ - 1]
<1>0. tbl \in Table /\ h # NoOne
  BY SentinelsAssumption DEF TableOK
<1>1. CASE tbl.exclusive = h
  <2>1. /\ new \in Table
        /\ new.shared = tbl.shared /\ new.sharedName = tbl.sharedName
        /\ \/ new.exclusive = NoOne /\ new.depth = 0
           \/ new.exclusive = h /\ new.depth > 0
    <3>1. tbl.depth \in Nat /\ tbl.depth > 0
      BY <1>0, <1>1 DEF TableOK, Table
    <3>2. CASE tbl.depth = 1
      <4>1. new = [tbl EXCEPT !.exclusive = NoOne, !.depth = 0]
        BY <1>0, <1>1, <3>2, ReleaseLevelCases
      <4> HIDE DEF new
      <4> QED BY <1>0, <4>1 DEF Table
    <3>3. CASE tbl.depth # 1
      <4>1. new = [tbl EXCEPT !.depth = @ - 1]
        BY <1>0, <1>1, <3>3, ReleaseLevelCases
      <4>2. tbl.depth - 1 \in Nat /\ tbl.depth - 1 > 0
        BY <3>1, <3>3
      <4> QED BY <1>0, <1>1, <4>1, <4>2 DEF Table
    <3> QED BY <3>2, <3>3
  <2>2. SharedHolders(new) = SharedHolders(tbl)
    BY <2>1 DEF SharedHolders
  <2> HIDE DEF new
  <2>3. TableOK(new)
    BY <1>0, <1>1, <2>1, <2>2 DEF TableOK
  <2> QED BY <2>3 DEF new
<1>2. CASE tbl.exclusive # h
  <2>1. tbl.shared[h] > 0
    BY <1>2 DEF Holds
  <2>2. new = DropShared(tbl, s) /\ s \in [Holder -> Nat]
    BY <1>0, <1>2, <2>1, ReleaseLevelCases
  <2>3. s = [tbl.shared EXCEPT ![h] = @ - 1]
    OBVIOUS
  <2> HIDE DEF new, s
  <2>4. /\ new \in Table
        /\ new.exclusive = tbl.exclusive /\ new.depth = tbl.depth
        /\ new.shared = s
        /\ (\A g \in Holder : s[g] = 0) => new.sharedName = NoOne
        /\ (\E g \in Holder : s[g] # 0) => new.sharedName = tbl.sharedName
    BY <1>0, <2>2, DropSharedFields
  <2>5. SharedHolders(new) \subseteq SharedHolders(tbl)
    BY <1>0, <2>3, <2>4 DEF SharedHolders, Table
  <2>6. h \in SharedHolders(tbl)
    BY <2>1 DEF SharedHolders
  <2>7. tbl.sharedName # NoOne
    BY <2>6 DEF TableOK
  <2>8. SharedHolders(new) = {} <=> \A g \in Holder : s[g] = 0
    BY <2>2, <2>4 DEF SharedHolders
  <2>9. TableOK(new)
    BY <2>4, <2>5, <2>7, <2>8 DEF TableOK
  <2> QED BY <2>9 DEF new
<1> QED BY <1>1, <1>2

(* release_all keeps each table consistent and leaves the holder nothing   *)
(* there, and the others what they had.                                    *)
LEMMA ReleaseEveryOK ==
    ASSUME NEW tbl, TableOK(tbl), NEW h \in Holder
    PROVE  LET new == ReleaseEvery(tbl, h)
           IN  /\ TableOK(new)
               /\ new.exclusive = IF tbl.exclusive = h THEN NoOne
                                  ELSE tbl.exclusive
               /\ tbl.exclusive # h => new.depth = tbl.depth
               /\ new.shared = [tbl.shared EXCEPT ![h] = 0]
               /\ SharedHolders(new) = SharedHolders(tbl) \ {h}
               /\ SharedHolders(new) # {} => new.sharedName = tbl.sharedName
<1> DEFINE new == ReleaseEvery(tbl, h)
           s   == [tbl.shared EXCEPT ![h] = 0]
           u   == IF tbl.exclusive = h
                  THEN [tbl EXCEPT !.exclusive = NoOne, !.depth = 0]
                  ELSE tbl
<1>0. tbl \in Table /\ h # NoOne
  BY SentinelsAssumption DEF TableOK
<1>1. /\ u \in Table
      /\ u.shared = tbl.shared /\ u.sharedName = tbl.sharedName
      /\ u.exclusive = IF tbl.exclusive = h THEN NoOne ELSE tbl.exclusive
      /\ u.depth = IF tbl.exclusive = h THEN 0 ELSE tbl.depth
  BY <1>0 DEF Table
<1>2. s \in [Holder -> Nat]
  BY <1>0 DEF Table
<1>3. new = IF tbl.shared[h] > 0 THEN DropShared(u, s) ELSE u
  BY DEF ReleaseEvery
<1>4. tbl.shared[h] \in Nat /\ tbl.shared \in [Holder -> Nat]
  BY <1>0 DEF Table
<1>5. ~(tbl.shared[h] > 0) => s = tbl.shared
  BY <1>4
<1>6. \A g \in Holder : s[g] = IF g = h THEN 0 ELSE tbl.shared[g]
  BY <1>4
<1>7. /\ new \in Table
      /\ new.exclusive = u.exclusive /\ new.depth = u.depth
      /\ new.shared = s
  <2>1. CASE tbl.shared[h] > 0
    <3> HIDE DEF u, s
    <3> QED BY <1>1, <1>2, <1>3, <2>1, DropSharedFields
  <2>2. CASE ~(tbl.shared[h] > 0)
    <3> HIDE DEF u, s
    <3> QED BY <1>1, <1>3, <1>5, <2>2
  <2> QED BY <2>1, <2>2
<1> HIDE DEF u, s, new
<1>8. SharedHolders(new) = SharedHolders(tbl) \ {h}
  BY <1>2, <1>4, <1>6, <1>7 DEF SharedHolders
<1>9. /\ SharedHolders(new) = {} => new.sharedName = NoOne
      /\ SharedHolders(new) # {} => new.sharedName = tbl.sharedName
  <2>1. CASE tbl.shared[h] > 0
    <3>1. SharedHolders(new) = {} <=> \A g \in Holder : s[g] = 0
      BY <1>2, <1>7 DEF SharedHolders
    <3> QED BY <1>1, <1>2, <1>3, <2>1, <3>1, DropSharedFields
  <2>2. CASE ~(tbl.shared[h] > 0)
    <3>1. SharedHolders(new) = SharedHolders(tbl)
      BY <1>8, <2>2 DEF SharedHolders
    <3> QED BY <1>1, <1>3, <2>2, <3>1 DEF TableOK
  <2> QED BY <2>1, <2>2
<1>10. tbl.sharedName = NoOne <=> SharedHolders(tbl) = {}
  BY DEF TableOK
<1>11. TableOK(new)
  BY <1>0, <1>1, <1>7, <1>8, <1>9, <1>10 DEF TableOK
<1> QED BY <1>1, <1>7, <1>8, <1>9, <1>11 DEF new, s

(* A grant nests its caller one level deeper and no other holder.          *)
LEMMA GrantLevels ==
    ASSUME NEW tbl, TableOK(tbl), NEW h \in Holder, NEW l \in LockString,
           CanGrant(tbl, h, l)
    PROVE  \A g \in Holder :
              Levels(Grant(tbl, h, l), g) =
                  Levels(tbl, g) + (IF g = h THEN 1 ELSE 0)
<1> DEFINE new == Grant(tbl, h, l)
<1>0. tbl \in Table /\ h # NoOne /\ \A g \in Holder : g # NoOne
  BY SentinelsAssumption DEF TableOK
<1> SUFFICES ASSUME NEW g \in Holder
             PROVE  Levels(new, g) = Levels(tbl, g) + (IF g = h THEN 1 ELSE 0)
  OBVIOUS
<1>1. CASE l = Exclusive
  <2>1. /\ new.exclusive = h
        /\ new.depth = IF tbl.exclusive = h THEN tbl.depth + 1 ELSE 1
        /\ new.shared = tbl.shared
    BY <1>0, <1>1, GrantExclusiveFields
  <2>2. tbl.exclusive \in {NoOne, h}
    BY <1>1 DEF CanGrant
  <2> HIDE DEF new
  <2> QED BY <1>0, <2>1, <2>2 DEF Levels, Table
<1>2. CASE l # Exclusive
  <2>0. l \in Name
    BY <1>2 DEF LockString
  <2>1. /\ new.exclusive = tbl.exclusive /\ new.depth = tbl.depth
        /\ new.shared = [tbl.shared EXCEPT ![h] = @ + 1]
    BY <1>0, <2>0, GrantSharedFields
  <2> HIDE DEF new
  <2> QED BY <1>0, <2>1 DEF Levels, Table
<1> QED BY <1>1, <1>2

(* A successful release takes one level off its caller and off nobody      *)
(* else.                                                                   *)
LEMMA ReleaseLevels ==
    ASSUME NEW tbl, TableOK(tbl), NEW h \in Holder, Holds(tbl, h)
    PROVE  /\ Levels(tbl, h) > 0
           /\ \A g \in Holder :
                 Levels(ReleaseLevel(tbl, h), g) =
                     Levels(tbl, g) - (IF g = h THEN 1 ELSE 0)
<1> DEFINE new == ReleaseLevel(tbl, h)
           s   == [tbl.shared EXCEPT ![h] = @ - 1]
<1>0. tbl \in Table /\ h # NoOne /\ \A g \in Holder : g # NoOne
  BY SentinelsAssumption DEF TableOK
<1>1. Levels(tbl, h) > 0
  BY <1>0 DEF Levels, Holds, TableOK, Table
<1> SUFFICES ASSUME NEW g \in Holder
             PROVE  Levels(new, g) = Levels(tbl, g) - (IF g = h THEN 1 ELSE 0)
  BY <1>1
<1>2. CASE tbl.exclusive = h /\ tbl.depth = 1
  <2>1. new = [tbl EXCEPT !.exclusive = NoOne, !.depth = 0]
    BY <1>0, <1>2, ReleaseLevelCases
  <2>2. new.exclusive = NoOne /\ new.depth = 0 /\ new.shared = tbl.shared
    BY <1>0, <2>1 DEF Table
  <2> HIDE DEF new
  <2> QED BY <1>0, <1>2, <2>2 DEF Levels, Table
<1>3. CASE tbl.exclusive = h /\ tbl.depth # 1
  <2>1. new = [tbl EXCEPT !.depth = @ - 1]
    BY <1>0, <1>3, ReleaseLevelCases
  <2>2. /\ new.exclusive = h /\ new.depth = tbl.depth - 1
        /\ new.shared = tbl.shared
    BY <1>0, <1>3, <2>1 DEF Table
  <2> HIDE DEF new
  <2> QED BY <1>0, <1>3, <2>2 DEF Levels, Table
<1>4. CASE tbl.exclusive # h
  <2>1. new = DropShared(tbl, s) /\ s \in [Holder -> Nat]
    BY <1>0, <1>4, ReleaseLevelCases DEF Holds
  <2>2. s[g] = tbl.shared[g] - (IF g = h THEN 1 ELSE 0)
    BY <1>0 DEF Table
  <2> HIDE DEF new, s
  <2>3. /\ new.exclusive = tbl.exclusive /\ new.depth = tbl.depth
        /\ new.shared = s
    BY <1>0, <2>1, DropSharedFields
  <2> QED BY <1>0, <1>4, <2>1, <2>2, <2>3 DEF Levels, Table
<1> QED BY <1>2, <1>3, <1>4

(* release_all takes every level off its holder and none off the others.   *)
LEMMA ReleaseEveryLevels ==
    ASSUME NEW tbl, TableOK(tbl), NEW h \in Holder
    PROVE  \A g \in Holder :
              Levels(ReleaseEvery(tbl, h), g) =
                  IF g = h THEN 0 ELSE Levels(tbl, g)
<1> DEFINE new == ReleaseEvery(tbl, h)
<1>0. tbl \in Table /\ \A g \in Holder : g # NoOne
  BY SentinelsAssumption DEF TableOK
<1>1. /\ new.exclusive = IF tbl.exclusive = h THEN NoOne ELSE tbl.exclusive
      /\ tbl.exclusive # h => new.depth = tbl.depth
      /\ new.shared = [tbl.shared EXCEPT ![h] = 0]
  BY ReleaseEveryOK
<1> HIDE DEF new
<1>2. \A g \in Holder : Levels(new, g) = IF g = h THEN 0 ELSE Levels(tbl, g)
  BY <1>0, <1>1 DEF Levels, Table
<1> QED BY <1>2 DEF new

(* A holder is whoever has a level, of either kind.                        *)
LEMMA HoldsHasLevels ==
    ASSUME NEW tbl, TableOK(tbl), NEW h \in Holder
    PROVE  /\ Levels(tbl, h) \in Nat
           /\ Holds(tbl, h) <=> Levels(tbl, h) > 0
BY SentinelsAssumption DEF TableOK, Table, Holds, Levels

(* Nobody holds anything on a new table.                                   *)
LEMMA EmptyTableOK ==
    /\ TableOK(EmptyTable)
    /\ \A h \in Holder : Levels(EmptyTable, h) = 0
<1>1. /\ EmptyTable \in Table /\ EmptyTable.exclusive = NoOne
      /\ EmptyTable.depth = 0 /\ EmptyTable.sharedName = NoOne
      /\ EmptyTable.shared = [h \in Holder |-> 0]
  BY DEF EmptyTable, Table
<1>2. SharedHolders(EmptyTable) = {}
  BY <1>1 DEF SharedHolders
<1> QED BY <1>1, <1>2, SentinelsAssumption DEF TableOK, Levels

(* Who holds a lock after a grant, a release and a release_all.            *)
LEMMA HoldersAfter ==
    ASSUME NEW tbl, TableOK(tbl), NEW h \in Holder
    PROVE  /\ \A l \in LockString : CanGrant(tbl, h, l) =>
                  HoldersOf(Grant(tbl, h, l)) = HoldersOf(tbl) \cup {h}
           /\ Holds(tbl, h) => HoldersOf(ReleaseLevel(tbl, h)) \subseteq HoldersOf(tbl)
           /\ HoldersOf(ReleaseEvery(tbl, h)) = HoldersOf(tbl) \ {h}
<1>1. \A g \in Holder : Levels(tbl, g) \in Nat /\ (Holds(tbl, g) <=> Levels(tbl, g) > 0)
  BY HoldsHasLevels
<1>2. ASSUME NEW l \in LockString, CanGrant(tbl, h, l)
      PROVE  HoldersOf(Grant(tbl, h, l)) = HoldersOf(tbl) \cup {h}
  <2>1. TableOK(Grant(tbl, h, l))
    BY <1>2, GrantOK
  <2>2. \A g \in Holder : Levels(Grant(tbl, h, l), g) = Levels(tbl, g) + (IF g = h THEN 1 ELSE 0)
    BY <1>2, GrantLevels
  <2>3. \A g \in Holder : Holds(Grant(tbl, h, l), g) <=> Levels(Grant(tbl, h, l), g) > 0
    BY <2>1, HoldsHasLevels
  <2> QED BY <1>1, <2>2, <2>3 DEF HoldersOf
<1>3. ASSUME Holds(tbl, h)
      PROVE  HoldersOf(ReleaseLevel(tbl, h)) \subseteq HoldersOf(tbl)
  <2>1. TableOK(ReleaseLevel(tbl, h))
    BY <1>3, ReleaseLevelOK
  <2>2. \A g \in Holder : Levels(ReleaseLevel(tbl, h), g) = Levels(tbl, g) - (IF g = h THEN 1 ELSE 0)
    BY <1>3, ReleaseLevels
  <2>3. \A g \in Holder : Holds(ReleaseLevel(tbl, h), g) <=> Levels(ReleaseLevel(tbl, h), g) > 0
    BY <2>1, HoldsHasLevels
  <2> QED BY <1>1, <2>2, <2>3 DEF HoldersOf
<1>4. HoldersOf(ReleaseEvery(tbl, h)) = HoldersOf(tbl) \ {h}
  <2>1. TableOK(ReleaseEvery(tbl, h))
    BY ReleaseEveryOK
  <2>2. \A g \in Holder : Levels(ReleaseEvery(tbl, h), g) = IF g = h THEN 0 ELSE Levels(tbl, g)
    BY ReleaseEveryLevels
  <2>3. \A g \in Holder : Holds(ReleaseEvery(tbl, h), g) <=> Levels(ReleaseEvery(tbl, h), g) > 0
    BY <2>1, HoldsHasLevels
  <2> QED BY <1>1, <2>2, <2>3 DEF HoldersOf
<1> QED BY <1>2, <1>3, <1>4
=============================================================================
