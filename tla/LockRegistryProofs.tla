------------------------- MODULE LockRegistryProofs -------------------------
(***************************************************************************)
(* The lock registry is correct for any number of holders, tasks,          *)
(* resources and names, and any nesting bound.                             *)
(*                                                                         *)
(* The inductive invariant IInv adds to the safety properties that a       *)
(* parked task names a resource, and joins Exclusion to TablesAgree:       *)
(* Exclusion alone is not inductive, since a shared request is tested      *)
(* against the recorded name and an exclusive one against the depths.      *)
(***************************************************************************)
EXTENDS LockRegistry, LockTableProofs

(* A parked task names the resource it waits for.                          *)
ParkedOK == \A t \in Task : pc[t] # "idle" => res[t] \in Resource

TablesOK == \A r \in Resource : TableOK(tables[r])

IInv ==
    /\ TypeOK
    /\ TablesOK
    /\ Balanced
    /\ ParkedOK
    /\ RequestWaiterBlocked
    /\ NoSleepOnFree

-----------------------------------------------------------------------------
(* The three ways an action changes the tables.                            *)

(* A granted request keeps the tables, the count of levels, and every      *)
(* conflict that a parked task is waiting out.                             *)
LEMMA AcquireStep ==
    ASSUME IInv, NEW r \in Resource, NEW h \in Holder, NEW l \in LockString,
           CanGrant(tables[r], h, l), Acquire(r, h, l)
    PROVE  /\ tables' \in [Resource -> Table]
           /\ balance' \in [Resource -> [Holder -> Nat]]
           /\ TablesOK'
           /\ Balanced'
           /\ \A q \in Resource, g \in Holder, m \in LockString :
                 ~CanGrant(tables[q], g, m) => ~CanGrant(tables'[q], g, m)
           /\ \A q \in Resource : ~IsEmpty(tables[q]) => ~IsEmpty(tables'[q])
<1>1. /\ tables \in [Resource -> Table]
      /\ balance \in [Resource -> [Holder -> Nat]]
      /\ \A q \in Resource : TableOK(tables[q])
      /\ \A q \in Resource, g \in Holder : balance[q][g] = Levels(tables[q], g)
  BY DEF IInv, TypeOK, TablesOK, Balanced, Depth
<1>2. /\ tables' = [tables EXCEPT ![r] = Grant(tables[r], h, l)]
      /\ balance' = [balance EXCEPT ![r][h] = @ + 1]
  BY DEF Acquire
<1>3. \A q \in Resource :
          tables'[q] = IF q = r THEN Grant(tables[r], h, l) ELSE tables[q]
  BY <1>1, <1>2
<1>4. TableOK(Grant(tables[r], h, l)) /\ ~IsEmpty(Grant(tables[r], h, l))
  BY <1>1, GrantOK
<1>5. TablesOK' /\ tables' \in [Resource -> Table]
  BY <1>1, <1>2, <1>3, <1>4 DEF TablesOK, TableOK
<1>6. balance' \in [Resource -> [Holder -> Nat]]
  BY <1>1, <1>2
<1>7. Balanced'
  <2> SUFFICES ASSUME NEW q \in Resource, NEW g \in Holder
               PROVE  balance'[q][g] = Levels(tables'[q], g)
    BY DEF Balanced, Depth
  <2>1. balance'[q][g] =
            balance[q][g] + (IF q = r /\ g = h THEN 1 ELSE 0)
    BY <1>1, <1>2
  <2>2. CASE q = r
    <3>1. Levels(tables'[q], g) =
              Levels(tables[q], g) + (IF g = h THEN 1 ELSE 0)
      BY <1>1, <1>3, <2>2, GrantLevels
    <3> QED BY <1>1, <2>1, <2>2, <3>1
  <2>3. CASE q # r
    BY <1>1, <1>3, <2>1, <2>3
  <2> QED BY <2>2, <2>3
<1>8. \A q \in Resource, g \in Holder, m \in LockString :
          ~CanGrant(tables[q], g, m) => ~CanGrant(tables'[q], g, m)
  BY <1>1, <1>3, GrantKeepsConflicts
<1>9. \A q \in Resource : ~IsEmpty(tables[q]) => ~IsEmpty(tables'[q])
  BY <1>3, <1>4
<1> QED BY <1>5, <1>6, <1>7, <1>8, <1>9

(* release keeps the tables and the count of levels.                       *)
LEMMA ReleaseStep ==
    ASSUME IInv, NEW r \in Resource, NEW h \in Holder, Holds(tables[r], h),
           tables' = [tables EXCEPT ![r] = ReleaseLevel(tables[r], h)],
           balance' = [balance EXCEPT ![r][h] = @ - 1]
    PROVE  /\ tables' \in [Resource -> Table]
           /\ balance' \in [Resource -> [Holder -> Nat]]
           /\ TablesOK'
           /\ Balanced'
<1>1. /\ tables \in [Resource -> Table]
      /\ balance \in [Resource -> [Holder -> Nat]]
      /\ \A q \in Resource : TableOK(tables[q])
      /\ \A q \in Resource, g \in Holder : balance[q][g] = Levels(tables[q], g)
  BY DEF IInv, TypeOK, TablesOK, Balanced, Depth
<1>2. \A q \in Resource :
          tables'[q] = IF q = r THEN ReleaseLevel(tables[r], h) ELSE tables[q]
  BY <1>1
<1>3. TableOK(ReleaseLevel(tables[r], h))
  BY <1>1, ReleaseLevelOK
<1>4. TablesOK' /\ tables' \in [Resource -> Table]
  BY <1>1, <1>2, <1>3 DEF TablesOK, TableOK
<1>5. balance[r][h] > 0
  BY <1>1, ReleaseLevels
<1>6. balance' \in [Resource -> [Holder -> Nat]]
  BY <1>1, <1>5
<1>7. Balanced'
  <2> SUFFICES ASSUME NEW q \in Resource, NEW g \in Holder
               PROVE  balance'[q][g] = Levels(tables'[q], g)
    BY DEF Balanced, Depth
  <2>1. balance'[q][g] =
            balance[q][g] - (IF q = r /\ g = h THEN 1 ELSE 0)
    BY <1>1
  <2>2. CASE q = r
    <3>1. Levels(tables'[q], g) =
              Levels(tables[q], g) - (IF g = h THEN 1 ELSE 0)
      BY <1>1, <1>2, <2>2, ReleaseLevels
    <3> QED BY <1>1, <2>1, <2>2, <3>1
  <2>3. CASE q # r
    BY <1>1, <1>2, <2>1, <2>3
  <2> QED BY <2>2, <2>3
<1> QED BY <1>4, <1>6, <1>7

(* release_all keeps the tables and the count of levels.                   *)
LEMMA ReleaseAllStep ==
    ASSUME IInv, NEW h \in Holder,
           tables' = [r \in Resource |-> ReleaseEvery(tables[r], h)],
           balance' = [r \in Resource |-> [balance[r] EXCEPT ![h] = 0]]
    PROVE  /\ tables' \in [Resource -> Table]
           /\ balance' \in [Resource -> [Holder -> Nat]]
           /\ TablesOK'
           /\ Balanced'
<1>1. /\ tables \in [Resource -> Table]
      /\ balance \in [Resource -> [Holder -> Nat]]
      /\ \A q \in Resource : TableOK(tables[q])
      /\ \A q \in Resource, g \in Holder : balance[q][g] = Levels(tables[q], g)
  BY DEF IInv, TypeOK, TablesOK, Balanced, Depth
<1>2. \A q \in Resource : TableOK(ReleaseEvery(tables[q], h))
  BY <1>1, ReleaseEveryOK
<1>3. TablesOK' /\ tables' \in [Resource -> Table]
  BY <1>2 DEF TablesOK, TableOK
<1>4. balance' \in [Resource -> [Holder -> Nat]]
  BY <1>1
<1>5. \A q \in Resource, g \in Holder :
          balance'[q][g] = IF g = h THEN 0 ELSE balance[q][g]
  BY <1>1
<1>6. \A q \in Resource, g \in Holder :
          Levels(tables'[q], g) = IF g = h THEN 0 ELSE Levels(tables[q], g)
  BY <1>1, ReleaseEveryLevels
<1>7. Balanced'
  BY <1>1, <1>5, <1>6 DEF Balanced, Depth
<1> QED BY <1>3, <1>4, <1>7

-----------------------------------------------------------------------------
(* The invariant.                                                          *)

(* The empty registry satisfies the invariant.                             *)
LEMMA InitIInv == Init => IInv
<1> SUFFICES ASSUME Init PROVE IInv
  OBVIOUS
<1>1. EmptyTable \in Table
  BY DEF EmptyTable, Table
<1>2. SharedHolders(EmptyTable) = {} /\ TableOK(EmptyTable)
  BY <1>1 DEF TableOK, EmptyTable, SharedHolders
<1>3. TypeOK
  BY <1>1 DEF Init, TypeOK, LockString
<1>4. TablesOK
  BY <1>2 DEF Init, TablesOK
<1>5. Balanced
  BY SentinelsAssumption DEF Init, Balanced, Depth, Levels, EmptyTable
<1>6. ParkedOK /\ RequestWaiterBlocked /\ NoSleepOnFree
  BY DEF Init, ParkedOK, RequestWaiterBlocked, NoSleepOnFree
<1> QED BY <1>3, <1>4, <1>5, <1>6 DEF IInv

(* One task's wait changes and the tables only by a grant or not at all:   *)
(* the waits of the other tasks stay blocked.                              *)
LEMMA OthersStayBlocked ==
    ASSUME IInv, TypeOK', NEW t \in Task,
           \A u \in Task \ {t} :
               /\ pc'[u] = pc[u] /\ res'[u] = res[u] /\ lock'[u] = lock[u]
               /\ notified'[u] = notified[u] /\ expired'[u] = expired[u],
           \A q \in Resource, g \in Holder, m \in LockString :
               ~CanGrant(tables[q], g, m) => ~CanGrant(tables'[q], g, m),
           \A q \in Resource : ~IsEmpty(tables[q]) => ~IsEmpty(tables'[q])
    PROVE  \A u \in Task \ {t} :
               /\ (pc'[u] = "request" /\ ~Awake(u)') =>
                      ~CanGrant(tables'[res'[u]], HolderOf[u], lock'[u])
               /\ (pc'[u] = "access" /\ ~Awake(u)') =>
                      ~IsEmpty(tables'[res'[u]])
               /\ pc'[u] # "idle" => res'[u] \in Resource
<1> SUFFICES ASSUME NEW u \in Task \ {t}
             PROVE  /\ (pc'[u] = "request" /\ ~Awake(u)') =>
                          ~CanGrant(tables'[res'[u]], HolderOf[u], lock'[u])
                    /\ (pc'[u] = "access" /\ ~Awake(u)') =>
                          ~IsEmpty(tables'[res'[u]])
                    /\ pc'[u] # "idle" => res'[u] \in Resource
  OBVIOUS
<1>1. Awake(u)' <=> Awake(u)
  BY DEF Awake
<1>2. pc[u] # "idle" => res[u] \in Resource
  BY DEF IInv, ParkedOK
<1>3. HolderOf[u] \in Holder /\ lock[u] \in LockString
  BY TaskAssumption DEF IInv, TypeOK
<1>4. /\ (pc[u] = "request" /\ ~Awake(u)) =>
             ~CanGrant(tables[res[u]], HolderOf[u], lock[u])
      /\ (pc[u] = "access" /\ ~Awake(u)) => ~IsEmpty(tables[res[u]])
  BY DEF IInv, RequestWaiterBlocked, NoSleepOnFree
<1> QED BY <1>1, <1>2, <1>3, <1>4

(* The types of a task's wait after it parks or returns.                   *)
LEMMA ParkTypes ==
    ASSUME TypeOK, NEW t \in Task, NEW kind \in {"idle", "request", "access"},
           NEW r \in Resource \cup {NoOne}, NEW l \in LockString,
           NEW b \in BOOLEAN, Park(t, kind, r, l, b)
    PROVE  /\ pc' \in [Task -> {"idle", "request", "access"}]
           /\ res' \in [Task -> Resource \cup {NoOne}]
           /\ lock' \in [Task -> LockString]
           /\ bounded' \in [Task -> BOOLEAN]
           /\ notified' \in [Task -> BOOLEAN]
           /\ expired' \in [Task -> BOOLEAN]
           /\ \A u \in Task \ {t} :
                 /\ pc'[u] = pc[u] /\ res'[u] = res[u] /\ lock'[u] = lock[u]
                 /\ notified'[u] = notified[u] /\ expired'[u] = expired[u]
           /\ pc'[t] = kind /\ res'[t] = r /\ lock'[t] = l
BY DEF Park, TypeOK

(* After notify_waiters nobody that is parked is asleep.                   *)
LEMMA NotifyWakes ==
    ASSUME TypeOK, ParkedOK, NotifyWaiters
    PROVE  /\ pc' \in [Task -> {"idle", "request", "access"}]
           /\ res' \in [Task -> Resource \cup {NoOne}]
           /\ lock' \in [Task -> LockString]
           /\ bounded' \in [Task -> BOOLEAN]
           /\ notified' \in [Task -> BOOLEAN]
           /\ expired' \in [Task -> BOOLEAN]
           /\ ParkedOK' /\ RequestWaiterBlocked' /\ NoSleepOnFree'
<1>1. /\ pc' \in [Task -> {"idle", "request", "access"}]
      /\ res' \in [Task -> Resource \cup {NoOne}]
      /\ lock' \in [Task -> LockString]
      /\ bounded' \in [Task -> BOOLEAN]
      /\ notified' \in [Task -> BOOLEAN]
      /\ expired' \in [Task -> BOOLEAN]
  BY DEF NotifyWaiters, TypeOK
<1>2. \A u \in Task : pc'[u] # "idle" => Awake(u)'
  BY DEF NotifyWaiters, Awake, TypeOK
<1>3. ParkedOK'
  BY DEF ParkedOK, NotifyWaiters
<1>4. RequestWaiterBlocked' /\ NoSleepOnFree'
  BY <1>2 DEF RequestWaiterBlocked, NoSleepOnFree
<1> QED BY <1>1, <1>3, <1>4

(* Every step of the registry preserves the invariant.                     *)
LEMMA NextIInv == IInv /\ [Next]_vars => IInv'
<1> SUFFICES ASSUME IInv, [Next]_vars PROVE IInv'
  OBVIOUS
<1>0. /\ TypeOK /\ ParkedOK
      /\ \A t \in Task : HolderOf[t] \in Holder
      /\ Exclusive \in LockString
  BY TaskAssumption DEF IInv, LockString
<1>T. ASSUME UNCHANGED <<tables, balance>>
      PROVE  /\ tables' \in [Resource -> Table]
             /\ balance' \in [Resource -> [Holder -> Nat]]
             /\ TablesOK' /\ Balanced'
             /\ \A q \in Resource, g \in Holder, m \in LockString :
                   ~CanGrant(tables[q], g, m) => ~CanGrant(tables'[q], g, m)
             /\ \A q \in Resource :
                   ~IsEmpty(tables[q]) => ~IsEmpty(tables'[q])
  BY <1>T DEF IInv, TypeOK, TablesOK, Balanced, Depth
<1>R. ASSUME NEW t \in Task, Return(t),
             tables' \in [Resource -> Table],
             balance' \in [Resource -> [Holder -> Nat]],
             TablesOK', Balanced',
             \A q \in Resource, g \in Holder, m \in LockString :
                 ~CanGrant(tables[q], g, m) => ~CanGrant(tables'[q], g, m),
             \A q \in Resource : ~IsEmpty(tables[q]) => ~IsEmpty(tables'[q])
      PROVE  IInv'
  <2>1. Park(t, "idle", NoOne, Exclusive, FALSE)
    BY <1>R DEF Return
  <2>2. TypeOK'
    BY <1>0, <1>R, <2>1, ParkTypes DEF TypeOK
  <2>3. /\ pc'[t] = "idle"
        /\ \A u \in Task \ {t} :
              /\ pc'[u] = pc[u] /\ res'[u] = res[u] /\ lock'[u] = lock[u]
              /\ notified'[u] = notified[u] /\ expired'[u] = expired[u]
    BY <1>0, <2>1, ParkTypes
  <2>4. ParkedOK' /\ RequestWaiterBlocked' /\ NoSleepOnFree'
    BY <1>R, <2>2, <2>3, OthersStayBlocked
       DEF ParkedOK, RequestWaiterBlocked, NoSleepOnFree
  <2> QED BY <1>R, <2>2, <2>4 DEF IInv
<1>P. ASSUME NEW t \in Task, NEW kind \in {"request", "access"},
             NEW r \in Resource, NEW l \in LockString, NEW b \in BOOLEAN,
             Park(t, kind, r, l, b), UNCHANGED <<tables, balance>>,
             kind = "request" => ~CanGrant(tables[r], HolderOf[t], l),
             kind = "access" => ~IsEmpty(tables[r])
      PROVE  IInv'
  <2>1. TypeOK'
    BY <1>0, <1>P, <1>T, ParkTypes DEF TypeOK
  <2>2. /\ pc'[t] = kind /\ res'[t] = r /\ lock'[t] = l
        /\ \A u \in Task \ {t} :
              /\ pc'[u] = pc[u] /\ res'[u] = res[u] /\ lock'[u] = lock[u]
              /\ notified'[u] = notified[u] /\ expired'[u] = expired[u]
    BY <1>0, <1>P, ParkTypes
  <2>3. ParkedOK' /\ RequestWaiterBlocked' /\ NoSleepOnFree'
    BY <1>P, <1>T, <2>1, <2>2, OthersStayBlocked
       DEF ParkedOK, RequestWaiterBlocked, NoSleepOnFree
  <2> QED BY <1>P, <1>T, <2>1, <2>3 DEF IInv
<1>S. ASSUME NEW t \in Task, ~expired[t], UNCHANGED <<tables, balance>>,
             notified' = [notified EXCEPT ![t] = FALSE],
             UNCHANGED <<pc, res, lock, bounded, expired>>,
             pc[t] = "request" =>
                 ~CanGrant(tables[res[t]], HolderOf[t], lock[t]),
             pc[t] = "access" => ~IsEmpty(tables[res[t]])
      PROVE  IInv'
  <2>1. TypeOK'
    BY <1>0, <1>S, <1>T DEF TypeOK
  <2>2. \A u \in Task \ {t} :
            /\ pc'[u] = pc[u] /\ res'[u] = res[u] /\ lock'[u] = lock[u]
            /\ notified'[u] = notified[u] /\ expired'[u] = expired[u]
    BY <1>0, <1>S DEF TypeOK
  <2>3. ParkedOK'
    BY <1>0, <1>S DEF ParkedOK
  <2>4. RequestWaiterBlocked' /\ NoSleepOnFree'
    BY <1>S, <1>T, <2>1, <2>2, OthersStayBlocked
       DEF RequestWaiterBlocked, NoSleepOnFree
  <2> QED BY <1>S, <1>T, <2>1, <2>3, <2>4 DEF IInv
<1>1. ASSUME NEW t \in Task, NEW r \in Resource, NEW l \in LockString,
             RequestGranted(t, r, l)
      PROVE  IInv'
  <2>1. /\ CanGrant(tables[r], HolderOf[t], l)
        /\ Acquire(r, HolderOf[t], l)
        /\ UNCHANGED <<pc, res, lock, bounded, notified, expired>>
    BY <1>1 DEF RequestGranted, waits
  <2>2. /\ tables' \in [Resource -> Table]
        /\ balance' \in [Resource -> [Holder -> Nat]]
        /\ TablesOK' /\ Balanced'
        /\ \A q \in Resource, g \in Holder, m \in LockString :
              ~CanGrant(tables[q], g, m) => ~CanGrant(tables'[q], g, m)
        /\ \A q \in Resource : ~IsEmpty(tables[q]) => ~IsEmpty(tables'[q])
    BY <1>0, <2>1, AcquireStep
  <2>3. TypeOK'
    BY <1>0, <2>1, <2>2 DEF TypeOK
  <2>4. pc[t] = "idle"
    BY <1>1 DEF RequestGranted
  <2>5. ParkedOK' /\ RequestWaiterBlocked' /\ NoSleepOnFree'
    BY <2>1, <2>2, <2>3, <2>4, OthersStayBlocked
       DEF ParkedOK, RequestWaiterBlocked, NoSleepOnFree
  <2> QED BY <2>2, <2>3, <2>5 DEF IInv
<1>2. ASSUME NEW t \in Task, NEW r \in Resource, NEW l \in LockString,
             RequestParks(t, r, l)
      PROVE  IInv'
  BY <1>2, <1>P DEF RequestParks
<1>3. ASSUME NEW t \in Task, NEW r \in Resource, NEW b \in BOOLEAN,
             AccessParks(t, r, b)
      PROVE  IInv'
  <2>1. ~IsEmpty(tables[r]) /\ Park(t, "access", r, Exclusive, b)
        /\ UNCHANGED <<tables, balance>>
    BY <1>3 DEF AccessParks, GrantsAccess
  <2> QED BY <1>0, <1>P, <2>1
<1>4. ASSUME NEW t \in Task, NEW r \in Resource, Release(t, r)
      PROVE  IInv'
  <2>1. /\ tables' \in [Resource -> Table]
        /\ balance' \in [Resource -> [Holder -> Nat]]
        /\ TablesOK' /\ Balanced'
    BY <1>0, <1>4, ReleaseStep DEF Release
  <2> QED BY <1>0, <1>4, <2>1, NotifyWakes DEF Release, IInv, TypeOK
<1>5. ASSUME NEW h \in Holder, ReleaseAll(h)
      PROVE  IInv'
  <2>1. /\ tables' \in [Resource -> Table]
        /\ balance' \in [Resource -> [Holder -> Nat]]
        /\ TablesOK' /\ Balanced'
    BY <1>5, ReleaseAllStep DEF ReleaseAll
  <2> QED BY <1>0, <1>5, <2>1, NotifyWakes DEF ReleaseAll, IInv, TypeOK
<1>6. ASSUME NEW t \in Task, Expire(t)
      PROVE  IInv'
  <2>1. TypeOK'
    BY <1>0, <1>6, <1>T DEF Expire, TypeOK
  <2>2. ParkedOK'
    BY <1>0, <1>6 DEF Expire, ParkedOK
  <2>3. RequestWaiterBlocked' /\ NoSleepOnFree'
    <3>1. \A u \in Task : Awake(u) => Awake(u)'
      BY <1>0, <1>6 DEF Expire, Awake, TypeOK
    <3> QED BY <1>6, <3>1
            DEF Expire, IInv, RequestWaiterBlocked, NoSleepOnFree
  <2> QED BY <1>6, <1>T, <2>1, <2>2, <2>3 DEF Expire, IInv
<1>7. ASSUME NEW t \in Task, ResumeRequest(t)
      PROVE  IInv'
  <2>0. res[t] \in Resource /\ lock[t] \in LockString /\ pc[t] = "request"
    BY <1>0, <1>7 DEF ResumeRequest, ParkedOK, TypeOK
  <2>1. CASE /\ CanGrant(tables[res[t]], HolderOf[t], lock[t])
             /\ Acquire(res[t], HolderOf[t], lock[t])
             /\ Return(t)
    BY <1>0, <1>R, <2>0, <2>1, AcquireStep
  <2>2. CASE /\ ~CanGrant(tables[res[t]], HolderOf[t], lock[t])
             /\ ResumeParked(t)
             /\ UNCHANGED <<tables, balance>>
    BY <1>R, <1>S, <1>T, <2>0, <2>2 DEF ResumeParked
  <2> QED BY <1>7, <2>1, <2>2 DEF ResumeRequest
<1>8. ASSUME NEW t \in Task, ResumeAccess(t)
      PROVE  IInv'
  <2>1. pc[t] = "access" /\ UNCHANGED <<tables, balance>>
    BY <1>8 DEF ResumeAccess
  <2>2. CASE Return(t)
    BY <1>R, <1>T, <2>1, <2>2
  <2>3. CASE ~GrantsAccess(tables[res[t]], HolderOf[t]) /\ ResumeParked(t)
    BY <1>R, <1>S, <1>T, <2>1, <2>3 DEF ResumeParked, GrantsAccess
  <2> QED BY <1>8, <2>2, <2>3 DEF ResumeAccess
<1>9. ASSUME NEW t \in Task, Abandon(t)
      PROVE  IInv'
  BY <1>9, <1>R, <1>T DEF Abandon
<1>10. CASE UNCHANGED vars
  BY <1>10, <1>T DEF vars, waits, IInv, TypeOK, ParkedOK,
                     RequestWaiterBlocked, NoSleepOnFree, Awake
<1> QED BY <1>1, <1>2, <1>3, <1>4, <1>5, <1>6, <1>7, <1>8, <1>9, <1>10 DEF Next

(* The inductive invariant holds throughout.                               *)
THEOREM Invariance == Spec => []IInv
BY InitIInv, NextIInv, PTL DEF Spec

(* Type correctness of the registry.                                       *)
THEOREM TypeCorrect == Spec => []TypeOK
BY Invariance, PTL DEF IInv

(* While a session holds the exclusive lock of an instrument nobody else   *)
(* holds any lock on it.                                                   *)
THEOREM ExclusionHolds == Spec => []Exclusion
<1>1. IInv => Exclusion
  BY DEF IInv, TablesOK, TableOK, Exclusion
<1> QED BY Invariance, <1>1, PTL

(* The fields of every lock table agree, so no name outlives its group.    *)
THEOREM TablesAgreeHolds == Spec => []TablesAgree
<1>1. IInv => TablesAgree
  BY DEF IInv, TablesOK, TableOK, TablesAgree
<1> QED BY Invariance, <1>1, PTL

(* A hold lasts until as many releases succeeded as requests were granted. *)
THEOREM BalancedHolds == Spec => []Balanced
BY Invariance, PTL DEF IInv

(* No wake-up is lost: whoever sleeps in request is in conflict, and       *)
(* nobody sleeps in wait_for_access on a free instrument.                  *)
THEOREM NoLostWakeup == Spec => []NoLostWakeups
<1>1. IInv => NoLostWakeups
  BY DEF IInv, NoLostWakeups
<1>. QED
  BY <1>1, Invariance, PTL

-----------------------------------------------------------------------------
(* Refinement.                                                             *)

Owners == [r \in Resource |-> tables[r].exclusive]
Sharers == [r \in Resource |-> SharedHolders(tables[r])]
GroupNames == [r \in Resource |-> tables[r].sharedName]

(* A granted request is LockShared, LockExclusive or, when it nests an     *)
(* exclusive lock, a stuttering step of the abstract lock.                 *)
LEMMA AcquireRefines ==
    ASSUME IInv, NEW r \in Resource, NEW h \in Holder, NEW l \in LockString,
           CanGrant(tables[r], h, l), Acquire(r, h, l)
    PROVE  [Abstract!Next]_(Abstract!vars)
<1> DEFINE new == Grant(tables[r], h, l)
<1>1. /\ tables \in [Resource -> Table] /\ tables[r] \in Table
      /\ TableOK(tables[r]) /\ h # NoOne
  BY SentinelsAssumption DEF IInv, TypeOK, TablesOK
<1>2. tables' = [tables EXCEPT ![r] = new]
  BY DEF Acquire
<1>3. CASE l = Exclusive
  <2>1. /\ new.exclusive = h /\ new.shared = tables[r].shared
        /\ new.sharedName = tables[r].sharedName
    BY <1>1, <1>3, GrantExclusiveFields
  <2>2. SharedHolders(new) = SharedHolders(tables[r])
    BY <2>1 DEF SharedHolders
  <2> HIDE DEF new
  <2>3. /\ Owners' = [Owners EXCEPT ![r] = h]
        /\ Sharers' = Sharers /\ GroupNames' = GroupNames
    BY <1>1, <1>2, <2>1, <2>2 DEF Owners, Sharers, GroupNames
  <2>4. CASE tables[r].exclusive = h
    <3>1. Owners' = Owners
      BY <2>3, <2>4 DEF Owners
    <3> QED BY <2>3, <3>1 DEF Abstract!vars, Owners, Sharers, GroupNames
  <2>5. CASE tables[r].exclusive # h
    <3>1. tables[r].exclusive = NoOne /\ SharedHolders(tables[r]) \subseteq {h}
      BY <1>3, <2>5 DEF CanGrant
    <3>2. Abstract!LockExclusive(r, h)
      BY <2>3, <3>1
         DEF Abstract!LockExclusive, Owners, Sharers, GroupNames
    <3> QED BY <3>2 DEF Abstract!Next
  <2> QED BY <2>4, <2>5
<1>4. CASE l # Exclusive
  <2>0. l \in Name
    BY <1>4 DEF LockString
  <2>1. /\ new.exclusive = tables[r].exclusive
        /\ new.shared = [tables[r].shared EXCEPT ![h] = @ + 1]
        /\ new.sharedName = l
    BY <1>1, <2>0, GrantSharedFields
  <2>2. SharedHolders(new) = SharedHolders(tables[r]) \cup {h}
    BY <1>1, <2>1 DEF SharedHolders, Table
  <2> HIDE DEF new
  <2>3. /\ Owners' = Owners
        /\ Sharers' = [Sharers EXCEPT ![r] = @ \cup {h}]
        /\ GroupNames' = [GroupNames EXCEPT ![r] = l]
    BY <1>1, <1>2, <2>1, <2>2 DEF Owners, Sharers, GroupNames
  <2>4. /\ tables[r].exclusive \in {NoOne, h}
        /\ SharedHolders(tables[r]) = {} \/ tables[r].sharedName = l
    BY <1>1, <1>4 DEF CanGrant, TableOK
  <2>5. Abstract!LockShared(r, h, l)
    BY <2>3, <2>4 DEF Abstract!LockShared, Owners, Sharers, GroupNames
  <2> QED BY <2>0, <2>5 DEF Abstract!Next
<1> QED BY <1>3, <1>4

(* A release is UnlockExclusive or UnlockShared when it takes off the last *)
(* level of its kind, and a stuttering step before that.                   *)
LEMMA ReleaseRefines ==
    ASSUME IInv, NEW r \in Resource, NEW h \in Holder, Holds(tables[r], h),
           tables' = [tables EXCEPT ![r] = ReleaseLevel(tables[r], h)]
    PROVE  [Abstract!Next]_(Abstract!vars)
<1> DEFINE tbl == tables[r]
           new == ReleaseLevel(tbl, h)
           s   == [tbl.shared EXCEPT ![h] = @ - 1]
<1>1. /\ tables \in [Resource -> Table] /\ tbl \in Table
      /\ TableOK(tbl) /\ h # NoOne
  BY SentinelsAssumption DEF IInv, TypeOK, TablesOK
<1>2. CASE tbl.exclusive = h /\ tbl.depth = 1
  <2>1. new = [tbl EXCEPT !.exclusive = NoOne, !.depth = 0]
    BY <1>1, <1>2, ReleaseLevelCases
  <2>2. /\ new.exclusive = NoOne /\ new.shared = tbl.shared
        /\ new.sharedName = tbl.sharedName
    BY <1>1, <2>1 DEF Table
  <2>3. SharedHolders(new) = SharedHolders(tbl)
    BY <2>2 DEF SharedHolders
  <2> HIDE DEF new
  <2>4. /\ Owners' = [Owners EXCEPT ![r] = NoOne]
        /\ Sharers' = Sharers /\ GroupNames' = GroupNames
    BY <1>1, <2>2, <2>3 DEF Owners, Sharers, GroupNames, new
  <2>5. Abstract!UnlockExclusive(r, h)
    BY <1>2, <2>4 DEF Abstract!UnlockExclusive, Owners, Sharers, GroupNames
  <2> QED BY <2>5 DEF Abstract!Next
<1>3. CASE tbl.exclusive = h /\ tbl.depth # 1
  <2>1. new = [tbl EXCEPT !.depth = @ - 1]
    BY <1>1, <1>3, ReleaseLevelCases
  <2>2. /\ new.exclusive = tbl.exclusive /\ new.shared = tbl.shared
        /\ new.sharedName = tbl.sharedName
    BY <1>1, <2>1 DEF Table
  <2>3. SharedHolders(new) = SharedHolders(tbl)
    BY <2>2 DEF SharedHolders
  <2> HIDE DEF new
  <2>4. Owners' = Owners /\ Sharers' = Sharers /\ GroupNames' = GroupNames
    BY <1>1, <2>2, <2>3 DEF Owners, Sharers, GroupNames, new
  <2> QED BY <2>4 DEF Abstract!vars, Owners, Sharers, GroupNames
<1>4. CASE tbl.exclusive # h
  <2>1. tbl.shared[h] > 0
    BY <1>4 DEF Holds
  <2>2. new = DropShared(tbl, s) /\ s \in [Holder -> Nat]
    BY <1>1, <1>4, <2>1, ReleaseLevelCases
  <2>3. \A g \in Holder : s[g] = tbl.shared[g] - (IF g = h THEN 1 ELSE 0)
    BY <1>1 DEF Table
  <2> HIDE DEF new, s
  <2>4. /\ new.exclusive = tbl.exclusive /\ new.shared = s
        /\ (\A g \in Holder : s[g] = 0) => new.sharedName = NoOne
        /\ (\E g \in Holder : s[g] # 0) => new.sharedName = tbl.sharedName
    BY <1>1, <2>2, DropSharedFields
  <2>5. SharedHolders(new) = {} <=> \A g \in Holder : s[g] = 0
    BY <2>2, <2>4 DEF SharedHolders
  <2>6. h \in SharedHolders(tbl)
    BY <2>1 DEF SharedHolders
  <2>7. tables' = [tables EXCEPT ![r] = new]
    BY DEF new
  <2>8. Owners' = Owners
    BY <1>1, <2>4, <2>7 DEF Owners
  <2>9. CASE s[h] > 0
    <3>1. SharedHolders(new) = SharedHolders(tbl)
      BY <1>1, <2>2, <2>3, <2>4, <2>6, <2>9 DEF SharedHolders, Table
    <3>2. new.sharedName = tbl.sharedName
      BY <2>2, <2>4, <2>9
    <3>3. Sharers' = Sharers /\ GroupNames' = GroupNames
      BY <1>1, <2>7, <3>1, <3>2 DEF Sharers, GroupNames
    <3> QED BY <2>8, <3>3 DEF Abstract!vars, Owners, Sharers, GroupNames
  <2>10. CASE ~(s[h] > 0)
    <3>1. SharedHolders(new) = SharedHolders(tbl) \ {h}
      BY <1>1, <2>2, <2>3, <2>4, <2>6, <2>10 DEF SharedHolders, Table
    <3>2. new.sharedName = IF SharedHolders(tbl) \ {h} = {} THEN NoOne
                           ELSE tbl.sharedName
      BY <2>4, <2>5, <3>1
    <3>3. /\ Sharers' = [Sharers EXCEPT ![r] = @ \ {h}]
          /\ GroupNames' = [GroupNames EXCEPT ![r] =
                               IF SharedHolders(tbl) \ {h} = {} THEN NoOne
                               ELSE tbl.sharedName]
      BY <1>1, <2>7, <3>1, <3>2 DEF Sharers, GroupNames
    <3>4. Abstract!UnlockShared(r, h)
      BY <2>6, <2>8, <3>3 DEF Abstract!UnlockShared, Abstract!NameAfter,
                              Owners, Sharers, GroupNames
    <3> QED BY <3>4 DEF Abstract!Next
  <2> QED BY <2>9, <2>10
<1> QED BY <1>2, <1>3, <1>4

(* release_all is Leave.                                                   *)
LEMMA ReleaseAllRefines ==
    ASSUME IInv, NEW h \in Holder,
           tables' = [r \in Resource |-> ReleaseEvery(tables[r], h)]
    PROVE  [Abstract!Next]_(Abstract!vars)
<1>1. \A r \in Resource :
        LET new == ReleaseEvery(tables[r], h)
        IN  /\ new.exclusive = IF tables[r].exclusive = h THEN NoOne
                               ELSE tables[r].exclusive
            /\ SharedHolders(new) = SharedHolders(tables[r]) \ {h}
            /\ new.sharedName = IF SharedHolders(tables[r]) \ {h} = {}
                                THEN NoOne ELSE tables[r].sharedName
  <2> SUFFICES ASSUME NEW r \in Resource
               PROVE  LET new == ReleaseEvery(tables[r], h)
                      IN  /\ new.exclusive =
                                IF tables[r].exclusive = h THEN NoOne
                                ELSE tables[r].exclusive
                          /\ SharedHolders(new) =
                                SharedHolders(tables[r]) \ {h}
                          /\ new.sharedName =
                                IF SharedHolders(tables[r]) \ {h} = {}
                                THEN NoOne ELSE tables[r].sharedName
    OBVIOUS
  <2> DEFINE new == ReleaseEvery(tables[r], h)
  <2>1. TableOK(tables[r])
    BY DEF IInv, TablesOK
  <2>2. /\ TableOK(new)
        /\ new.exclusive = IF tables[r].exclusive = h THEN NoOne
                           ELSE tables[r].exclusive
        /\ SharedHolders(new) = SharedHolders(tables[r]) \ {h}
        /\ SharedHolders(new) # {} => new.sharedName = tables[r].sharedName
    BY <2>1, ReleaseEveryOK
  <2> HIDE DEF new
  <2>3. SharedHolders(new) = {} => new.sharedName = NoOne
    BY <2>2 DEF TableOK
  <2> QED BY <2>2, <2>3 DEF new
<1>2. /\ Owners' = [r \in Resource |-> IF Owners[r] = h THEN NoOne
                                       ELSE Owners[r]]
      /\ Sharers' = [r \in Resource |-> Sharers[r] \ {h}]
      /\ GroupNames' = [r \in Resource |-> IF Sharers[r] \ {h} = {} THEN NoOne
                                           ELSE GroupNames[r]]
  BY <1>1 DEF Owners, Sharers, GroupNames
<1>3. Abstract!Leave(h)
  BY <1>2 DEF Abstract!Leave, Abstract!NameAfter, Owners, Sharers, GroupNames
<1> QED BY <1>3 DEF Abstract!Next

(* The registry implements the viLock semantics of InstrumentLock.         *)
THEOREM Refinement == Spec => ImplementsInstrumentLock
<1>1. Init => Abstract!Init
  BY DEF Init, Abstract!Init, EmptyTable, SharedHolders
<1>2. IInv /\ [Next]_vars => [Abstract!Next]_(Abstract!vars)
  <2> SUFFICES ASSUME IInv, [Next]_vars PROVE [Abstract!Next]_(Abstract!vars)
    OBVIOUS
  <2>0. \A t \in Task : HolderOf[t] \in Holder
    BY TaskAssumption
  <2>1. ASSUME UNCHANGED tables PROVE [Abstract!Next]_(Abstract!vars)
    BY <2>1 DEF Abstract!vars
  <2>2. ASSUME NEW t \in Task, NEW r \in Resource, NEW l \in LockString,
               RequestGranted(t, r, l)
        PROVE  [Abstract!Next]_(Abstract!vars)
    BY <2>0, <2>2, AcquireRefines DEF RequestGranted
  <2>3. ASSUME NEW t \in Task, NEW r \in Resource, Release(t, r)
        PROVE  [Abstract!Next]_(Abstract!vars)
    BY <2>0, <2>3, ReleaseRefines DEF Release
  <2>4. ASSUME NEW h \in Holder, ReleaseAll(h)
        PROVE  [Abstract!Next]_(Abstract!vars)
    BY <2>4, ReleaseAllRefines DEF ReleaseAll
  <2>5. ASSUME NEW t \in Task, ResumeRequest(t)
        PROVE  [Abstract!Next]_(Abstract!vars)
    <3>1. res[t] \in Resource /\ lock[t] \in LockString
      BY <2>5 DEF ResumeRequest, IInv, ParkedOK, TypeOK
    <3> QED BY <2>0, <2>1, <2>5, <3>1, AcquireRefines DEF ResumeRequest
  <2> QED BY <2>1, <2>2, <2>3, <2>4, <2>5
          DEF Next, vars, RequestParks, AccessParks, Expire, ResumeAccess,
              Abandon
<1> QED BY <1>1, <1>2, Invariance, PTL
        DEF Spec, ImplementsInstrumentLock, Abstract!Spec
=============================================================================
