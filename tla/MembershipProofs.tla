--------------------------- MODULE MembershipProofs ---------------------------
(***************************************************************************)
(* Proofs about Membership, for every number of processes, names and       *)
(* partitions, every channel capacity of at least one and every number of  *)
(* changes.  That a settled map is the map of the list does not depend on  *)
(* which map that is, and Assign stays unexpanded; only MapIsBalanced looks*)
(* into it, and counts.                                                    *)
(***************************************************************************)
EXTENDS Membership, FiniteSetTheorems, FunctionTheorems, TLAPS

\* A partition map exists for every process.
OwnersPerProcess == owners = [p \in Proc |-> owners[p]]

\* What makes StaleMapIsPending inductive: between Create and the start of
\* processEvents an event is waiting; the copy about to be applied is either
\* current or an event that came after it is waiting; a map at rest is either
\* current or an event is waiting.
Fresh ==
    \A p \in Proc :
        /\ pc[p] = "init" => events[p] > 0
        /\ pc[p] = "members" => snap[p] = view[p] \/ events[p] > 0
        /\ pc[p] = "wait" => owners[p] = Assign(view[p]) \/ events[p] > 0

IInv == TypeOK /\ OwnersPerProcess /\ Fresh

-----------------------------------------------------------------------------
\* A list with one member more, or at another address, is a list.
LEMMA ViewAdd ==
    ASSUME NEW v \in Views, NEW n \in Name, NEW a \in Addr
    PROVE  [m \in DOMAIN v \cup {n} |-> IF m = n THEN a ELSE v[m]] \in Views
<1>1. PICK S \in SUBSET Name : v \in [S -> Addr]
  BY DEF Views
<1>2. [m \in DOMAIN v \cup {n} |-> IF m = n THEN a ELSE v[m]] \in [S \cup {n} -> Addr]
  BY <1>1
<1>3. S \cup {n} \in SUBSET Name
  OBVIOUS
<1> QED
  BY <1>2, <1>3 DEF Views

\* A list with one member less is a list.
LEMMA ViewDrop ==
    ASSUME NEW v \in Views, NEW n \in Name
    PROVE  [m \in DOMAIN v \ {n} |-> v[m]] \in Views
<1>1. PICK S \in SUBSET Name : v \in [S -> Addr]
  BY DEF Views
<1>2. [m \in DOMAIN v \ {n} |-> v[m]] \in [S \ {n} -> Addr]
  BY <1>1
<1>3. S \ {n} \in SUBSET Name
  OBVIOUS
<1> QED
  BY <1>2, <1>3 DEF Views

\* The empty list and the list of a process alone are lists.
LEMMA ViewBase ==
    /\ NoView \in Views
    /\ \A p \in Proc : Self(p) \in Views
<1>1. NoView \in [{} -> Addr] /\ {} \in SUBSET Name
  BY DEF NoView
<1>2. \A p \in Proc : Self(p) \in [{p} -> Addr] /\ {p} \in SUBSET Name
  BY MembershipAssumption DEF Self
<1>3. NoView \in Views
  <2>1. PICK S \in SUBSET Name : NoView \in [S -> Addr]
    BY <1>1
  <2> QED
    BY <2>1 DEF Views
<1>4. ASSUME NEW p \in Proc PROVE Self(p) \in Views
  <2>1. PICK S \in SUBSET Name : Self(p) \in [S -> Addr]
    BY <1>2
  <2> QED
    BY <2>1 DEF Views
<1> QED
  BY <1>3, <1>4

\* After a notification the channel is within its capacity and not empty.
LEMMA NotifyLeavesEvent ==
    ASSUME TypeOK, NEW p \in Proc, Notify(p)
    PROVE  /\ events' \in [Proc -> 0..ChanCap]
           /\ events'[p] > 0
           /\ \A q \in Proc : q # p => events'[q] = events[q]
BY MembershipAssumption DEF TypeOK, Notify

\* The inductive invariant holds initially: no process has started.
LEMMA InitInv == Init => IInv
<1> SUFFICES ASSUME Init PROVE IInv
  OBVIOUS
<1>1. TypeOK
  BY ViewBase, MembershipAssumption DEF Init, TypeOK
<1>2. OwnersPerProcess /\ Fresh
  BY DEF Init, OwnersPerProcess, Fresh
<1> QED
  BY <1>1, <1>2 DEF IInv

\* Every step preserves the inductive invariant.
LEMMA StepInv == IInv /\ [Next]_vars => IInv'
<1> SUFFICES ASSUME IInv, [Next]_vars PROVE IInv'
  OBVIOUS
<1> USE DEF IInv
<1>1. CASE UNCHANGED vars
  BY <1>1 DEF vars, TypeOK, OwnersPerProcess, Fresh, Assign, SortedName
<1>2. ASSUME NEW p \in Proc, Create(p) PROVE IInv'
  <2>1. TypeOK'
    BY <1>2, ViewBase, MembershipAssumption DEF Create, TypeOK
  <2>2. OwnersPerProcess'
    BY <1>2 DEF Create, OwnersPerProcess
  <2>3. Fresh'
    BY <1>2 DEF Create, Fresh, TypeOK
  <2> QED
    BY <2>1, <2>2, <2>3
<1>3. ASSUME NEW p \in Proc, InitialRebalance(p) PROVE IInv'
  <2>1. TypeOK'
    BY <1>3 DEF InitialRebalance, TypeOK
  <2>2. OwnersPerProcess'
    BY <1>3 DEF InitialRebalance, Rebalance, OwnersPerProcess
  <2>3. Fresh'
    BY <1>3 DEF InitialRebalance, Rebalance, Fresh, TypeOK, OwnersPerProcess
  <2> QED
    BY <2>1, <2>2, <2>3
<1>4. ASSUME NEW p \in Proc, TakeEvent(p) PROVE IInv'
  <2>1. TypeOK'
    BY <1>4, MembershipAssumption DEF TakeEvent, TypeOK
  <2>2. OwnersPerProcess' /\ Fresh'
    BY <1>4 DEF TakeEvent, Fresh, TypeOK, OwnersPerProcess
  <2> QED
    BY <2>1, <2>2
<1>5. ASSUME NEW p \in Proc, ReadMembers(p) PROVE IInv'
  <2>1. TypeOK'
    BY <1>5 DEF ReadMembers, TypeOK
  <2>2. OwnersPerProcess' /\ Fresh'
    BY <1>5 DEF ReadMembers, Fresh, TypeOK, OwnersPerProcess
  <2> QED
    BY <2>1, <2>2
<1>6. ASSUME NEW p \in Proc, ApplyMembers(p) PROVE IInv'
  <2>1. TypeOK'
    BY <1>6 DEF ApplyMembers, TypeOK
  <2>2. OwnersPerProcess'
    BY <1>6 DEF ApplyMembers, Rebalance, OwnersPerProcess
  <2>3. Fresh'
    BY <1>6 DEF ApplyMembers, Rebalance, Fresh, TypeOK, OwnersPerProcess
  <2> QED
    BY <2>1, <2>2, <2>3
<1>7. ASSUME NEW p \in Proc, Stop(p) PROVE IInv'
  BY <1>7 DEF Stop, TypeOK, OwnersPerProcess, Fresh
<1>8. ASSUME NEW p \in Proc, CloseStop(p) PROVE IInv'
  BY <1>8 DEF CloseStop, TypeOK, OwnersPerProcess, Fresh
<1>9. ASSUME NEW p \in Proc, Leave(p) PROVE IInv'
  <2>1. [m \in DOMAIN view[p] \ {p} |-> view[p][m]] \in Views
    BY ViewDrop, MembershipAssumption DEF TypeOK
  <2>2. TypeOK'
    BY <1>9, <2>1, NotifyLeavesEvent DEF Leave, TypeOK
  <2>3. OwnersPerProcess' /\ Fresh'
    BY <1>9, NotifyLeavesEvent DEF Leave, Fresh, TypeOK, OwnersPerProcess
  <2> QED
    BY <2>2, <2>3
<1>10. ASSUME NEW p \in Proc, NEW n \in Name, MemberDead(p, n) PROVE IInv'
  <2>1. [m \in DOMAIN view[p] \ {n} |-> view[p][m]] \in Views
    BY ViewDrop DEF TypeOK
  <2>2. TypeOK'
    BY <1>10, <2>1, NotifyLeavesEvent, MembershipAssumption DEF MemberDead, TypeOK
  <2>3. OwnersPerProcess' /\ Fresh'
    BY <1>10, NotifyLeavesEvent DEF MemberDead, Fresh, TypeOK, OwnersPerProcess
  <2> QED
    BY <2>2, <2>3
<1>11. ASSUME NEW p \in Proc, NEW n \in Name, NEW a \in Addr, MemberAlive(p, n, a)
       PROVE  IInv'
  <2>1. [m \in DOMAIN view[p] \cup {n} |-> IF m = n THEN a ELSE view[p][m]] \in Views
    <3>1. view[p] \in Views
      BY DEF TypeOK
    <3> QED
      BY <3>1, ViewAdd
  <2>2. TypeOK'
    <3>1. view' \in [Proc -> Views]
      BY <1>11, <2>1 DEF MemberAlive, TypeOK
    <3>2. changes' \in 0..MaxChanges
      BY <1>11, MembershipAssumption DEF MemberAlive, TypeOK
    <3> QED
      BY <1>11, <3>1, <3>2, NotifyLeavesEvent DEF MemberAlive, TypeOK
  <2>3. OwnersPerProcess' /\ Fresh'
    BY <1>11, NotifyLeavesEvent DEF MemberAlive, Fresh, TypeOK, OwnersPerProcess
  <2> QED
    BY <2>2, <2>3
<1> QED
  BY <1>1, <1>2, <1>3, <1>4, <1>5, <1>6, <1>7, <1>8, <1>9, <1>10, <1>11
  DEF Next, ProcessEvents

-----------------------------------------------------------------------------
\* Channel, copy and map stay related in every reachable state.
THEOREM Invariance == Spec => []IInv
BY InitInv, StepInv, PTL DEF Spec

\* The types, in particular that eventCh never holds more than its capacity.
THEOREM TypeCorrect == Spec => []TypeOK
<1>1. IInv => TypeOK
  BY DEF IInv
<1> QED
  BY Invariance, <1>1, PTL

\* No notification that is dropped on a full channel loses a rebalance: a map
\* that differs from the member list's is about to be recomputed.
THEOREM NoRebalanceLost == Spec => []StaleMapIsPending
<1>1. IInv => StaleMapIsPending
  BY DEF IInv, Fresh, StaleMapIsPending, Pending
<1> QED
  BY Invariance, <1>1, PTL

\* Settled processes that see the same members agree on every owner.
THEOREM ProcessesAgree == Spec => []SameListSameMap
<1>1. IInv => SameListSameMap
  <2> SUFFICES ASSUME IInv, NEW p \in Proc, NEW q \in Proc,
                      pc[p] = "wait", ~Pending(p), pc[q] = "wait", ~Pending(q),
                      view[p] = view[q]
               PROVE  owners[p] = owners[q]
    BY DEF SameListSameMap
  <2>1. owners[p] = Assign(view[p]) /\ owners[q] = Assign(view[q])
    BY DEF IInv, Fresh, Pending
  <2> QED
    BY <2>1
<1> QED
  BY Invariance, <1>1, PTL

-----------------------------------------------------------------------------
(* Round-robin over the sorted members is balanced.                          *)

\* The place of n among the sorted names D.
Rank(D, n) == Cardinality({m \in D : m < n})

\* The partitions that fall to place a of k.
Slots(k, a) == {i \in 0..(NumPartitions - 1) : i % k = a}

\* A function that takes different values is an injection.
LEMMA Injective ==
    ASSUME NEW S, NEW T, NEW f \in [S -> T], \A x, y \in S : f[x] = f[y] => x = y
    PROVE  f \in Injection(S, T)
BY DEF Injection, IsInjective

\* The sorted names take the places from 0 on, each its own.
LEMMA RankBijective ==
    ASSUME NEW D, D \subseteq Int, IsFiniteSet(D)
    PROVE  /\ Cardinality(D) \in Nat
           /\ \A n \in D : Rank(D, n) \in 0..(Cardinality(D) - 1)
           /\ \A m, n \in D : Rank(D, m) = Rank(D, n) => m = n
           /\ \A i \in 0..(Cardinality(D) - 1) : \E n \in D : Rank(D, n) = i
<1> DEFINE k == Cardinality(D)
           below(n) == {m \in D : m < n}
<1>1. k \in Nat
  BY FS_CardinalityType
<1>2. ASSUME NEW n \in D
      PROVE  IsFiniteSet(below(n)) /\ Rank(D, n) \in Nat /\ Rank(D, n) < k
  <2>1. IsFiniteSet(below(n)) /\ Cardinality(below(n)) <= k /\ (k = Cardinality(below(n)) => D = below(n))
    <3>1. below(n) \in SUBSET D
      OBVIOUS
    <3> HIDE DEF below
    <3> QED
      BY <3>1, FS_Subset
  <2>2. n \notin below(n)
    OBVIOUS
  <2>3. Cardinality(below(n)) \in Nat
    BY <2>1, FS_CardinalityType
  <2>4. k # Cardinality(below(n))
    BY <2>1, <2>2
  <2> QED
    BY <1>1, <2>1, <2>3, <2>4 DEF Rank
<1>6. ASSUME NEW n \in D PROVE Rank(D, n) \in 0..(k - 1)
  <2> DEFINE r == Rank(D, n)
  <2>1. r \in Nat /\ r < k
    BY <1>2
  <2> HIDE DEF r, k
  <2>2. r \in 0..(k - 1)
    BY <1>1, <2>1
  <2> QED
    BY <2>2 DEF r, k
<1>3. ASSUME NEW m \in D, NEW n \in D, m < n PROVE Rank(D, m) < Rank(D, n)
  <2>1. below(m) \in SUBSET below(n) /\ m \in below(n) /\ m \notin below(m)
    <3>1. m \in Int /\ n \in Int /\ \A x \in D : x \in Int
      OBVIOUS
    <3>2. \A x \in D : x < m => x < n
      BY <1>3, <3>1
    <3>3. ~(m < m)
      BY <3>1
    <3> QED
      BY <1>3, <3>2, <3>3
  <2>2. IsFiniteSet(below(n))
    BY <1>2
  <2>3. Cardinality(below(m)) <= Cardinality(below(n)) /\ Cardinality(below(m)) # Cardinality(below(n))
    <3> HIDE DEF below
    <3> QED
      BY <2>1, <2>2, FS_Subset
  <2>4. Rank(D, m) \in Nat /\ Rank(D, n) \in Nat
    BY <1>2
  <2> QED
    BY <2>3, <2>4 DEF Rank
<1>4. ASSUME NEW m \in D, NEW n \in D, Rank(D, m) = Rank(D, n) PROVE m = n
  <2>1. m < n \/ n < m \/ m = n
    OBVIOUS
  <2>2. Rank(D, m) \in Nat /\ Rank(D, n) \in Nat
    BY <1>2
  <2> QED
    BY <1>3, <1>4, <2>1, <2>2
<1>5. ASSUME NEW i \in 0..(k - 1) PROVE \E n \in D : Rank(D, n) = i
  <2> DEFINE f == [n \in D |-> Rank(D, n)]
             T == 0..(k - 1)
  <2>1. f \in [D -> T] /\ \A x, y \in D : f[x] = f[y] => x = y
    <3>1. \A n \in D : Rank(D, n) \in T
      BY <1>6
    <3> QED
      BY <1>4, <3>1
  <2>2. f \in Injection(D, T)
    <3> HIDE DEF f, T
    <3> QED
      BY <2>1, Injective
  <2>3. IsFiniteSet(T) /\ Cardinality(T) = k
    <3>1. 0 \in Int /\ k - 1 \in Int
      BY <1>1
    <3>2. IsFiniteSet(T) /\ Cardinality(T) = IF 0 > k - 1 THEN 0 ELSE (k - 1) - 0 + 1
      BY <3>1, FS_Interval
    <3> QED
      BY <1>1, <3>2
  <2>4. f \in Surjection(D, T)
    <3> HIDE DEF f, T
    <3> QED
      BY <2>2, <2>3, FS_Injection
  <2>5. PICK n \in D : f[n] = i
    BY <2>4 DEF Surjection
  <2> QED
    BY <2>5
<1> QED
  BY <1>1, <1>4, <1>5, <1>6

\* A remainder is known by the division it belongs to.
LEMMA Remainder ==
    ASSUME NEW k \in Nat \ {0}, NEW x \in Int, NEW q \in Int, NEW r \in 0..(k - 1), x = k * q + r
    PROVE  x % k = r
<1>1. x = k * (x \div k) + (x % k) /\ x % k \in 0..(k - 1) /\ x \div k \in Int
  OBVIOUS
<1> DEFINE d == x \div k
           e == x % k
<1>2. d \in Int /\ e \in 0..(k - 1) /\ k * d + e = k * q + r
  BY <1>1
<1> HIDE DEF d, e
<1>3. k * (d - q) = r - e
  BY <1>2
<1>4. CASE d >= q + 1
  <2>1. k * (d - q) >= k
    BY <1>2, <1>4
  <2> QED
    BY <1>2, <1>3, <2>1
<1>5. CASE d <= q - 1
  <2>1. k * (d - q) <= -k
    BY <1>2, <1>5
  <2> QED
    BY <1>2, <1>3, <2>1
<1>6. CASE d = q
  BY <1>2, <1>6 DEF e
<1> QED
  BY <1>2, <1>4, <1>5, <1>6

\* No place gets two partitions more than another.
LEMMA SlotsBalanced ==
    ASSUME NEW k \in Nat \ {0}, NEW a \in 0..(k - 1), NEW b \in 0..(k - 1)
    PROVE  Cardinality(Slots(k, a)) <= Cardinality(Slots(k, b)) + 1
<1> DEFINE N == NumPartitions
<1>0. N \in Nat \ {0}
  BY MembershipAssumption
<1>1. \A c : Slots(k, c) \in SUBSET (0..(N - 1))
  BY DEF Slots
<1>2. IsFiniteSet(0..(N - 1))
  BY <1>0, FS_Interval
<1>3. \A c : IsFiniteSet(Slots(k, c)) /\ Cardinality(Slots(k, c)) \in Nat
  BY <1>1, <1>2, FS_Subset, FS_CardinalityType
<1> HIDE DEF N
<1>4. CASE b <= a
  <2> DEFINE f == [i \in Slots(k, a) |-> i - (a - b)]
  <2>1. ASSUME NEW i \in Slots(k, a) PROVE i - (a - b) \in Slots(k, b)
    <3>1. i \in 0..(N - 1) /\ i % k = a
      BY DEF Slots, N
    <3>2. i - (a - b) \in 0..(N - 1)
      BY <1>0, <1>4, <3>1
    <3>3. (i - (a - b)) % k = b
      <4>1. i = k * (i \div k) + (i % k) /\ i \div k \in Int
        BY <3>1
      <4> DEFINE q == i \div k
      <4> HIDE DEF q
      <4>2. q \in Int /\ i \in Int /\ i - (a - b) = k * q + b
        BY <3>1, <4>1 DEF q
      <4>3. i - (a - b) \in Int
        BY <4>2
      <4> QED
        BY <4>2, <4>3, Remainder
    <3> QED
      BY <3>2, <3>3 DEF Slots, N
  <2>2. f \in [Slots(k, a) -> Slots(k, b)]
    BY <2>1
  <2>3. \A x, y \in Slots(k, a) : f[x] = f[y] => x = y
    BY <1>1, <1>0
  <2>4. f \in Injection(Slots(k, a), Slots(k, b))
    <3> HIDE DEF f
    <3> QED
      BY <2>2, <2>3, Injective
  <2>5. Cardinality(Slots(k, a)) <= Cardinality(Slots(k, b))
    <3> HIDE DEF f
    <3> QED
      BY <1>3, <2>4, FS_Injection
  <2> QED
    BY <1>3, <2>5
<1>5. CASE a < b
  <2> DEFINE S == Slots(k, a) \ {a}
             f == [i \in S |-> i + (b - a) - k]
  <2>1. ASSUME NEW i \in S PROVE i + (b - a) - k \in Slots(k, b)
    <3>1. i \in 0..(N - 1) /\ i % k = a /\ i # a
      BY DEF Slots, N
    <3>2. i >= k
      BY <1>0, <3>1
    <3>3. i + (b - a) - k \in 0..(N - 1)
      BY <1>0, <1>5, <3>1, <3>2
    <3>4. (i + (b - a) - k) % k = b
      <4>1. i = k * (i \div k) + (i % k) /\ i \div k \in Int
        BY <3>1
      <4> DEFINE q == i \div k
      <4> HIDE DEF q
      <4>2. q \in Int /\ i \in Int /\ i + (b - a) - k = k * q - k + b
        BY <3>1, <4>1 DEF q
      <4>3. k * q - k = k * (q - 1)
        BY <4>2
      <4>4. i + (b - a) - k \in Int /\ q - 1 \in Int /\ i + (b - a) - k = k * (q - 1) + b
        BY <4>2, <4>3
      <4> QED
        BY <4>4, Remainder
    <3> QED
      BY <3>3, <3>4 DEF Slots, N
  <2>2. f \in [S -> Slots(k, b)]
    BY <2>1
  <2>3. \A x, y \in S : f[x] = f[y] => x = y
    BY <1>1, <1>0
  <2>4. f \in Injection(S, Slots(k, b))
    <3> HIDE DEF f, S
    <3> QED
      BY <2>2, <2>3, Injective
  <2>5. Cardinality(S) <= Cardinality(Slots(k, b))
    <3> HIDE DEF f, S
    <3> QED
      BY <1>3, <2>4, FS_Injection
  <2>6. Cardinality(S) >= Cardinality(Slots(k, a)) - 1 /\ Cardinality(S) \in Nat
    <3>1. IsFiniteSet(S) /\ Cardinality(S) = IF a \in Slots(k, a) THEN Cardinality(Slots(k, a)) - 1 ELSE Cardinality(Slots(k, a))
      BY <1>3, FS_RemoveElement
    <3>2. Cardinality(S) \in Nat
      BY <3>1, FS_CardinalityType
    <3> HIDE DEF S
    <3> QED
      BY <1>3, <3>1, <3>2
  <2> HIDE DEF S
  <2> QED
    BY <1>3, <2>5, <2>6
<1> QED
  BY <1>4, <1>5

\* The map of a list with a member is balanced, whatever the list.
LEMMA AssignBalanced ==
    ASSUME NEW v, DOMAIN v \subseteq Int, IsFiniteSet(DOMAIN v), DOMAIN v # {}
    PROVE  LET o == Assign(v)
               u == {o[i].name : i \in DOMAIN o}
           IN  /\ DOMAIN o = 0..(NumPartitions - 1)
               /\ \A m, n \in DOMAIN v :
                     Cardinality({i \in DOMAIN o : o[i].name = m}) <= Cardinality({i \in DOMAIN o : o[i].name = n}) + 1
               /\ u = DOMAIN v \/ Cardinality(u) = NumPartitions
<1> DEFINE D == DOMAIN v
           k == Cardinality(D)
           N == NumPartitions
           P == 0..(N - 1)
           o == Assign(v)
           u == {o[i].name : i \in DOMAIN o}
<1>0. N \in Nat \ {0}
  BY MembershipAssumption
<1>1. k \in Nat \ {0}
  BY FS_EmptySet, FS_CardinalityType
<1>2. /\ \A n \in D : Rank(D, n) \in 0..(k - 1)
      /\ \A m, n \in D : Rank(D, m) = Rank(D, n) => m = n
      /\ \A i \in 0..(k - 1) : \E n \in D : Rank(D, n) = i
  BY RankBijective
<1>3. ASSUME NEW i \in 0..(k - 1) PROVE SortedName(v, i) \in D /\ Rank(D, SortedName(v, i)) = i
  BY <1>2 DEF SortedName, Rank
<1>4. DOMAIN o = P /\ \A i \in P : o[i].name = SortedName(v, i % k)
  BY DEF Assign
<1> HIDE DEF D, k, o
<1>5. ASSUME NEW i \in P PROVE i % k \in 0..(k - 1) /\ o[i].name \in D /\ Rank(D, o[i].name) = i % k
  <2>1. i % k \in 0..(k - 1)
    BY <1>0, <1>1
  <2> QED
    BY <1>3, <1>4, <2>1
<1>6. ASSUME NEW n \in D PROVE {i \in DOMAIN o : o[i].name = n} = Slots(k, Rank(D, n))
  <2>1. ASSUME NEW i \in P PROVE o[i].name = n <=> i % k = Rank(D, n)
    BY <1>2, <1>5
  <2> QED
    BY <1>4, <2>1 DEF Slots
<1>7. ASSUME NEW m \in D, NEW n \in D
      PROVE  Cardinality({i \in DOMAIN o : o[i].name = m}) <= Cardinality({i \in DOMAIN o : o[i].name = n}) + 1
  <2>1. Cardinality(Slots(k, Rank(D, m))) <= Cardinality(Slots(k, Rank(D, n))) + 1
    BY <1>1, <1>2, SlotsBalanced
  <2> QED
    BY <1>6, <2>1
<1>8. CASE k <= N
  <2>1. u \subseteq D
    BY <1>4, <1>5
  <2>2. ASSUME NEW n \in D PROVE n \in u
    <3> DEFINE r == Rank(D, n)
    <3>1. r \in 0..(k - 1)
      BY <1>2
    <3> HIDE DEF r
    <3>2. r \in P /\ r % k = r
      BY <1>0, <1>1, <1>8, <3>1
    <3>3. o[r].name = n
      BY <1>2, <1>5, <3>2 DEF r
    <3> QED
      BY <1>4, <3>2, <3>3
  <2> QED
    BY <1>4, <1>7, <2>1, <2>2 DEF D, o
<1>9. CASE N < k
  <2> DEFINE f == [i \in P |-> o[i].name]
  <2>1. ASSUME NEW i \in P PROVE i % k = i
    BY <1>0, <1>1, <1>9
  <2>2. ASSUME NEW i \in P, NEW j \in P, f[i] = f[j] PROVE i = j
    <3>1. o[i].name = o[j].name
      BY <2>2
    <3>2. i % k = j % k
      BY <1>5, <3>1
    <3> QED
      BY <2>1, <3>2
  <2>3. f \in [P -> u]
    BY <1>4
  <2>4. f \in Injection(P, u)
    <3> HIDE DEF f, P, u
    <3> QED
      BY <2>2, <2>3, Injective
  <2>5. f \in Surjection(P, u)
    <3>1. \A t \in u : \E i \in P : f[i] = t
      BY <1>4
    <3> HIDE DEF f, P, u
    <3> QED
      BY <2>3, <3>1 DEF Surjection
  <2>6. IsFiniteSet(P) /\ Cardinality(P) = N
    <3>1. 0 \in Int /\ N - 1 \in Int
      BY <1>0
    <3>2. IsFiniteSet(P) /\ Cardinality(P) = IF 0 > N - 1 THEN 0 ELSE (N - 1) - 0 + 1
      BY <3>1, FS_Interval
    <3> QED
      BY <1>0, <3>2
  <2>7. Cardinality(u) = N
    <3> HIDE DEF f, P, u
    <3> QED
      BY <2>4, <2>5, <2>6, FS_Surjection
  <2> QED
    BY <1>4, <1>7, <2>7 DEF D, o
<1> QED
  BY <1>0, <1>1, <1>8, <1>9

\* A member list is finite: it starts with the process and changes by one.
Finite == \A p \in Proc : IsFiniteSet(DOMAIN view[p])

\* Every step keeps the lists finite.
LEMMA StepFinite == IInv /\ Finite /\ [Next]_vars => Finite'
<1> SUFFICES ASSUME IInv, Finite, [Next]_vars, NEW q \in Proc PROVE IsFiniteSet(DOMAIN view'[q])
  BY DEF Finite
<1>0. TypeOK /\ IsFiniteSet(DOMAIN view[q])
  BY DEF IInv, Finite
<1>1. view = [r \in Proc |-> view[r]]
  BY <1>0 DEF TypeOK
<1>2. ASSUME NEW p \in Proc, Create(p) PROVE IsFiniteSet(DOMAIN view'[q])
  <2>1. DOMAIN view'[q] = IF q = p THEN {p} ELSE DOMAIN view[q]
    BY <1>1, <1>2 DEF Create, Self
  <2>2. IsFiniteSet({} \cup {p})
    BY FS_EmptySet, FS_AddElement
  <2>3. {} \cup {p} = {p}
    OBVIOUS
  <2> QED
    BY <1>0, <2>1, <2>2, <2>3
<1>3. ASSUME NEW p \in Proc, Leave(p) PROVE IsFiniteSet(DOMAIN view'[q])
  <2>1. DOMAIN view'[q] = IF q = p THEN DOMAIN view[q] \ {p} ELSE DOMAIN view[q]
    BY <1>1, <1>3 DEF Leave
  <2> QED
    BY <1>0, <2>1, FS_RemoveElement
<1>4. ASSUME NEW p \in Proc, NEW n \in Name, MemberDead(p, n) PROVE IsFiniteSet(DOMAIN view'[q])
  <2>1. DOMAIN view'[q] = IF q = p THEN DOMAIN view[q] \ {n} ELSE DOMAIN view[q]
    BY <1>1, <1>4 DEF MemberDead
  <2> QED
    BY <1>0, <2>1, FS_RemoveElement
<1>5. ASSUME NEW p \in Proc, NEW n \in Name, NEW a \in Addr, MemberAlive(p, n, a) PROVE IsFiniteSet(DOMAIN view'[q])
  <2>1. DOMAIN view'[q] = IF q = p THEN DOMAIN view[q] \cup {n} ELSE DOMAIN view[q]
    BY <1>1, <1>5 DEF MemberAlive
  <2> QED
    BY <1>0, <2>1, FS_AddElement
<1>6. CASE UNCHANGED view
  BY <1>0, <1>6
<1> QED
  BY <1>2, <1>3, <1>4, <1>5, <1>6
  DEF Next, ProcessEvents, InitialRebalance, TakeEvent, ReadMembers, ApplyMembers, Stop, CloseStop, vars

\* Round-robin is fair for any number of members and partitions: in the map of
\* every settled process each partition has an owner, no member has two
\* partitions more than another, and the router's unique owners are the members
\* or as many as there are partitions.
THEOREM MapIsBalanced == Spec => []Balanced
<1>1. Init => Finite
  BY FS_EmptySet DEF Init, Finite, NoView
<1>2. IInv /\ Finite => Balanced
  <2> SUFFICES ASSUME IInv, Finite, NEW p \in Proc, pc[p] = "wait", ~Pending(p), DOMAIN view[p] # {}
               PROVE  /\ DOMAIN owners[p] = 0..(NumPartitions - 1)
                      /\ \A m, n \in DOMAIN view[p] :
                            Cardinality({i \in DOMAIN owners[p] : owners[p][i].name = m})
                            <= Cardinality({i \in DOMAIN owners[p] : owners[p][i].name = n}) + 1
                      /\ UniqueOwners(p) = DOMAIN view[p] \/ Cardinality(UniqueOwners(p)) = NumPartitions
    BY DEF Balanced
  <2>1. owners[p] = Assign(view[p])
    BY DEF IInv, Fresh, Pending
  <2>2. DOMAIN view[p] \subseteq Int /\ IsFiniteSet(DOMAIN view[p])
    <3>1. view[p] \in Views
      BY DEF IInv, TypeOK
    <3>2. PICK S \in SUBSET Name : view[p] \in [S -> Addr]
      BY <3>1 DEF Views
    <3> QED
      BY <3>2, MembershipAssumption DEF Finite
  <2>3. UniqueOwners(p) = {owners[p][i].name : i \in DOMAIN owners[p]}
    BY DEF UniqueOwners
  <2> DEFINE v == view[p]
             o == Assign(v)
             u == {o[i].name : i \in DOMAIN o}
  <2>4. /\ DOMAIN o = 0..(NumPartitions - 1)
        /\ \A m, n \in DOMAIN v :
              Cardinality({i \in DOMAIN o : o[i].name = m}) <= Cardinality({i \in DOMAIN o : o[i].name = n}) + 1
        /\ u = DOMAIN v \/ Cardinality(u) = NumPartitions
    <3> HIDE DEF v
    <3>1. DOMAIN v \subseteq Int /\ IsFiniteSet(DOMAIN v) /\ DOMAIN v # {}
      BY <2>2 DEF v
    <3> QED
      BY <3>1, AssignBalanced
  <2>5. UniqueOwners(p) = u
    BY <2>1, <2>3
  <2> HIDE DEF o, u
  <2>6. owners[p] = o
    BY <2>1 DEF o
  <2> QED
    BY <2>4, <2>5, <2>6
<1> QED
  BY Invariance, StepFinite, <1>1, <1>2, PTL DEF Spec

=============================================================================
