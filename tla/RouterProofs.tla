----------------------------- MODULE RouterProofs -----------------------------
(***************************************************************************)
(* Proofs about Router, for any calls, nodes, partition maps and sizes of  *)
(* answers, and any number of servers that close or crash.                 *)
(***************************************************************************)
EXTENDS Router, FiniteSetTheorems, SequenceTheorems, WellFoundedInduction, TLAPS

-----------------------------------------------------------------------------
(* Sequences.                                                                *)

\* A set of natural numbers that is not empty has a least one.
LEMMA LeastNat ==
    ASSUME NEW S, S \subseteq Nat, S # {}
    PROVE  \E m \in S : \A n \in S : m <= n
<1>1. PICK m \in S : \A n \in S : ~(<<n, m>> \in OpToRel(<, Nat))
  BY WFMin, NatLessThanWellFounded
<1>2. \A n \in S : ~(n < m)
  BY <1>1 DEF OpToRel
<1> QED
  BY <1>2

\* The sequences that have been appended so far.
PrefixSums(parts, k, f) == f = [i \in 1..k |-> IF i = 1 THEN parts[i] ELSE f[i - 1] \o parts[i]]

\* FlattenSeq appends one sequence after the other.
LEMMA Flatten ==
    ASSUME NEW R, NEW parts \in Seq(R), Len(parts) > 0
    PROVE  \E f : PrefixSums(parts, Len(parts), f) /\ FlattenSeq(parts) = f[Len(parts)]
<1> DEFINE n == Len(parts)
           B == {k \in 1..n : ~\E f : PrefixSums(parts, k, f)}
<1>0. n \in Nat /\ n > 0
  BY LenProperties
<1>1. B = {}
  <2> SUFFICES ASSUME B # {} PROVE FALSE
    OBVIOUS
  <2>1. PICK m \in B : \A k \in B : m <= k
    <3>1. B \subseteq Nat
      BY <1>0
    <3> HIDE DEF B
    <3> QED
      BY <3>1, LeastNat
  <2>2. CASE m = 1
    <3> DEFINE f == [i \in 1..m |-> parts[i]]
    <3>1. PrefixSums(parts, m, f)
      BY <2>2 DEF PrefixSums
    <3> HIDE DEF f
    <3> QED
      BY <3>1
  <2>3. CASE m # 1
    <3>1. m \in Nat /\ m - 1 \in 1..n /\ m - 1 < m /\ m - 1 \in Nat
      BY <1>0, <2>3
    <3>2. PICK g : PrefixSums(parts, m - 1, g)
      BY <2>1, <3>1
    <3> DEFINE f == [i \in 1..m |-> IF i = m THEN g[m - 1] \o parts[m] ELSE g[i]]
    <3>3. \A i \in 1..(m - 1) : g[i] = IF i = 1 THEN parts[i] ELSE g[i - 1] \o parts[i]
      BY <3>2 DEF PrefixSums
    <3>4. ASSUME NEW i \in 1..m PROVE f[i] = IF i = 1 THEN parts[i] ELSE f[i - 1] \o parts[i]
      <4>1. CASE i = m
        <5>0. m \in 1..m /\ m - 1 \in 1..m /\ m - 1 # m
          BY <2>3, <3>1
        <5>1. f[m] = g[m - 1] \o parts[m]
          BY <5>0
        <5>2. f[m - 1] = g[m - 1]
          BY <5>0
        <5> QED
          BY <2>3, <4>1, <5>1, <5>2
      <4>2. CASE i # m
        <5>1. i \in 1..(m - 1) /\ f[i] = g[i]
          BY <3>1, <4>2
        <5>2. CASE i = 1
          BY <3>3, <5>1, <5>2
        <5>3. CASE i # 1
          <6>1. i - 1 \in 1..m /\ i - 1 # m
            BY <3>1, <5>1, <5>3
          <6>2. f[i - 1] = g[i - 1]
            BY <6>1
          <6> QED
            BY <3>3, <5>1, <5>3, <6>2
        <5> QED
          BY <5>2, <5>3
      <4> QED
        BY <4>1, <4>2
    <3>5. PrefixSums(parts, m, f)
      <4>1. f = [i \in 1..m |-> f[i]]
        OBVIOUS
      <4> HIDE DEF f
      <4> QED
        BY <3>4, <4>1 DEF PrefixSums
    <3> HIDE DEF f
    <3> QED
      BY <3>5
  <2> QED
    BY <2>2, <2>3
<1>2. \E f : PrefixSums(parts, n, f)
  <2>1. n \in 1..n
    BY <1>0
  <2> QED
    BY <1>1, <2>1
<1> DEFINE flatten == CHOOSE f : PrefixSums(parts, n, f)
<1>3. PrefixSums(parts, n, flatten)
  BY <1>2
<1>4. FlattenSeq(parts) = flatten[n]
  BY <1>0 DEF FlattenSeq, PrefixSums
<1> QED
  BY <1>3, <1>4

-----------------------------------------------------------------------------
(* mergeResults.                                                             *)

Row == [of : Node, no : Nat]

\* The result of a shard that has ended: all rows of the node, or an error.
Ended(n, r) == r = Error(n) \/ r = Rows(n, RowsOf(n))

\* The results that are merged: one for each owner.
Results1(owners, res) ==
    /\ owners \in Seq(Node) /\ IsInjective(owners) /\ Len(owners) > 0
    /\ res \in Seq(Results) /\ Len(res) = Len(owners)
    /\ \A i \in 1..Len(owners) : Ended(owners[i], res[i])

\* Rows grouped by owner, in the order of the first k owners, the parts whole.
Grouped(rows, owners, res, k) ==
    /\ rows \in Seq(Row)
    /\ \A p \in 1..Len(rows) : \E i \in 1..k : rows[p].of = owners[i] /\ res[i].st = "ok"
    /\ \A p, q \in 1..Len(rows) : p < q =>
          \/ \E i, j \in 1..k : i < j /\ rows[p].of = owners[i] /\ rows[q].of = owners[j]
          \/ rows[p].of = rows[q].of /\ rows[p].no < rows[q].no
    /\ \A i \in 1..k :
          Cardinality({p \in 1..Len(rows) : rows[p].of = owners[i]}) = IF res[i].st = "ok" THEN Size[owners[i]] ELSE 0

\* What a node answers.
LEMMA RowsFacts ==
    ASSUME NEW n \in Node
    PROVE  /\ Size[n] \in Nat
           /\ RowsOf(n) \in Seq(Row) /\ Len(RowsOf(n)) = Size[n]
           /\ \A i \in 1..Size[n] : RowsOf(n)[i].of = n /\ RowsOf(n)[i].no = i
<1>1. Size[n] \in Nat
  BY RouterAssumption
<1>2. \A i \in 1..Size[n] : [of |-> n, no |-> i] \in Row
  BY <1>1 DEF Row
<1>3. RowsOf(n) \in [1..Size[n] -> Row]
  BY <1>2 DEF RowsOf
<1>4. RowsOf(n) \in Seq(Row)
  BY <1>1, <1>3, SeqDef
<1>5. Len(RowsOf(n)) = Size[n]
  BY <1>1, <1>3, <1>4, LenProperties
<1> QED
  BY <1>1, <1>4, <1>5 DEF RowsOf

\* One more result.
LEMMA GroupedStep ==
    ASSUME NEW owners, NEW res, Results1(owners, res), NEW k \in Nat, k + 1 <= Len(owners),
           NEW rows, Grouped(rows, owners, res, k),
           NEW part, part = IF res[k + 1].st = "ok" THEN res[k + 1].rows ELSE <<>>
    PROVE  Grouped(rows \o part, owners, res, k + 1)
<1> DEFINE n == owners[k + 1]
           L == Len(rows)
           all == rows \o part
<1>1. /\ rows \in Seq(Row) /\ L \in Nat /\ Len(owners) \in Nat /\ k + 1 \in 1..Len(owners)
      /\ n \in Node /\ Ended(n, res[k + 1]) /\ \A i \in 1..(k + 1) : i \in 1..k \/ i = k + 1
      /\ 1..k \subseteq 1..(k + 1) /\ \A i \in 1..k : i < k + 1 /\ i \in Nat
  <2>1. rows \in Seq(Row) /\ owners \in Seq(Node)
    BY DEF Grouped, Results1
  <2>2. L \in Nat /\ Len(owners) \in Nat /\ k + 1 \in 1..Len(owners)
    BY <2>1, LenProperties
  <2>3. n \in Node /\ Ended(n, res[k + 1])
    BY <2>1, <2>2, ElementOfSeq DEF Results1
  <2> QED
    BY <2>1, <2>2, <2>3
<1>2. \A p \in 1..L : rows[p].of # n
  <2> SUFFICES ASSUME NEW p \in 1..L, rows[p].of = n PROVE FALSE
    OBVIOUS
  <2>1. PICK i \in 1..k : rows[p].of = owners[i]
    BY DEF Grouped
  <2>2. i \in DOMAIN owners /\ k + 1 \in DOMAIN owners /\ i # k + 1
    <3>1. DOMAIN owners = 1..Len(owners)
      BY LenProperties DEF Results1
    <3> QED
      BY <1>1, <3>1
  <2> QED
    BY <2>1, <2>2 DEF Results1, IsInjective
<1>3. CASE res[k + 1].st # "ok"
  <2>1. all = rows
    BY <1>1, <1>3, ConcatEmptySeq
  <2>2. {p \in 1..L : rows[p].of = n} = {}
    BY <1>2
  <2>3. Cardinality({p \in 1..L : rows[p].of = n}) = 0
    BY <2>2, FS_EmptySet
  <2>4. \A i \in 1..(k + 1) :
          Cardinality({p \in 1..L : rows[p].of = owners[i]}) = IF res[i].st = "ok" THEN Size[owners[i]] ELSE 0
    <3> SUFFICES ASSUME NEW i \in 1..(k + 1)
                 PROVE  Cardinality({p \in 1..L : rows[p].of = owners[i]}) = IF res[i].st = "ok" THEN Size[owners[i]] ELSE 0
      OBVIOUS
    <3>1. CASE i \in 1..k
      BY <3>1 DEF Grouped
    <3>2. CASE i = k + 1
      BY <1>3, <2>3, <3>2
    <3> QED
      BY <1>1, <3>1, <3>2
  <2>5. \A p \in 1..L : \E i \in 1..(k + 1) : rows[p].of = owners[i] /\ res[i].st = "ok"
    BY <1>1 DEF Grouped
  <2>6. \A p, q \in 1..L : p < q =>
          \/ \E i, j \in 1..(k + 1) : i < j /\ rows[p].of = owners[i] /\ rows[q].of = owners[j]
          \/ rows[p].of = rows[q].of /\ rows[p].no < rows[q].no
    BY <1>1 DEF Grouped
  <2>7. Grouped(rows, owners, res, k + 1)
    <3>1. rows \in Seq(Row)
      BY <1>1
    <3> QED
      BY <2>4, <2>5, <2>6, <3>1 DEF Grouped
  <2> QED
    BY <2>1, <2>7
<1>4. CASE res[k + 1].st = "ok"
  <2>1. res[k + 1] = Rows(n, RowsOf(n))
    BY <1>1, <1>4 DEF Ended, Error, Result
  <2>2. part = RowsOf(n)
    BY <1>4, <2>1 DEF Rows, Result
  <2>3. /\ Size[n] \in Nat /\ part \in Seq(Row) /\ Len(part) = Size[n]
        /\ \A i \in 1..Size[n] : part[i].of = n /\ part[i].no = i
    BY <1>1, <2>2, RowsFacts
  <2>4. all \in Seq(Row) /\ Len(all) = L + Size[n]
    BY <1>1, <2>3, ConcatProperties
  <2>5. \A p \in 1..L : all[p] = rows[p]
    <3>1. \A p \in 1..L : p \in 1..(L + Len(part)) /\ p <= L
      BY <1>1, <2>3
    <3> QED
      BY <1>1, <2>3, <3>1, ConcatProperties
  <2>6. ASSUME NEW p \in (L + 1)..(L + Size[n]) PROVE all[p].of = n /\ all[p].no = p - L
    <3>1. p \in 1..(L + Len(part)) /\ ~(p <= L) /\ p - L \in 1..Size[n]
      BY <1>1, <2>3
    <3>2. all[p] = part[p - L]
      BY <1>1, <2>3, <3>1, ConcatProperties
    <3> QED
      BY <2>3, <3>1, <3>2
  <2>7. \A p \in 1..Len(all) : p \in 1..L \/ p \in (L + 1)..(L + Size[n])
    BY <1>1, <2>3, <2>4
  <2> HIDE DEF all, L, n
  <2>8. \A p \in 1..Len(all) : \E i \in 1..(k + 1) : all[p].of = owners[i] /\ res[i].st = "ok"
    <3> SUFFICES ASSUME NEW p \in 1..Len(all) PROVE \E i \in 1..(k + 1) : all[p].of = owners[i] /\ res[i].st = "ok"
      OBVIOUS
    <3>1. CASE p \in 1..L
      <4>1. PICK i \in 1..k : rows[p].of = owners[i] /\ res[i].st = "ok"
        BY <3>1 DEF Grouped, L
      <4> QED
        BY <1>1, <2>5, <3>1, <4>1
    <3>2. CASE p \in (L + 1)..(L + Size[n])
      <4>1. all[p].of = owners[k + 1] /\ k + 1 \in 1..(k + 1)
        BY <2>6, <3>2 DEF n
      <4> QED
        BY <1>4, <4>1
    <3> QED
      BY <2>7, <3>1, <3>2
  <2>9. ASSUME NEW p \in 1..Len(all), NEW q \in 1..Len(all), p < q
        PROVE  \/ \E i, j \in 1..(k + 1) : i < j /\ all[p].of = owners[i] /\ all[q].of = owners[j]
               \/ all[p].of = all[q].of /\ all[p].no < all[q].no
    <3>0. p \in Nat /\ q \in Nat
      BY <1>1, <2>3, <2>4
    <3>1. CASE q \in 1..L
      <4>1. p \in 1..L
        BY <1>1, <2>9, <3>0, <3>1
      <4>2. \/ \E i, j \in 1..k : i < j /\ rows[p].of = owners[i] /\ rows[q].of = owners[j]
            \/ rows[p].of = rows[q].of /\ rows[p].no < rows[q].no
        BY <2>9, <3>1, <4>1 DEF Grouped, L
      <4>3. all[p] = rows[p] /\ all[q] = rows[q]
        BY <2>5, <3>1, <4>1
      <4> QED
        BY <1>1, <4>2, <4>3
    <3>2. CASE q \in (L + 1)..(L + Size[n]) /\ p \in 1..L
      <4>1. PICK i \in 1..k : rows[p].of = owners[i]
        BY <3>2 DEF Grouped, L
      <4>2. all[p].of = owners[i] /\ all[q].of = owners[k + 1]
        BY <2>5, <2>6, <3>2, <4>1 DEF n
      <4>3. i \in 1..(k + 1) /\ k + 1 \in 1..(k + 1) /\ i < k + 1
        BY <1>1
      <4> QED
        BY <4>2, <4>3
    <3>3. CASE q \in (L + 1)..(L + Size[n]) /\ p \in (L + 1)..(L + Size[n])
      <4>1. all[p].of = n /\ all[q].of = n /\ all[p].no = p - L /\ all[q].no = q - L
        BY <2>6, <3>3
      <4>2. p - L < q - L
        BY <1>1, <2>9, <3>0
      <4> QED
        BY <4>1, <4>2
    <3> QED
      BY <2>7, <3>1, <3>2, <3>3
  <2>10. ASSUME NEW i \in 1..(k + 1)
         PROVE  Cardinality({p \in 1..Len(all) : all[p].of = owners[i]}) = IF res[i].st = "ok" THEN Size[owners[i]] ELSE 0
    <3> DEFINE P == {p \in 1..Len(all) : all[p].of = owners[i]}
    <3>1. CASE i = k + 1
      <4>1. P = (L + 1)..(L + Size[n])
        <5>1. ASSUME NEW p \in P PROVE p \in (L + 1)..(L + Size[n])
          <6>1. p \notin 1..L
            BY <1>2, <2>5, <3>1 DEF L, n
          <6> QED
            BY <2>7, <6>1
        <5>2. ASSUME NEW p \in (L + 1)..(L + Size[n]) PROVE p \in P
          <6>1. all[p].of = owners[i]
            BY <2>6, <3>1 DEF n
          <6>2. p \in 1..Len(all)
            BY <1>1, <2>3, <2>4
          <6> QED
            BY <6>1, <6>2
        <5> HIDE DEF P
        <5> QED
          BY <5>1, <5>2
      <4>2. Cardinality((L + 1)..(L + Size[n])) = Size[n]
        <5> DEFINE s == Size[n]
                   a == L + 1
                   b == L + s
        <5>0. L \in Nat /\ s \in Nat
          BY <1>1, <2>3
        <5> HIDE DEF s
        <5>1. a \in Int /\ b \in Int /\ b - a + 1 = s /\ (a > b => s = 0)
          BY <5>0
        <5> HIDE DEF a, b
        <5>2. Cardinality(a..b) = IF a > b THEN 0 ELSE b - a + 1
          BY <5>1, FS_Interval
        <5>3. Cardinality(a..b) = s
          BY <5>1, <5>2
        <5> QED
          BY <5>3 DEF a, b, s
      <4> HIDE DEF P
      <4>3. Cardinality(P) = Size[owners[i]]
        BY <3>1, <4>1, <4>2 DEF n
      <4> QED
        BY <1>4, <3>1, <4>3 DEF P
    <3>2. CASE i \in 1..k
      <4>1. owners[i] # n
        <5>1. i \in DOMAIN owners /\ k + 1 \in DOMAIN owners /\ i # k + 1
          <6>1. DOMAIN owners = 1..Len(owners)
            BY LenProperties DEF Results1
          <6> QED
            BY <1>1, <3>2, <6>1
        <5> QED
          BY <5>1 DEF Results1, IsInjective, n
      <4>2. P = {p \in 1..L : rows[p].of = owners[i]}
        <5>1. ASSUME NEW p \in P PROVE p \in 1..L /\ rows[p].of = owners[i]
          <6>1. p \in 1..L
            BY <2>6, <2>7, <4>1
          <6> QED
            BY <2>5, <6>1
        <5>2. ASSUME NEW p \in 1..L, rows[p].of = owners[i] PROVE p \in P
          <6>1. p \in 1..Len(all)
            BY <1>1, <2>3, <2>4
          <6> QED
            BY <2>5, <5>2, <6>1
        <5> HIDE DEF P
        <5> QED
          BY <5>1, <5>2
      <4>3. Cardinality({p \in 1..L : rows[p].of = owners[i]}) = IF res[i].st = "ok" THEN Size[owners[i]] ELSE 0
        BY <3>2 DEF Grouped, L
      <4> QED
        BY <4>2, <4>3
    <3> QED
      BY <1>1, <3>1, <3>2
  <2>11. all \in Seq(Row)
    BY <2>4
  <2> QED
    BY <2>8, <2>9, <2>10, <2>11 DEF Grouped, all
<1> QED
  BY <1>3, <1>4

\* No rows, when no owner has answered.
LEMMA GroupedNone ==
    ASSUME NEW owners, NEW res, NEW k, \A i \in 1..k : res[i].st # "ok"
    PROVE  Grouped(<<>>, owners, res, k)
<1>1. <<>> \in Seq(Row) /\ Len(<<>>) = 0
  OBVIOUS
<1>2. 1..0 = {}
  OBVIOUS
<1>3. \A i \in 1..k : Cardinality({p \in 1..Len(<<>>) : <<>>[p].of = owners[i]}) = 0
  <2> SUFFICES ASSUME NEW i \in 1..k PROVE Cardinality({p \in 1..Len(<<>>) : <<>>[p].of = owners[i]}) = 0
    OBVIOUS
  <2>1. {p \in 1..Len(<<>>) : <<>>[p].of = owners[i]} = {}
    BY <1>1, <1>2
  <2> QED
    BY <2>1, FS_EmptySet
<1> QED
  BY <1>1, <1>2, <1>3 DEF Grouped

\* The results of the first k owners, appended.
LEMMA GroupedSums ==
    ASSUME NEW owners, NEW res, Results1(owners, res),
           NEW parts \in Seq(Seq(Row)), Len(parts) = Len(owners),
           \A i \in 1..Len(owners) : parts[i] = IF res[i].st = "ok" THEN res[i].rows ELSE <<>>,
           NEW f, PrefixSums(parts, Len(owners), f)
    PROVE  Grouped(f[Len(owners)], owners, res, Len(owners))
<1> DEFINE n == Len(owners)
           B == {k \in 1..n : ~Grouped(f[k], owners, res, k)}
<1>0. n \in Nat /\ n > 0 /\ \A i \in 1..n : parts[i] \in Seq(Row)
  BY LenProperties, ElementOfSeq DEF Results1
<1>1. \A i \in 1..n : f[i] = IF i = 1 THEN parts[i] ELSE f[i - 1] \o parts[i]
  BY DEF PrefixSums
<1>2. B = {}
  <2> SUFFICES ASSUME B # {} PROVE FALSE
    OBVIOUS
  <2>1. PICK m \in B : \A k \in B : m <= k
    <3>1. B \subseteq Nat
      BY <1>0
    <3> HIDE DEF B
    <3> QED
      BY <3>1, LeastNat
  <2>2. m \in 1..n /\ ~Grouped(f[m], owners, res, m) /\ m \in Nat
    BY <1>0, <2>1
  <2> DEFINE before == IF m = 1 THEN <<>> ELSE f[m - 1]
             j == m - 1
  <2>3. j \in Nat /\ j + 1 = m /\ j + 1 <= n /\ (m # 1 => j \in 1..n /\ j < m)
    BY <1>0, <2>2
  <2>4. Grouped(before, owners, res, j)
    <3>1. CASE m = 1
      <4>1. j = 0 /\ 1..0 = {}
        BY <3>1
      <4>2. Grouped(<<>>, owners, res, j)
        BY <4>1, GroupedNone
      <4> QED
        BY <3>1, <4>2
    <3>2. CASE m # 1
      <4>1. j \notin B
        <5> HIDE DEF B, j
        <5> QED
          BY <2>1, <2>2, <2>3, <3>2
      <4> QED
        BY <2>3, <3>2, <4>1
    <3> QED
      BY <3>1, <3>2
  <2>5. parts[m] \in Seq(Row) /\ f[m] = before \o parts[m]
    <3>1. CASE m = 1
      <4>1. <<>> \o parts[m] = parts[m]
        BY <1>0, <2>2, ConcatEmptySeq
      <4> QED
        BY <1>0, <1>1, <2>2, <3>1, <4>1
    <3>2. CASE m # 1
      BY <1>0, <1>1, <2>2, <3>2
    <3> QED
      BY <3>1, <3>2
  <2> HIDE DEF before, j
  <2>6. parts[j + 1] = IF res[j + 1].st = "ok" THEN res[j + 1].rows ELSE <<>>
    BY <2>2, <2>3
  <2>7. Grouped(before \o parts[j + 1], owners, res, j + 1)
    BY <2>3, <2>4, <2>6, GroupedStep
  <2> QED
    BY <2>2, <2>3, <2>5, <2>7
<1> QED
  BY <1>0, <1>2

\* What the merge returns.
Merged(owners, res, m) ==
    /\ m \in Results /\ m.st \in {"ok", "error"}
    /\ m.st = "ok" <=> \E i \in 1..Len(owners) : res[i].st = "ok"
    /\ Grouped(m.rows, owners, res, Len(owners))

\* mergeResults drops the errors and keeps the answers whole and in order.
LEMMA MergeFacts ==
    ASSUME NEW owners, NEW res, Results1(owners, res)
    PROVE  Merged(owners, res, mergeResults(res))
<1> DEFINE n == Len(owners)
           valid == {i \in DOMAIN res : res[i].st = "ok"}
           parts == [i \in DOMAIN res |-> IF i \in valid THEN res[i].rows ELSE <<>>]
           m == mergeResults(res)
<1>0. /\ n \in Nat /\ n > 0 /\ 1 \in 1..n /\ DOMAIN res = 1..n /\ owners \in Seq(Node)
      /\ \A i \in 1..n : owners[i] \in Node /\ Ended(owners[i], res[i]) /\ res[i] \in Results
  BY LenProperties, ElementOfSeq DEF Results1
<1>1. CASE valid = {}
  <2>1. \A i \in 1..n : res[i].st # "ok"
    BY <1>0, <1>1
  <2>2. m = res[1]
    BY <1>1 DEF mergeResults
  <2>3. m = Error(owners[1])
    BY <1>0, <2>1, <2>2 DEF Ended, Rows, Result
  <2>4. m.st = "error" /\ m.rows = <<>>
    BY <2>3 DEF Error, Result
  <2>5. Grouped(<<>>, owners, res, n)
    BY <2>1, GroupedNone
  <2>6. m \in Results
    BY <1>0, <2>2
  <2> HIDE DEF m
  <2>7. Merged(owners, res, m)
    BY <2>1, <2>4, <2>5, <2>6 DEF Merged
  <2> QED
    BY <2>7 DEF m
<1>2. CASE valid # {}
  <2> DEFINE first == Min(valid)
             rows == FlattenSeq(parts)
  <2>1. m = [res[first] EXCEPT !.rows = rows]
    BY <1>2 DEF mergeResults, Appended
  <2>2. first \in valid
    <3>1. valid \subseteq Nat
      BY <1>0
    <3> HIDE DEF valid
    <3>2. \E x \in valid : \A y \in valid : x <= y
      BY <1>2, <3>1, LeastNat
    <3> QED
      BY <3>2 DEF Min
  <2>3. first \in 1..n /\ res[first] \in Results /\ res[first].st = "ok"
    BY <1>0, <2>2
  <2>4. ASSUME NEW i \in 1..n PROVE (IF i \in valid THEN res[i].rows ELSE <<>>) \in Seq(Row)
    <3>1. res[i] \in Results
      BY <1>0
    <3>2. res[i].rows \in Seq(Row)
      BY <3>1 DEF Results, Row
    <3> QED
      BY <3>2
  <2>5. parts \in Seq(Seq(Row)) /\ Len(parts) = n
    <3>1. parts \in [1..n -> Seq(Row)]
      BY <1>0, <2>4
    <3>2. parts \in Seq(Seq(Row))
      BY <1>0, <3>1, SeqDef
    <3> HIDE DEF parts
    <3> QED
      BY <1>0, <3>1, <3>2, LenProperties
  <2>6. \A i \in 1..n : parts[i] = IF res[i].st = "ok" THEN res[i].rows ELSE <<>>
    BY <1>0
  <2> HIDE DEF parts
  <2>7. PICK f : PrefixSums(parts, Len(parts), f) /\ rows = f[Len(parts)]
    BY <1>0, <2>5, Flatten
  <2>8. Grouped(f[n], owners, res, n)
    BY <2>5, <2>6, <2>7, GroupedSums
  <2>9. rows \in Seq(Row) /\ Grouped(rows, owners, res, n)
    BY <2>5, <2>7, <2>8 DEF Grouped
  <2> HIDE DEF rows, first, m
  <2>10. m.st = "ok" /\ m.rows = rows /\ m \in Results
    BY <2>1, <2>3, <2>9 DEF Results, Row
  <2>11. \E i \in 1..n : res[i].st = "ok"
    BY <2>3
  <2>12. Merged(owners, res, m)
    BY <2>9, <2>10, <2>11 DEF Merged
  <2> QED
    BY <2>12 DEF m
<1> QED
  BY <1>1, <1>2

-----------------------------------------------------------------------------
(* The inductive invariant.                                                  *)

Conns == {"none", "asked", "rows", "error", "ended"}

Types ==
    /\ call \in [Call -> [ph : {"idle", "wait", "done"}, owners : Seq(Node), answer : Results]]
    /\ shard \in [Call -> [Node -> Results]]
    /\ conn \in [Call -> [Node -> Conns]] /\ ran \in [Call -> [Node -> Nat]]
    /\ server \in [Remote -> {"up", "closing", "down"}] /\ stops \in 0..MaxStops

\* A call asks each of its owners once.
Owners ==
    \A c \in Call : IsInjective(call[c].owners) /\ (call[c].ph # "idle" => Len(call[c].owners) > 0)

\* A shard has no result yet, all rows of its node, or an error.
Shards == \A c \in Call, n \in Node : shard[c][n] = Pending \/ Ended(n, shard[c][n])

\* A node executes the query once it is asked, and only then can it answer.
Executions ==
    \A c \in Call, n \in Node :
        /\ ran[c][n] \in 0..1
        /\ shard[c][n].st = "ok" => ran[c][n] = 1
        /\ n = Me => conn[c][n] = "none" /\ (shard[c][n] = Pending => ran[c][n] = 0)
        /\ n # Me /\ conn[c][n] \in {"none", "asked"} => ran[c][n] = 0
        /\ conn[c][n] \in {"rows", "error"} => ran[c][n] = 1

ResultsOf(c) == [i \in DOMAIN call[c].owners |-> shard[c][call[c].owners[i]]]
Complete(c) == \A n \in ToSet(call[c].owners) : shard[c][n] # Pending

\* An answer is the merge of what the shards still hold.
Answers == \A c \in Call : Done(c) => Complete(c) /\ call[c].answer = mergeResults(ResultsOf(c))

IInv == Types /\ Owners /\ Shards /\ Executions /\ Answers

\* A result that has ended is a result, and not the one a shard starts with.
LEMMA EndedFacts ==
    ASSUME NEW n \in Node, NEW r, Ended(n, r)
    PROVE  r \in Results /\ r # Pending
<1>1. CASE r = Error(n)
  <2>1. <<>> \in Seq([of : Node, no : Nat])
    OBVIOUS
  <2> QED
    BY <1>1, <2>1 DEF Error, Result, Results, Pending
<1>2. CASE r # Error(n)
  <2>1. r = Rows(n, RowsOf(n))
    BY <1>2 DEF Ended
  <2> DEFINE rows == RowsOf(n)
  <2>2. rows \in Seq([of : Node, no : Nat])
    BY RowsFacts DEF Row
  <2> HIDE DEF rows
  <2>3. r = [st |-> "ok", of |-> n, rows |-> rows]
    BY <2>1 DEF rows, Rows, Result
  <2> QED
    BY <2>2, <2>3 DEF Results, Pending, Result
<1> QED
  BY <1>1, <1>2

\* The response is read whole or refused.
LEMMA ReadFacts ==
    ASSUME NEW n \in Node
    PROVE  Ended(n, readRPCMessage(n, RowsOf(n)))
<1>2. CASE Len(RowsOf(n)) > MaxSize
  BY <1>2 DEF readRPCMessage, Ended
<1>3. CASE ~(Len(RowsOf(n)) > MaxSize)
  BY <1>3 DEF readRPCMessage, Ended
<1> QED
  BY <1>2, <1>3

\* The results of a call whose shards have all ended can be merged.
LEMMA Mergeable ==
    ASSUME IInv, NEW c \in Call, call[c].ph # "idle", Complete(c)
    PROVE  Results1(call[c].owners, ResultsOf(c))
<1> DEFINE owners == call[c].owners
           res == ResultsOf(c)
<1>1. owners \in Seq(Node) /\ IsInjective(owners) /\ Len(owners) > 0
  BY DEF IInv, Types, Owners
<1>2. Len(owners) \in Nat /\ DOMAIN owners = 1..Len(owners) /\ \A i \in 1..Len(owners) : owners[i] \in Node
  BY <1>1, LenProperties, ElementOfSeq
<1>3. ASSUME NEW i \in 1..Len(owners) PROVE Ended(owners[i], shard[c][owners[i]]) /\ shard[c][owners[i]] \in Results
  <2>1. owners[i] \in ToSet(owners)
    BY <1>2 DEF ToSet
  <2>2. shard[c][owners[i]] # Pending
    BY <2>1 DEF Complete
  <2>3. Ended(owners[i], shard[c][owners[i]])
    BY <1>2, <2>2 DEF IInv, Shards
  <2> QED
    BY <1>2, <2>3, EndedFacts
<1>4. res \in [1..Len(owners) -> Results] /\ \A i \in 1..Len(owners) : res[i] = shard[c][owners[i]]
  BY <1>2, <1>3 DEF ResultsOf
<1>5. res \in Seq(Results)
  BY <1>2, <1>4, SeqDef
<1>6. Len(res) = Len(owners)
  BY <1>2, <1>4, <1>5, LenProperties
<1> QED
  BY <1>1, <1>3, <1>4, <1>5, <1>6 DEF Results1

\* An entry of a table by call and node is written.
LEMMA Written ==
    ASSUME NEW S, NEW f \in [Call -> [Node -> S]], NEW c \in Call, NEW n \in Node, NEW v \in S,
           NEW g, g = [f EXCEPT ![c][n] = v]
    PROVE  /\ g \in [Call -> [Node -> S]] /\ g[c][n] = v
           /\ \A d \in Call : d # c => g[d] = f[d]
           /\ \A d \in Call, m \in Node : d # c \/ m # n => g[d][m] = f[d][m]
  OBVIOUS

\* A shard ends.
LEMMA ShardEnds ==
    ASSUME IInv, NEW c \in Call, NEW n \in Node, Asks(c, n), NEW r, Ended(n, r),
           shard' = [shard EXCEPT ![c][n] = r], call' = call
    PROVE  /\ shard' \in [Call -> [Node -> Results]] /\ shard'[c][n] = r /\ r # Pending
           /\ \A d \in Call, m \in Node : d # c \/ m # n => shard'[d][m] = shard[d][m]
           /\ Owners' /\ Shards' /\ Answers'
<1>0. r \in Results /\ r # Pending
  BY EndedFacts
<1>1. shard \in [Call -> [Node -> Results]]
  BY DEF IInv, Types
<1>2. /\ shard' \in [Call -> [Node -> Results]] /\ shard'[c][n] = r
      /\ \A d \in Call : d # c => shard'[d] = shard[d]
      /\ \A d \in Call, m \in Node : d # c \/ m # n => shard'[d][m] = shard[d][m]
  BY <1>0, <1>1, Written
<1>3. Owners'
  BY DEF IInv, Owners
<1>4. Shards'
  BY <1>2 DEF IInv, Shards
<1>5. Answers'
  <2> SUFFICES ASSUME NEW d \in Call, Done(d)'
               PROVE  Complete(d)' /\ (call[d].answer = mergeResults(ResultsOf(d)))'
    BY DEF Answers
  <2>1. Done(d) /\ d # c
    BY DEF Done, Asks
  <2>2. shard'[d] = shard[d]
    BY <1>2, <2>1
  <2>3. Complete(d) /\ call[d].answer = mergeResults(ResultsOf(d))
    BY <2>1 DEF IInv, Answers
  <2> QED
    BY <2>2, <2>3 DEF Complete, ResultsOf
<1> QED
  BY <1>0, <1>2, <1>3, <1>4, <1>5

\* What holds of calls and shards is not touched by a step of a server.
LEMMA CallsUntouched ==
    ASSUME IInv, UNCHANGED <<call, shard>>
    PROVE  Owners' /\ Shards' /\ Answers'
<1>1. Owners' /\ Shards'
  BY DEF IInv, Owners, Shards
<1>2. Answers'
  BY DEF IInv, Answers, Done, Complete, ResultsOf
<1> QED
  BY <1>1, <1>2

\* The facts about executions for one call and node.
Execution(st, wait, isMe, cn, rn) ==
    /\ rn \in 0..1
    /\ st = "ok" => rn = 1
    /\ isMe => cn = "none" /\ (wait => rn = 0)
    /\ ~isMe /\ cn \in {"none", "asked"} => rn = 0
    /\ cn \in {"rows", "error"} => rn = 1

ExecutionOf(c, n) == Execution(shard[c][n].st, shard[c][n] = Pending, n = Me, conn[c][n], ran[c][n])

LEMMA ExecutionsAre == Executions <=> \A c \in Call, n \in Node : ExecutionOf(c, n)
  BY DEF Executions, ExecutionOf, Execution

\* Nothing has happened yet.
LEMMA InitIInv == Init => IInv
<1> SUFFICES ASSUME Init PROVE IInv
  OBVIOUS
<1> USE RouterAssumption DEF Init
<1>0. Pending \in Results /\ Pending.st = "pending"
  <2>1. <<>> \in Seq([of : Node, no : Nat])
    OBVIOUS
  <2> QED
    BY <2>1 DEF Pending, Result, Results
<1>1. Types
  <2>1. Idle \in [ph : {"idle", "wait", "done"}, owners : Seq(Node), answer : Results]
    BY <1>0 DEF Idle
  <2> QED
    BY <1>0, <2>1 DEF Types, Conns
<1>2. \A c \in Call : call[c].ph = "idle" /\ call[c].owners = <<>>
  BY DEF Idle
<1>3. Owners
  BY <1>2 DEF Owners, IsInjective
<1>4. Shards
  BY DEF Shards
<1>5. Executions
  BY <1>0 DEF Executions
<1>6. Answers
  BY <1>2 DEF Answers, Done
<1> QED
  BY <1>1, <1>3, <1>4, <1>5, <1>6 DEF IInv

\* Execute reads the owners, which are distinct, and there is at least one to ask.
LEMMA ExecuteStep == ASSUME IInv, NEW c \in Call, Execute(c) PROVE IInv'
<1>1. PICK view \in Views[c] :
        call' = [call EXCEPT ![c] = [ph |-> "wait", owners |-> IF Len(view) <= 1 THEN <<Me>> ELSE view, answer |-> Pending]]
  BY DEF Execute
<1> DEFINE owners == IF Len(view) <= 1 THEN <<Me>> ELSE view
<1>2. owners \in Seq(Node) /\ IsInjective(owners) /\ Len(owners) > 0
  <2>0. view \in Seq(Node) /\ IsInjective(view) /\ Me \in Node
    BY RouterAssumption
  <2>1. CASE Len(view) <= 1
    <3>1. <<Me>> \in Seq(Node) /\ Len(<<Me>>) = 1 /\ DOMAIN <<Me>> = {1}
      BY <2>0
    <3>2. IsInjective(<<Me>>)
      BY <3>1 DEF IsInjective
    <3> QED
      BY <2>1, <3>1, <3>2
  <2>2. CASE ~(Len(view) <= 1)
    <3>1. Len(view) \in Nat
      BY <2>0, LenProperties
    <3> QED
      BY <2>0, <2>2, <3>1
  <2> QED
    BY <2>1, <2>2
<1> HIDE DEF owners
<1>3. call' = [call EXCEPT ![c] = [ph |-> "wait", owners |-> owners, answer |-> Pending]]
  BY <1>1 DEF owners
<1>4. Pending \in Results
  <2>1. <<>> \in Seq([of : Node, no : Nat])
    OBVIOUS
  <2> QED
    BY <2>1, RouterAssumption DEF Pending, Result, Results
<1>5. Types /\ Owners /\ Shards /\ Executions /\ Answers
  BY DEF IInv
<1>6. UNCHANGED <<shard, conn, ran, server, stops>>
  BY DEF Execute
<1>7. Types'
  BY <1>2, <1>3, <1>4, <1>5, <1>6 DEF Types
<1>8. call'[c].ph = "wait" /\ call'[c].owners = owners /\ \A d \in Call : d # c => call'[d] = call[d]
  BY <1>3, <1>5 DEF Types
<1>9. Owners'
  BY <1>2, <1>5, <1>8 DEF Owners
<1>10. Shards'
  BY <1>5, <1>6 DEF Shards
<1>11. Executions'
  BY <1>5, <1>6 DEF Executions
<1>12. Answers'
  <2> SUFFICES ASSUME NEW d \in Call, Done(d)'
               PROVE  Complete(d)' /\ (call[d].answer = mergeResults(ResultsOf(d)))'
    BY DEF Answers
  <2>1. d # c /\ call'[d] = call[d] /\ Done(d)
    BY <1>8 DEF Done
  <2>2. Complete(d) /\ call[d].answer = mergeResults(ResultsOf(d))
    BY <1>5, <2>1 DEF Answers
  <2> QED
    BY <1>6, <2>1, <2>2 DEF Complete, ResultsOf
<1> QED
  BY <1>7, <1>9, <1>10, <1>11, <1>12 DEF IInv

\* The local shard executes the query.
LEMMA LocalExecStep == ASSUME IInv, NEW c \in Call, LocalExec(c) PROVE IInv'
<1>0. Me \in Node
  BY RouterAssumption
<1>1. PICK r \in {Rows(Me, RowsOf(Me)), Error(Me)} : shard' = [shard EXCEPT ![c][Me] = r]
  BY DEF LocalExec
<1>2. Ended(Me, r)
  BY <1>0, <1>1 DEF Ended
<1>3. Asks(c, Me) /\ UNCHANGED <<call, conn, server, stops>> /\ shard[c][Me] = Pending
  BY DEF LocalExec, Asks
<1>4. /\ shard' \in [Call -> [Node -> Results]] /\ shard'[c][Me] = r /\ r # Pending
      /\ \A d \in Call, m \in Node : d # c \/ m # Me => shard'[d][m] = shard[d][m]
      /\ Owners' /\ Shards' /\ Answers'
  BY <1>0, <1>1, <1>2, <1>3, ShardEnds
<1>5. ran[c][Me] = 0 /\ conn[c][Me] = "none"
  BY <1>0, <1>3 DEF IInv, Executions
<1>6. ran' = [ran EXCEPT ![c][Me] = 1] /\ ran \in [Call -> [Node -> Nat]]
  BY <1>5 DEF LocalExec, IInv, Types
<1>7. /\ ran' \in [Call -> [Node -> Nat]] /\ ran'[c][Me] = 1
      /\ \A d \in Call, m \in Node : d # c \/ m # Me => ran'[d][m] = ran[d][m]
  BY <1>0, <1>6, Written
<1>8. Types'
  BY <1>3, <1>4, <1>7 DEF IInv, Types
<1>9. Executions'
  <2> SUFFICES ASSUME NEW d \in Call, NEW m \in Node PROVE ExecutionOf(d, m)'
    BY DEF Executions, ExecutionOf, Execution
  <2>1. CASE d = c /\ m = Me
    BY <1>3, <1>4, <1>5, <1>7, <2>1 DEF ExecutionOf, Execution
  <2>2. CASE ~(d = c /\ m = Me)
    <3>1. shard'[d][m] = shard[d][m] /\ ran'[d][m] = ran[d][m] /\ conn'[d][m] = conn[d][m]
      BY <1>3, <1>4, <1>7, <2>2
    <3>2. ExecutionOf(d, m)
      BY ExecutionsAre DEF IInv
    <3> QED
      BY <3>1, <3>2 DEF ExecutionOf
  <2> QED
    BY <2>1, <2>2
<1> QED
  BY <1>4, <1>8, <1>9 DEF IInv

\* A connection is opened.
LEMMA DialStep == ASSUME IInv, NEW c \in Call, NEW n \in Remote, Dial(c, n) PROVE IInv'
<1>0. n \in Node /\ n # Me
  BY DEF Remote
<1>1. Owners' /\ Shards' /\ Answers'
  BY CallsUntouched DEF Dial
<1>2. UNCHANGED <<call, shard, ran, server, stops>> /\ conn[c][n] = "none"
  BY DEF Dial
<1>3. conn' = [conn EXCEPT ![c][n] = "asked"] /\ conn \in [Call -> [Node -> Conns]] /\ "asked" \in Conns
  BY DEF Dial, IInv, Types, Conns
<1>4. /\ conn' \in [Call -> [Node -> Conns]] /\ conn'[c][n] = "asked"
      /\ \A d \in Call, m \in Node : d # c \/ m # n => conn'[d][m] = conn[d][m]
  BY <1>0, <1>3, Written
<1>5. Types'
  BY <1>2, <1>4 DEF IInv, Types
<1>6. Executions'
  <2> SUFFICES ASSUME NEW d \in Call, NEW m \in Node PROVE ExecutionOf(d, m)'
    BY DEF Executions, ExecutionOf, Execution
  <2>0. ExecutionOf(d, m)
    BY ExecutionsAre DEF IInv
  <2>1. CASE d = c /\ m = n
    BY <1>0, <1>2, <1>4, <2>0, <2>1 DEF ExecutionOf, Execution
  <2>2. CASE ~(d = c /\ m = n)
    <3>1. shard'[d][m] = shard[d][m] /\ ran'[d][m] = ran[d][m] /\ conn'[d][m] = conn[d][m]
      BY <1>2, <1>4, <2>2
    <3> QED
      BY <2>0, <3>1 DEF ExecutionOf
  <2> QED
    BY <2>1, <2>2
<1> QED
  BY <1>1, <1>5, <1>6 DEF IInv

\* A remote shard ends with what the server answered, or with an error.
LEMMA RemoteShardStep ==
    ASSUME IInv, NEW c \in Call, NEW n \in Remote, Asks(c, n), NEW r, Ended(n, r), r.st = "ok" => ran[c][n] = 1,
           shard' = [shard EXCEPT ![c][n] = r], UNCHANGED <<call, conn, ran, server, stops>>
    PROVE  IInv'
<1>0. n \in Node /\ n # Me
  BY DEF Remote
<1>1. /\ shard' \in [Call -> [Node -> Results]] /\ shard'[c][n] = r /\ r # Pending
      /\ \A d \in Call, m \in Node : d # c \/ m # n => shard'[d][m] = shard[d][m]
      /\ Owners' /\ Shards' /\ Answers'
  BY <1>0, ShardEnds
<1>2. Types'
  BY <1>1 DEF IInv, Types
<1>3. Executions'
  <2> SUFFICES ASSUME NEW d \in Call, NEW m \in Node PROVE ExecutionOf(d, m)'
    BY DEF Executions, ExecutionOf, Execution
  <2>0. ExecutionOf(d, m)
    BY ExecutionsAre DEF IInv
  <2>1. CASE d = c /\ m = n
    BY <1>0, <1>1, <2>0, <2>1 DEF ExecutionOf, Execution
  <2>2. CASE ~(d = c /\ m = n)
    <3>1. shard'[d][m] = shard[d][m]
      BY <1>1, <2>2
    <3> QED
      BY <2>0, <3>1 DEF ExecutionOf
  <2> QED
    BY <2>1, <2>2
<1> QED
  BY <1>1, <1>2, <1>3 DEF IInv

\* The response is read.
LEMMA ReadResponseStep == ASSUME IInv, NEW c \in Call, NEW n \in Remote, ReadResponse(c, n) PROVE IInv'
<1> DEFINE r == IF conn[c][n] = "rows" THEN readRPCMessage(n, RowsOf(n)) ELSE Error(n)
<1>0. n \in Node
  BY DEF Remote
<1>1. Ended(n, r)
  <2>1. CASE conn[c][n] = "rows"
    BY <1>0, <2>1, ReadFacts
  <2>2. CASE conn[c][n] # "rows"
    BY <2>2 DEF Ended
  <2> QED
    BY <2>1, <2>2
<1>2. ran[c][n] = 1
  BY <1>0 DEF ReadResponse, IInv, Executions
<1>3. Asks(c, n) /\ shard' = [shard EXCEPT ![c][n] = r] /\ UNCHANGED <<call, conn, ran, server, stops>>
  BY DEF ReadResponse
<1> HIDE DEF r
<1> QED
  BY <1>1, <1>2, <1>3, RemoteShardStep

\* The shard fails.
LEMMA FailStep == ASSUME IInv, NEW c \in Call, NEW n \in Remote, Fail(c, n) PROVE IInv'
<1> DEFINE r == Error(n)
<1>1. Ended(n, r) /\ r.st # "ok"
  BY DEF Ended, Error, Result
<1>2. Asks(c, n) /\ shard' = [shard EXCEPT ![c][n] = r] /\ UNCHANGED <<call, conn, ran, server, stops>>
  BY DEF Fail
<1> HIDE DEF r
<1> QED
  BY <1>1, <1>2, RemoteShardStep

\* The shards of a call are merged.
LEMMA MergeStep == ASSUME IInv, NEW c \in Call, Merge(c) PROVE IInv'
<1>1. call[c].ph = "wait" /\ Complete(c) /\ UNCHANGED <<shard, conn, ran, server, stops>>
  BY DEF Merge, Complete
<1> DEFINE answer == mergeResults(ResultsOf(c))
<1>2. answer \in Results
  <2>1. Results1(call[c].owners, ResultsOf(c))
    BY <1>1, Mergeable
  <2>2. Merged(call[c].owners, ResultsOf(c), answer)
    BY <2>1, MergeFacts
  <2> QED
    BY <2>2 DEF Merged
<1>6. call' = [call EXCEPT ![c] = [ph |-> "done", owners |-> call[c].owners, answer |-> answer]]
  BY DEF Merge, ResultsOf
<1> HIDE DEF answer
<1>4. Types /\ Owners /\ Shards /\ Executions /\ Answers
  BY DEF IInv
<1>5. call \in [Call -> [ph : {"idle", "wait", "done"}, owners : Seq(Node), answer : Results]]
  BY <1>4 DEF Types
<1>7. /\ call' \in [Call -> [ph : {"idle", "wait", "done"}, owners : Seq(Node), answer : Results]]
      /\ call'[c] = [ph |-> "done", owners |-> call[c].owners, answer |-> answer]
      /\ \A d \in Call : d # c => call'[d] = call[d]
  BY <1>2, <1>5, <1>6
<1>8. call'[c].owners = call[c].owners /\ call'[c].answer = answer
  BY <1>7
<1>9. Types'
  BY <1>1, <1>4, <1>7 DEF Types
<1>10. Owners'
  <2> SUFFICES ASSUME NEW d \in Call
               PROVE  IsInjective(call'[d].owners) /\ (call'[d].ph # "idle" => Len(call'[d].owners) > 0)
    BY DEF Owners
  <2>1. CASE d = c
    BY <1>1, <1>4, <1>8, <2>1 DEF Owners
  <2>2. CASE d # c
    BY <1>4, <1>7, <2>2 DEF Owners
  <2> QED
    BY <2>1, <2>2
<1>11. Shards' /\ Executions'
  BY <1>1, <1>4 DEF Shards, Executions
<1>12. Answers'
  <2> SUFFICES ASSUME NEW d \in Call, Done(d)'
               PROVE  Complete(d)' /\ (call[d].answer = mergeResults(ResultsOf(d)))'
    BY DEF Answers
  <2>1. CASE d = c
    <3>1. Complete(c)'
      BY <1>1, <1>8 DEF Complete
    <3>2. ResultsOf(c)' = ResultsOf(c)
      BY <1>1, <1>8 DEF ResultsOf
    <3> QED
      BY <1>8, <2>1, <3>1, <3>2 DEF answer
  <2>2. CASE d # c
    <3>1. call'[d] = call[d] /\ Done(d)
      BY <1>7, <2>2 DEF Done
    <3>2. Complete(d) /\ call[d].answer = mergeResults(ResultsOf(d))
      BY <1>4, <3>1 DEF Answers
    <3> QED
      BY <1>1, <3>1, <3>2 DEF Complete, ResultsOf
  <2> QED
    BY <2>1, <2>2
<1> QED
  BY <1>9, <1>10, <1>11, <1>12 DEF IInv

\* A server executes a request, for a caller that may have given up.
LEMMA ExecuteRequestStep == ASSUME IInv, NEW c \in Call, NEW n \in Remote, ExecuteRequest(c, n) PROVE IInv'
<1>0. n \in Node /\ n # Me
  BY DEF Remote
<1>1. Owners' /\ Shards' /\ Answers'
  BY CallsUntouched DEF ExecuteRequest
<1>2. UNCHANGED <<call, shard, server, stops>> /\ conn[c][n] = "asked"
  BY DEF ExecuteRequest
<1>3. PICK r \in {"rows", "error"} : conn' = [conn EXCEPT ![c][n] = r]
  BY DEF ExecuteRequest
<1>4. /\ conn' \in [Call -> [Node -> Conns]] /\ conn'[c][n] = r
      /\ \A d \in Call, m \in Node : d # c \/ m # n => conn'[d][m] = conn[d][m]
  <2>1. conn \in [Call -> [Node -> Conns]] /\ r \in Conns
    BY DEF IInv, Types, Conns
  <2> QED
    BY <1>0, <1>3, <2>1, Written
<1>5. ran[c][n] = 0
  BY <1>0, <1>2 DEF IInv, Executions
<1>6. ran' = [ran EXCEPT ![c][n] = 1] /\ ran \in [Call -> [Node -> Nat]]
  BY <1>5 DEF ExecuteRequest, IInv, Types
<1>7. /\ ran' \in [Call -> [Node -> Nat]] /\ ran'[c][n] = 1
      /\ \A d \in Call, m \in Node : d # c \/ m # n => ran'[d][m] = ran[d][m]
  BY <1>0, <1>6, Written
<1>8. Types'
  BY <1>2, <1>4, <1>7 DEF IInv, Types
<1>9. Executions'
  <2> SUFFICES ASSUME NEW d \in Call, NEW m \in Node PROVE ExecutionOf(d, m)'
    BY DEF Executions, ExecutionOf, Execution
  <2>0. ExecutionOf(d, m)
    BY ExecutionsAre DEF IInv
  <2>1. CASE d = c /\ m = n
    BY <1>0, <1>2, <1>4, <1>7, <2>0, <2>1 DEF ExecutionOf, Execution
  <2>2. CASE ~(d = c /\ m = n)
    <3>1. shard'[d][m] = shard[d][m] /\ ran'[d][m] = ran[d][m] /\ conn'[d][m] = conn[d][m]
      BY <1>2, <1>4, <1>7, <2>2
    <3> QED
      BY <2>0, <3>1 DEF ExecutionOf
  <2> QED
    BY <2>1, <2>2
<1> QED
  BY <1>1, <1>8, <1>9 DEF IInv

\* A server's connections end, whatever else happens to the server.
LEMMA ConnsEndStep ==
    ASSUME IInv, UNCHANGED <<call, shard, ran>>, conn' \in [Call -> [Node -> Conns]],
           \A d \in Call, m \in Node : conn'[d][m] = conn[d][m] \/ (m # Me /\ conn'[d][m] = "ended"),
           server' \in [Remote -> {"up", "closing", "down"}], stops' \in 0..MaxStops
    PROVE  IInv'
<1>1. Owners' /\ Shards' /\ Answers'
  BY CallsUntouched
<1>2. Types'
  BY DEF IInv, Types
<1>3. Executions'
  <2> SUFFICES ASSUME NEW d \in Call, NEW m \in Node PROVE ExecutionOf(d, m)'
    BY DEF Executions, ExecutionOf, Execution
  <2>0. ExecutionOf(d, m)
    BY ExecutionsAre DEF IInv
  <2>1. CASE conn'[d][m] = conn[d][m]
    BY <2>0, <2>1 DEF ExecutionOf
  <2>2. CASE m # Me /\ conn'[d][m] = "ended"
    BY <2>0, <2>2 DEF ExecutionOf, Execution
  <2> QED
    BY <2>1, <2>2
<1> QED
  BY <1>1, <1>2, <1>3 DEF IInv

\* A step of the RPC server of a node.
LEMMA ServerStep == ASSUME IInv, NEW n \in Remote, RPCServer(n) \/ CloseServer(n) \/ Crash(n) PROVE IInv'
<1>0. n \in Node /\ n # Me /\ MaxStops \in Nat
  BY RouterAssumption DEF Remote
<1>1. /\ conn \in [Call -> [Node -> Conns]] /\ server \in [Remote -> {"up", "closing", "down"}] /\ stops \in 0..MaxStops
  BY DEF IInv, Types
<1>2. ASSUME NEW c \in Call, ExecuteRequest(c, n) PROVE IInv'
  BY <1>2, ExecuteRequestStep
<1>3. ASSUME NEW c \in Call, ConnClosed(c, n) PROVE IInv'
  <2>1. conn' = [conn EXCEPT ![c][n] = "ended"] /\ UNCHANGED <<call, shard, ran, server, stops>> /\ "ended" \in Conns
    BY <1>3 DEF ConnClosed, Conns
  <2>2. /\ conn' \in [Call -> [Node -> Conns]] /\ conn'[c][n] = "ended"
        /\ \A d \in Call, m \in Node : d # c \/ m # n => conn'[d][m] = conn[d][m]
    BY <1>0, <1>1, <2>1, Written
  <2>3. \A d \in Call, m \in Node : conn'[d][m] = conn[d][m] \/ (m # Me /\ conn'[d][m] = "ended")
    BY <1>0, <2>2
  <2>4. server' \in [Remote -> {"up", "closing", "down"}] /\ stops' \in 0..MaxStops
    BY <1>1, <2>1
  <2> QED
    BY <2>1, <2>2, <2>3, <2>4, ConnsEndStep
<1>4. CASE Closed(n)
  <2>1. server' = [server EXCEPT ![n] = "down"] /\ UNCHANGED <<call, shard, conn, ran, stops>>
    BY <1>4 DEF Closed
  <2>2. server' \in [Remote -> {"up", "closing", "down"}] /\ stops' \in 0..MaxStops
    BY <1>1, <2>1
  <2>3. conn' \in [Call -> [Node -> Conns]] /\ \A d \in Call, m \in Node : conn'[d][m] = conn[d][m]
    BY <1>1, <2>1
  <2> QED
    BY <2>1, <2>2, <2>3, ConnsEndStep
<1>5. CASE CloseServer(n)
  <2>1. /\ server' = [server EXCEPT ![n] = "closing"] /\ stops' = stops + 1 /\ stops < MaxStops
        /\ UNCHANGED <<call, shard, conn, ran>>
    BY <1>5 DEF CloseServer
  <2>2. server' \in [Remote -> {"up", "closing", "down"}]
    BY <1>1, <2>1
  <2>3. stops' \in 0..MaxStops
    BY <1>0, <1>1, <2>1
  <2>4. conn' \in [Call -> [Node -> Conns]] /\ \A d \in Call, m \in Node : conn'[d][m] = conn[d][m]
    BY <1>1, <2>1
  <2> QED
    BY <2>1, <2>2, <2>3, <2>4, ConnsEndStep
<1>6. CASE Crash(n)
  <2>1. conn' = [c \in Call |-> [conn[c] EXCEPT ![n] = IF conn[c][n] = "none" THEN conn[c][n] ELSE "ended"]]
    BY <1>6 DEF Crash
  <2>2. conn' \in [Call -> [Node -> Conns]]
    BY <1>0, <1>1, <2>1 DEF Conns
  <2>3. ASSUME NEW d \in Call, NEW m \in Node PROVE conn'[d][m] = conn[d][m] \/ (m # Me /\ conn'[d][m] = "ended")
    <3>1. conn'[d] = [conn[d] EXCEPT ![n] = IF conn[d][n] = "none" THEN conn[d][n] ELSE "ended"] /\ conn[d] \in [Node -> Conns]
      BY <1>1, <2>1
    <3>2. CASE m = n
      BY <1>0, <3>1, <3>2
    <3>3. CASE m # n
      BY <3>1, <3>3
    <3> QED
      BY <3>2, <3>3
  <2>4. server' \in [Remote -> {"up", "closing", "down"}] /\ stops' \in 0..MaxStops /\ UNCHANGED <<call, shard, ran>>
    BY <1>0, <1>1, <1>6 DEF Crash
  <2> QED
    BY <2>2, <2>3, <2>4, ConnsEndStep
<1> QED
  BY <1>2, <1>3, <1>4, <1>5, <1>6 DEF RPCServer

\* Every step keeps the invariant.
LEMMA NextIInv == IInv /\ [Next]_vars => IInv'
<1> SUFFICES ASSUME IInv, [Next]_vars PROVE IInv'
  OBVIOUS
<1>1. ASSUME NEW c \in Call, Execute(c) PROVE IInv'
  BY <1>1, ExecuteStep
<1>2. ASSUME NEW c \in Call, Caller(c) PROVE IInv'
  BY <1>2, LocalExecStep, MergeStep, DialStep, ReadResponseStep, FailStep DEF Caller
<1>3. ASSUME NEW n \in Remote, RPCServer(n) \/ CloseServer(n) \/ Crash(n) PROVE IInv'
  BY <1>3, ServerStep
<1>4. CASE UNCHANGED vars
  <2>1. UNCHANGED <<call, shard>>
    BY <1>4 DEF vars
  <2>2. Owners' /\ Shards' /\ Answers'
    BY <2>1, CallsUntouched
  <2>3. Types' /\ Executions'
    BY <1>4 DEF vars, IInv, Types, Executions
  <2> QED
    BY <2>2, <2>3 DEF IInv
<1> QED
  BY <1>1, <1>2, <1>3, <1>4 DEF Next

-----------------------------------------------------------------------------
(* Theorems.                                                                 *)

\* The strengthening holds in every reachable state.
THEOREM Invariance == Spec => []IInv
<1>1. Init => IInv
  BY InitIInv
<1>2. IInv /\ [Next]_vars => IInv'
  BY NextIInv
<1> QED
  BY <1>1, <1>2, PTL DEF Spec

\* The answer of a call that is done is the merge of its shards' results.
LEMMA Answer ==
    ASSUME IInv, NEW c \in Call, Done(c)
    PROVE  /\ Results1(call[c].owners, ResultsOf(c))
           /\ Merged(call[c].owners, ResultsOf(c), call[c].answer)
           /\ DOMAIN call[c].owners = 1..Len(call[c].owners)
           /\ \A i \in 1..Len(call[c].owners) : ResultsOf(c)[i] = shard[c][call[c].owners[i]]
<1>1. call[c].ph # "idle" /\ Complete(c) /\ call[c].answer = mergeResults(ResultsOf(c))
  BY DEF Done, IInv, Answers
<1>2. Results1(call[c].owners, ResultsOf(c))
  BY <1>1, Mergeable
<1>3. Merged(call[c].owners, ResultsOf(c), call[c].answer)
  BY <1>1, <1>2, MergeFacts
<1>4. DOMAIN call[c].owners = 1..Len(call[c].owners)
  BY <1>2, LenProperties DEF Results1
<1> QED
  BY <1>2, <1>3, <1>4 DEF ResultsOf

\* Types, and a node executes a call's query at most once (TypeOK): Execute never
\* asks again, and a node that is not an owner is not asked.
THEOREM TypeCorrect == Spec => []TypeOK
<1>1. IInv => TypeOK
  <2> SUFFICES ASSUME IInv PROVE TypeOK
    OBVIOUS
  <2>1. ASSUME NEW c \in Call, call[c].ph = "done" PROVE call[c].answer \in Results /\ call[c].answer # Pending
    <3>1. Merged(call[c].owners, ResultsOf(c), call[c].answer)
      BY <2>1, Answer DEF Done
    <3>2. call[c].answer \in Results /\ call[c].answer.st # "pending"
      BY <3>1 DEF Merged
    <3>3. Pending.st = "pending"
      BY DEF Pending, Result
    <3> QED
      BY <3>2, <3>3
  <2>2. \A c \in Call, n \in Node : ran[c][n] \in 0..1
    BY DEF IInv, Executions
  <2>3. Types
    BY DEF IInv
  <2> QED
    BY <2>1, <2>2, <2>3 DEF TypeOK, Types, Conns
<1> QED
  BY <1>1, Invariance, PTL

\* The rows of an answer are grouped by owner in the order of the owners, and each
\* owner's part is whole or absent (WholePartsInOrder): for any map that distributes
\* the partitions, any sizes of answers and limit of the reader, and however the
\* steps of calls, servers and deadlines interleave.
THEOREM AnswersAreWhole == Spec => []WholePartsInOrder
<1>1. IInv => WholePartsInOrder
  <2> SUFFICES ASSUME IInv, NEW c \in Call, Done(c)
               PROVE  /\ \A i, j \in DOMAIN call[c].answer.rows : i < j =>
                            \/ Position(c, call[c].answer.rows[i].of) < Position(c, call[c].answer.rows[j].of)
                            \/ call[c].answer.rows[i].of = call[c].answer.rows[j].of
                               /\ call[c].answer.rows[i].no < call[c].answer.rows[j].no
                      /\ \A n \in Node : Cardinality(Part(c, n)) = IF n \in ToSet(call[c].owners) /\ shard[c][n].st = "ok" THEN Size[n] ELSE 0
    BY DEF WholePartsInOrder
  <2> DEFINE owners == call[c].owners
             rows == call[c].answer.rows
             res == ResultsOf(c)
             k == Len(owners)
  <2>1. /\ Results1(owners, res) /\ Grouped(rows, owners, res, k) /\ DOMAIN owners = 1..k
        /\ \A i \in 1..k : res[i] = shard[c][owners[i]]
    BY Answer DEF Merged
  <2>2. rows \in Seq(Row) /\ DOMAIN rows = 1..Len(rows)
    BY <2>1, LenProperties DEF Grouped
  <2>3. \A i \in 1..k : Position(c, owners[i]) = i
    <3> SUFFICES ASSUME NEW i \in 1..k PROVE Position(c, owners[i]) = i
      OBVIOUS
    <3>1. \A j \in DOMAIN owners : owners[j] = owners[i] => j = i
      BY <2>1 DEF Results1, IsInjective
    <3>2. i \in DOMAIN owners
      BY <2>1
    <3> QED
      BY <3>1, <3>2 DEF Position
  <2> HIDE DEF owners, rows, res, k
  <2>4. ASSUME NEW p \in DOMAIN rows, NEW q \in DOMAIN rows, p < q
        PROVE  \/ Position(c, rows[p].of) < Position(c, rows[q].of)
               \/ rows[p].of = rows[q].of /\ rows[p].no < rows[q].no
    <3>1. CASE \E i, j \in 1..k : i < j /\ rows[p].of = owners[i] /\ rows[q].of = owners[j]
      <4>1. PICK i \in 1..k, j \in 1..k : i < j /\ rows[p].of = owners[i] /\ rows[q].of = owners[j]
        BY <3>1
      <4> QED
        BY <2>3, <4>1
    <3>2. CASE rows[p].of = rows[q].of /\ rows[p].no < rows[q].no
      BY <3>2
    <3> QED
      BY <2>1, <2>2, <2>4, <3>1, <3>2 DEF Grouped
  <2>5. ASSUME NEW n \in Node
        PROVE  Cardinality(Part(c, n)) = IF n \in ToSet(owners) /\ shard[c][n].st = "ok" THEN Size[n] ELSE 0
    <3>1. Part(c, n) = {p \in 1..Len(rows) : rows[p].of = n}
      BY <2>2 DEF Part, rows
    <3>2. CASE n \in ToSet(owners)
      <4>1. PICK i \in 1..k : owners[i] = n
        BY <2>1, <3>2 DEF ToSet
      <4>2. Cardinality({p \in 1..Len(rows) : rows[p].of = owners[i]}) = IF res[i].st = "ok" THEN Size[owners[i]] ELSE 0
        BY <2>1 DEF Grouped
      <4> QED
        BY <2>1, <3>1, <3>2, <4>1, <4>2
    <3>3. CASE n \notin ToSet(owners)
      <4>1. Part(c, n) = {}
        <5> SUFFICES ASSUME NEW p \in 1..Len(rows), rows[p].of = n PROVE FALSE
          BY <3>1
        <5>1. PICK i \in 1..k : rows[p].of = owners[i]
          BY <2>1 DEF Grouped
        <5> QED
          BY <2>1, <3>3, <5>1 DEF ToSet
      <4> QED
        BY <3>3, <4>1, FS_EmptySet
    <3> QED
      BY <3>2, <3>3
  <2> QED
    BY <2>4, <2>5 DEF owners, rows
<1> QED
  BY <1>1, Invariance, PTL

\* An error is returned only when no owner answered, and the rows come from nodes
\* that executed the query for this call (ErrorMeansNobody): a late answer to a call
\* that has given up never enters another one.
THEOREM ErrorOnlyIfNobodyAnswered == Spec => []ErrorMeansNobody
<1>1. IInv => ErrorMeansNobody
  <2> SUFFICES ASSUME IInv, NEW c \in Call, Done(c)
               PROVE  /\ call[c].answer.st = "ok" <=> \E n \in ToSet(call[c].owners) : shard[c][n].st = "ok"
                      /\ \A n \in Node : Part(c, n) # {} => ran[c][n] = 1
    BY DEF ErrorMeansNobody
  <2> DEFINE owners == call[c].owners
             rows == call[c].answer.rows
             res == ResultsOf(c)
             k == Len(owners)
  <2>1. /\ Grouped(rows, owners, res, k) /\ DOMAIN owners = 1..k
        /\ \A i \in 1..k : res[i] = shard[c][owners[i]]
        /\ call[c].answer.st = "ok" <=> \E i \in 1..k : res[i].st = "ok"
    BY Answer DEF Merged
  <2>2. rows \in Seq(Row) /\ DOMAIN rows = 1..Len(rows)
    BY <2>1, LenProperties DEF Grouped
  <2>3. (\E i \in 1..k : res[i].st = "ok") <=> \E n \in ToSet(owners) : shard[c][n].st = "ok"
    BY <2>1 DEF ToSet
  <2>4. ASSUME NEW n \in Node, Part(c, n) # {} PROVE ran[c][n] = 1
    <3>1. PICK p \in 1..Len(rows) : rows[p].of = n
      BY <2>2, <2>4 DEF Part
    <3>2. PICK i \in 1..k : rows[p].of = owners[i] /\ res[i].st = "ok"
      BY <2>1 DEF Grouped
    <3>3. shard[c][n].st = "ok"
      BY <2>1, <3>1, <3>2
    <3> QED
      BY <3>3 DEF IInv, Executions
  <2> QED
    BY <2>1, <2>3, <2>4
<1> QED
  BY <1>1, Invariance, PTL
=============================================================================
