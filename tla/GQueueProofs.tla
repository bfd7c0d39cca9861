---------------------------- MODULE GQueueProofs ----------------------------
(***************************************************************************)
(* What the operations of GQueue do to every sequence.  An element is      *)
(* added at, or taken from, one place, and the others keep their order;    *)
(* g_queue_sort, which states what a stable sort returns, always has a     *)
(* result; that the merge sort of GList returns it is proved in            *)
(* GAsyncQueueProofs.                                                      *)
(***************************************************************************)
EXTENDS GQueue, SequenceTheorems, FiniteSetTheorems, WellFoundedInduction, TLAPS

\* Every nonempty set of natural numbers has a least element.
LEMMA NatMin ==
  ASSUME NEW T, T \subseteq Nat, T # {}
  PROVE  \E n \in T : \A m \in T : n <= m
<1> DEFINE R == {p \in Nat \X Nat : p[1] < p[2]}
<1>1. IsWellFoundedOn(R, Nat)
  BY NatLessThanWellFounded DEF OpToRel
<1>2. PICK n \in T : \A m \in T : <<m, n>> \notin R
  BY <1>1, WFMin
<1>3. ASSUME NEW m \in T PROVE n <= m
  <2>1. m \in Nat /\ n \in Nat /\ <<m, n>> \notin R
    BY <1>2, <1>3
  <2>2. ~ (m < n)
    BY <2>1
  <2> QED BY <2>1, <2>2
<1> QED BY <1>3

\* Min is that element.
LEMMA MinIsLeast ==
  ASSUME NEW T, T \subseteq Nat, T # {}
  PROVE  Min(T) \in T /\ \A m \in T : Min(T) <= m
BY NatMin DEF Min

\* r is q with e put at place p, and those behind it moved.
Inserted(S, q, p, e, r) ==
  /\ r \in Seq(S) /\ Len(r) = Len(q) + 1
  /\ \A i \in 1 .. Len(q) + 1 :
       r[i] = IF i < p THEN q[i] ELSE IF i = p THEN e ELSE q[i - 1]

\* InsertAt puts the element at its place.
LEMMA InsertAtInserted ==
  ASSUME NEW S, NEW q \in Seq(S), NEW e \in S, NEW p \in 1 .. Len(q) + 1
  PROVE  Inserted(S, q, p, e, InsertAt(q, p, e))
<1> DEFINE a == SubSeq(q, 1, p - 1)
           b == SubSeq(q, p, Len(q))
<1>1. /\ a \in Seq(S) /\ Len(a) = p - 1
      /\ \A i \in 1 .. p - 1 : a[i] = q[i]
  BY SubSeqProperties
<1>2. /\ b \in Seq(S) /\ Len(b) = Len(q) - p + 1
      /\ \A i \in 1 .. Len(q) - p + 1 : b[i] = q[p + i - 1]
  BY SubSeqProperties
<1>3. <<e>> \in Seq(S) /\ Len(<<e>>) = 1 /\ <<e>>[1] = e
  OBVIOUS
<1> HIDE DEF a, b
<1> DEFINE c == a \o <<e>>
<1>4. /\ c \in Seq(S) /\ Len(c) = p
      /\ \A i \in 1 .. p : c[i] = IF i <= p - 1 THEN q[i] ELSE e
  BY <1>1, <1>3, ConcatProperties
<1>5. InsertAt(q, p, e) = c \o b
  BY DEF InsertAt, a, b
<1> HIDE DEF c
<1>6. /\ c \o b \in Seq(S) /\ Len(c \o b) = Len(q) + 1
      /\ \A i \in 1 .. Len(q) + 1 : (c \o b)[i] = IF i <= p THEN c[i] ELSE b[i - p]
  <2>1. p + (Len(q) - p + 1) = Len(q) + 1
    BY LenProperties
  <2>2. Len(c) + Len(b) = Len(q) + 1
    BY <1>2, <1>4, <2>1
  <2> QED BY <1>2, <1>4, <2>2, ConcatProperties
<1>7. ASSUME NEW i \in 1 .. Len(q) + 1
      PROVE  (c \o b)[i] = IF i < p THEN q[i] ELSE IF i = p THEN e ELSE q[i - 1]
  <2>1. CASE i <= p
    BY <1>4, <1>6, <2>1
  <2>2. CASE i > p
    <3>1. i - p \in 1 .. Len(q) - p + 1 /\ p + (i - p) - 1 = i - 1
      BY <2>2
    <3> QED BY <1>2, <1>6, <2>2, <3>1
  <2>3. i \in Int /\ p \in Int
    OBVIOUS
  <2>4. i <= p \/ i > p
    BY <2>3
  <2>5. i < p \/ i >= p
    BY <2>3
  <2> QED BY <2>1, <2>2, <2>4, <2>5
<1>8. Inserted(S, q, p, e, c \o b)
  BY <1>6, <1>7 DEF Inserted
<1> QED BY <1>5, <1>8

\* The same with the places spelled out.
LEMMA InsertAtPlace ==
  ASSUME NEW S, NEW q \in Seq(S), NEW e \in S, NEW p \in 1 .. Len(q) + 1
  PROVE  /\ InsertAt(q, p, e) \in Seq(S)
         /\ Len(InsertAt(q, p, e)) = Len(q) + 1
         /\ \A i \in 1 .. Len(q) + 1 :
              InsertAt(q, p, e)[i] = IF i < p THEN q[i] ELSE IF i = p THEN e ELSE q[i - 1]
<1>1. Inserted(S, q, p, e, InsertAt(q, p, e))
  BY InsertAtInserted
<1> QED BY <1>1 DEF Inserted

\* RemoveAt takes the element away and moves those behind it.
LEMMA RemovedAt ==
  ASSUME NEW S, NEW q \in Seq(S), NEW p \in 1 .. Len(q)
  PROVE  /\ RemoveAt(q, p) \in Seq(S)
         /\ Len(RemoveAt(q, p)) = Len(q) - 1
         /\ \A i \in 1 .. Len(q) - 1 :
                RemoveAt(q, p)[i] = IF i < p THEN q[i] ELSE q[i + 1]
<1> DEFINE a == SubSeq(q, 1, p - 1)
           b == SubSeq(q, p + 1, Len(q))
<1>1. /\ a \in Seq(S) /\ Len(a) = p - 1
      /\ \A i \in 1 .. p - 1 : a[i] = q[i]
  BY SubSeqProperties
<1>2. /\ b \in Seq(S) /\ Len(b) = Len(q) - p
      /\ \A i \in 1 .. Len(q) - p : b[i] = q[p + i]
  BY SubSeqProperties
<1> HIDE DEF a, b
<1>3. /\ a \o b \in Seq(S) /\ Len(a \o b) = Len(q) - 1
      /\ \A i \in 1 .. Len(q) - 1 :
             (a \o b)[i] = IF i <= p - 1 THEN a[i] ELSE b[i - (p - 1)]
  BY <1>1, <1>2, ConcatProperties
<1>4. RemoveAt(q, p) = a \o b
  BY DEF RemoveAt, a, b
<1>5. ASSUME NEW i \in 1 .. Len(q) - 1
      PROVE  (a \o b)[i] = IF i < p THEN q[i] ELSE q[i + 1]
  <2>1. CASE i < p
    BY <1>1, <1>3, <2>1
  <2>2. CASE i >= p
    <3>1. i - (p - 1) \in 1 .. Len(q) - p /\ p + (i - (p - 1)) = i + 1
      BY <2>2
    <3> QED BY <1>2, <1>3, <2>2, <3>1
  <2>3. i \in Int /\ p \in Int
    OBVIOUS
  <2>4. i <= p \/ i > p
    BY <2>3
  <2>5. i < p \/ i >= p
    BY <2>3
  <2> QED BY <2>1, <2>2, <2>4, <2>5
<1> QED BY <1>3, <1>4, <1>5

\* g_queue_push_head inserts at the first place.
LEMMA PushHead ==
  ASSUME NEW S, NEW q \in Seq(S), NEW e \in S
  PROVE  g_queue_push_head(q, e) = InsertAt(q, 1, e)
<1>1. SubSeq(q, 1, 0) = <<>>
  BY SubSeqEmpty
<1>2. SubSeq(q, 1, Len(q)) = q
  BY SubSeqFull
<1>3. <<>> \o <<e>> = <<e>>
  BY ConcatEmptySeq
<1> QED BY <1>1, <1>2, <1>3 DEF g_queue_push_head, InsertAt

\* g_queue_push_tail inserts behind the last place.
LEMMA PushTail ==
  ASSUME NEW S, NEW q \in Seq(S), NEW e \in S
  PROVE  g_queue_push_tail(q, e) = InsertAt(q, Len(q) + 1, e)
<1>1. Len(q) \in Nat
  BY LenProperties
<1>2. SubSeq(q, Len(q) + 1, Len(q)) = <<>>
  BY <1>1, SubSeqEmpty
<1>3. SubSeq(q, 1, Len(q)) = q
  BY SubSeqFull
<1>4. q \o <<e>> \in Seq(S) /\ Append(q, e) = q \o <<e>>
  OBVIOUS
<1>5. (q \o <<e>>) \o <<>> = q \o <<e>>
  BY <1>4, ConcatEmptySeq
<1>6. Len(q) + 1 - 1 = Len(q)
  BY <1>1
<1> QED BY <1>2, <1>3, <1>4, <1>5, <1>6 DEF g_queue_push_tail, InsertAt

\* g_queue_insert_sorted inserts before the first element that is not less.
LEMMA InsertSorted ==
  ASSUME NEW S, NEW q \in Seq(S), NEW e \in S, NEW less
  PROVE  \E p \in 1 .. Len(q) + 1 :
           /\ \A i \in 1 .. p - 1 : <<q[i], e>> \in less
           /\ p <= Len(q) => <<q[p], e>> \notin less
           /\ g_queue_insert_sorted(q, e, less) = InsertAt(q, p, e)
<1> DEFINE stops == {i \in 1 .. Len(q) : <<q[i], e>> \notin less}
           p == Min(stops \cup {Len(q) + 1})
<1>1. p \in stops \cup {Len(q) + 1} /\ \A m \in stops \cup {Len(q) + 1} : p <= m
  <2>1. stops \cup {Len(q) + 1} \subseteq Nat /\ stops \cup {Len(q) + 1} # {}
    <3>1. Len(q) \in Nat
      BY LenProperties
    <3> QED BY <3>1
  <2> QED BY <2>1, MinIsLeast
<1> HIDE DEF p
<1>2. p \in 1 .. Len(q) + 1 /\ (p <= Len(q) => <<q[p], e>> \notin less)
  BY <1>1
<1>3. \A i \in 1 .. p - 1 : <<q[i], e>> \in less
  BY <1>1, <1>2
<1>4. g_queue_insert_sorted(q, e, less) = InsertAt(q, p, e)
  BY DEF g_queue_insert_sorted, p
<1> QED BY <1>2, <1>3, <1>4

\* g_queue_remove takes the first place that has the element, if any.
LEMMA RemoveOne ==
  ASSUME NEW S, NEW q \in Seq(S), NEW holding
  PROVE  \/ /\ g_queue_remove(q, holding) = q
            /\ \A i \in 1 .. Len(q) : q[i] \notin holding
         \/ \E p \in 1 .. Len(q) : /\ q[p] \in holding
                                   /\ g_queue_remove(q, holding) = RemoveAt(q, p)
<1> DEFINE I == {i \in 1 .. Len(q) : q[i] \in holding}
<1>1. CASE I = {}
  BY <1>1 DEF g_queue_remove, RemoveFirstMatch
<1>2. CASE I # {}
  <2>1. Min(I) \in I
    <3>1. I \subseteq Nat
      OBVIOUS
    <3> QED BY <1>2, <3>1, MinIsLeast
  <2>2. g_queue_remove(q, holding) = RemoveAt(q, Min(I))
    BY <1>2 DEF g_queue_remove, RemoveFirstMatch, SelectInSeq
  <2> QED BY <2>1, <2>2
<1> QED BY <1>1, <1>2

\* g_queue_pop_tail takes the last element.
LEMMA PopTail ==
  ASSUME NEW S, NEW q \in Seq(S)
  PROVE  /\ g_queue_pop_tail(q) \in Seq(S)
         /\ Len(g_queue_pop_tail(q)) = IF q = <<>> THEN 0 ELSE Len(q) - 1
         /\ \A i \in 1 .. Len(g_queue_pop_tail(q)) : g_queue_pop_tail(q)[i] = q[i]
<1>1. CASE q = <<>>
  BY <1>1 DEF g_queue_pop_tail
<1>2. CASE q # <<>>
  <2>1. Len(q) \in Nat \ {0}
    BY <1>2, EmptySeq
  <2>2. \A i \in 1 .. Len(q) - 1 : q[i] \in S
    BY <2>1
  <2>3. /\ SubSeq(q, 1, Len(q) - 1) \in Seq(S)
        /\ Len(SubSeq(q, 1, Len(q) - 1)) = Len(q) - 1
        /\ \A i \in 1 .. Len(q) - 1 : SubSeq(q, 1, Len(q) - 1)[i] = q[i]
    <3> DEFINE m == Len(q) - 1
    <3>1. m \in Nat /\ m - 1 + 1 = m
      BY <2>1
    <3>2. /\ SubSeq(q, 1, m) \in Seq(S) /\ Len(SubSeq(q, 1, m)) =
                 IF 1 <= m THEN m - 1 + 1 ELSE 0
          /\ \A i \in 1 .. m - 1 + 1 : SubSeq(q, 1, m)[i] = q[1 + i - 1]
      BY <2>2, <3>1, SubSeqProperties
    <3> QED BY <3>1, <3>2
  <2> QED BY <1>2, <2>3 DEF g_queue_pop_tail, Front
<1> QED BY <1>1, <1>2

\* What g_queue_sort needs of the comparison: on the elements of the queue it
\* is a strict weak order.
IsLess(less, q) ==
  /\ \A i, j \in 1 .. Len(q) : <<q[i], q[j]>> \in less => <<q[j], q[i]>> \notin less
  /\ \A i, j, k \in 1 .. Len(q) :
       <<q[i], q[k]>> \in less => <<q[i], q[j]>> \in less \/ <<q[j], q[k]>> \in less

\* For such a comparison the stable sort exists: the elements, each put at the
\* place that counts those that must come before it, are a permutation of the
\* queue, in order, with equal elements as they were.
LEMMA StableSort ==
  ASSUME NEW S, NEW q \in Seq(S), NEW less, IsLess(less, q)
  PROVE  \E perm \in [1 .. Len(q) -> 1 .. Len(q)] :
           /\ g_queue_sort(q, less) = [i \in 1 .. Len(q) |-> q[perm[i]]]
           /\ \A i, j \in 1 .. Len(q) : i < j =>
                /\ <<q[perm[j]], q[perm[i]]>> \notin less
                /\ perm[i] < perm[j] \/ <<q[perm[i]], q[perm[j]]>> \in less
           /\ \A i, j \in 1 .. Len(q) : i # j => perm[i] # perm[j]
<1> DEFINE n == Len(q)
           before(i, j) == \/ <<q[i], q[j]>> \in less
                           \/ i < j /\ <<q[j], q[i]>> \notin less
           above(i) == {j \in 1 .. n : before(j, i)}
           place == [i \in 1 .. n |-> 1 + Cardinality(above(i))]
           perm == [p \in 1 .. n |-> CHOOSE i \in 1 .. n : place[i] = p]
<1>1. n \in Nat /\ IsFiniteSet(1 .. n) /\ Cardinality(1 .. n) = n
  <2>1. n \in Nat
    BY LenProperties
  <2> HIDE DEF n
  <2>2. IsFiniteSet(1 .. n) /\ Cardinality(1 .. n) = IF 1 > n THEN 0 ELSE n - 1 + 1
    BY <2>1, FS_Interval
  <2> QED BY <2>1, <2>2
<1>2. \A i, j \in 1 .. n : i # j => (before(i, j) <=> ~before(j, i))
  BY <1>1 DEF IsLess
<1>3. \A i \in 1 .. n : ~before(i, i)
  BY DEF IsLess
<1>4. \A i, j, k \in 1 .. n : before(i, j) /\ before(j, k) => before(i, k)
  BY <1>1 DEF IsLess
<1> HIDE DEF before
<1>5. \A i \in 1 .. n : /\ IsFiniteSet(above(i)) /\ Cardinality(above(i)) \in 0 .. n - 1
  <2> SUFFICES ASSUME NEW i \in 1 .. n
               PROVE  IsFiniteSet(above(i)) /\ Cardinality(above(i)) \in 0 .. n - 1
    OBVIOUS
  <2>1. above(i) \in SUBSET ((1 .. n) \ {i})
    BY <1>3
  <2>2. IsFiniteSet((1 .. n) \ {i}) /\ Cardinality((1 .. n) \ {i}) = n - 1
    BY <1>1, FS_RemoveElement
  <2>3. IsFiniteSet(above(i)) /\ Cardinality(above(i)) <= n - 1
    BY <2>1, <2>2, FS_Subset
  <2> QED BY <2>3, FS_CardinalityType
<1>6. \A i, j \in 1 .. n : before(i, j) => Cardinality(above(i)) < Cardinality(above(j))
  <2> SUFFICES ASSUME NEW i \in 1 .. n, NEW j \in 1 .. n, before(i, j)
               PROVE  Cardinality(above(i)) < Cardinality(above(j))
    OBVIOUS
  <2>1. above(i) \cup {i} \in SUBSET above(j) /\ i \notin above(i)
    BY <1>3, <1>4
  <2>2. Cardinality(above(i) \cup {i}) = Cardinality(above(i)) + 1
    BY <1>5, <2>1, FS_AddElement
  <2>3. Cardinality(above(i) \cup {i}) <= Cardinality(above(j))
    BY <1>5, <2>1, FS_Subset
  <2>4. Cardinality(above(i)) \in Nat /\ Cardinality(above(j)) \in Nat
    BY <1>5, FS_CardinalityType
  <2> QED BY <2>2, <2>3, <2>4
<1>7. /\ place \in [1 .. n -> 1 .. n]
      /\ \A i, j \in 1 .. n : before(i, j) => place[i] < place[j]
  <2>1. \A i \in 1 .. n : place[i] = 1 + Cardinality(above(i))
    OBVIOUS
  <2>2. \A i \in 1 .. n :
            1 + Cardinality(above(i)) \in 1 .. n /\ Cardinality(above(i)) \in Nat
    <3> HIDE DEF above, n
    <3> QED BY <1>1, <1>5
  <2>3. place \in [1 .. n -> 1 .. n]
    BY <2>2
  <2> HIDE DEF place, above
  <2>4. \A i, j \in 1 .. n : before(i, j) => place[i] < place[j]
    BY <1>6, <2>1, <2>2
  <2> QED BY <2>3, <2>4
<1> HIDE DEF place
<1>8. \A i, j \in 1 .. n : place[i] = place[j] => i = j
  BY <1>2, <1>7
<1>9. \A p \in 1 .. n : \E i \in 1 .. n : place[i] = p
  <2>1. place \in Injection(1 .. n, 1 .. n)
    BY <1>7, <1>8 DEF Injection, IsInjective
  <2>2. place \in Surjection(1 .. n, 1 .. n)
    BY <1>1, <2>1, FS_Injection
  <2> QED BY <2>2 DEF Surjection
<1>10. /\ perm \in [1 .. n -> 1 .. n]
       /\ \A p \in 1 .. n : place[perm[p]] = p
  BY <1>9
<1>11. g_queue_sort(q, less) = [i \in 1 .. n |-> q[perm[i]]]
  BY DEF g_queue_sort, place, before
<1> HIDE DEF perm
<1>12. \A i, j \in 1 .. n : i < j => before(perm[i], perm[j])
  BY <1>1, <1>2, <1>7, <1>10
<1>13. \A i, j \in 1 .. n : i < j =>
                /\ <<q[perm[j]], q[perm[i]]>> \notin less
                /\ perm[i] < perm[j] \/ <<q[perm[i]], q[perm[j]]>> \in less
  BY <1>10, <1>12 DEF before, IsLess
<1>14. \A i, j \in 1 .. n : i # j => perm[i] # perm[j]
  BY <1>10
<1> QED BY <1>10, <1>11, <1>13, <1>14

=============================================================================
