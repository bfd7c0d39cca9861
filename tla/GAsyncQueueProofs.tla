------------------------- MODULE GAsyncQueueProofs -------------------------
(***************************************************************************)
(* Safety of GAsyncQueue for every set of threads and items and every      *)
(* bound. The inductive invariant counts three things: the references that *)
(* the threads hold, the threads in a wait, and the ranks given to the     *)
(* items. What a push, a pop or a sort does to the order of the queue      *)
(* comes from the lemmas about its operators in GQueueProofs.              *)
(*                                                                         *)
(* The second part proves that the merge sort of GList, which the sorts of *)
(* the queue end in, returns the list that g_queue_sort states.            *)
(***************************************************************************)
EXTENDS GAsyncQueue, GList, GQueueProofs

\* The references that are held, one by one.
Held == {p \in Threads \X Nat : 1 <= p[2] /\ p[2] <= refs[p[1]]}

\* Every reference is counted, and who is inside a call or holds the mutex
\* holds a reference.
RefsOK ==
  /\ IsFiniteSet(Held) /\ Cardinality(Held) = ref_count
  /\ \A t \in Threads : pc[t] # "idle" => refs[t] > 0
  /\ owner # NoThread => pc[owner] \in {"idle", "aborted"} /\ refs[owner] > 0

\* Every thread in a wait is counted, and a sleeper leaves no item without a thread.
WaitersOK ==
  /\ waiting = Cardinality(Asleep) + Cardinality(Waking)
  /\ Cardinality(Asleep) > 0 => Len(queue) <= Cardinality(Waking)

\* The ranks of the items are among those given out.
RanksOK ==
  /\ lo <= hi
  /\ \A i \in 1 .. Len(queue) : lo < queue[i].rank /\ queue[i].rank <= hi

\* The inductive invariant.
QueueInv == TypeOK /\ RefsOK /\ WaitersOK /\ RanksOK /\ PopOrder

\* The sleepers and the threads on their way out of a wait are finitely many
\* and no thread is both.
LEMMA Counts ==
  ASSUME TypeOK
  PROVE  /\ IsFiniteSet(Asleep) /\ Cardinality(Asleep) \in Nat
         /\ IsFiniteSet(Waking) /\ Cardinality(Waking) \in Nat
         /\ Cardinality(Asleep) = 0 <=> Asleep = {}
         /\ Cardinality(Asleep \cup Waking) = Cardinality(Asleep) + Cardinality(Waking)
<1>1. IsFiniteSet(Asleep) /\ IsFiniteSet(Waking)
  BY GAsyncQueueAssumption, FS_Subset DEF Asleep, Waking
<1>2. Asleep \cap Waking = {}
  BY DEF Asleep, Waking
<1>3. Cardinality(Asleep) \in Nat /\ Cardinality(Waking) \in Nat
  BY <1>1, FS_CardinalityType
<1>4. Cardinality(Asleep \cup Waking) = Cardinality(Asleep) + Cardinality(Waking) - 0
  BY <1>1, <1>2, FS_Union, FS_EmptySet
<1> QED BY <1>1, <1>3, <1>4, FS_EmptySet

\* What one move of one thread does to both counts.
LEMMA Moves ==
  ASSUME TypeOK, NEW t \in Threads, NEW v \in PC, pc' = [pc EXCEPT ![t] = v]
  PROVE  /\ Cardinality(Asleep') = Cardinality(Asleep)
              + (IF v = "asleep" THEN 1 ELSE 0) - (IF pc[t] = "asleep" THEN 1 ELSE 0)
         /\ Cardinality(Waking') = Cardinality(Waking)
              + (IF v \in {"woken", "expired"} THEN 1 ELSE 0)
              - (IF pc[t] \in {"woken", "expired"} THEN 1 ELSE 0)
<1>1. Asleep' = IF v = "asleep" THEN Asleep \cup {t} ELSE Asleep \ {t}
  BY DEF TypeOK, Asleep
<1>2. Waking' = IF v \in {"woken", "expired"} THEN Waking \cup {t} ELSE Waking \ {t}
  BY DEF TypeOK, Waking
<1>3. /\ t \in Asleep <=> pc[t] = "asleep"
      /\ t \in Waking <=> pc[t] \in {"woken", "expired"}
  BY DEF Asleep, Waking
<1>4. Cardinality(Asleep \cup {t}) =
          IF t \in Asleep THEN Cardinality(Asleep) ELSE Cardinality(Asleep) + 1
  BY Counts, FS_AddElement
<1>5. Cardinality(Asleep \ {t}) =
          IF t \in Asleep THEN Cardinality(Asleep) - 1 ELSE Cardinality(Asleep)
  BY Counts, FS_RemoveElement
<1>6. Cardinality(Waking \cup {t}) =
          IF t \in Waking THEN Cardinality(Waking) ELSE Cardinality(Waking) + 1
  BY Counts, FS_AddElement
<1>7. Cardinality(Waking \ {t}) =
          IF t \in Waking THEN Cardinality(Waking) - 1 ELSE Cardinality(Waking)
  BY Counts, FS_RemoveElement
<1>8. Cardinality(Asleep') = Cardinality(Asleep)
              + (IF v = "asleep" THEN 1 ELSE 0) - (IF pc[t] = "asleep" THEN 1 ELSE 0)
  BY <1>1, <1>3, <1>4, <1>5, Counts
<1>9. Cardinality(Waking') = Cardinality(Waking)
              + (IF v \in {"woken", "expired"} THEN 1 ELSE 0)
              - (IF pc[t] \in {"woken", "expired"} THEN 1 ELSE 0)
  BY <1>2, <1>3, <1>6, <1>7, Counts
<1> QED BY <1>8, <1>9

\* A step that leaves the references and the calls of the threads alone.
LEMMA SameRefs ==
  ASSUME TypeOK, RefsOK, refs' = refs, ref_count' = ref_count,
         \A t \in Threads : pc'[t] # "idle" => refs[t] > 0,
         owner' # NoThread => pc'[owner'] \in {"idle", "aborted"} /\ refs[owner'] > 0
  PROVE  RefsOK'
BY DEF RefsOK, Held

\* A step that leaves the queue and the ranks alone.
LEMMA SameOrder ==
  ASSUME RanksOK, PopOrder, queue' = queue, lo' = lo, hi' = hi, sorted' = sorted
  PROVE  RanksOK' /\ PopOrder'
BY DEF RanksOK, PopOrder

\* A queue some of whose elements are gone.
LEMMA FewerItems ==
  ASSUME TypeOK, RanksOK, PopOrder, lo' = lo, hi' = hi, sorted' = sorted,
         queue' \in Seq(Element), NEW f \in [1 .. Len(queue') -> 1 .. Len(queue)],
         \A i \in 1 .. Len(queue') : queue'[i] = queue[f[i]],
         \A i, j \in 1 .. Len(queue') : i < j => f[i] < f[j]
  PROVE  RanksOK' /\ PopOrder'
<1>1. RanksOK'
  BY DEF RanksOK
<1>2. PopOrder'
  <2> SUFFICES ASSUME NEW i \in 1 .. Len(queue'), NEW j \in 1 .. Len(queue'), i < j
               PROVE  /\ sorted => Key[queue'[i].item] >= Key[queue'[j].item]
                      /\ Key[queue'[i].item] = Key[queue'[j].item]
                           => queue'[i].rank > queue'[j].rank
    BY DEF PopOrder
  <2>1. /\ f[i] \in 1 .. Len(queue) /\ f[j] \in 1 .. Len(queue) /\ f[i] < f[j]
        /\ queue'[i] = queue[f[i]] /\ queue'[j] = queue[f[j]]
    OBVIOUS
  <2> QED BY <2>1 DEF PopOrder
<1> QED BY <1>1, <1>2

\* g_queue_pop_tail keeps the order.
LEMMA PopTailOrder ==
  ASSUME TypeOK, RanksOK, PopOrder, lo' = lo, hi' = hi, sorted' = sorted,
         queue' = g_queue_pop_tail(queue)
  PROVE  /\ queue' \in Seq(Element) /\ RanksOK' /\ PopOrder'
         /\ Len(queue') = IF queue = <<>> THEN 0 ELSE Len(queue) - 1
<1>1. /\ queue' \in Seq(Element)
      /\ Len(queue') = IF queue = <<>> THEN 0 ELSE Len(queue) - 1
      /\ \A i \in 1 .. Len(queue') : queue'[i] = queue[i]
  BY PopTail DEF TypeOK
<1>2. Len(queue) \in Nat /\ Len(queue') \in Nat /\ Len(queue') <= Len(queue)
  BY <1>1
<1> DEFINE f == [i \in 1 .. Len(queue') |-> i]
<1>3. f \in [1 .. Len(queue') -> 1 .. Len(queue)]
  BY <1>2
<1> QED BY <1>1, <1>3, FewerItems

\* g_queue_remove keeps the order.
LEMMA RemoveOrder ==
  ASSUME TypeOK, RanksOK, PopOrder, lo' = lo, hi' = hi, sorted' = sorted,
         NEW holding, queue' = g_queue_remove(queue, holding)
  PROVE  /\ queue' \in Seq(Element) /\ RanksOK' /\ PopOrder'
         /\ Len(queue') <= Len(queue)
<1>1. Len(queue) \in Nat
  OBVIOUS
<1>2. CASE queue' = queue
  BY <1>2, SameOrder DEF TypeOK
<1>3. ASSUME NEW p \in 1 .. Len(queue), queue' = RemoveAt(queue, p)
      PROVE  /\ queue' \in Seq(Element) /\ RanksOK' /\ PopOrder'
             /\ Len(queue') <= Len(queue)
  <2> DEFINE f == [i \in 1 .. Len(queue) - 1 |-> IF i < p THEN i ELSE i + 1]
  <2>1. /\ RemoveAt(queue, p) \in Seq(Element)
        /\ Len(RemoveAt(queue, p)) = Len(queue) - 1
        /\ \A i \in 1 .. Len(queue) - 1 :
             RemoveAt(queue, p)[i] = IF i < p THEN queue[i] ELSE queue[i + 1]
    BY RemovedAt DEF TypeOK
  <2>2. /\ f \in [1 .. Len(queue) - 1 -> 1 .. Len(queue)]
        /\ \A i \in 1 .. Len(queue) - 1 : queue'[i] = queue[f[i]]
        /\ \A i, j \in 1 .. Len(queue) - 1 : i < j => f[i] < f[j]
    BY <1>3, <2>1
  <2> HIDE DEF f
  <2>3. RanksOK' /\ PopOrder'
    BY <1>3, <2>1, <2>2, FewerItems
  <2> QED BY <1>3, <2>1, <2>3
<1> QED BY <1>2, <1>3, RemoveOne DEF TypeOK

\* An item goes to place p: its equals before p came later, those behind it earlier.
LEMMA OneMoreItem ==
  ASSUME TypeOK, RanksOK, PopOrder, NEW e \in Element, NEW p \in 1 .. Len(queue) + 1,
         queue' = InsertAt(queue, p, e), lo' <= lo, hi <= hi', lo' \in Int, hi' \in Int,
         lo' < e.rank, e.rank <= hi', sorted' => sorted,
         \A i \in 1 .. Len(queue) :
           /\ i < p => /\ sorted' => Key[queue[i].item] >= Key[e.item]
                       /\ Key[queue[i].item] = Key[e.item] => queue[i].rank > e.rank
           /\ i >= p => /\ sorted' => Key[e.item] >= Key[queue[i].item]
                        /\ Key[e.item] = Key[queue[i].item] => e.rank > queue[i].rank
  PROVE  queue' \in Seq(Element) /\ Len(queue') = Len(queue) + 1 /\ RanksOK' /\ PopOrder'
<1>1. /\ Len(queue) \in Nat
      /\ \A i \in 1 .. Len(queue) : queue[i] \in Element /\ queue[i].rank \in Int
  <2>1. Len(queue) \in Nat /\ \A i \in 1 .. Len(queue) : queue[i] \in Element
    BY DEF TypeOK
  <2>2. \A x \in Element : x.rank \in Int
    BY DEF Element
  <2> QED BY <2>1, <2>2
<1>2. /\ queue' \in Seq(Element) /\ Len(queue') = Len(queue) + 1
      /\ \A i \in 1 .. Len(queue) + 1 :
           queue'[i] = IF i < p THEN queue[i] ELSE IF i = p THEN e ELSE queue[i - 1]
  <2>1. queue \in Seq(Element)
    BY DEF TypeOK
  <2>2. Inserted(Element, queue, p, e, queue')
    BY <2>1, InsertAtInserted
  <2> QED BY <2>2 DEF Inserted
<1>3. RanksOK'
  <2>1. lo' <= hi'
    BY DEF TypeOK, RanksOK
  <2>2. ASSUME NEW i \in 1 .. Len(queue) + 1
        PROVE  lo' < queue'[i].rank /\ queue'[i].rank <= hi'
    <3>1. CASE i = p
      BY <1>2, <3>1
    <3>2. CASE i < p
      <4>1. i \in 1 .. Len(queue) /\ queue'[i] = queue[i]
        BY <1>2, <3>2
      <4>2. lo < queue[i].rank /\ queue[i].rank <= hi /\ queue[i].rank \in Int
        BY <1>1, <4>1 DEF RanksOK
      <4> QED BY <4>1, <4>2 DEF TypeOK
    <3>3. CASE i > p
      <4>1. i - 1 \in 1 .. Len(queue) /\ queue'[i] = queue[i - 1]
        BY <1>2, <3>3
      <4>2. lo < queue[i - 1].rank /\ queue[i - 1].rank <= hi /\ queue[i - 1].rank \in Int
        BY <1>1, <4>1 DEF RanksOK
      <4> QED BY <4>1, <4>2 DEF TypeOK
    <3> QED BY <3>1, <3>2, <3>3
  <2> QED BY <1>2, <2>1, <2>2 DEF RanksOK
<1>4. PopOrder'
  <2> SUFFICES ASSUME NEW i \in 1 .. Len(queue) + 1, NEW j \in 1 .. Len(queue) + 1,
                      i < j
               PROVE  /\ sorted' => Key[queue'[i].item] >= Key[queue'[j].item]
                      /\ Key[queue'[i].item] = Key[queue'[j].item]
                           => queue'[i].rank > queue'[j].rank
    BY <1>2 DEF PopOrder
  <2>1. CASE j = p
    <3>1. i \in 1 .. Len(queue) /\ i < p /\ queue'[i] = queue[i] /\ queue'[j] = e
      BY <1>2, <2>1
    <3> QED BY <3>1
  <2>2. CASE i = p
    <3>1. /\ j - 1 \in 1 .. Len(queue) /\ j - 1 >= p
          /\ queue'[i] = e /\ queue'[j] = queue[j - 1]
      BY <1>2, <2>2
    <3> QED BY <3>1
  <2>3. CASE i # p /\ j # p
    <3> DEFINE x == IF i < p THEN i ELSE i - 1
               y == IF j < p THEN j ELSE j - 1
    <3>1. /\ x \in 1 .. Len(queue) /\ y \in 1 .. Len(queue) /\ x < y
      BY <2>3
    <3>2. queue'[i] = queue[x] /\ queue'[j] = queue[y]
      BY <1>2, <2>3
    <3> HIDE DEF x, y
    <3> QED BY <3>1, <3>2 DEF PopOrder
  <2> QED BY <2>1, <2>2, <2>3
<1> QED BY <1>2, <1>3, <1>4

\* g_cond_signal after a push: either a sleeper is woken for the new item or
\* there was none.
LEMMA SignalCounts ==
  ASSUME TypeOK, WaitersOK, SignalWaiter, Len(queue') = Len(queue) + 1,
         waiting' = waiting
  PROVE  /\ pc' \in [Threads -> PC] /\ WaitersOK'
         /\ \A t \in Threads : pc'[t] = pc[t] \/ (pc[t] = "asleep" /\ pc'[t] = "woken")
<1>0. Len(queue) \in Nat /\ waiting \in Nat
  BY DEF TypeOK
<1>1. CASE waiting > 0 /\ Asleep # {}
  <2>1. PICK u \in Asleep : pc' = [pc EXCEPT ![u] = "woken"]
    BY <1>1 DEF SignalWaiter
  <2>2. u \in Threads /\ pc[u] = "asleep"
    BY DEF Asleep
  <2>3. /\ Cardinality(Asleep') = Cardinality(Asleep) + 0 - 1
        /\ Cardinality(Waking') = Cardinality(Waking) + 1 - 0
    <3>1. "woken" \in PC
      BY DEF PC
    <3>2. /\ Cardinality(Asleep') = Cardinality(Asleep)
              + (IF "woken" = "asleep" THEN 1 ELSE 0) - (IF pc[u] = "asleep" THEN 1
                  ELSE 0)
          /\ Cardinality(Waking') = Cardinality(Waking)
              + (IF "woken" \in {"woken", "expired"} THEN 1 ELSE 0)
              - (IF pc[u] \in {"woken", "expired"} THEN 1 ELSE 0)
      BY <2>1, <2>2, <3>1, Moves
    <3> QED BY <2>2, <3>2
  <2>4. WaitersOK'
    BY <2>3, Counts DEF WaitersOK
  <2> QED BY <2>1, <2>2, <2>4 DEF TypeOK, PC
<1>2. CASE ~(waiting > 0 /\ Asleep # {})
  <2>1. pc' = pc
    BY <1>2 DEF SignalWaiter
  <2>2. Asleep' = Asleep /\ Waking' = Waking
    BY <2>1 DEF Asleep, Waking
  <2>3. Cardinality(Asleep) = 0
    BY <1>2, Counts DEF WaitersOK
  <2> QED BY <2>1, <2>2, <2>3 DEF TypeOK, WaitersOK
<1> QED BY <1>1, <1>2

\* What the pushes have in common: given that the new queue is in order, the
\* rest of the invariant holds after the signal.
LEMMA PushStep ==
  ASSUME QueueInv, NEW t \in Threads, Push(t), queue' \in Seq(Element),
         Len(queue') = Len(queue) + 1, RanksOK', PopOrder',
         lo' \in Int, hi' \in Int, sorted' \in BOOLEAN
  PROVE  QueueInv'
<1>1. /\ pc' \in [Threads -> PC] /\ WaitersOK'
      /\ \A u \in Threads : pc'[u] = pc[u] \/ (pc[u] = "asleep" /\ pc'[u] = "woken")
  BY SignalCounts DEF QueueInv, Push
<1>2. TypeOK'
  BY <1>1 DEF QueueInv, TypeOK, Push
<1>3. RefsOK'
  <2>1. \A u \in Threads : pc'[u] # "idle" => refs[u] > 0
    BY <1>1 DEF QueueInv, RefsOK
  <2>2. owner' # NoThread => pc'[owner'] \in {"idle", "aborted"} /\ refs[owner'] > 0
    BY <1>1 DEF QueueInv, TypeOK, RefsOK, Push
  <2> QED BY <2>1, <2>2, SameRefs DEF QueueInv, Push
<1> QED BY <1>1, <1>2, <1>3 DEF QueueInv

\* g_async_queue_push_unlocked: the new item is behind all others.
LEMMA PushHeadStep ==
  ASSUME QueueInv, NEW t \in Threads, NEW item \in Items, g_async_queue_push(t, item)
  PROVE  QueueInv'
<1> DEFINE e == [item |-> item, rank |-> hi + 1]
<1>1. e \in Element /\ e.rank = hi + 1 /\ e.item = item
  BY DEF QueueInv, TypeOK, Element
<1>2. queue' = InsertAt(queue, 1, e)
  BY <1>1, PushHead DEF QueueInv, TypeOK, g_async_queue_push
<1> HIDE DEF e
<1>3. lo' = lo /\ hi' = hi + 1 /\ sorted' = FALSE /\ lo \in Int /\ hi \in Int /\ lo <= hi
  BY DEF QueueInv, TypeOK, RanksOK, g_async_queue_push
<1>4. Len(queue) \in Nat
  OBVIOUS
<1>5. \A i \in 1 .. Len(queue) : i >= 1 /\ queue[i].rank <= hi /\ queue[i].rank \in Int
  <2>1. \A i \in 1 .. Len(queue) : queue[i] \in Element
    BY DEF QueueInv, TypeOK
  <2>2. \A x \in Element : x.rank \in Int
    BY DEF Element
  <2> QED BY <2>1, <2>2 DEF QueueInv, RanksOK
<1>6. queue' \in Seq(Element) /\ Len(queue') = Len(queue) + 1 /\ RanksOK' /\ PopOrder'
  BY <1>1, <1>2, <1>3, <1>5, OneMoreItem DEF QueueInv
<1>7. Push(t) /\ lo' \in Int /\ hi' \in Int /\ sorted' \in BOOLEAN
  <2>1. Push(t)
    BY DEF g_async_queue_push
  <2>2. lo' \in Int /\ hi' \in Int
    BY <1>3
  <2>3. sorted' \in BOOLEAN
    BY <1>3, Zenon
  <2> QED BY <2>1, <2>2, <2>3
<1> QED BY <1>6, <1>7, PushStep

\* g_async_queue_push_front_unlocked: the new item is before all others.
LEMMA PushFrontStep ==
  ASSUME QueueInv, NEW t \in Threads, NEW item \in Items,
         g_async_queue_push_front(t, item)
  PROVE  QueueInv'
<1> DEFINE e == [item |-> item, rank |-> lo]
<1>1. e \in Element /\ e.rank = lo /\ e.item = item
  BY DEF QueueInv, TypeOK, Element
<1>2. queue' = InsertAt(queue, Len(queue) + 1, e)
  BY <1>1, PushTail DEF QueueInv, TypeOK, g_async_queue_push_front
<1> HIDE DEF e
<1>3. lo' = lo - 1 /\ hi' = hi /\ sorted' = FALSE /\ lo \in Int /\ hi \in Int /\ lo <= hi
  BY DEF QueueInv, TypeOK, RanksOK, g_async_queue_push_front
<1>4. Len(queue) \in Nat
  OBVIOUS
<1>5. \A i \in 1 .. Len(queue) :
          ~(i >= Len(queue) + 1) /\ queue[i].rank > lo /\ queue[i].rank \in Int
  <2>1. \A i \in 1 .. Len(queue) : queue[i] \in Element
    BY DEF QueueInv, TypeOK
  <2>2. \A x \in Element : x.rank \in Int
    BY DEF Element
  <2> QED BY <2>1, <2>2 DEF QueueInv, RanksOK
<1>6. queue' \in Seq(Element) /\ Len(queue') = Len(queue) + 1 /\ RanksOK' /\ PopOrder'
  BY <1>1, <1>2, <1>3, <1>5, OneMoreItem DEF QueueInv
<1>7. Push(t) /\ lo' \in Int /\ hi' \in Int /\ sorted' \in BOOLEAN
  <2>1. Push(t)
    BY DEF g_async_queue_push_front
  <2>2. lo' \in Int /\ hi' \in Int
    BY <1>3
  <2>3. sorted' \in BOOLEAN
    BY <1>3, Zenon
  <2> QED BY <2>1, <2>2, <2>3
<1> QED BY <1>6, <1>7, PushStep

\* What the inverted comparison says, in terms of the keys.
LEMMA LessIsGreaterKey ==
  ASSUME NEW S, S \subseteq Element, NEW x \in S, NEW y \in S
  PROVE  <<x, y>> \in Less(S) <=> Key[x.item] > Key[y.item]
<1>1. Key[x.item] \in Int /\ Key[y.item] \in Int
  BY GAsyncQueueAssumption DEF Element
<1>2. - (Key[x.item] - Key[y.item]) < 0 <=> Key[x.item] > Key[y.item]
  BY <1>1
<1>3. <<x, y>> \in Less(S) <=> - (Key[x.item] - Key[y.item]) < 0
  BY DEF Less, g_async_queue_invert_compare, Compare
<1> QED BY <1>2, <1>3

\* g_async_queue_push_sorted_unlocked: behind the items of its key or a smaller
\* one.
LEMMA PushSortedStep ==
  ASSUME QueueInv, NEW t \in Threads, NEW item \in Items,
         g_async_queue_push_sorted(t, item)
  PROVE  QueueInv'
<1> DEFINE e == [item |-> item, rank |-> hi + 1]
           less == Less(Range(queue) \cup {e})
<1>1. e \in Element /\ e.rank = hi + 1 /\ e.item = item
  BY DEF QueueInv, TypeOK, Element
<1>2. queue' = g_queue_insert_sorted(queue, e, less)
  BY DEF g_async_queue_push_sorted
<1>3. lo' = lo /\ hi' = hi + 1 /\ sorted' = sorted /\ lo \in Int /\ hi \in Int /\ lo <= hi
      /\ sorted \in BOOLEAN
  BY DEF QueueInv, TypeOK, RanksOK, g_async_queue_push_sorted
<1>4. Len(queue) \in Nat /\ \A i \in 1 .. Len(queue) : queue[i] \in Element
  BY DEF QueueInv, TypeOK
<1>5. \A i \in 1 .. Len(queue) : queue[i].rank <= hi /\ queue[i].rank \in Int
  <2>2. \A x \in Element : x.rank \in Int
    BY DEF Element
  <2> QED BY <2>2, <1>4 DEF QueueInv, RanksOK
<1>6. Range(queue) \cup {e} \subseteq Element /\ \A i \in 1 .. Len(queue) :
          queue[i] \in Range(queue)
  <2>1. DOMAIN queue = 1 .. Len(queue)
    OBVIOUS
  <2> QED BY <1>1, <1>4 DEF Range
<1>7. \A i \in 1 .. Len(queue) :
          <<queue[i], e>> \in less <=> Key[queue[i].item] > Key[e.item]
  BY <1>6, LessIsGreaterKey
<1> HIDE DEF e, less
<1>8. PICK p \in 1 .. Len(queue) + 1 :
           /\ \A i \in 1 .. p - 1 : <<queue[i], e>> \in less
           /\ p <= Len(queue) => <<queue[p], e>> \notin less
           /\ queue' = InsertAt(queue, p, e)
  <2>1. queue \in Seq(Element)
    BY DEF QueueInv, TypeOK
  <2>2. \E p \in 1 .. Len(queue) + 1 :
           /\ \A i \in 1 .. p - 1 : <<queue[i], e>> \in less
           /\ p <= Len(queue) => <<queue[p], e>> \notin less
           /\ g_queue_insert_sorted(queue, e, less) = InsertAt(queue, p, e)
    BY <1>1, <2>1, InsertSorted
  <2> QED BY <1>2, <2>2
<1>9. Key[e.item] \in Int /\ \A i \in 1 .. Len(queue) : Key[queue[i].item] \in Int
  <2>1. \A x \in Element : Key[x.item] \in Int
    BY GAsyncQueueAssumption DEF Element
  <2> QED BY <2>1, <1>1, <1>4
<1>10. ASSUME NEW i \in 1 .. Len(queue)
       PROVE  /\ i < p => /\ sorted' => Key[queue[i].item] >= Key[e.item]
                          /\ Key[queue[i].item] = Key[e.item] => queue[i].rank > e.rank
              /\ i >= p => /\ sorted' => Key[e.item] >= Key[queue[i].item]
                           /\ Key[e.item] = Key[queue[i].item] => e.rank > queue[i].rank
  <2>1. CASE i < p
    <3>1. i \in 1 .. p - 1
      BY <2>1
    <3>2. Key[queue[i].item] > Key[e.item]
      BY <1>7, <1>8, <3>1
    <3> QED BY <1>9, <2>1, <3>2
  <2>2. CASE i >= p
    <3>1. p \in 1 .. Len(queue) /\ p <= Len(queue) /\ Key[e.item] >= Key[queue[p].item]
      BY <1>7, <1>8, <1>9, <2>2
    <3>2. sorted => Key[queue[p].item] >= Key[queue[i].item]
      BY <1>9, <2>2 DEF QueueInv, PopOrder
    <3> QED BY <1>1, <1>3, <1>5, <1>9, <2>2, <3>1, <3>2
  <2> QED BY <2>1, <2>2
<1>11. queue' \in Seq(Element) /\ Len(queue') = Len(queue) + 1 /\ RanksOK' /\ PopOrder'
  BY <1>1, <1>3, <1>8, <1>10, OneMoreItem DEF QueueInv
<1>12. Push(t) /\ lo' \in Int /\ hi' \in Int /\ sorted' \in BOOLEAN
  BY <1>3 DEF g_async_queue_push_sorted
<1> QED BY <1>11, <1>12, PushStep

\* g_async_queue_sort_unlocked, a stable sort.
LEMMA SortStep ==
  ASSUME QueueInv, NEW t \in Threads, g_async_queue_sort(t)
  PROVE  QueueInv'
<1> DEFINE n == Len(queue)
           less == Less(Range(queue))
<1>1. /\ queue \in Seq(Element) /\ n \in Nat /\ queue' = g_queue_sort(queue, less)
      /\ \A i \in 1 .. n : queue[i] \in Element
  BY DEF QueueInv, TypeOK, g_async_queue_sort
<1>2. Range(queue) \subseteq Element /\ \A i \in 1 .. n : queue[i] \in Range(queue)
  <2>1. DOMAIN queue = 1 .. Len(queue)
    OBVIOUS
  <2> QED BY <1>1 DEF Range
<1>3. \A i, j \in 1 .. n : <<queue[i], queue[j]>> \in less
                             <=> Key[queue[i].item] > Key[queue[j].item]
  BY <1>2, LessIsGreaterKey
<1>4. \A i \in 1 .. n : Key[queue[i].item] \in Int /\ queue[i].rank \in Int
  <2>1. \A x \in Element : Key[x.item] \in Int /\ x.rank \in Int
    BY GAsyncQueueAssumption DEF Element
  <2> QED BY <2>1, <1>1
<1> HIDE DEF less
<1>5. IsLess(less, queue)
  <2>1. \A x, y \in Int : x > y => ~(y > x)
    OBVIOUS
  <2>2. \A x, y, z \in Int : x > z => x > y \/ y > z
    OBVIOUS
  <2>3. \A i, j \in 1 .. n :
            <<queue[i], queue[j]>> \in less => <<queue[j], queue[i]>> \notin less
    BY <1>3, <1>4
  <2>4. \A i, j, k \in 1 .. n :
       <<queue[i], queue[k]>> \in less
           => <<queue[i], queue[j]>> \in less \/ <<queue[j], queue[k]>> \in less
    <3> SUFFICES ASSUME NEW i \in 1 .. n, NEW j \in 1 .. n, NEW k \in 1 .. n,
                        <<queue[i], queue[k]>> \in less
                 PROVE <<queue[i], queue[j]>> \in less \/ <<queue[j], queue[k]>> \in less
      OBVIOUS
    <3>1. Key[queue[i].item] > Key[queue[k].item]
      BY <1>3
    <3>2. Key[queue[i].item] > Key[queue[j].item]
            \/ Key[queue[j].item] > Key[queue[k].item]
      BY <1>4, <3>1
    <3> QED BY <1>3, <3>2
  <2> QED BY <2>3, <2>4 DEF IsLess
<1>6. PICK perm \in [1 .. n -> 1 .. n] :
           /\ g_queue_sort(queue, less) = [i \in 1 .. n |-> queue[perm[i]]]
           /\ \A i, j \in 1 .. n : i < j =>
                /\ <<queue[perm[j]], queue[perm[i]]>> \notin less
                /\ perm[i] < perm[j] \/ <<queue[perm[i]], queue[perm[j]]>> \in less
           /\ \A i, j \in 1 .. n : i # j => perm[i] # perm[j]
  BY <1>1, <1>5, StableSort
<1>7. queue' = [i \in 1 .. n |-> queue[perm[i]]]
  BY <1>1, <1>6
<1> HIDE DEF n
<1>8. /\ queue' \in Seq(Element) /\ Len(queue') = n
      /\ \A i \in 1 .. n : perm[i] \in 1 .. n /\ queue'[i] = queue[perm[i]]
  BY <1>1, <1>6
<1>9. lo' = lo /\ hi' = hi /\ sorted' = TRUE
  BY DEF g_async_queue_sort
<1>10. RanksOK'
  <2>1. lo <= hi /\ \A i \in 1 .. n : lo < queue[i].rank /\ queue[i].rank <= hi
    BY DEF QueueInv, RanksOK, n
  <2> QED BY <1>8, <1>9, <2>1 DEF RanksOK
<1>11. PopOrder'
  <2> SUFFICES ASSUME NEW i \in 1 .. n, NEW j \in 1 .. n, i < j
               PROVE  /\ Key[queue'[i].item] >= Key[queue'[j].item]
                      /\ Key[queue'[i].item] = Key[queue'[j].item]
                           => queue'[i].rank > queue'[j].rank
    BY <1>8 DEF PopOrder
  <2>1. PICK x \in 1 .. n, y \in 1 .. n :
           /\ queue'[i] = queue[x] /\ queue'[j] = queue[y]
           /\ <<queue[y], queue[x]>> \notin less
           /\ x < y \/ <<queue[x], queue[y]>> \in less
    BY <1>6, <1>8
  <2>2. Key[queue[x].item] >= Key[queue[y].item]
    BY <1>3, <1>4, <2>1
  <2>3. ASSUME Key[queue[x].item] = Key[queue[y].item]
        PROVE  queue[x].rank > queue[y].rank
    <3>1. x < y
      BY <1>3, <2>1, <2>3
    <3> QED BY <2>3, <3>1 DEF QueueInv, PopOrder, n
  <2> QED BY <2>1, <2>2, <2>3
<1>12. TypeOK'
  BY <1>8 DEF QueueInv, TypeOK, g_async_queue_sort
<1>13. RefsOK'
  BY SameRefs DEF QueueInv, RefsOK, g_async_queue_sort
<1>14. WaitersOK'
  BY <1>8 DEF QueueInv, WaitersOK, Asleep, Waking, g_async_queue_sort, n
<1> QED BY <1>10, <1>11, <1>12, <1>13, <1>14 DEF QueueInv

\* g_async_queue_remove_unlocked.
LEMMA RemoveStep ==
  ASSUME QueueInv, NEW t \in Threads, NEW item \in Items,
         g_async_queue_remove(t, item)
  PROVE  QueueInv'
<1>1. /\ queue' \in Seq(Element) /\ RanksOK' /\ PopOrder'
      /\ Len(queue') <= Len(queue)
  <2>1. /\ queue' = g_queue_remove(queue, {e \in Range(queue) : e.item = item})
        /\ lo' = lo /\ hi' = hi /\ sorted' = sorted
    BY DEF g_async_queue_remove
  <2> QED BY <2>1, RemoveOrder DEF QueueInv
<1>2. TypeOK'
  BY <1>1 DEF QueueInv, TypeOK, g_async_queue_remove
<1>3. RefsOK'
  BY SameRefs DEF QueueInv, RefsOK, g_async_queue_remove
<1>4. WaitersOK'
  <2>1. Len(queue) \in Nat /\ Len(queue') \in Nat
    OBVIOUS
  <2>2. Asleep' = Asleep /\ Waking' = Waking /\ waiting' = waiting
    BY DEF Asleep, Waking, g_async_queue_remove
  <2> QED BY <1>1, <2>2, Counts DEF QueueInv, WaitersOK
<1> QED BY <1>1, <1>2, <1>3, <1>4 DEF QueueInv

\* The pops: an item is taken, or the thread goes to sleep on an empty queue, or
\* it returns without an item.
LEMMA PopStep ==
  ASSUME QueueInv, NEW t \in Threads, NEW e \in EndTimes, g_async_queue_pop(t, e)
  PROVE  QueueInv'
<1> USE DEF g_async_queue_pop
<1>1. /\ ref_count' = ref_count /\ refs' = refs /\ lo' = lo /\ hi' = hi
      /\ sorted' = sorted /\ pc[t] = "idle" /\ refs[t] > 0 /\ owner \in {NoThread, t}
      /\ e \in Int /\ Len(queue) \in Nat /\ NoThread \notin Threads
  BY GAsyncQueueAssumption DEF MayCall
<1>2. CASE queue # <<>>
  <2>1. /\ queue' = g_queue_pop_tail(queue) /\ waiting' = waiting /\ owner' = owner
        /\ pc' = pc /\ end_time' = end_time /\ unlocked' = unlocked
    BY <1>2
  <2>2. /\ queue' \in Seq(Element) /\ RanksOK' /\ PopOrder'
        /\ Len(queue') = Len(queue) - 1
    BY <1>2, PopTailOrder DEF QueueInv
  <2>3. TypeOK'
    BY <2>2 DEF QueueInv, TypeOK
  <2>4. RefsOK'
    BY <2>1, SameRefs DEF QueueInv, RefsOK
  <2>5. WaitersOK'
    <3>1. Asleep' = Asleep /\ Waking' = Waking
      BY <2>1 DEF Asleep, Waking
    <3> QED BY <2>2, <3>1, Counts DEF QueueInv, WaitersOK
  <2> QED BY <2>2, <2>3, <2>4, <2>5 DEF QueueInv
<1>3. CASE queue = <<>> /\ (e = -1 \/ e > 0)
  <2>1. /\ queue' = queue /\ waiting' = waiting + 1 /\ owner' = NoThread
        /\ pc' = [pc EXCEPT ![t] = "asleep"]
        /\ end_time' = [end_time EXCEPT ![t] = e]
        /\ unlocked' = [unlocked EXCEPT ![t] = (owner = t)]
    BY <1>3
  <2>2. TypeOK'
    BY <1>1, <2>1 DEF QueueInv, TypeOK, PC
  <2>3. RefsOK'
    <3>1. \A u \in Threads : pc'[u] # "idle" => refs[u] > 0
      BY <1>1, <2>1 DEF QueueInv, RefsOK
    <3> QED BY <2>1, <3>1, SameRefs DEF QueueInv
  <2>4. WaitersOK'
    <3>1. /\ Cardinality(Asleep') = Cardinality(Asleep) + 1 - 0
          /\ Cardinality(Waking') = Cardinality(Waking) + 0 - 0
      <4>1. "asleep" \in PC
        BY DEF PC
      <4>2. /\ Cardinality(Asleep') = Cardinality(Asleep)
                + (IF "asleep" = "asleep" THEN 1
                    ELSE 0) - (IF pc[t] = "asleep" THEN 1 ELSE 0)
            /\ Cardinality(Waking') = Cardinality(Waking)
                + (IF "asleep" \in {"woken", "expired"} THEN 1 ELSE 0)
                - (IF pc[t] \in {"woken", "expired"} THEN 1 ELSE 0)
        BY <2>1, <4>1, Moves DEF QueueInv
      <4> QED BY <1>1, <4>2
    <3>2. Len(queue') = 0
      BY <1>3
    <3>3. /\ Cardinality(Asleep) \in Nat /\ Cardinality(Waking) \in Nat
          /\ waiting = Cardinality(Asleep) + Cardinality(Waking)
      BY Counts DEF QueueInv, WaitersOK
    <3>4. /\ waiting' = Cardinality(Asleep') + Cardinality(Waking')
          /\ Len(queue') <= Cardinality(Waking')
      BY <2>1, <3>1, <3>3
    <3> QED BY <3>4 DEF WaitersOK
  <2>5. RanksOK' /\ PopOrder'
    BY <2>1, SameOrder DEF QueueInv
  <2> QED BY <2>2, <2>3, <2>4, <2>5 DEF QueueInv
<1>4. CASE queue = <<>> /\ ~(e = -1 \/ e > 0)
  <2>1. /\ queue' = queue /\ waiting' = waiting /\ owner' = owner
        /\ pc' = [pc EXCEPT ![t] = "aborted"]
        /\ end_time' = end_time /\ unlocked' = unlocked
    BY <1>4
  <2>2. TypeOK'
    BY <2>1 DEF QueueInv, TypeOK, PC
  <2>3. RefsOK'
    <3>1. \A u \in Threads : pc'[u] # "idle" => refs[u] > 0
      BY <1>1, <2>1 DEF QueueInv, RefsOK
    <3>2. owner' # NoThread => pc'[owner'] \in {"idle", "aborted"} /\ refs[owner'] > 0
      BY <1>1, <2>1
    <3> QED BY <3>1, <3>2, SameRefs DEF QueueInv
  <2>4. WaitersOK'
    <3>1. Asleep' = Asleep /\ Waking' = Waking
      BY <1>1, <2>1 DEF Asleep, Waking
    <3> QED BY <2>1, <3>1 DEF QueueInv, WaitersOK
  <2>5. RanksOK' /\ PopOrder'
    BY <2>1, SameOrder DEF QueueInv
  <2> QED BY <2>2, <2>3, <2>4, <2>5 DEF QueueInv
<1> QED BY <1>2, <1>3, <1>4

\* A thread that sleeps, or is about to, wakes up; the queue stays as it is.
LEMMA WakeStep ==
  ASSUME QueueInv, NEW t \in Threads, NEW v \in {"woken", "expired"},
         pc[t] \in {"asleep", "woken"}, pc' = [pc EXCEPT ![t] = v],
         UNCHANGED <<queue, waiting, ref_count, owner, end_time, unlocked, refs,
                     lo, hi, sorted>>
  PROVE  QueueInv'
<1>1. v \in PC /\ v # "asleep" /\ v # "idle"
  BY DEF PC
<1>2. TypeOK'
  BY <1>1 DEF QueueInv, TypeOK
<1>3. RefsOK'
  <2>1. \A u \in Threads : pc'[u] # "idle" => refs[u] > 0
    BY DEF QueueInv, RefsOK
  <2>2. owner' # NoThread => pc'[owner'] \in {"idle", "aborted"} /\ refs[owner'] > 0
    <3>1. owner # t
      BY GAsyncQueueAssumption DEF QueueInv, RefsOK
    <3> QED BY DEF QueueInv, RefsOK
  <2> QED BY <2>1, <2>2, SameRefs DEF QueueInv
<1>4. WaitersOK'
  <2>1. /\ Cardinality(Asleep') = Cardinality(Asleep)
              + (IF v = "asleep" THEN 1 ELSE 0) - (IF pc[t] = "asleep" THEN 1 ELSE 0)
        /\ Cardinality(Waking') = Cardinality(Waking)
              + (IF v \in {"woken", "expired"} THEN 1 ELSE 0)
              - (IF pc[t] \in {"woken", "expired"} THEN 1 ELSE 0)
    BY <1>1, Moves DEF QueueInv
  <2>2. /\ Cardinality(Asleep) \in Nat /\ Cardinality(Waking) \in Nat
        /\ Len(queue) \in Nat
    BY Counts DEF QueueInv
  <2>3. CASE pc[t] = "asleep"
    <3>1. /\ Cardinality(Asleep') = Cardinality(Asleep) + 0 - 1
          /\ Cardinality(Waking') = Cardinality(Waking) + 1 - 0
      BY <2>1, <2>3
    <3> QED BY <2>2, <3>1 DEF QueueInv, WaitersOK
  <2>4. CASE pc[t] = "woken"
    <3>1. /\ Cardinality(Asleep') = Cardinality(Asleep) + 0 - 0
          /\ Cardinality(Waking') = Cardinality(Waking) + 1 - 1
      BY <2>1, <2>4
    <3> QED BY <2>2, <3>1 DEF QueueInv, WaitersOK
  <2> QED BY <2>3, <2>4
<1>5. RanksOK' /\ PopOrder'
  BY SameOrder DEF QueueInv
<1> QED BY <1>2, <1>3, <1>4, <1>5 DEF QueueInv

\* A thread comes back from g_cond_wait: it takes an item, sleeps again, or
\* gives up when its time is over.
LEMMA WaitReturnsStep ==
  ASSUME QueueInv, NEW t \in Threads, WaitReturns(t)
  PROVE  QueueInv'
<1> USE DEF WaitReturns
<1>1. /\ ref_count' = ref_count /\ refs' = refs /\ lo' = lo /\ hi' = hi
      /\ sorted' = sorted /\ pc[t] \in {"woken", "expired"} /\ owner = NoThread
      /\ Len(queue) \in Nat /\ NoThread \notin Threads /\ refs[t] > 0
  BY GAsyncQueueAssumption DEF QueueInv, RefsOK
<1>2. /\ Cardinality(Asleep) \in Nat /\ Cardinality(Waking) \in Nat
      /\ waiting = Cardinality(Asleep) + Cardinality(Waking)
      /\ Cardinality(Asleep) > 0 => Len(queue) <= Cardinality(Waking)
  BY Counts DEF QueueInv, WaitersOK
<1>3. CASE queue = <<>> /\ pc[t] = "woken"
  <2>1. /\ queue' = queue /\ waiting' = waiting /\ owner' = owner
        /\ pc' = [pc EXCEPT ![t] = "asleep"]
        /\ end_time' = end_time /\ unlocked' = unlocked
    BY <1>3
  <2>2. TypeOK'
    BY <2>1 DEF QueueInv, TypeOK, PC
  <2>3. RefsOK'
    <3>1. \A u \in Threads : pc'[u] # "idle" => refs[u] > 0
      BY <2>1 DEF QueueInv, RefsOK
    <3> QED BY <2>1, <3>1, SameRefs DEF QueueInv
  <2>4. WaitersOK'
    <3>1. "asleep" \in PC
      BY DEF PC
    <3>2. /\ Cardinality(Asleep') = Cardinality(Asleep)
              + (IF "asleep" = "asleep" THEN 1 ELSE 0) - (IF pc[t] = "asleep" THEN 1
                  ELSE 0)
          /\ Cardinality(Waking') = Cardinality(Waking)
              + (IF "asleep" \in {"woken", "expired"} THEN 1 ELSE 0)
              - (IF pc[t] \in {"woken", "expired"} THEN 1 ELSE 0)
      BY <2>1, <3>1, Moves DEF QueueInv
    <3>3. /\ Cardinality(Asleep') = Cardinality(Asleep) + 1 - 0
          /\ Cardinality(Waking') = Cardinality(Waking) + 0 - 1
      BY <3>2
    <3>4. t \in Waking
      BY DEF Waking
    <3>5. Cardinality(Waking) # 0
      BY <3>4, Counts, FS_EmptySet DEF QueueInv
    <3>6. Len(queue') = 0
      BY <1>3
    <3> QED BY <1>2, <2>1, <3>3, <3>5 DEF WaitersOK
  <2>5. RanksOK' /\ PopOrder'
    BY <2>1, SameOrder DEF QueueInv
  <2> QED BY <2>2, <2>3, <2>4, <2>5 DEF QueueInv
<1>4. CASE ~(queue = <<>> /\ pc[t] = "woken")
  <2>1. /\ queue' = g_queue_pop_tail(queue) /\ waiting' = waiting - 1
        /\ pc' = [pc EXCEPT ![t] = "idle"]
        /\ owner' = IF unlocked[t] THEN t ELSE NoThread
        /\ end_time' = [end_time EXCEPT ![t] = -1]
        /\ unlocked' = [unlocked EXCEPT ![t] = FALSE]
    BY <1>4
  <2>2. /\ queue' \in Seq(Element) /\ RanksOK' /\ PopOrder'
        /\ Len(queue') = IF queue = <<>> THEN 0 ELSE Len(queue) - 1
    BY <2>1, PopTailOrder DEF QueueInv
  <2>3. /\ Cardinality(Asleep') = Cardinality(Asleep) + 0 - 0
        /\ Cardinality(Waking') = Cardinality(Waking) + 0 - 1
    <3>1. "idle" \in PC
      BY DEF PC
    <3>2. /\ Cardinality(Asleep') = Cardinality(Asleep)
              + (IF "idle" = "asleep" THEN 1 ELSE 0) - (IF pc[t] = "asleep" THEN 1 ELSE 0)
          /\ Cardinality(Waking') = Cardinality(Waking)
              + (IF "idle" \in {"woken", "expired"} THEN 1 ELSE 0)
              - (IF pc[t] \in {"woken", "expired"} THEN 1 ELSE 0)
      BY <2>1, <3>1, Moves DEF QueueInv
    <3> QED BY <3>2
  <2>4. Cardinality(Waking) # 0
    <3>1. t \in Waking
      BY DEF Waking
    <3> QED BY <3>1, Counts, FS_EmptySet DEF QueueInv
  <2>5. WaitersOK' /\ waiting' \in Nat
    <3>1. Len(queue') <= Len(queue) - 1 \/ Len(queue') = 0
      BY <2>2
    <3>2. Len(queue') \in Nat
      OBVIOUS
    <3> QED BY <1>2, <2>1, <2>3, <2>4, <3>1 DEF WaitersOK
  <2>6. TypeOK'
    <3>1. /\ pc' \in [Threads -> PC] /\ unlocked' \in [Threads -> BOOLEAN]
          /\ owner' \in Threads \cup {NoThread} /\ end_time' \in [Threads -> Int]
      BY <2>1 DEF QueueInv, TypeOK, PC
    <3> QED BY <2>2, <2>5, <3>1 DEF QueueInv, TypeOK
  <2>7. RefsOK'
    <3>1. \A u \in Threads : pc'[u] # "idle" => refs[u] > 0
      BY <2>1 DEF QueueInv, RefsOK
    <3>2. owner' # NoThread => pc'[owner'] \in {"idle", "aborted"} /\ refs[owner'] > 0
      BY <1>1 DEF QueueInv, TypeOK
    <3> QED BY <3>1, <3>2, SameRefs DEF QueueInv
  <2> QED BY <2>2, <2>5, <2>6, <2>7 DEF QueueInv
<1> QED BY <1>3, <1>4

\* g_async_queue_lock and g_async_queue_unlock.
LEMMA LockStep ==
  ASSUME QueueInv, NEW t \in Threads,
         \/ g_async_queue_lock(t) \/ g_async_queue_unlock(t)
  PROVE  QueueInv'
<1>1. /\ owner' \in {t, NoThread} /\ pc[t] = "idle" /\ refs[t] > 0
      /\ UNCHANGED <<queue, waiting, ref_count, pc, end_time, unlocked, refs,
                     lo, hi, sorted>>
  BY DEF g_async_queue_lock, g_async_queue_unlock, MayCall
<1>2. TypeOK'
  BY <1>1 DEF QueueInv, TypeOK
<1>3. RefsOK'
  <2>1. \A u \in Threads : pc'[u] # "idle" => refs[u] > 0
    BY <1>1 DEF QueueInv, RefsOK
  <2>2. owner' # NoThread => pc'[owner'] \in {"idle", "aborted"} /\ refs[owner'] > 0
    BY <1>1
  <2> QED BY <1>1, <2>1, SameRefs DEF QueueInv
<1>4. WaitersOK'
  BY <1>1 DEF QueueInv, WaitersOK, Asleep, Waking
<1>5. RanksOK' /\ PopOrder'
  BY <1>1, SameOrder DEF QueueInv
<1> QED BY <1>2, <1>3, <1>4, <1>5 DEF QueueInv

\* g_async_queue_unref_and_unlock, its unlock.
LEMMA UnlockForUnrefStep ==
  ASSUME QueueInv, NEW t \in Threads, g_async_queue_unref_and_unlock(t)
  PROVE  QueueInv'
<1>1. /\ owner' = NoThread /\ pc[t] = "idle" /\ refs[t] > 0
      /\ pc' = [pc EXCEPT ![t] = "unref"]
      /\ UNCHANGED <<queue, waiting, ref_count, end_time, unlocked, refs,
                     lo, hi, sorted>>
  BY DEF g_async_queue_unref_and_unlock, MayCall
<1>2. TypeOK'
  BY <1>1 DEF QueueInv, TypeOK, PC
<1>3. RefsOK'
  <2>1. \A u \in Threads : pc'[u] # "idle" => refs[u] > 0
    BY <1>1 DEF QueueInv, RefsOK
  <2> QED BY <1>1, <2>1, SameRefs DEF QueueInv
<1>4. WaitersOK'
  <2>1. Asleep' = Asleep /\ Waking' = Waking
    BY <1>1 DEF Asleep, Waking
  <2> QED BY <1>1, <2>1 DEF QueueInv, WaitersOK
<1>5. RanksOK' /\ PopOrder'
  BY <1>1, SameOrder DEF QueueInv
<1> QED BY <1>2, <1>3, <1>4, <1>5 DEF QueueInv

\* g_async_queue_ref: one more pair in Held.
LEMMA RefStep ==
  ASSUME QueueInv, NEW t \in Threads, NEW u \in Threads, g_async_queue_ref(t, u)
  PROVE  QueueInv'
<1>1. /\ ref_count < MaxRefs /\ ref_count' = ref_count + 1
      /\ refs' = [refs EXCEPT ![u] = refs[u] + 1]
      /\ UNCHANGED <<queue, waiting, owner, pc, end_time, unlocked, lo, hi, sorted>>
      /\ refs \in [Threads -> Nat] /\ ref_count \in Nat /\ MaxRefs \in Nat
  BY GAsyncQueueAssumption DEF g_async_queue_ref, QueueInv, TypeOK
<1>2. TypeOK'
  <2>1. ref_count' \in 0 .. MaxRefs /\ refs' \in [Threads -> Nat]
    BY <1>1
  <2> QED BY <1>1 DEF QueueInv, TypeOK
<1>3. RefsOK'
  <2> DEFINE p == <<u, refs[u] + 1>>
  <2>1. Held' = Held \cup {p} /\ p \notin Held
    <3>1. ASSUME NEW x \in Threads, NEW n \in Nat
          PROVE  <<x, n>> \in Held' <=> <<x, n>> \in Held \/ <<x, n>> = p
      <4>1. CASE x = u
        <5>1. refs'[x] = refs[u] + 1
          BY <1>1, <4>1
        <5> QED BY <1>1 DEF Held
      <4>2. CASE x # u
        <5>1. refs'[x] = refs[x]
          BY <1>1, <4>2
        <5> QED BY <4>2, <5>1 DEF Held
      <4> QED BY <4>1, <4>2
    <3>2. Held' \subseteq Threads \X Nat /\ Held \subseteq Threads \X Nat
              /\ p \in Threads \X Nat
      BY <1>1 DEF Held
    <3>3. p \notin Held
      BY <1>1 DEF Held
    <3> HIDE DEF p
    <3>4. \A z \in Threads \X Nat : z \in Held' <=> z \in Held \/ z = p
      BY <3>1
    <3> QED BY <3>2, <3>3, <3>4
  <2>2. IsFiniteSet(Held') /\ Cardinality(Held') = Cardinality(Held) + 1
    BY <2>1, FS_AddElement DEF QueueInv, RefsOK
  <2>3. /\ \A x \in Threads : pc'[x] # "idle" => refs'[x] > 0
        /\ owner' # NoThread => pc'[owner'] \in {"idle", "aborted"} /\ refs'[owner'] > 0
    BY <1>1 DEF QueueInv, RefsOK
  <2> QED BY <1>1, <2>2 DEF QueueInv, RefsOK
<1>4. WaitersOK'
  BY <1>1 DEF QueueInv, WaitersOK, Asleep, Waking
<1>5. RanksOK' /\ PopOrder'
  BY <1>1, SameOrder DEF QueueInv
<1> QED BY <1>2, <1>3, <1>4, <1>5 DEF QueueInv

\* g_async_queue_unref: one pair less in Held; the last one frees the queue, and
\* nobody can be inside a call then, since such a thread has a reference.
LEMMA UnrefStep ==
  ASSUME QueueInv, NEW t \in Threads, g_async_queue_unref(t)
  PROVE  QueueInv'
<1>1. /\ ref_count' = ref_count - 1
      /\ refs' = [refs EXCEPT ![t] = refs[t] - 1] /\ refs[t] > 0
      /\ pc[t] = "unref" \/ (pc[t] = "idle" /\ (owner = t => refs[t] > 1))
      /\ pc' = [pc EXCEPT ![t] = "idle"]
      /\ queue' = <<>> \/ queue' = queue
      /\ UNCHANGED <<waiting, owner, end_time, unlocked, lo, hi, sorted>>
      /\ refs \in [Threads -> Nat] /\ ref_count \in Nat /\ MaxRefs \in Nat
  BY GAsyncQueueAssumption DEF g_async_queue_unref, QueueInv, TypeOK
<1> DEFINE p == <<t, refs[t]>>
<1>2. Held' = Held \ {p} /\ p \in Held
  <2>1. ASSUME NEW x \in Threads, NEW n \in Nat
        PROVE  <<x, n>> \in Held' <=> <<x, n>> \in Held /\ <<x, n>> # p
    <3>1. CASE x = t
      <4>1. refs'[x] = refs[t] - 1
        BY <1>1, <3>1
      <4> QED BY <1>1 DEF Held
    <3>2. CASE x # t
      <4>1. refs'[x] = refs[x]
        BY <1>1, <3>2
      <4> QED BY <3>2, <4>1 DEF Held
    <3> QED BY <3>1, <3>2
  <2>2. Held' \subseteq Threads \X Nat /\ Held \subseteq Threads \X Nat /\ p \in Held
    BY <1>1 DEF Held
  <2> HIDE DEF p
  <2>3. \A z \in Threads \X Nat : z \in Held' <=> z \in Held /\ z # p
    BY <2>1
  <2> QED BY <2>2, <2>3
<1>3. /\ IsFiniteSet(Held') /\ Cardinality(Held') = ref_count' /\ ref_count' \in Nat
  <2>1. IsFiniteSet(Held') /\ Cardinality(Held') = Cardinality(Held) - 1
    BY <1>2, FS_RemoveElement DEF QueueInv, RefsOK
  <2>2. Cardinality(Held') \in Nat
    BY <2>1, FS_CardinalityType
  <2> QED BY <1>1, <2>1, <2>2 DEF QueueInv, RefsOK
<1>4. TypeOK'
  <2>1. ref_count' \in 0 .. MaxRefs /\ refs' \in [Threads -> Nat]
    BY <1>1, <1>3 DEF QueueInv, TypeOK
  <2>2. queue' \in Seq(Element)
    <3>1. <<>> \in Seq(Element) /\ queue \in Seq(Element)
      BY DEF QueueInv, TypeOK
    <3> QED BY <1>1, <3>1
  <2>3. pc' \in [Threads -> PC]
    BY <1>1 DEF QueueInv, TypeOK, PC
  <2> QED BY <1>1, <2>1, <2>2, <2>3 DEF QueueInv, TypeOK
<1>5. RefsOK'
  <2>1. \A x \in Threads : pc'[x] # "idle" => refs'[x] > 0
    BY <1>1 DEF QueueInv, TypeOK, RefsOK
  <2>2. owner' # NoThread => pc'[owner'] \in {"idle", "aborted"} /\ refs'[owner'] > 0
    <3>1. CASE owner = t
      BY <1>1 DEF QueueInv, RefsOK
    <3>2. CASE owner # t
      BY <1>1 DEF QueueInv, RefsOK
    <3> QED BY <3>1, <3>2
  <2> QED BY <1>3, <2>1, <2>2 DEF RefsOK
<1>6. WaitersOK'
  <2>1. Asleep' = Asleep /\ Waking' = Waking
    BY <1>1 DEF Asleep, Waking
  <2>2. Len(queue') = 0 \/ Len(queue') = Len(queue)
    BY <1>1
  <2> QED BY <1>1, <2>1, Counts DEF QueueInv, WaitersOK
<1>7. RanksOK' /\ PopOrder'
  <2>1. CASE queue' = queue
    BY <1>1, <2>1, SameOrder DEF QueueInv
  <2>2. CASE queue' = <<>>
    BY <1>1 DEF QueueInv, RanksOK, PopOrder
  <2> QED BY <1>1, <2>1, <2>2
<1> QED BY <1>4, <1>5, <1>6, <1>7 DEF QueueInv

\* The creator has the one reference.
LEMMA InitInv == Init => QueueInv
<1> SUFFICES ASSUME Init PROVE QueueInv
  OBVIOUS
<1>1. PICK creator \in Threads : refs = [t \in Threads |-> IF t = creator THEN 1 ELSE 0]
  BY DEF Init
<1>2. /\ queue = <<>> /\ waiting = 0 /\ ref_count = 1 /\ owner = NoThread
      /\ pc = [t \in Threads |-> "idle"] /\ lo = 0 /\ hi = 0 /\ Len(queue) = 0
  BY DEF Init
<1>3. TypeOK
  <2>1. 1 \in 0 .. MaxRefs
    BY GAsyncQueueAssumption
  <2>2. refs \in [Threads -> Nat] /\ pc \in [Threads -> PC]
    BY <1>1, <1>2 DEF PC
  <2>3. end_time \in [Threads -> Int] /\ unlocked \in [Threads -> BOOLEAN]
    BY DEF Init
  <2>4. sorted \in BOOLEAN
    BY Zenon DEF Init
  <2> QED BY <1>2, <2>1, <2>2, <2>3, <2>4 DEF TypeOK
<1>4. RefsOK
  <2>1. Held = {<<creator, 1>>}
    <3>1. \A x \in Threads, n \in Nat : <<x, n>> \in Held <=> x = creator /\ n = 1
      BY <1>1 DEF Held
    <3>2. Held \subseteq Threads \X Nat
      BY DEF Held
    <3>3. \A z \in Held : z = <<creator, 1>>
      BY <3>1, <3>2
    <3> QED BY <3>1, <3>3
  <2>2. IsFiniteSet(Held) /\ Cardinality(Held) = 1
    BY <2>1, FS_Singleton
  <2> QED BY <1>2, <2>2 DEF RefsOK
<1>5. WaitersOK
  <2>1. Asleep = {} /\ Waking = {}
    BY <1>2 DEF Asleep, Waking
  <2> QED BY <1>2, <2>1, FS_EmptySet DEF WaitersOK
<1>6. RanksOK /\ PopOrder
  BY <1>2 DEF RanksOK, PopOrder
<1> QED BY <1>3, <1>4, <1>5, <1>6 DEF QueueInv

\* Every step preserves the invariant.
LEMMA NextInv == QueueInv /\ [Next]_vars => QueueInv'
<1> SUFFICES ASSUME QueueInv, [Next]_vars PROVE QueueInv'
  OBVIOUS
<1>1. CASE UNCHANGED vars
  BY <1>1 DEF vars, QueueInv, TypeOK, RefsOK, WaitersOK, RanksOK, PopOrder, Held,
     Asleep, Waking
<1>2. ASSUME NEW t \in Threads, g_async_queue_lock(t) \/ g_async_queue_unlock(t)
      PROVE  QueueInv'
  BY <1>2, LockStep
<1>3. ASSUME NEW t \in Threads, NEW item \in Items,
             \/ g_async_queue_push(t, item)
             \/ g_async_queue_push_front(t, item)
             \/ g_async_queue_push_sorted(t, item)
             \/ g_async_queue_remove(t, item)
      PROVE  QueueInv'
  BY <1>3, PushHeadStep, PushFrontStep, PushSortedStep, RemoveStep
<1>4. ASSUME NEW t \in Threads, g_async_queue_sort(t)
      PROVE  QueueInv'
  BY <1>4, SortStep
<1>5. ASSUME NEW t \in Threads, NEW e \in EndTimes, g_async_queue_pop(t, e)
      PROVE  QueueInv'
  BY <1>5, PopStep
<1>6. ASSUME NEW t \in Threads, SpuriousWakeup(t) \/ Expire(t)
      PROVE  QueueInv'
  <2>1. CASE SpuriousWakeup(t)
    BY <2>1, WakeStep DEF SpuriousWakeup
  <2>2. CASE Expire(t)
    BY <2>2, WakeStep DEF Expire
  <2> QED BY <1>6, <2>1, <2>2
<1>7. ASSUME NEW t \in Threads, NEW u \in Threads, g_async_queue_ref(t, u)
      PROVE  QueueInv'
  BY <1>7, RefStep
<1>8. ASSUME NEW t \in Threads,
             g_async_queue_unref(t) \/ g_async_queue_unref_and_unlock(t)
      PROVE  QueueInv'
  BY <1>8, UnrefStep, UnlockForUnrefStep
<1>9. ASSUME NEW t \in Threads, WaitReturns(t)
      PROVE  QueueInv'
  BY <1>9, WaitReturnsStep
<1> QED BY <1>1, <1>2, <1>3, <1>4, <1>5, <1>6, <1>7, <1>8, <1>9 DEF Next, Continue

\* The invariant holds throughout every behaviour.
LEMMA QueueInvariant == Spec => []QueueInv
BY InitInv, NextInv, PTL DEF Spec

\* No item waits in the queue while every thread that could take it sleeps in
\* g_cond_wait: a push signals whenever waiting_threads says that there is a
\* sleeper, and waiting_threads is the number of threads in a wait.
THEOREM Wakeups == Spec => []NoLostWakeup
<1>1. QueueInv => NoLostWakeup
  <2> SUFFICES ASSUME QueueInv PROVE NoLostWakeup
    OBVIOUS
  <2>1. /\ TypeOK
        /\ waiting = Cardinality(Asleep) + Cardinality(Waking)
        /\ Cardinality(Asleep) > 0 => Len(queue) <= Cardinality(Waking)
    BY DEF QueueInv, WaitersOK
  <2>2. /\ Cardinality(Asleep) \in Nat /\ Cardinality(Waking) \in Nat
        /\ Cardinality(Asleep) = 0 <=> Asleep = {}
        /\ Cardinality(Asleep \cup Waking) = Cardinality(Asleep) + Cardinality(Waking)
        /\ Len(queue) \in Nat
    BY <2>1, Counts
  <2>3. Len(queue) - waiting >= 0 => Cardinality(Asleep) = 0
    BY <2>1, <2>2
  <2> QED BY <2>1, <2>2 DEF NoLostWakeup, g_async_queue_length
<1> QED BY <1>1, QueueInvariant, PTL

\* Items that compare equal are popped first in, first out, and after a sort all
\* items in the order of the compare function: g_queue_insert_sorted and
\* g_queue_sort, called with the inverted comparison, keep equal items in the
\* order in which they came.
THEOREM Order == Spec => []PopOrder
<1>1. QueueInv => PopOrder
  BY DEF QueueInv
<1> QED BY <1>1, QueueInvariant, PTL

\* When the last reference is dropped the mutex is free and no thread is in a
\* call, so that g_async_queue_unref frees nothing that is in use.
THEOREM Freed == Spec => []FreedQuiescent
<1>1. QueueInv => FreedQuiescent
  <2> SUFFICES ASSUME QueueInv, ref_count = 0
               PROVE  /\ owner = NoThread /\ waiting = 0
                      /\ \A t \in Threads : pc[t] = "idle" /\ refs[t] = 0
    BY DEF FreedQuiescent
  <2>1. Held = {}
    BY FS_EmptySet DEF QueueInv, RefsOK
  <2>2. ASSUME NEW t \in Threads PROVE refs[t] = 0
    <3>1. refs[t] \in Nat
      BY DEF QueueInv, TypeOK
    <3>2. <<t, 1>> \notin Held
      BY <2>1
    <3>3. ~(1 <= refs[t])
      BY <3>2 DEF Held
    <3> QED BY <3>1, <3>3
  <2>3. \A t \in Threads : pc[t] = "idle"
    BY <2>2 DEF QueueInv, RefsOK
  <2>4. owner = NoThread
    BY <2>2 DEF QueueInv, TypeOK, RefsOK
  <2>5. waiting = 0
    <3>1. Asleep = {} /\ Waking = {}
      BY <2>3 DEF Asleep, Waking
    <3> QED BY <3>1, FS_EmptySet DEF QueueInv, WaitersOK
  <2> QED BY <2>2, <2>3, <2>4, <2>5
<1> QED BY <1>1, QueueInvariant, PTL

-----------------------------------------------------------------------------
(***************************************************************************)
(* The merge sort of GList.  A list that has been sorted is in the order   *)
(* of NodeBefore, which breaks the ties of compare_func by the place a     *)
(* node came from.  That the merge keeps this order needs that a call gets *)
(* its list as it came and cuts it in two, so that every node of the first *)
(* half came before every node of the second; that the links survive needs *)
(* that the nested calls only touch nodes of the half they were called     *)
(* for.                                                                    *)
(***************************************************************************)

\* Node a belongs before node b: its data is less, or equal and it came first.
NodeBefore(in, a, b) ==
  <<in[a], in[b]>> \in DataLess \/ (a < b /\ <<in[b], in[a]>> \notin DataLess)

NodesOf(s) == {s[k] : k \in 1 .. Len(s)}
InOrder(in, s) == \A k, m \in 1 .. Len(s) : k < m => NodeBefore(in, s[k], s[m])
AsItCame(s) == \A k, m \in 1 .. Len(s) : k < m => s[k] < s[m]
LinkedBack(p, s) == \A k \in 2 .. Len(s) : p[s[k]] = s[k - 1]

\* What holds of the halves and of the merged list of a call.
HalvesOK(in, p, f) ==
  /\ \A h \in Halves : NodesOf(f.half[h]) \subseteq NodesOf(f.list)
  /\ NodesOf(f.merged) \subseteq NodesOf(f.list)
  /\ Len(f.half[1]) + Len(f.half[2]) + Len(f.merged) = Len(f.list)
  /\ \A a \in NodesOf(f.half[1]), b \in NodesOf(f.half[2]) : a < b
  /\ f.calling \notin f.sorted
  /\ f.sorted # Halves => f.merged = <<>>
  /\ f.merged = <<>> => \A h \in Halves : f.half[h] # <<>>
  /\ \E h \in Halves : f.half[h] # <<>>
  /\ \A h \in Halves \ f.sorted : AsItCame(f.half[h])
  /\ \A h \in Halves : h # f.calling => LinkedBack(p, f.half[h])
  /\ \A h \in f.sorted :
       /\ InOrder(in, f.half[h])
       /\ \A a \in NodesOf(f.merged), b \in NodesOf(f.half[h]) : NodeBefore(in, a, b)
  /\ InOrder(in, f.merged)
  /\ LinkedBack(p, f.merged)
  /\ f.merged # <<>> => p[f.merged[1]] = NULL

\* What holds of a call: its list is as it came until it is cut.
CallOK(in, p, f) ==
  /\ AsItCame(f.list)
  /\ f.pc # "halves" => LinkedBack(p, f.list) /\ f.calling = 0
  /\ f.pc = "start" => f = NewCall(f.list)
  /\ f.pc = "walk" => /\ 1 <= f.i /\ f.i < f.j /\ f.j <= Len(f.list)
                      /\ f.sorted = {} /\ f.merged = <<>>
  /\ f.pc = "halves" => HalvesOK(in, p, f)

\* Each call but the innermost waits for the next, which sorts one of its halves.
StackOK ==
  /\ frames # <<>> => Call.calling = 0 /\ Len(frames[1].list) = Len(input)
  /\ \A d \in 1 .. Depth - 1 :
       /\ frames[d].pc = "halves" /\ frames[d].calling \in Halves
       /\ Len(frames[d + 1].list) = Len(frames[d].half[frames[d].calling])
  /\ \A d, e \in 1 .. Depth : d < e =>
       NodesOf(frames[e].list) \subseteq NodesOf(frames[d].half[frames[d].calling])

\* Before the first cut the first node has no predecessor.
FirstOK ==
  Depth = 1 /\ frames[1].pc = "start" =>
    (frames[1].list # <<>> => prev[frames[1].list[1]] = NULL)

\* What the outermost call returns.
ReturnedOK ==
  frames = <<>> => /\ Len(head) = Len(input)
                   /\ InOrder(input, head) /\ LinkedBack(prev, head)
                   /\ head # <<>> => prev[head[1]] = NULL

\* The inductive invariant.
ListInv ==
  /\ ListTypeOK
  /\ \A d \in 1 .. Depth : CallOK(input, prev, frames[d])
  /\ StackOK /\ FirstOK /\ ReturnedOK

\* NodeBefore is a strict total order of the nodes.
LEMMA NodeOrder ==
  ASSUME input \in Seq(Data)
  PROVE  /\ \A a \in Nodes : ~ NodeBefore(input, a, a)
         /\ \A a, b \in Nodes : NodeBefore(input, a, b) => ~ NodeBefore(input, b, a)
         /\ \A a, b \in Nodes : a # b => NodeBefore(input, a, b) \/ NodeBefore(input, b, a)
         /\ \A a, b, c \in Nodes :
              NodeBefore(input, a, b) /\ NodeBefore(input, b, c) => NodeBefore(input, a, c)
<1>1. \A a \in Nodes : input[a] \in Data /\ a \in Int
  BY DEF Nodes
<1> QED BY <1>1, GListAssumption DEF NodeBefore

\* The nodes of a list are nodes, and a list that has one is not empty.
LEMMA NodesOfType ==
  ASSUME NEW S, NEW s \in Seq(S)
  PROVE  /\ NodesOf(s) \subseteq S
         /\ s # <<>> => s[1] \in NodesOf(s) /\ s[Len(s)] \in NodesOf(s) /\ Len(s) >= 1
         /\ s = <<>> <=> Len(s) = 0
         /\ s = <<>> => NodesOf(s) = {}
<1>1. s # <<>> => Len(s) \in Nat /\ Len(s) # 0
  BY EmptySeq, LenProperties
<1>2. Len(s) \in Nat /\ \A k \in 1 .. Len(s) : s[k] \in S
  OBVIOUS
<1>3. s = <<>> => Len(s) = 0
  OBVIOUS
<1> QED BY <1>1, <1>2, <1>3 DEF NodesOf

\* One node behind a list.
LEMMA AppendNode ==
  ASSUME NEW S, NEW s \in Seq(S), NEW x \in S
  PROVE  /\ Append(s, x) \in Seq(S) /\ Len(Append(s, x)) = Len(s) + 1
         /\ \A k \in 1 .. Len(s) : Append(s, x)[k] = s[k]
         /\ Append(s, x)[Len(s) + 1] = x
         /\ NodesOf(Append(s, x)) = NodesOf(s) \cup {x}
<1>1. /\ Append(s, x) \in Seq(S) /\ Len(Append(s, x)) = Len(s) + 1
      /\ \A k \in 1 .. Len(s) : Append(s, x)[k] = s[k]
      /\ Append(s, x)[Len(s) + 1] = x
  BY AppendProperties
<1>2. Len(s) \in Nat
  OBVIOUS
<1>3. NodesOf(Append(s, x)) \subseteq NodesOf(s) \cup {x}
  BY <1>1, <1>2 DEF NodesOf
<1>4. NodesOf(s) \subseteq NodesOf(Append(s, x))
  BY <1>1, <1>2 DEF NodesOf
<1>5. x \in NodesOf(Append(s, x))
  BY <1>1, <1>2 DEF NodesOf
<1> QED BY <1>1, <1>3, <1>4, <1>5

\* A list without its first node.
LEMMA TailNodes ==
  ASSUME NEW S, NEW s \in Seq(S), s # <<>>
  PROVE  /\ Tail(s) \in Seq(S) /\ Len(Tail(s)) = Len(s) - 1
         /\ \A k \in 1 .. Len(s) - 1 : Tail(s)[k] = s[k + 1]
         /\ NodesOf(Tail(s)) \subseteq NodesOf(s)
<1>1. /\ Tail(s) \in Seq(S) /\ Len(Tail(s)) = Len(s) - 1
      /\ \A k \in 1 .. Len(s) - 1 : Tail(s)[k] = s[k + 1]
  BY HeadTailProperties
<1>2. Len(s) \in Nat
  OBVIOUS
<1> QED BY <1>1, <1>2 DEF NodesOf

\* One list behind another.
LEMMA ConcatNodes ==
  ASSUME NEW S, NEW s \in Seq(S), NEW t \in Seq(S)
  PROVE  /\ s \o t \in Seq(S) /\ Len(s \o t) = Len(s) + Len(t)
         /\ \A k \in 1 .. Len(s) : (s \o t)[k] = s[k]
         /\ \A k \in Len(s) + 1 .. Len(s) + Len(t) :
              (s \o t)[k] = t[k - Len(s)] /\ k - Len(s) \in 1 .. Len(t)
         /\ NodesOf(s \o t) \subseteq NodesOf(s) \cup NodesOf(t)
<1>1. /\ s \o t \in Seq(S) /\ Len(s \o t) = Len(s) + Len(t)
      /\ \A k \in 1 .. Len(s) + Len(t) :
           (s \o t)[k] = IF k <= Len(s) THEN s[k] ELSE t[k - Len(s)]
  BY ConcatProperties
<1>2. Len(s) \in Nat /\ Len(t) \in Nat
  OBVIOUS
<1>3. \A k \in 1 .. Len(s) : (s \o t)[k] = s[k]
  BY <1>1, <1>2
<1>4. \A k \in Len(s) + 1 .. Len(s) + Len(t) :
        (s \o t)[k] = t[k - Len(s)] /\ k - Len(s) \in 1 .. Len(t)
  BY <1>1, <1>2
<1>5. \A k \in 1 .. Len(s) + Len(t) : (s \o t)[k] \in NodesOf(s) \cup NodesOf(t)
  BY <1>2, <1>3, <1>4 DEF NodesOf
<1> QED BY <1>1, <1>3, <1>4, <1>5 DEF NodesOf

\* Links of other nodes do not matter.
LEMMA LinkedElsewhere ==
  ASSUME NEW S, NEW s \in Seq(S), NEW p, NEW q, LinkedBack(p, s),
         \A a \in NodesOf(s) : q[a] = p[a]
  PROVE  LinkedBack(q, s)
<1>1. Len(s) \in Nat /\ \A k \in 2 .. Len(s) : s[k] \in NodesOf(s)
  BY DEF NodesOf
<1> QED BY <1>1 DEF LinkedBack

\* A call that waits for another keeps its invariant when the other changes
\* the links of the half it sorts.
LEMMA WaitingCall ==
  ASSUME NEW f \in ListFrame, NEW p, NEW q, CallOK(input, p, f),
         f.pc = "halves", f.calling \in Halves,
         \A a \in Nodes \ NodesOf(f.half[f.calling]) : q[a] = p[a], input \in Seq(Data)
  PROVE  CallOK(input, q, f)
<1>1. HalvesOK(input, p, f)
  BY DEF CallOK
<1>2. /\ f.half \in [Halves -> Seq(Nodes)] /\ f.calling \notin f.sorted /\ f.sorted # Halves
      /\ f.merged = <<>>
  BY <1>1 DEF ListFrame, HalvesOK
<1>3. ASSUME NEW h \in Halves, h # f.calling
      PROVE  LinkedBack(q, f.half[h])
  <2>1. LinkedBack(p, f.half[h]) /\ f.half[h] \in Seq(Nodes)
    BY <1>1, <1>2, <1>3 DEF HalvesOK
  <2>2. NodesOf(f.half[h]) \subseteq Nodes
    BY <2>1, NodesOfType
  <2>3. \A a \in NodesOf(f.half[h]) : a \notin NodesOf(f.half[f.calling])
    <3>1. \A a \in NodesOf(f.half[1]), b \in NodesOf(f.half[2]) : a < b
      BY <1>1 DEF HalvesOK
    <3>2. \A a \in Nodes : ~ (a < a)
      BY DEF Nodes
    <3> QED BY <1>3, <2>2, <3>1, <3>2 DEF Halves
  <2> QED BY <2>1, <2>2, <2>3, LinkedElsewhere
<1>4. LinkedBack(q, f.merged)
  BY <1>2 DEF LinkedBack
<1>5. HalvesOK(input, q, f)
  BY <1>1, <1>2, <1>3, <1>4 DEF HalvesOK
<1> QED BY <1>5 DEF CallOK

\* a is the part of a list up to its i-th node and b the part behind it.
IsCut(l, i, a, b) ==
  /\ Len(a) = i /\ \A x \in 1 .. i : a[x] = l[x]
  /\ Len(b) = Len(l) - i /\ \A x \in 1 .. Len(l) - i : b[x] = l[i + x]

\* The two SubSeqs of the cut are such parts.
LEMMA CutParts ==
  ASSUME NEW S, NEW l \in Seq(S), NEW i \in 1 .. Len(l) - 1
  PROVE  /\ SubSeq(l, 1, i) \in Seq(S) /\ SubSeq(l, i + 1, Len(l)) \in Seq(S)
         /\ IsCut(l, i, SubSeq(l, 1, i), SubSeq(l, i + 1, Len(l)))
<1>1. Len(l) \in Nat /\ i \in Nat /\ 1 <= i /\ i < Len(l) /\ \A x \in 1 .. Len(l) : l[x] \in S
  OBVIOUS
<1>2. /\ SubSeq(l, 1, i) \in Seq(S) /\ Len(SubSeq(l, 1, i)) = i
      /\ \A x \in 1 .. i : SubSeq(l, 1, i)[x] = l[x]
  <2>1. \A x \in 1 .. i : l[x] \in S
    BY <1>1
  <2> QED BY <1>1, <2>1, SubSeqProperties
<1>3. \A x \in i + 1 .. Len(l) : l[x] \in S
  BY <1>1
<1>4. PICK b : b = SubSeq(l, i + 1, Len(l))
  OBVIOUS
<1>5. Len(b) = IF i + 1 <= Len(l) THEN Len(l) - (i + 1) + 1 ELSE 0
  BY <1>1, <1>3, <1>4, SubSeqProperties
<1>6. \A x \in 1 .. Len(l) - (i + 1) + 1 : b[x] = l[i + 1 + x - 1]
  BY <1>1, <1>3, <1>4, SubSeqProperties
<1>7. b \in Seq(S)
  BY <1>1, <1>3, <1>4, SubSeqProperties
<1>8. /\ Len(l) - (i + 1) + 1 = Len(l) - i /\ i + 1 <= Len(l)
      /\ \A x \in 1 .. Len(l) - i : i + 1 + x - 1 = i + x
  BY <1>1
<1>9. Len(b) = Len(l) - i /\ \A x \in 1 .. Len(l) - i : b[x] = l[i + x]
  BY <1>5, <1>6, <1>8
<1> QED BY <1>2, <1>4, <1>7, <1>9 DEF IsCut

\* The two parts are as they came, and the nodes of the first are before
\* those of the second.
LEMMA CutList ==
  ASSUME NEW S, NEW l \in Seq(S), NEW i \in 1 .. Len(l) - 1, NEW p,
         AsItCame(l), LinkedBack(p, l),
         NEW a \in Seq(S), NEW b \in Seq(S), IsCut(l, i, a, b)
  PROVE  /\ a # <<>> /\ b # <<>> /\ Len(a) + Len(b) = Len(l)
         /\ NodesOf(a) \subseteq NodesOf(l) /\ NodesOf(b) \subseteq NodesOf(l)
         /\ \A x \in NodesOf(a), y \in NodesOf(b) : x < y
         /\ AsItCame(a) /\ AsItCame(b) /\ LinkedBack(p, a) /\ LinkedBack(p, b)
<1>1. PICK k \in Nat : k = Len(l)
  OBVIOUS
<1>2. i \in Nat /\ 1 <= i /\ i < k
  BY <1>1
<1>3. Len(a) = i /\ \A x \in 1 .. i : a[x] = l[x]
  BY DEF IsCut
<1>4. Len(b) = k - i /\ \A x \in 1 .. k - i : b[x] = l[i + x]
  BY <1>1 DEF IsCut
<1>5. a # <<>> /\ b # <<>> /\ Len(a) + Len(b) = Len(l)
  BY <1>1, <1>2, <1>3, <1>4
<1>6. NodesOf(a) \subseteq NodesOf(l) /\ NodesOf(b) \subseteq NodesOf(l)
  BY <1>1, <1>2, <1>3, <1>4 DEF NodesOf
<1>7. \A x \in 1 .. i, y \in 1 .. k - i : l[x] < l[i + y]
  BY <1>1, <1>2 DEF AsItCame
<1>8. \A x \in NodesOf(a), y \in NodesOf(b) : x < y
  <2> SUFFICES ASSUME NEW c \in NodesOf(a), NEW d \in NodesOf(b)
               PROVE  c < d
    OBVIOUS
  <2>1. PICK x \in 1 .. i : c = a[x]
    BY <1>3 DEF NodesOf
  <2>2. PICK y \in 1 .. k - i : d = b[y]
    BY <1>4 DEF NodesOf
  <2> QED BY <1>3, <1>4, <1>7, <2>1, <2>2
<1>9. AsItCame(a)
  <2>1. \A x, y \in 1 .. i : x \in 1 .. k /\ y \in 1 .. k
    BY <1>2
  <2> QED BY <1>1, <1>3, <2>1 DEF AsItCame
<1>10. AsItCame(b)
  <2>1. \A x, y \in 1 .. k - i : x < y => i + x \in 1 .. k /\ i + y \in 1 .. k /\ i + x < i + y
    BY <1>2
  <2> QED BY <1>1, <1>4, <2>1 DEF AsItCame
<1>11. LinkedBack(p, a)
  BY <1>1, <1>2, <1>3 DEF LinkedBack
<1>12. LinkedBack(p, b)
  <2>1. \A x \in 2 .. k - i : /\ i + x \in 2 .. k /\ i + x - 1 = i + (x - 1)
                              /\ x - 1 \in 1 .. k - i /\ x \in 1 .. k - i
    BY <1>2
  <2>2. \A x \in 2 .. k - i : p[l[i + x]] = l[i + (x - 1)]
    BY <1>1, <2>1 DEF LinkedBack
  <2>3. \A x \in 2 .. k - i : p[b[x]] = b[x - 1]
    BY <1>4, <2>1, <2>2
  <2> QED BY <1>4, <2>3 DEF LinkedBack
<1> QED BY <1>5, <1>6, <1>8, <1>9, <1>10, <1>11, <1>12

\* The cut of xlist_sort_real.
LEMMA CutKeeps ==
  ASSUME NEW f \in ListFrame, NEW p, CallOK(input, p, f), f.pc = "walk", input \in Seq(Data),
         NEW g, g = [f EXCEPT !.pc = "halves",
                     !.half = [h \in Halves |->
                        IF h = 1 THEN SubSeq(f.list, 1, f.i)
                        ELSE SubSeq(f.list, f.i + 1, Len(f.list))]]
  PROVE  g \in ListFrame /\ CallOK(input, p, g)
<1>1. /\ f.list \in Seq(Nodes) /\ f.i \in 1 .. Len(f.list) - 1
      /\ f.sorted = {} /\ f.merged = <<>> /\ f.calling = 0
      /\ AsItCame(f.list) /\ LinkedBack(p, f.list)
  BY DEF ListFrame, CallOK
<1>2. PICK a, b : a = SubSeq(f.list, 1, f.i) /\ b = SubSeq(f.list, f.i + 1, Len(f.list))
  OBVIOUS
<1>3. a \in Seq(Nodes) /\ b \in Seq(Nodes) /\ IsCut(f.list, f.i, a, b)
  BY <1>1, <1>2, CutParts
<1>4. /\ a # <<>> /\ b # <<>> /\ Len(a) + Len(b) = Len(f.list)
      /\ NodesOf(a) \subseteq NodesOf(f.list) /\ NodesOf(b) \subseteq NodesOf(f.list)
      /\ \A x \in NodesOf(a), y \in NodesOf(b) : x < y
      /\ AsItCame(a) /\ AsItCame(b) /\ LinkedBack(p, a) /\ LinkedBack(p, b)
  <2>1. PICK l, i : l = f.list /\ i = f.i
    OBVIOUS
  <2>2. /\ l \in Seq(Nodes) /\ i \in 1 .. Len(l) - 1 /\ AsItCame(l) /\ LinkedBack(p, l)
        /\ a \in Seq(Nodes) /\ b \in Seq(Nodes) /\ IsCut(l, i, a, b)
    BY <1>1, <1>3, <2>1
  <2>3. /\ a # <<>> /\ b # <<>> /\ Len(a) + Len(b) = Len(l)
        /\ NodesOf(a) \subseteq NodesOf(l) /\ NodesOf(b) \subseteq NodesOf(l)
        /\ \A x \in NodesOf(a), y \in NodesOf(b) : x < y
        /\ AsItCame(a) /\ AsItCame(b) /\ LinkedBack(p, a) /\ LinkedBack(p, b)
    BY <2>2, CutList
  <2> QED BY <2>1, <2>3
<1>5. /\ g.pc = "halves" /\ g.list = f.list /\ g.half = [h \in Halves |-> IF h = 1 THEN a ELSE b]
      /\ g.sorted = {} /\ g.merged = <<>> /\ g.calling = 0 /\ g.i = f.i /\ g.j = f.j
      /\ g \in ListFrame
  BY <1>1, <1>2, <1>3 DEF ListFrame
<1>6. g.half[1] = a /\ g.half[2] = b
  BY <1>5 DEF Halves
<1>7. Len(a) + Len(b) + 0 = Len(f.list)
  BY <1>3, <1>4
<1>8. InOrder(input, <<>>) /\ LinkedBack(p, <<>>) /\ NodesOf(<<>>) = {} /\ Len(<<>>) = 0
  BY DEF InOrder, LinkedBack, NodesOf
<1>9. HalvesOK(input, p, g)
  BY <1>4, <1>5, <1>6, <1>7, <1>8 DEF HalvesOK, Halves
<1> QED BY <1>1, <1>5, <1>9 DEF CallOK

\* The node that a merge takes belongs before all that are left.
LEMMA MergeTakesFirst ==
  ASSUME input \in Seq(Data), NEW a \in Seq(Nodes), NEW b \in Seq(Nodes),
         a # <<>>, b # <<>>, InOrder(input, a), InOrder(input, b),
         \A x \in NodesOf(a), y \in NodesOf(b) : x < y
  PROVE  IF LessOrEqual(a[1], b[1])
         THEN \A y \in NodesOf(b) : NodeBefore(input, a[1], y)
         ELSE \A x \in NodesOf(a) : NodeBefore(input, b[1], x)
<1>1. /\ a[1] \in NodesOf(a) /\ b[1] \in NodesOf(b) /\ a[1] \in Nodes /\ b[1] \in Nodes
      /\ Len(a) \in Nat \ {0} /\ Len(b) \in Nat \ {0}
  BY NodesOfType
<1>2. \A k \in 1 .. Len(a) : a[k] \in Nodes /\ (k = 1 \/ NodeBefore(input, a[1], a[k]))
  BY <1>1 DEF InOrder
<1>3. \A k \in 1 .. Len(b) : b[k] \in Nodes /\ (k = 1 \/ NodeBefore(input, b[1], b[k]))
  BY <1>1 DEF InOrder
<1>4. CASE LessOrEqual(a[1], b[1])
  <2>1. NodeBefore(input, a[1], b[1])
    BY <1>1, <1>4 DEF LessOrEqual, NodeBefore
  <2>2. \A k \in 1 .. Len(b) : NodeBefore(input, a[1], b[k])
    BY <1>1, <1>3, <2>1, NodeOrder
  <2> QED BY <1>4, <2>2 DEF NodesOf
<1>5. CASE ~ LessOrEqual(a[1], b[1])
  <2>1. NodeBefore(input, b[1], a[1])
    BY <1>1, <1>5 DEF LessOrEqual, NodeBefore
  <2>2. \A k \in 1 .. Len(a) : NodeBefore(input, b[1], a[k])
    BY <1>1, <1>2, <2>1, NodeOrder
  <2> QED BY <1>5, <2>2 DEF NodesOf
<1> QED BY <1>4, <1>5

\* The first node of s, which belongs before those of o, moves behind m: s
\* becomes t, m becomes r and the links p become q.
MovesBehind(p, q, s, o, m, t, r) ==
  /\ s \in Seq(Nodes) /\ o \in Seq(Nodes) /\ m \in Seq(Nodes) /\ s # <<>>
  /\ InOrder(input, s) /\ InOrder(input, m)
  /\ LinkedBack(p, s) /\ LinkedBack(p, o) /\ LinkedBack(p, m)
  /\ m # <<>> => p[m[1]] = NULL
  /\ \A a \in NodesOf(m), b \in NodesOf(s) : NodeBefore(input, a, b)
  /\ \A b \in NodesOf(o) : NodeBefore(input, s[1], b)
  /\ q[s[1]] = IF m = <<>> THEN NULL ELSE m[Len(m)]
  /\ \A a \in Nodes : a # s[1] => q[a] = p[a]
  /\ t = Tail(s) /\ r = Append(m, s[1])

\* Order and links are kept by such a move.
LEMMA MoveFirst ==
  ASSUME input \in Seq(Data), NEW p, NEW q, NEW s, NEW o, NEW m, NEW t, NEW r,
         MovesBehind(p, q, s, o, m, t, r)
  PROVE  /\ s[1] \in NodesOf(s)
         /\ t \in Seq(Nodes) /\ Len(t) = Len(s) - 1 /\ NodesOf(t) \subseteq NodesOf(s)
         /\ r \in Seq(Nodes) /\ Len(r) = Len(m) + 1 /\ NodesOf(r) = NodesOf(m) \cup {s[1]}
         /\ r # <<>> /\ q[r[1]] = NULL
         /\ InOrder(input, t) /\ InOrder(input, r)
         /\ LinkedBack(q, t) /\ LinkedBack(q, o) /\ LinkedBack(q, r)
         /\ \A b \in NodesOf(t) : NodeBefore(input, s[1], b)
<1> USE DEF MovesBehind
<1>1. PICK x : x = s[1]
  OBVIOUS
<1>2. /\ x \in Nodes /\ x \in NodesOf(s) /\ NodesOf(s) \subseteq Nodes
      /\ Len(s) \in Nat \ {0} /\ Len(m) \in Nat /\ (m = <<>> <=> Len(m) = 0)
      /\ NodesOf(m) \subseteq Nodes /\ NodesOf(o) \subseteq Nodes
      /\ m # <<>> => m[Len(m)] \in Nodes /\ m[1] \in NodesOf(m)
  BY <1>1, NodesOfType
<1>3. /\ t \in Seq(Nodes) /\ Len(t) = Len(s) - 1
      /\ \A k \in 1 .. Len(s) - 1 : t[k] = s[k + 1]
      /\ NodesOf(t) \subseteq NodesOf(s)
  BY TailNodes
<1>4. /\ r \in Seq(Nodes) /\ Len(r) = Len(m) + 1
      /\ \A k \in 1 .. Len(m) : r[k] = m[k]
      /\ r[Len(m) + 1] = x
      /\ NodesOf(r) = NodesOf(m) \cup {x}
  BY <1>1, <1>2, AppendNode
<1>5. /\ q[x] = IF m = <<>> THEN NULL ELSE m[Len(m)]
      /\ \A a \in Nodes : a # x => q[a] = p[a]
  BY <1>1, <1>2
<1>6. \A k \in 1 .. Len(s) - 1 : NodeBefore(input, x, s[k + 1])
  BY <1>1, <1>2 DEF InOrder
<1>7. \A b \in NodesOf(t) : NodeBefore(input, x, b)
  BY <1>3, <1>6 DEF NodesOf
<1>8. /\ NodesOf(t) \subseteq Nodes \ {x} /\ NodesOf(o) \subseteq Nodes \ {x}
      /\ NodesOf(m) \subseteq Nodes \ {x}
  BY <1>1, <1>2, <1>3, <1>7, NodeOrder
<1>9. InOrder(input, t)
  BY <1>2, <1>3 DEF InOrder
<1>10. \A k \in 1 .. Len(m) : NodeBefore(input, m[k], x)
  BY <1>2 DEF NodesOf
<1>11. InOrder(input, r)
  BY <1>2, <1>4, <1>10 DEF InOrder
<1>12. LinkedBack(q, t)
  <2>1. LinkedBack(p, t)
    BY <1>2, <1>3 DEF LinkedBack
  <2>2. \A a \in NodesOf(t) : q[a] = p[a]
    BY <1>5, <1>8
  <2> QED BY <1>3, <2>1, <2>2, LinkedElsewhere
<1>13. LinkedBack(q, o)
  <2>1. \A a \in NodesOf(o) : q[a] = p[a]
    BY <1>5, <1>8
  <2> QED BY <2>1, LinkedElsewhere
<1>14. LinkedBack(q, m)
  <2>1. \A a \in NodesOf(m) : q[a] = p[a]
    BY <1>5, <1>8
  <2> QED BY <2>1, LinkedElsewhere
<1>15. LinkedBack(q, r)
  BY <1>2, <1>4, <1>5, <1>14 DEF LinkedBack
<1>16. q[r[1]] = NULL
  <2>1. CASE m = <<>>
    BY <1>2, <1>4, <1>5, <2>1
  <2>2. CASE m # <<>>
    <3>1. r[1] = m[1]
      BY <1>2, <1>4, <2>2
    <3> QED BY <1>2, <1>5, <1>8, <2>2, <3>1
  <2> QED BY <2>1, <2>2
<1>17. r # <<>>
  BY <1>2, <1>4
<1> QED BY <1>1, <1>2, <1>3, <1>4, <1>5, <1>7, <1>9, <1>11, <1>12, <1>13, <1>15, <1>16, <1>17

\* The nodes of s, which belong behind those of m, go behind m whole: r is the
\* list and q are the links then.
Appends(p, q, s, m, r) ==
  /\ s \in Seq(Nodes) /\ m \in Seq(Nodes) /\ s # <<>> /\ m # <<>>
  /\ InOrder(input, s) /\ InOrder(input, m) /\ LinkedBack(p, s) /\ LinkedBack(p, m)
  /\ p[m[1]] = NULL
  /\ \A a \in NodesOf(m), b \in NodesOf(s) : NodeBefore(input, a, b)
  /\ q[s[1]] = m[Len(m)] /\ \A a \in Nodes : a # s[1] => q[a] = p[a]
  /\ r = m \o s

\* Order and links are kept by that, too.
LEMMA AppendRest ==
  ASSUME input \in Seq(Data), NEW p, NEW q, NEW s, NEW m, NEW r, Appends(p, q, s, m, r)
  PROVE  /\ s[1] \in NodesOf(s)
         /\ r \in Seq(Nodes) /\ Len(r) = Len(m) + Len(s)
         /\ NodesOf(r) \subseteq NodesOf(m) \cup NodesOf(s)
         /\ q[r[1]] = NULL /\ InOrder(input, r) /\ LinkedBack(q, r)
<1> USE DEF Appends
<1>1. PICK x : x = s[1]
  OBVIOUS
<1>2. /\ x \in Nodes /\ x \in NodesOf(s) /\ NodesOf(s) \subseteq Nodes
      /\ Len(s) \in Nat \ {0} /\ Len(m) \in Nat \ {0}
      /\ NodesOf(m) \subseteq Nodes /\ m[Len(m)] \in Nodes /\ m[1] \in NodesOf(m)
  BY <1>1, NodesOfType
<1>3. /\ r \in Seq(Nodes) /\ Len(r) = Len(m) + Len(s)
      /\ \A k \in 1 .. Len(m) : r[k] = m[k]
      /\ \A k \in Len(m) + 1 .. Len(m) + Len(s) :
           r[k] = s[k - Len(m)] /\ k - Len(m) \in 1 .. Len(s)
      /\ NodesOf(r) \subseteq NodesOf(m) \cup NodesOf(s)
  BY ConcatNodes
<1>4. /\ q[x] = m[Len(m)]
      /\ \A a \in Nodes : a # x => q[a] = p[a]
  BY <1>1, <1>2
<1>5. NodesOf(m) \subseteq Nodes \ {x}
  BY <1>2, NodeOrder
<1>6. q[r[1]] = NULL
  BY <1>2, <1>3, <1>4, <1>5
<1>7. \A k \in 1 .. Len(m), l \in 1 .. Len(s) : NodeBefore(input, m[k], s[l])
  BY DEF NodesOf
<1>8. InOrder(input, r)
  <2> SUFFICES ASSUME NEW k \in 1 .. Len(r), NEW l \in 1 .. Len(r), k < l
               PROVE  NodeBefore(input, r[k], r[l])
    BY DEF InOrder
  <2>1. CASE l <= Len(m)
    BY <1>2, <1>3, <2>1 DEF InOrder
  <2>2. CASE k <= Len(m) /\ Len(m) < l
    BY <1>2, <1>3, <1>7, <2>2
  <2>3. CASE Len(m) < k
    <3>1. k - Len(m) < l - Len(m) /\ k - Len(m) \in 1 .. Len(s) /\ l - Len(m) \in 1 .. Len(s)
          /\ r[k] = s[k - Len(m)] /\ r[l] = s[l - Len(m)]
      BY <1>2, <1>3, <2>3
    <3> QED BY <3>1 DEF InOrder
  <2> QED BY <1>2, <1>3, <2>1, <2>2, <2>3
<1>9. LinkedBack(q, m)
  <2>1. \A a \in NodesOf(m) : q[a] = p[a]
    BY <1>4, <1>5
  <2> QED BY <2>1, LinkedElsewhere
<1>10. \A l \in 2 .. Len(s) : q[s[l]] = s[l - 1]
  <2> SUFFICES ASSUME NEW l \in 2 .. Len(s) PROVE q[s[l]] = s[l - 1]
    OBVIOUS
  <2>1. l \in 1 .. Len(s) /\ 1 \in 1 .. Len(s) /\ 1 < l
    BY <1>2
  <2>2. NodeBefore(input, s[1], s[l]) /\ s[l] \in Nodes
    BY <2>1 DEF InOrder
  <2>3. s[l] # x
    BY <1>1, <1>2, <2>2, NodeOrder
  <2> QED BY <1>4, <2>2, <2>3 DEF LinkedBack
<1>11. LinkedBack(q, r)
  <2> SUFFICES ASSUME NEW k \in 2 .. Len(r) PROVE q[r[k]] = r[k - 1]
    BY DEF LinkedBack
  <2>1. CASE k <= Len(m)
    <3>1. k \in 2 .. Len(m) /\ r[k] = m[k] /\ r[k - 1] = m[k - 1]
      BY <1>2, <1>3, <2>1
    <3> QED BY <1>9, <3>1 DEF LinkedBack
  <2>2. CASE k = Len(m) + 1
    <3>1. r[k] = s[1] /\ r[k - 1] = m[Len(m)]
      BY <1>2, <1>3, <2>2
    <3> QED BY <1>1, <1>4, <3>1
  <2>3. CASE Len(m) + 1 < k
    <3>1. k - Len(m) \in 2 .. Len(s) /\ r[k] = s[k - Len(m)]
      BY <1>2, <1>3, <2>3
    <3>2. k - 1 \in Len(m) + 1 .. Len(m) + Len(s) /\ k - 1 - Len(m) = k - Len(m) - 1
      BY <1>2, <1>3, <2>3
    <3>3. r[k - 1] = s[k - Len(m) - 1]
      BY <1>3, <3>2
    <3> QED BY <1>10, <3>1, <3>3
  <2> QED BY <1>2, <1>3, <2>1, <2>2, <2>3
<1> QED BY <1>1, <1>2, <1>3, <1>4, <1>6, <1>8, <1>11

\* A link of one node is set.
LEMMA LinkSet ==
  ASSUME NEW p \in [Nodes -> Nodes \cup {NULL}], NEW x \in Nodes, NEW y \in Nodes \cup {NULL},
         NEW q, q = [p EXCEPT ![x] = y]
  PROVE  /\ q \in [Nodes -> Nodes \cup {NULL}] /\ q[x] = y
         /\ \A a \in Nodes : a # x => q[a] = p[a]
OBVIOUS

\* The parts of a call that merges.
LEMMA MergingCall ==
  ASSUME NEW f \in ListFrame, NEW p, CallOK(input, p, f), f.pc = "halves",
         f.sorted = Halves, f.calling = 0, NEW h \in Halves
  PROVE  /\ f.half[h] \in Seq(Nodes) /\ f.merged \in Seq(Nodes) /\ f.list \in Seq(Nodes)
         /\ InOrder(input, f.half[h]) /\ InOrder(input, f.merged)
         /\ LinkedBack(p, f.half[h]) /\ LinkedBack(p, f.merged)
         /\ f.merged # <<>> => p[f.merged[1]] = NULL
         /\ \A a \in NodesOf(f.merged), b \in NodesOf(f.half[h]) : NodeBefore(input, a, b)
         /\ NodesOf(f.half[h]) \subseteq NodesOf(f.list)
         /\ NodesOf(f.merged) \subseteq NodesOf(f.list)
<1>1. HalvesOK(input, p, f)
  BY DEF CallOK
<1>2. h # 0
  BY DEF Halves
<1>3. f.half[h] \in Seq(Nodes) /\ f.merged \in Seq(Nodes) /\ f.list \in Seq(Nodes)
  BY DEF ListFrame
<1> QED BY <1>1, <1>2, <1>3 DEF HalvesOK

\* What a step of the merge that takes the first node of half h does to the
\* call and to the links.
MergedCall(f, h) == [f EXCEPT !.half[h] = Tail(@), !.merged = Append(@, f.half[h][1])]
MergedLinks(p, f, h) ==
  [p EXCEPT ![f.half[h][1]] = IF f.merged = <<>> THEN NULL ELSE f.merged[Len(f.merged)]]

\* A step of the merge.
LEMMA MergeKeeps ==
  ASSUME input \in Seq(Data), NEW f \in ListFrame, NEW p \in [Nodes -> Nodes \cup {NULL}],
         CallOK(input, p, f), f.pc = "halves", f.sorted = Halves, f.calling = 0,
         \A h \in Halves : f.half[h] # <<>>,
         NEW h \in Halves,
         h = IF LessOrEqual(f.half[1][1], f.half[2][1]) THEN 1 ELSE 2,
         NEW g, g = MergedCall(f, h), NEW q, q = MergedLinks(p, f, h)
  PROVE  /\ g \in ListFrame /\ q \in [Nodes -> Nodes \cup {NULL}]
         /\ \A a \in Nodes \ NodesOf(f.list) : q[a] = p[a]
         /\ CallOK(input, q, g)
<1>1. PICK o \in Halves : o # h
  BY DEF Halves
<1>2. PICK s, u, m, l : s = f.half[h] /\ u = f.half[o] /\ m = f.merged /\ l = f.list
  OBVIOUS
<1>3. PICK t, r : t = Tail(s) /\ r = Append(m, s[1])
  OBVIOUS
<1>4. /\ s \in Seq(Nodes) /\ u \in Seq(Nodes) /\ m \in Seq(Nodes) /\ l \in Seq(Nodes)
      /\ s # <<>> /\ u # <<>>
      /\ InOrder(input, s) /\ InOrder(input, u) /\ InOrder(input, m)
      /\ LinkedBack(p, s) /\ LinkedBack(p, u) /\ LinkedBack(p, m)
      /\ m # <<>> => p[m[1]] = NULL
      /\ \A a \in NodesOf(m), b \in NodesOf(s) : NodeBefore(input, a, b)
      /\ \A a \in NodesOf(m), b \in NodesOf(u) : NodeBefore(input, a, b)
      /\ NodesOf(s) \subseteq NodesOf(l) /\ NodesOf(u) \subseteq NodesOf(l)
      /\ NodesOf(m) \subseteq NodesOf(l)
  BY <1>2, MergingCall
<1>5. /\ \A a \in NodesOf(f.half[1]), b \in NodesOf(f.half[2]) : a < b
      /\ Len(f.half[1]) + Len(f.half[2]) + Len(f.merged) = Len(l)
      /\ AsItCame(l)
  BY <1>2 DEF CallOK, HalvesOK
<1>6. \A b \in NodesOf(u) : NodeBefore(input, s[1], b)
  <2>1. f.half[1] \in Seq(Nodes) /\ f.half[2] \in Seq(Nodes)
        /\ f.half[1] # <<>> /\ f.half[2] # <<>>
        /\ InOrder(input, f.half[1]) /\ InOrder(input, f.half[2])
    BY <1>1, <1>2, <1>4 DEF Halves
  <2>2. IF LessOrEqual(f.half[1][1], f.half[2][1])
        THEN \A y \in NodesOf(f.half[2]) : NodeBefore(input, f.half[1][1], y)
        ELSE \A x \in NodesOf(f.half[1]) : NodeBefore(input, f.half[2][1], x)
    BY <1>5, <2>1, MergeTakesFirst
  <2> QED BY <1>1, <1>2, <2>2 DEF Halves
<1>7. /\ q \in [Nodes -> Nodes \cup {NULL}]
      /\ q[s[1]] = IF m = <<>> THEN NULL ELSE m[Len(m)]
      /\ \A a \in Nodes : a # s[1] => q[a] = p[a]
  <2>1. PICK y : y = IF m = <<>> THEN NULL ELSE m[Len(m)]
    OBVIOUS
  <2>2. y \in Nodes \cup {NULL} /\ s[1] \in Nodes
    BY <1>4, <2>1, NodesOfType
  <2>3. q = [p EXCEPT ![s[1]] = y]
    BY <1>2, <2>1 DEF MergedLinks
  <2>4. /\ q \in [Nodes -> Nodes \cup {NULL}] /\ q[s[1]] = y
        /\ \A a \in Nodes : a # s[1] => q[a] = p[a]
    BY <2>2, <2>3
  <2> QED BY <2>1, <2>4
<1>8. /\ s[1] \in NodesOf(s)
      /\ t \in Seq(Nodes) /\ Len(t) = Len(s) - 1 /\ NodesOf(t) \subseteq NodesOf(s)
      /\ r \in Seq(Nodes) /\ Len(r) = Len(m) + 1 /\ NodesOf(r) = NodesOf(m) \cup {s[1]}
      /\ r # <<>> /\ q[r[1]] = NULL
      /\ InOrder(input, t) /\ InOrder(input, r)
      /\ LinkedBack(q, t) /\ LinkedBack(q, u) /\ LinkedBack(q, r)
      /\ \A b \in NodesOf(t) : NodeBefore(input, s[1], b)
  <2>1. MovesBehind(p, q, s, u, m, t, r)
    BY <1>3, <1>4, <1>6, <1>7 DEF MovesBehind
  <2> QED BY <2>1, MoveFirst
<1>9. /\ g.pc = "halves" /\ g.list = l /\ g.calling = 0 /\ g.sorted = Halves
      /\ g.half = [f.half EXCEPT ![h] = t] /\ g.merged = r /\ g \in ListFrame
  BY <1>2, <1>3, <1>8 DEF ListFrame, MergedCall
<1>10. g.half[h] = t /\ g.half[o] = u
  BY <1>1, <1>2, <1>9 DEF ListFrame
<1>11. Len(g.half[1]) + Len(g.half[2]) + Len(r) = Len(l)
  <2>1. Len(s) \in Nat /\ Len(u) \in Nat /\ Len(m) \in Nat /\ Len(l) \in Nat
    BY <1>4
  <2>2. Len(s) + Len(u) + Len(m) = Len(l) \/ Len(u) + Len(s) + Len(m) = Len(l)
    BY <1>1, <1>2, <1>5 DEF Halves
  <2>3. PICK x \in Nat, y \in Nat, z \in Nat, w \in Nat :
          x = Len(s) /\ y = Len(u) /\ z = Len(m) /\ w = Len(l)
    BY <2>1
  <2>4. x + y + z = w /\ Len(t) = x - 1 /\ Len(r) = z + 1
    BY <1>8, <2>2, <2>3
  <2>5. x - 1 + y + (z + 1) = w /\ y + (x - 1) + (z + 1) = w
    BY <2>4
  <2>6. Len(t) + Len(u) + Len(r) = Len(l) /\ Len(u) + Len(t) + Len(r) = Len(l)
    BY <2>3, <2>4, <2>5
  <2> QED BY <1>1, <1>10, <2>6 DEF Halves
<1>12. \A a \in NodesOf(g.half[1]), b \in NodesOf(g.half[2]) : a < b
  <2>1. \A x \in Halves : NodesOf(g.half[x]) \subseteq NodesOf(f.half[x])
    BY <1>1, <1>2, <1>8, <1>10 DEF Halves
  <2>2. /\ NodesOf(g.half[1]) \subseteq NodesOf(f.half[1])
        /\ NodesOf(g.half[2]) \subseteq NodesOf(f.half[2])
    BY <2>1 DEF Halves
  <2> QED BY <1>5, <2>2
<1>13. \A a \in NodesOf(r), b \in NodesOf(t) : NodeBefore(input, a, b)
  BY <1>4, <1>8
<1>14. \A a \in NodesOf(r), b \in NodesOf(u) : NodeBefore(input, a, b)
  BY <1>4, <1>6, <1>8
<1>15. /\ NodesOf(r) \subseteq NodesOf(l) /\ NodesOf(t) \subseteq NodesOf(l)
  BY <1>4, <1>8
<1>16. HalvesOK(input, q, g)
  <2>1. \A a \in Halves : g.half[a] = t \/ g.half[a] = u
    BY <1>1, <1>10 DEF Halves
  <2>2. 0 \notin Halves
    BY DEF Halves
  <2>3. /\ \A a \in Halves : NodesOf(g.half[a]) \subseteq NodesOf(l)
        /\ \A a \in Halves : LinkedBack(q, g.half[a]) /\ InOrder(input, g.half[a])
        /\ \A a \in Halves : \A x \in NodesOf(r), b \in NodesOf(g.half[a]) : NodeBefore(input, x, b)
    BY <1>4, <1>8, <1>13, <1>14, <1>15, <2>1
  <2>4. \E a \in Halves : g.half[a] # <<>>
    BY <1>4, <1>10
  <2>5. /\ \A a \in Halves : NodesOf(g.half[a]) \subseteq NodesOf(g.list)
        /\ NodesOf(g.merged) \subseteq NodesOf(g.list)
        /\ Len(g.half[1]) + Len(g.half[2]) + Len(g.merged) = Len(g.list)
        /\ g.calling \notin g.sorted
    BY <1>9, <1>11, <1>15, <2>2, <2>3
  <2>6. /\ g.sorted = Halves /\ g.merged # <<>> /\ q[g.merged[1]] = NULL
        /\ InOrder(input, g.merged) /\ LinkedBack(q, g.merged)
    BY <1>8, <1>9
  <2>7. \A a \in Halves \ g.sorted : AsItCame(g.half[a])
    BY <2>6
  <2>8. \A a \in g.sorted :
          /\ InOrder(input, g.half[a])
          /\ \A x \in NodesOf(g.merged), b \in NodesOf(g.half[a]) : NodeBefore(input, x, b)
    BY <1>9, <2>3
  <2>9. \A a \in Halves : a # g.calling => LinkedBack(q, g.half[a])
    BY <2>3
  <2> QED BY <1>12, <2>4, <2>5, <2>6, <2>7, <2>8, <2>9 DEF HalvesOK
<1>17. CallOK(input, q, g)
  BY <1>5, <1>9, <1>16 DEF CallOK
<1>18. \A a \in Nodes \ NodesOf(f.list) : q[a] = p[a]
  BY <1>2, <1>4, <1>7, <1>8
<1> QED BY <1>7, <1>9, <1>17, <1>18

\* A call to which the half it was calling for has been returned as r.
HalfBack(f, r) == [f EXCEPT !.half[f.calling] = r, !.sorted = @ \cup {f.calling}, !.calling = 0]

LEMMA HalfReturned ==
  ASSUME input \in Seq(Data), NEW f \in ListFrame, NEW p, CallOK(input, p, f),
         f.pc = "halves", f.calling \in Halves, NEW r \in Seq(Nodes),
         Len(r) = Len(f.half[f.calling]), NodesOf(r) \subseteq NodesOf(f.half[f.calling]),
         InOrder(input, r), LinkedBack(p, r),
         NEW g, g = HalfBack(f, r)
  PROVE  /\ g \in ListFrame /\ CallOK(input, p, g)
         /\ g.list = f.list /\ g.calling = 0 /\ g.pc = "halves"
<1>1. PICK h \in Halves, o \in Halves : h = f.calling /\ o # h
  BY DEF Halves
<1>2. HalvesOK(input, p, f) /\ AsItCame(f.list)
  BY DEF CallOK
<1>3. /\ g \in ListFrame /\ g.pc = "halves" /\ g.list = f.list /\ g.calling = 0
      /\ g.sorted = f.sorted \cup {h} /\ g.merged = f.merged /\ g.half = [f.half EXCEPT ![h] = r]
  BY <1>1 DEF ListFrame, HalfBack
<1>4. g.half[h] = r /\ g.half[o] = f.half[o]
  BY <1>1, <1>3 DEF ListFrame
<1>5. f.merged = <<>> /\ h \notin f.sorted
  BY <1>1, <1>2 DEF HalvesOK
<1>6. f.half[h] \in Seq(Nodes) /\ f.half[o] \in Seq(Nodes) /\ f.half[h] # <<>> /\ f.half[o] # <<>>
  BY <1>2, <1>5 DEF HalvesOK, ListFrame
<1>7. r # <<>>
  BY <1>1, <1>6, NodesOfType
<1>8. \A a \in Halves : a = h \/ a = o
  BY <1>1 DEF Halves
<1>9. \A a \in NodesOf(g.half[1]), b \in NodesOf(g.half[2]) : a < b
  <2>1. \A a \in NodesOf(f.half[1]), b \in NodesOf(f.half[2]) : a < b
    BY <1>2 DEF HalvesOK
  <2>2. \A a \in Halves : NodesOf(g.half[a]) \subseteq NodesOf(f.half[a])
    BY <1>1, <1>4, <1>8
  <2>3. /\ NodesOf(g.half[1]) \subseteq NodesOf(f.half[1])
        /\ NodesOf(g.half[2]) \subseteq NodesOf(f.half[2])
    BY <2>2 DEF Halves
  <2> QED BY <2>1, <2>3
<1>10. Len(g.half[1]) + Len(g.half[2]) + Len(g.merged) = Len(g.list)
  <2>1. \A a \in Halves : Len(g.half[a]) = Len(f.half[a])
    BY <1>1, <1>4, <1>8
  <2>2. Len(g.half[1]) = Len(f.half[1]) /\ Len(g.half[2]) = Len(f.half[2])
    BY <2>1 DEF Halves
  <2> QED BY <1>2, <1>3, <2>2 DEF HalvesOK
<1>11. \A a \in Halves : NodesOf(g.half[a]) \subseteq NodesOf(f.list)
  BY <1>1, <1>2, <1>4, <1>8 DEF HalvesOK
<1>12. \A a \in Halves : g.half[a] # <<>>
  BY <1>4, <1>6, <1>7, <1>8
<1>13. \A a \in Halves : LinkedBack(p, g.half[a])
  BY <1>1, <1>2, <1>4, <1>8 DEF HalvesOK
<1>14. \A a \in Halves \ g.sorted : AsItCame(g.half[a])
  BY <1>2, <1>3, <1>4, <1>8 DEF HalvesOK
<1>15. NodesOf(f.merged) = {}
  BY <1>5 DEF NodesOf
<1>16. \A a \in g.sorted : a \in Halves /\ InOrder(input, g.half[a])
  BY <1>2, <1>3, <1>4, <1>8 DEF HalvesOK, ListFrame
<1>17. 0 \notin g.sorted
  <2>1. g.sorted \in SUBSET Halves
    BY <1>3 DEF ListFrame
  <2> QED BY <2>1 DEF Halves
<1>18. HalvesOK(input, p, g)
  <2>1. InOrder(input, f.merged) /\ LinkedBack(p, f.merged)
    BY <1>2 DEF HalvesOK
  <2>2. \E a \in Halves : g.half[a] # <<>>
    BY <1>12
  <2> QED BY <1>3, <1>5, <1>9, <1>10, <1>11, <1>12, <1>13, <1>14, <1>15, <1>16, <1>17, <2>1, <2>2
          DEF HalvesOK
<1> QED BY <1>2, <1>3, <1>18 DEF CallOK

\* What the invariant says of a call and of the links.
LEMMA InnermostCall ==
  ASSUME ListInv, frames # <<>>
  PROVE  /\ input \in Seq(Data) /\ prev \in [Nodes -> Nodes \cup {NULL}]
         /\ Depth \in Nat \ {0} /\ Depth \in 1 .. Depth /\ Depth = Len(frames)
         /\ frames \in Seq(ListFrame) /\ head \in Seq(Nodes)
         /\ \A d \in 1 .. Depth : frames[d] \in ListFrame
         /\ Call = frames[Depth] /\ Call \in ListFrame
         /\ Call.calling = 0 /\ CallOK(input, prev, Call)
         /\ Call.list \in Seq(Nodes)
<1>1. /\ input \in Seq(Data) /\ prev \in [Nodes -> Nodes \cup {NULL}]
      /\ frames \in Seq(ListFrame) /\ head \in Seq(Nodes)
  BY DEF ListInv, ListTypeOK
<1>2. Depth \in Nat \ {0} /\ \A d \in 1 .. Depth : frames[d] \in ListFrame
  <2>1. Len(frames) \in Nat \ {0} /\ \A d \in 1 .. Len(frames) : frames[d] \in ListFrame
    BY <1>1, NodesOfType
  <2> QED BY <2>1 DEF Depth
<1>3. Depth \in 1 .. Depth
  BY <1>2
<1>4. Call = frames[Depth] /\ Call \in ListFrame
  BY <1>2, <1>3 DEF Call
<1>5. Call.list \in Seq(Nodes)
  BY <1>4 DEF ListFrame
<1>6. CallOK(input, prev, Call)
  BY <1>3, <1>4 DEF ListInv
<1>7. Call.calling = 0
  BY DEF ListInv, StackOK
<1> QED BY <1>1, <1>2, <1>3, <1>4, <1>5, <1>6, <1>7 DEF Depth

\* The calls that wait keep their invariant when the innermost call changes
\* links of its own list.
LEMMA WaitingKept ==
  ASSUME ListInv, frames # <<>>, NEW q,
         \A a \in Nodes \ NodesOf(Call.list) : q[a] = prev[a],
         NEW d \in 1 .. Depth - 1
  PROVE  CallOK(input, q, frames[d]) /\ frames[d].pc = "halves" /\ frames[d].calling \in Halves
<1>1. d \in 1 .. Depth /\ d < Depth /\ Depth \in 1 .. Depth
  BY InnermostCall
<1>2. frames[d].pc = "halves" /\ frames[d].calling \in Halves
  BY DEF ListInv, StackOK
<1>3. NodesOf(Call.list) \subseteq NodesOf(frames[d].half[frames[d].calling])
  BY <1>1, InnermostCall DEF ListInv, StackOK
<1>4. CallOK(input, prev, frames[d]) /\ frames[d] \in ListFrame /\ input \in Seq(Data)
  BY <1>1, InnermostCall DEF ListInv
<1>5. \A a \in Nodes \ NodesOf(frames[d].half[frames[d].calling]) : q[a] = prev[a]
  BY <1>3
<1> QED BY <1>2, <1>4, <1>5, WaitingCall

\* A step of the innermost call that does not return.
LEMMA SetCallKeeps ==
  ASSUME ListInv, frames # <<>>, NEW g \in ListFrame, SetCall(g), UNCHANGED input,
         g.list = Call.list, g.calling = 0, g.pc # "start",
         prev' \in [Nodes -> Nodes \cup {NULL}],
         \A a \in Nodes \ NodesOf(Call.list) : prev'[a] = prev[a],
         CallOK(input, prev', g)
  PROVE  ListInv'
<1>1. /\ Depth \in Nat \ {0} /\ Depth = Len(frames) /\ frames \in Seq(ListFrame)
      /\ input \in Seq(Data) /\ head \in Seq(Nodes) /\ Call = frames[Depth]
  BY InnermostCall
<1>2. /\ frames' \in Seq(ListFrame) /\ Len(frames') = Depth /\ frames'[Depth] = g
      /\ \A d \in 1 .. Depth : d # Depth => frames'[d] = frames[d]
  BY <1>1 DEF SetCall
<1>3. Depth' = Depth /\ frames' # <<>> /\ Call' = g
  BY <1>1, <1>2 DEF Depth, Call
<1>4. Nodes' = Nodes /\ ListFrame' = ListFrame
  BY DEF Nodes, ListFrame
<1>5. ListTypeOK'
  BY <1>1, <1>2, <1>4 DEF ListTypeOK, SetCall, NULL
<1>6. \A d \in 1 .. Depth : CallOK(input, prev', frames'[d])
  <2> SUFFICES ASSUME NEW d \in 1 .. Depth PROVE CallOK(input, prev', frames'[d])
    OBVIOUS
  <2>1. CASE d = Depth
    BY <1>2, <2>1
  <2>2. CASE d # Depth
    <3>1. d \in 1 .. Depth - 1
      BY <1>1, <2>2
    <3> QED BY <1>2, <2>2, <3>1, WaitingKept
  <2> QED BY <2>1, <2>2
<1>7. \A d \in 1 .. Depth : frames'[d].list = frames[d].list
  BY <1>1, <1>2
<1>8. StackOK'
  <2>1. /\ 1 \in 1 .. Depth
        /\ \A d \in 1 .. Depth - 1 : d \in 1 .. Depth /\ d # Depth /\ d + 1 \in 1 .. Depth
    BY <1>1
  <2>2. \A d, e \in 1 .. Depth : d < e => d # Depth
    BY <1>1
  <2>3. ASSUME NEW d \in 1 .. Depth - 1
        PROVE  /\ frames'[d].pc = "halves" /\ frames'[d].calling \in Halves
               /\ Len(frames'[d + 1].list) = Len(frames'[d].half[frames'[d].calling])
    <3>1. frames'[d] = frames[d] /\ frames'[d + 1].list = frames[d + 1].list
      BY <1>2, <1>7, <2>1
    <3> QED BY <3>1 DEF ListInv, StackOK
  <2>4. ASSUME NEW d \in 1 .. Depth, NEW e \in 1 .. Depth, d < e
        PROVE  NodesOf(frames'[e].list) \subseteq NodesOf(frames'[d].half[frames'[d].calling])
    <3>1. frames'[d] = frames[d] /\ frames'[e].list = frames[e].list
      BY <1>2, <1>7, <2>2, <2>4
    <3> QED BY <2>4, <3>1 DEF ListInv, StackOK
  <2>5. Len(frames'[1].list) = Len(input)
    BY <1>7, <2>1 DEF ListInv, StackOK
  <2> QED BY <1>3, <2>3, <2>4, <2>5 DEF StackOK
<1>9. FirstOK'
  BY <1>2, <1>3 DEF FirstOK
<1>10. ReturnedOK'
  BY <1>3 DEF ReturnedOK
<1>11. \A d \in 1 .. Depth' : CallOK(input', prev', frames'[d])
  BY <1>3, <1>6
<1> QED BY <1>5, <1>8, <1>9, <1>10, <1>11 DEF ListInv

\* The innermost call returns a list.
LEMMA ReturnKeeps ==
  ASSUME ListInv, frames # <<>>, NEW r \in Seq(Nodes), Return(r), UNCHANGED input,
         Len(r) = Len(Call.list), NodesOf(r) \subseteq NodesOf(Call.list),
         prev' \in [Nodes -> Nodes \cup {NULL}],
         \A a \in Nodes \ NodesOf(Call.list) : prev'[a] = prev[a],
         InOrder(input, r), LinkedBack(prev', r),
         Depth = 1 /\ r # <<>> => prev'[r[1]] = NULL
  PROVE  ListInv'
<1>1. /\ Depth \in Nat \ {0} /\ Depth = Len(frames) /\ frames \in Seq(ListFrame)
      /\ input \in Seq(Data) /\ head \in Seq(Nodes) /\ Call = frames[Depth]
      /\ \A d \in 1 .. Depth : frames[d] \in ListFrame
  BY InnermostCall
<1>2. Nodes' = Nodes /\ ListFrame' = ListFrame
  BY DEF Nodes, ListFrame
<1>3. CASE Depth = 1
  <2>1. frames' = <<>> /\ head' = r
    BY <1>3 DEF Return
  <2>2. Depth' = 0
    BY <2>1 DEF Depth
  <2>3. ListTypeOK'
    BY <1>1, <1>2, <2>1 DEF ListTypeOK, NULL
  <2>4. StackOK'
    BY <2>1, <2>2 DEF StackOK
  <2>5. FirstOK'
    BY <2>2 DEF FirstOK
  <2>6. ReturnedOK'
    <3>1. Len(r) = Len(input)
      BY <1>1, <1>3 DEF ListInv, StackOK
    <3> QED BY <1>3, <2>1, <3>1 DEF ReturnedOK, NULL
  <2> QED BY <2>2, <2>3, <2>4, <2>5, <2>6 DEF ListInv
<1>4. CASE Depth # 1
  <2>1. PICK c \in Nat : c = Depth - 1
    <3>1. Depth \in Nat \ {0}
      BY <1>1
    <3>2. Depth - 1 \in Nat
      BY <3>1
    <3> QED BY <3>2
  <2>2. c \in 1 .. Depth /\ c + 1 = Depth /\ c >= 1 /\ c \in 1 .. Depth - 1
    BY <1>1, <1>4, <2>1
  <2>3. PICK g : g = HalfBack(frames[c], r)
    OBVIOUS
  <2>4. frames' = [d \in 1 .. c |-> IF d < c THEN frames[d] ELSE g] /\ head' = head
    <3>1. frames' = [d \in 1 .. c |-> IF d < c THEN frames[d] ELSE
                       [frames[d] EXCEPT !.half[frames[d].calling] = r,
                                       !.sorted = @ \cup {frames[d].calling}, !.calling = 0]]
          /\ head' = head
      BY <1>4, <2>1 DEF Return
    <3>2. \A d \in 1 .. c : ~ (d < c) => d = c
      BY <2>1
    <3> QED BY <2>3, <3>1, <3>2 DEF HalfBack
  <2>5. CallOK(input, prev', frames[c]) /\ frames[c].pc = "halves" /\ frames[c].calling \in Halves
    BY <2>2, WaitingKept
  <2>6. /\ Len(Call.list) = Len(frames[c].half[frames[c].calling])
        /\ NodesOf(Call.list) \subseteq NodesOf(frames[c].half[frames[c].calling])
    <3>1. Len(frames[c + 1].list) = Len(frames[c].half[frames[c].calling])
      BY <2>2 DEF ListInv, StackOK
    <3>2. c < Depth /\ Depth \in 1 .. Depth
      BY <2>2, <1>1
    <3> QED BY <1>1, <2>2, <3>1, <3>2 DEF ListInv, StackOK
  <2>7. /\ g \in ListFrame /\ CallOK(input, prev', g) /\ g.list = frames[c].list
        /\ g.calling = 0 /\ g.pc = "halves"
    <3>1. frames[c] \in ListFrame
      BY <1>1, <2>2
    <3>2. /\ Len(r) = Len(frames[c].half[frames[c].calling])
          /\ NodesOf(r) \subseteq NodesOf(frames[c].half[frames[c].calling])
      BY <2>6
    <3>3. PICK f, p : f = frames[c] /\ p = prev'
      OBVIOUS
    <3>4. /\ f \in ListFrame /\ CallOK(input, p, f) /\ f.pc = "halves" /\ f.calling \in Halves
          /\ Len(r) = Len(f.half[f.calling]) /\ NodesOf(r) \subseteq NodesOf(f.half[f.calling])
      BY <2>5, <3>1, <3>2, <3>3
    <3>5. g = HalfBack(f, r) /\ LinkedBack(p, r) /\ input \in Seq(Data)
      BY <1>1, <2>3, <3>3
    <3>6. /\ g \in ListFrame /\ CallOK(input, p, g)
          /\ g.list = f.list /\ g.calling = 0 /\ g.pc = "halves"
      BY <3>4, <3>5, HalfReturned
    <3> QED BY <3>3, <3>6
  <2>8. /\ frames' \in Seq(ListFrame) /\ Len(frames') = c /\ frames'[c] = g
        /\ \A d \in 1 .. c : d # c => frames'[d] = frames[d]
    <3>1. \A d \in 1 .. c : (IF d < c THEN frames[d] ELSE g) \in ListFrame
      BY <1>1, <2>1, <2>2, <2>7
    <3> QED BY <2>1, <2>2, <2>4, <3>1
  <2>9. Depth' = c /\ frames' # <<>> /\ Call' = g
    BY <2>2, <2>8 DEF Depth, Call
  <2>10. ListTypeOK'
    BY <1>1, <1>2, <2>4, <2>8 DEF ListTypeOK, NULL
  <2>11. \A d \in 1 .. c : CallOK(input, prev', frames'[d])
    <3> SUFFICES ASSUME NEW d \in 1 .. c PROVE CallOK(input, prev', frames'[d])
      OBVIOUS
    <3>1. CASE d = c
      BY <2>7, <2>8, <3>1
    <3>2. CASE d # c
      <4>1. d \in 1 .. Depth - 1
        BY <1>1, <2>1
      <4> QED BY <2>8, <3>2, <4>1, WaitingKept
    <3> QED BY <3>1, <3>2
  <2>12. \A d \in 1 .. c : frames'[d].list = frames[d].list
    BY <2>7, <2>8
  <2>13. StackOK'
    <3>1. 1 \in 1 .. c /\ \A d \in 1 .. c - 1 : /\ d \in 1 .. c /\ d # c /\ d + 1 \in 1 .. c
                                               /\ d \in 1 .. Depth - 1
      BY <2>2
    <3>2. \A d, e \in 1 .. c : d < e => d # c /\ d \in 1 .. Depth /\ e \in 1 .. Depth
      BY <1>1, <2>2
    <3>3. \A d \in 1 .. c - 1 :
            /\ frames'[d].pc = "halves" /\ frames'[d].calling \in Halves
            /\ Len(frames'[d + 1].list) = Len(frames'[d].half[frames'[d].calling])
      BY <2>8, <2>12, <3>1 DEF ListInv, StackOK
    <3>4. \A d, e \in 1 .. c : d < e =>
            NodesOf(frames'[e].list) \subseteq NodesOf(frames'[d].half[frames'[d].calling])
      BY <2>8, <2>12, <3>2 DEF ListInv, StackOK
    <3>5. Len(frames'[1].list) = Len(input)
      BY <2>12, <3>1 DEF ListInv, StackOK
    <3> QED BY <2>7, <2>9, <3>3, <3>4, <3>5 DEF StackOK
  <2>14. FirstOK'
    BY <2>7, <2>8, <2>9 DEF FirstOK
  <2>15. ReturnedOK'
    BY <2>9 DEF ReturnedOK
  <2>16. \A d \in 1 .. Depth' : CallOK(input', prev', frames'[d])
    BY <2>9, <2>11
  <2> QED BY <2>10, <2>13, <2>14, <2>15, <2>16 DEF ListInv
<1> QED BY <1>3, <1>4

\* A list of at most one node is in order.
LEMMA ShortList ==
  ASSUME NEW S, NEW s \in Seq(S), Len(s) <= 1
  PROVE  InOrder(input, s)
BY DEF InOrder

\* A call of xlist_sort_real begins.
LEMMA StartKeeps ==
  ASSUME ListInv, xlist_sort_real
  PROVE  ListInv'
<1>1. /\ frames # <<>> /\ Call.pc = "start" /\ UNCHANGED <<input, prev>>
      /\ prev' \in [Nodes -> Nodes \cup {NULL}] /\ prev' = prev
      /\ Call \in ListFrame /\ Call.list \in Seq(Nodes) /\ input \in Seq(Data)
      /\ CallOK(input, prev, Call) /\ Call.calling = 0
  BY InnermostCall DEF xlist_sort_real
<1>2. LinkedBack(prev, Call.list) /\ AsItCame(Call.list) /\ Call = NewCall(Call.list)
  BY <1>1 DEF CallOK
<1>3. CASE Len(Call.list) <= 1
  <2>1. Return(Call.list)
    BY <1>3 DEF xlist_sort_real
  <2>2. InOrder(input, Call.list)
    BY <1>1, <1>3, ShortList
  <2>3. Depth = 1 /\ Call.list # <<>> => prev'[Call.list[1]] = NULL
    BY <1>1 DEF ListInv, FirstOK, Call
  <2> QED BY <1>1, <1>2, <2>1, <2>2, <2>3, ReturnKeeps
<1>4. CASE ~ (Len(Call.list) <= 1)
  <2>1. PICK g : g = [Call EXCEPT !.pc = "walk"]
    OBVIOUS
  <2>2. SetCall(g)
    BY <1>4, <2>1 DEF xlist_sort_real
  <2>3. /\ g \in ListFrame /\ g.pc = "walk" /\ g.list = Call.list /\ g.calling = 0
        /\ g.i = Call.i /\ g.j = Call.j /\ g.sorted = Call.sorted /\ g.merged = Call.merged
    BY <1>1, <2>1 DEF ListFrame
  <2>4. Call.i = 1 /\ Call.j = 2 /\ Call.sorted = {} /\ Call.merged = <<>>
    BY <1>2 DEF NewCall
  <2>5. Len(g.list) \in Nat /\ 2 <= Len(g.list)
    BY <1>1, <1>4, <2>3
  <2>6. CallOK(input, prev', g)
    BY <1>1, <1>2, <2>3, <2>4, <2>5 DEF CallOK
  <2> QED BY <1>1, <2>2, <2>3, <2>6, SetCallKeeps
<1> QED BY <1>3, <1>4

\* l1 and l2 go on.
LEMMA WalkKeeps ==
  ASSUME NEW f \in ListFrame, NEW p, CallOK(input, p, f), f.pc = "walk", f.calling = 0,
         f.j + 2 <= Len(f.list),
         NEW g, g = [f EXCEPT !.i = @ + 1, !.j = @ + 2]
  PROVE  /\ g \in ListFrame /\ CallOK(input, p, g)
         /\ g.list = f.list /\ g.calling = 0 /\ g.pc = "walk"
<1>1. f.i \in Nat /\ f.j \in Nat /\ f.list \in Seq(Nodes) /\ Len(f.list) \in Nat
  BY DEF ListFrame
<1>2. PICK i \in Nat, j \in Nat : i = f.i + 1 /\ j = f.j + 2
  BY <1>1
<1>3. g = [f EXCEPT !.i = i, !.j = j]
  BY <1>2
<1>4. /\ g \in ListFrame /\ g.pc = "walk" /\ g.list = f.list /\ g.calling = 0
      /\ g.i = i /\ g.j = j /\ g.sorted = f.sorted /\ g.merged = f.merged
  BY <1>3 DEF ListFrame
<1> QED BY <1>1, <1>2, <1>4 DEF CallOK

\* A step of the search for the middle, and the cut.
LEMMA MiddleKeeps ==
  ASSUME ListInv, FindMiddle
  PROVE  ListInv'
<1>1. /\ frames # <<>> /\ Call.pc = "walk" /\ UNCHANGED <<input, prev>>
      /\ prev' \in [Nodes -> Nodes \cup {NULL}] /\ prev' = prev
      /\ Call \in ListFrame /\ Call.list \in Seq(Nodes) /\ input \in Seq(Data)
      /\ CallOK(input, prev, Call) /\ Call.calling = 0
  BY InnermostCall DEF FindMiddle
<1>2. CASE Call.j + 2 <= Len(Call.list)
  <2>1. PICK g : g = [Call EXCEPT !.i = @ + 1, !.j = @ + 2]
    OBVIOUS
  <2>2. SetCall(g)
    BY <1>2, <2>1 DEF FindMiddle
  <2>3. /\ g \in ListFrame /\ CallOK(input, prev, g)
        /\ g.list = Call.list /\ g.calling = 0 /\ g.pc = "walk"
    BY <1>1, <1>2, <2>1, WalkKeeps
  <2> QED BY <1>1, <2>2, <2>3, SetCallKeeps
<1>3. CASE ~ (Call.j + 2 <= Len(Call.list))
  <2>1. PICK g : g = [Call EXCEPT !.pc = "halves",
                        !.half = [h \in Halves |->
                           IF h = 1 THEN SubSeq(Call.list, 1, Call.i)
                           ELSE SubSeq(Call.list, Call.i + 1, Len(Call.list))]]
    OBVIOUS
  <2>2. SetCall(g)
    BY <1>3, <2>1 DEF FindMiddle
  <2>3. g \in ListFrame /\ CallOK(input, prev, g)
    BY <1>1, <2>1, CutKeeps
  <2>4. g.list = Call.list /\ g.calling = 0 /\ g.pc = "halves"
    BY <1>1, <2>1 DEF ListFrame
  <2> QED BY <1>1, <2>2, <2>3, <2>4, SetCallKeeps
<1> QED BY <1>2, <1>3

\* A call for a half.
LEMMA HalfKeeps ==
  ASSUME ListInv, NEW h \in Halves, SortHalf(h)
  PROVE  ListInv'
<1>1. /\ frames # <<>> /\ Call.pc = "halves" /\ h \notin Call.sorted
      /\ frames' = Append([frames EXCEPT ![Depth].calling = h], NewCall(Call.half[h]))
      /\ input' = input /\ prev' = prev /\ head' = head
  BY DEF SortHalf
<1>2. /\ Depth \in Nat \ {0} /\ Depth = Len(frames) /\ frames \in Seq(ListFrame)
      /\ input \in Seq(Data) /\ head \in Seq(Nodes) /\ Call = frames[Depth] /\ Call \in ListFrame
      /\ CallOK(input, prev, Call) /\ Call.calling = 0 /\ prev \in [Nodes -> Nodes \cup {NULL}]
  BY <1>1, InnermostCall
<1>3. PICK l : l = Call.half[h]
  OBVIOUS
<1>4. /\ l \in Seq(Nodes) /\ HalvesOK(input, prev, Call)
      /\ LinkedBack(prev, l) /\ AsItCame(l) /\ NodesOf(l) \subseteq NodesOf(Call.list)
  <2>1. HalvesOK(input, prev, Call) /\ l \in Seq(Nodes)
    BY <1>1, <1>2, <1>3 DEF CallOK, ListFrame
  <2>2. h # 0
    BY DEF Halves
  <2> QED BY <1>1, <1>2, <1>3, <2>1, <2>2 DEF HalvesOK
<1>5. PICK g : g = [Call EXCEPT !.calling = h]
  OBVIOUS
<1>6. /\ g \in ListFrame /\ g.pc = "halves" /\ g.calling = h /\ g.list = Call.list
      /\ g.half = Call.half /\ g.sorted = Call.sorted /\ g.merged = Call.merged
  BY <1>1, <1>2, <1>5 DEF ListFrame
<1>7. PICK n : n = NewCall(l)
  OBVIOUS
<1>8. n \in ListFrame /\ n.list = l /\ n.pc = "start" /\ n.calling = 0
  BY <1>4, <1>7 DEF NewCall, ListFrame, Halves
<1>9. CallOK(input, prev, n)
  BY <1>4, <1>7, <1>8 DEF CallOK
<1>10. CallOK(input, prev, g)
  <2>1. HalvesOK(input, prev, g)
    <3>1. \A a \in Halves : a # 0
      BY DEF Halves
    <3>2. \A a \in Halves : LinkedBack(prev, g.half[a])
      BY <1>2, <1>4, <1>6, <3>1 DEF HalvesOK
    <3> QED BY <1>1, <1>4, <1>6, <3>2 DEF HalvesOK
  <2> QED BY <1>2, <1>6, <2>1 DEF CallOK
<1>11. /\ frames' \in Seq(ListFrame) /\ Len(frames') = Depth + 1
       /\ frames'[Depth + 1] = n /\ frames'[Depth] = g
       /\ \A d \in 1 .. Depth : d # Depth => frames'[d] = frames[d]
  <2>1. PICK s : s = [frames EXCEPT ![Depth].calling = h]
    OBVIOUS
  <2>2. s = [frames EXCEPT ![Depth] = g]
    BY <1>2, <1>5, <2>1
  <2>3. /\ s \in Seq(ListFrame) /\ Len(s) = Depth /\ s[Depth] = g
        /\ \A d \in 1 .. Depth : d # Depth => s[d] = frames[d]
    BY <1>2, <1>6, <2>2
  <2>4. frames' = Append(s, n)
    BY <1>1, <1>3, <1>7, <2>1
  <2>5. /\ Append(s, n) \in Seq(ListFrame) /\ Len(Append(s, n)) = Depth + 1
        /\ \A d \in 1 .. Depth : Append(s, n)[d] = s[d]
        /\ Append(s, n)[Depth + 1] = n
    BY <1>8, <2>3, AppendProperties
  <2>6. Depth \in 1 .. Depth
    BY <1>2
  <2> QED BY <2>3, <2>4, <2>5, <2>6
<1>12. Depth' = Depth + 1 /\ frames' # <<>> /\ Call' = n
  BY <1>2, <1>11 DEF Depth, Call
<1>13. Nodes' = Nodes /\ ListFrame' = ListFrame
  BY <1>1 DEF Nodes, ListFrame
<1>14. ListTypeOK'
  BY <1>1, <1>2, <1>11, <1>13 DEF ListTypeOK, NULL
<1>15. \A d \in 1 .. Depth + 1 : d \in 1 .. Depth \/ d = Depth + 1
  BY <1>2
<1>16. ASSUME NEW d \in 1 .. Depth' PROVE CallOK(input', prev', frames'[d])
  <2>1. \A e \in 1 .. Depth : CallOK(input, prev, frames[e])
    BY DEF ListInv
  <2> QED BY <1>1, <1>9, <1>10, <1>11, <1>12, <1>15, <2>1
<1>17. \A d \in 1 .. Depth : frames'[d].list = frames[d].list
  BY <1>2, <1>6, <1>11
<1>18. StackOK'
  <2>1. ASSUME NEW d \in 1 .. Depth
        PROVE  /\ frames'[d].pc = "halves" /\ frames'[d].calling \in Halves
               /\ Len(frames'[d + 1].list) = Len(frames'[d].half[frames'[d].calling])
    <3>1. CASE d = Depth
      BY <1>3, <1>6, <1>8, <1>11, <3>1
    <3>2. CASE d # Depth
      <4>1. d \in 1 .. Depth - 1 /\ d + 1 \in 1 .. Depth
        BY <1>2, <3>2
      <4>2. frames'[d] = frames[d] /\ frames'[d + 1].list = frames[d + 1].list
        BY <1>11, <1>17, <3>2, <4>1
      <4> QED BY <4>1, <4>2 DEF ListInv, StackOK
    <3> QED BY <3>1, <3>2
  <2>2. ASSUME NEW d \in 1 .. Depth, NEW e \in 1 .. Depth + 1, d < e
        PROVE  NodesOf(frames'[e].list) \subseteq NodesOf(frames'[d].half[frames'[d].calling])
    <3>1. CASE e \in 1 .. Depth
      <4>1. d # Depth
        BY <1>2, <2>2, <3>1
      <4>2. frames'[d] = frames[d] /\ frames'[e].list = frames[e].list
        BY <1>11, <1>17, <3>1, <4>1
      <4> QED BY <2>2, <3>1, <4>2 DEF ListInv, StackOK
    <3>2. CASE e = Depth + 1 /\ d = Depth
      BY <1>3, <1>6, <1>8, <1>11, <3>2
    <3>3. CASE e = Depth + 1 /\ d # Depth
      <4>1. d < Depth /\ Depth \in 1 .. Depth
        BY <1>2, <3>3
      <4>2. NodesOf(Call.list) \subseteq NodesOf(frames[d].half[frames[d].calling])
        BY <1>2, <4>1 DEF ListInv, StackOK
      <4>3. frames'[d] = frames[d] /\ frames'[e].list = l
        BY <1>8, <1>11, <3>3
      <4> QED BY <1>4, <4>2, <4>3
    <3> QED BY <1>15, <3>1, <3>2, <3>3
  <2>3. Len(frames'[1].list) = Len(input)
    <3>1. 1 \in 1 .. Depth
      BY <1>2
    <3> QED BY <1>1, <1>17, <3>1 DEF ListInv, StackOK
  <2>4. 1 .. Depth' - 1 = 1 .. Depth
    BY <1>2, <1>12
  <2>5. \A d, e \in 1 .. Depth' : d < e => d \in 1 .. Depth /\ e \in 1 .. Depth + 1
    BY <1>2, <1>12
  <2>6. /\ \A d \in 1 .. Depth' - 1 :
             /\ frames'[d].pc = "halves" /\ frames'[d].calling \in Halves
             /\ Len(frames'[d + 1].list) = Len(frames'[d].half[frames'[d].calling])
        /\ \A d, e \in 1 .. Depth' : d < e =>
             NodesOf(frames'[e].list) \subseteq NodesOf(frames'[d].half[frames'[d].calling])
    BY <2>1, <2>2, <2>4, <2>5
  <2>7. Call'.calling = 0 /\ Len(frames'[1].list) = Len(input')
    BY <1>1, <1>8, <1>12, <2>3
  <2> QED BY <2>6, <2>7 DEF StackOK
<1>19. FirstOK'
  BY <1>2, <1>12 DEF FirstOK
<1>20. ReturnedOK'
  BY <1>12 DEF ReturnedOK
<1> QED BY <1>14, <1>16, <1>18, <1>19, <1>20 DEF ListInv

\* A step of the loop of xlist_sort_merge.
LEMMA MergeStepKeeps ==
  ASSUME ListInv, xlist_sort_merge
  PROVE  ListInv'
<1>1. PICK h \in Halves : h = IF LessOrEqual(Call.half[1][1], Call.half[2][1]) THEN 1 ELSE 2
  BY DEF Halves
<1>2. /\ frames # <<>> /\ Call.pc = "halves" /\ Call.sorted = Halves
      /\ \A o \in Halves : Call.half[o] # <<>>
      /\ SetCall(MergedCall(Call, h)) /\ prev' = MergedLinks(prev, Call, h) /\ UNCHANGED input
  BY <1>1 DEF xlist_sort_merge, Merging, MergedCall, MergedLinks
<1>3. /\ prev \in [Nodes -> Nodes \cup {NULL}] /\ Call \in ListFrame
      /\ input \in Seq(Data) /\ CallOK(input, prev, Call) /\ Call.calling = 0
  BY <1>2, InnermostCall
<1>4. PICK g, q : g = MergedCall(Call, h) /\ q = MergedLinks(prev, Call, h)
  OBVIOUS
<1>5. /\ g \in ListFrame /\ q \in [Nodes -> Nodes \cup {NULL}]
      /\ \A a \in Nodes \ NodesOf(Call.list) : q[a] = prev[a]
      /\ CallOK(input, q, g)
  BY <1>1, <1>2, <1>3, <1>4, MergeKeeps
<1>6. g.list = Call.list /\ g.calling = 0 /\ g.pc = "halves"
  BY <1>2, <1>3, <1>4 DEF MergedCall, ListFrame
<1> QED BY <1>2, <1>4, <1>5, <1>6, SetCallKeeps

\* The rest of the merge.
LEMMA RestKeeps ==
  ASSUME ListInv, MergeRest
  PROVE  ListInv'
<1>1. /\ frames # <<>> /\ Call.pc = "halves" /\ Call.sorted = Halves /\ UNCHANGED input
      /\ \E o \in Halves : Call.half[o] = <<>>
  BY DEF MergeRest, Merging
<1>2. /\ prev \in [Nodes -> Nodes \cup {NULL}] /\ Call \in ListFrame
      /\ input \in Seq(Data) /\ CallOK(input, prev, Call) /\ Call.calling = 0
      /\ HalvesOK(input, prev, Call)
  BY <1>1, InnermostCall DEF CallOK
<1>3. PICK h \in Halves : h = IF Call.half[1] # <<>> THEN 1 ELSE 2
  BY DEF Halves
<1>4. PICK s, m, r : s = Call.half[h] /\ m = Call.merged /\ r = m \o s
  OBVIOUS
<1>5. /\ s \in Seq(Nodes) /\ m \in Seq(Nodes)
      /\ InOrder(input, s) /\ InOrder(input, m) /\ LinkedBack(prev, s) /\ LinkedBack(prev, m)
      /\ m # <<>> => prev[m[1]] = NULL
      /\ \A a \in NodesOf(m), b \in NodesOf(s) : NodeBefore(input, a, b)
      /\ NodesOf(s) \subseteq NodesOf(Call.list) /\ NodesOf(m) \subseteq NodesOf(Call.list)
  BY <1>1, <1>2, <1>4, MergingCall
<1>6. s # <<>> /\ m # <<>>
  <2>1. m # <<>>
    BY <1>1, <1>2, <1>4 DEF HalvesOK
  <2>2. \E a \in Halves : Call.half[a] # <<>>
    BY <1>2 DEF HalvesOK
  <2> QED BY <1>3, <1>4, <2>1, <2>2 DEF Halves
<1>7. prev' = [prev EXCEPT ![s[1]] = m[Len(m)]] /\ Return(r)
  BY <1>3, <1>4, <1>6 DEF MergeRest, Halves
<1>8. Len(m) + Len(s) = Len(Call.list)
  <2>1. PICK o \in Halves : o # h
    BY DEF Halves
  <2>2. Call.half[o] = <<>>
    BY <1>1, <1>3, <1>4, <1>6, <2>1 DEF Halves
  <2>3. Len(Call.half[o]) = 0
    BY <2>2
  <2>4. Len(Call.half[1]) + Len(Call.half[2]) + Len(m) = Len(Call.list)
    BY <1>2, <1>4 DEF HalvesOK
  <2>5. Len(s) \in Nat /\ Len(m) \in Nat
    BY <1>5
  <2>6. Len(s) + 0 + Len(m) = Len(Call.list) \/ 0 + Len(s) + Len(m) = Len(Call.list)
    BY <1>3, <1>4, <2>1, <2>3, <2>4 DEF Halves
  <2> QED BY <2>5, <2>6
<1>9. PICK q : q = prev'
  OBVIOUS
<1>10. /\ q \in [Nodes -> Nodes \cup {NULL}] /\ q[s[1]] = m[Len(m)]
       /\ \A a \in Nodes : a # s[1] => q[a] = prev[a]
  <2>1. s[1] \in Nodes /\ m[Len(m)] \in Nodes
    BY <1>5, <1>6, NodesOfType
  <2> QED BY <1>2, <1>7, <1>9, <2>1
<1>11. /\ s[1] \in NodesOf(s)
       /\ r \in Seq(Nodes) /\ Len(r) = Len(m) + Len(s)
       /\ NodesOf(r) \subseteq NodesOf(m) \cup NodesOf(s)
       /\ q[r[1]] = NULL /\ InOrder(input, r) /\ LinkedBack(q, r)
  <2>1. Appends(prev, q, s, m, r)
    BY <1>4, <1>5, <1>6, <1>10 DEF Appends
  <2> QED BY <1>2, <2>1, AppendRest
<1>12. /\ NodesOf(r) \subseteq NodesOf(Call.list)
       /\ \A a \in Nodes \ NodesOf(Call.list) : q[a] = prev[a]
  BY <1>5, <1>10, <1>11
<1> QED BY <1>1, <1>7, <1>8, <1>9, <1>10, <1>11, <1>12, ReturnKeeps

\* The initial state has the one call of g_queue_sort.
LEMMA ListStarts ==
  ASSUME ListInit
  PROVE  ListInv
<1>1. PICK n \in Nat : input \in [1 .. n -> Data]
  BY GListAssumption DEF ListInit
<1>2. input \in Seq(Data) /\ Len(input) = n /\ Nodes = 1 .. n
  BY <1>1 DEF Nodes
<1>3. PICK l : l = [a \in 1 .. n |-> a]
  OBVIOUS
<1>4. l \in Seq(Nodes) /\ Len(l) = n /\ \A k \in 1 .. n : l[k] = k
  BY <1>2, <1>3
<1>5. prev = [a \in 1 .. n |-> a - 1] /\ frames = <<NewCall(l)>> /\ head = <<>>
  BY <1>2, <1>3 DEF ListInit
<1>6. prev \in [Nodes -> Nodes \cup {NULL}]
  BY <1>2, <1>5 DEF NULL
<1>7. AsItCame(l)
  BY <1>4 DEF AsItCame
<1>8. LinkedBack(prev, l)
  BY <1>4, <1>5 DEF LinkedBack
<1>9. PICK f : f = NewCall(l)
  OBVIOUS
<1>10. f \in ListFrame /\ f.list = l /\ f.pc = "start" /\ f.calling = 0
  BY <1>4, <1>9 DEF NewCall, ListFrame, Halves
<1>11. CallOK(input, prev, f)
  BY <1>7, <1>8, <1>9, <1>10 DEF CallOK
<1>12. frames \in Seq(ListFrame) /\ Len(frames) = 1 /\ frames[1] = f /\ frames # <<>>
  BY <1>5, <1>9, <1>10
<1>13. Depth = 1 /\ Call = f
  BY <1>12 DEF Depth, Call
<1>14. ListTypeOK
  BY <1>2, <1>5, <1>6, <1>12 DEF ListTypeOK
<1>15. \A d \in 1 .. Depth : CallOK(input, prev, frames[d])
  BY <1>11, <1>12, <1>13
<1>16. StackOK
  <2>1. 1 .. Depth - 1 = {} /\ \A d, e \in 1 .. Depth : ~ (d < e)
    BY <1>13
  <2>2. Call.calling = 0 /\ Len(frames[1].list) = Len(input)
    BY <1>2, <1>4, <1>10, <1>12, <1>13
  <2> QED BY <2>1, <2>2 DEF StackOK
<1>17. FirstOK
  <2>1. l # <<>> => n >= 1
    BY <1>4
  <2>2. l # <<>> => prev[l[1]] = NULL
    BY <1>4, <1>5, <2>1 DEF NULL
  <2> QED BY <1>10, <1>12, <2>2 DEF FirstOK
<1>18. ReturnedOK
  BY <1>12 DEF ReturnedOK
<1> QED BY <1>14, <1>15, <1>16, <1>17, <1>18 DEF ListInv

\* The invariant of the sort.
LEMMA ListInvariant == ListSpec => []ListInv
<1>1. ListInit => ListInv
  BY ListStarts
<1>2. ListInv /\ [ListNext]_listvars => ListInv'
  <2> SUFFICES ASSUME ListInv, [ListNext]_listvars PROVE ListInv'
    OBVIOUS
  <2>1. CASE xlist_sort_real
    BY <2>1, StartKeeps
  <2>2. CASE FindMiddle
    BY <2>2, MiddleKeeps
  <2>3. ASSUME NEW h \in Halves, SortHalf(h) PROVE ListInv'
    BY <2>3, HalfKeeps
  <2>4. CASE xlist_sort_merge
    BY <2>4, MergeStepKeeps
  <2>5. CASE MergeRest
    BY <2>5, RestKeeps
  <2>6. CASE UNCHANGED listvars
    BY <2>6 DEF listvars, ListInv, ListTypeOK, ListFrame, Nodes, Depth, Call, StackOK, FirstOK,
                ReturnedOK
  <2> QED BY <2>1, <2>2, <2>3, <2>4, <2>5, <2>6 DEF ListNext
<1> QED BY <1>1, <1>2, PTL DEF ListSpec

\* The stable sort of the input is a list of all its nodes.
LEMMA InputSorted ==
  ASSUME NEW q \in Seq(Data)
  PROVE  \E perm \in [1 .. Len(q) -> 1 .. Len(q)] :
           /\ g_queue_sort(q, DataLess) = [i \in 1 .. Len(q) |-> q[perm[i]]]
           /\ \A i, j \in 1 .. Len(q) : i < j => NodeBefore(q, perm[i], perm[j])
           /\ \A i, j \in 1 .. Len(q) : i # j => perm[i] # perm[j]
<1>1. \A k \in 1 .. Len(q) : q[k] \in Data
  OBVIOUS
<1>2. IsLess(DataLess, q)
  BY <1>1, GListAssumption DEF IsLess
<1>3. PICK perm \in [1 .. Len(q) -> 1 .. Len(q)] :
           /\ g_queue_sort(q, DataLess) = [i \in 1 .. Len(q) |-> q[perm[i]]]
           /\ \A i, j \in 1 .. Len(q) : i < j =>
                /\ <<q[perm[j]], q[perm[i]]>> \notin DataLess
                /\ perm[i] < perm[j] \/ <<q[perm[i]], q[perm[j]]>> \in DataLess
           /\ \A i, j \in 1 .. Len(q) : i # j => perm[i] # perm[j]
  BY <1>2, StableSort
<1>4. \A i, j \in 1 .. Len(q) : i < j => NodeBefore(q, perm[i], perm[j])
  BY <1>3 DEF NodeBefore
<1> QED BY <1>3, <1>4

\* A list of all nodes in the order of NodeBefore holds the data as the stable
\* sort of g_queue_sort does: two such lists cannot differ first at a place,
\* since each has there what the other has behind it.
LEMMA InOrderIsSorted ==
  ASSUME input \in Seq(Data), NEW s \in Seq(Nodes), Len(s) = Len(input), InOrder(input, s)
  PROVE  [k \in 1 .. Len(s) |-> input[s[k]]] = g_queue_sort(input, DataLess)
<1>1. PICK n \in Nat : n = Len(input)
  OBVIOUS
<1>2. Nodes = 1 .. n /\ Len(s) = n /\ \A k \in 1 .. n : s[k] \in 1 .. n /\ input[k] \in Data
  BY <1>1 DEF Nodes
<1>3. \E perm \in [1 .. Len(input) -> 1 .. Len(input)] :
        /\ g_queue_sort(input, DataLess) = [i \in 1 .. Len(input) |-> input[perm[i]]]
        /\ \A i, j \in 1 .. Len(input) : i < j => NodeBefore(input, perm[i], perm[j])
        /\ \A i, j \in 1 .. Len(input) : i # j => perm[i] # perm[j]
  BY InputSorted
<1>4. PICK perm \in [1 .. n -> 1 .. n] :
        /\ g_queue_sort(input, DataLess) = [i \in 1 .. n |-> input[perm[i]]]
        /\ \A i, j \in 1 .. n : i < j => NodeBefore(input, perm[i], perm[j])
        /\ \A i, j \in 1 .. n : i # j => perm[i] # perm[j]
  BY <1>1, <1>3
<1>5. \A i, j \in 1 .. n : i < j => NodeBefore(input, perm[i], perm[j])
  BY <1>4
<1>6. \A i, j \in 1 .. n : i < j => NodeBefore(input, s[i], s[j])
  BY <1>2 DEF InOrder
<1>7. /\ \A a \in 1 .. n : ~ NodeBefore(input, a, a)
      /\ \A a, b \in 1 .. n : NodeBefore(input, a, b) => ~ NodeBefore(input, b, a)
  BY <1>2, NodeOrder
<1>8. PICK r \in [1 .. n -> 1 .. n] : \A k \in 1 .. n : r[k] = s[k]
  <2>1. [k \in 1 .. n |-> s[k]] \in [1 .. n -> 1 .. n]
    BY <1>2
  <2> QED BY <2>1
<1>9. \A i, j \in 1 .. n : i < j => NodeBefore(input, r[i], r[j])
  BY <1>6, <1>8
<1>10. IsFiniteSet(1 .. n)
  BY FS_Interval
<1>11. \A a \in 1 .. n : \E k \in 1 .. n : perm[k] = a
  <2>1. perm \in Injection(1 .. n, 1 .. n)
    BY <1>4 DEF Injection, IsInjective
  <2>2. perm \in Surjection(1 .. n, 1 .. n)
    BY <1>10, <2>1, FS_Injection
  <2> QED BY <2>2 DEF Surjection
<1>12. \A a \in 1 .. n : \E k \in 1 .. n : r[k] = a
  <2>1. \A i, j \in 1 .. n : i # j => i < j \/ j < i
    OBVIOUS
  <2>2. \A i, j \in 1 .. n : i # j => r[i] # r[j]
    BY <1>7, <1>9, <2>1
  <2>3. r \in Injection(1 .. n, 1 .. n)
    BY <2>2 DEF Injection, IsInjective
  <2>4. r \in Surjection(1 .. n, 1 .. n)
    BY <1>10, <2>3, FS_Injection
  <2> QED BY <2>4 DEF Surjection
<1>13. \A k \in 1 .. n : r[k] = perm[k]
  <2>1. SUFFICES ASSUME NEW x \in 1 .. n, r[x] # perm[x] PROVE FALSE
    OBVIOUS
  <2>2. PICK T : T = {i \in 1 .. n : r[i] # perm[i]}
    OBVIOUS
  <2>3. T \subseteq Nat /\ T # {}
    <3>1. x \in T
      BY <2>1, <2>2
    <3>2. T \subseteq Nat
      BY <2>2
    <3> QED BY <3>1, <3>2
  <2>4. PICK k \in T : \A i \in T : k <= i
    BY <2>3, NatMin
  <2>5. k \in 1 .. n /\ r[k] # perm[k] /\ \A i \in 1 .. n : i < k => r[i] = perm[i]
    BY <2>2, <2>4
  <2>6. PICK i \in 1 .. n : perm[i] = r[k]
    BY <1>8, <1>11, <2>5
  <2>7. PICK j \in 1 .. n : r[j] = perm[k]
    BY <1>4, <1>12, <2>5
  <2>8. k < i
    <3>1. i # k
      BY <2>5, <2>6
    <3>2. ~ (i < k)
      <4>1. i < k => r[i] = r[k]
        BY <2>5, <2>6
      <4>2. i < k => NodeBefore(input, r[i], r[k])
        BY <1>9, <2>5
      <4> QED BY <1>7, <1>8, <2>5, <4>1, <4>2
    <3> QED BY <2>5, <3>1, <3>2
  <2>9. k < j
    <3>1. j # k
      BY <2>5, <2>7
    <3>2. ~ (j < k)
      <4>1. j < k => perm[j] = perm[k]
        BY <2>5, <2>7
      <4>2. j < k => NodeBefore(input, perm[j], perm[k])
        BY <1>5, <2>5
      <4> QED BY <1>4, <1>7, <2>5, <4>1, <4>2
    <3> QED BY <2>5, <3>1, <3>2
  <2>10. NodeBefore(input, perm[k], r[k]) /\ NodeBefore(input, r[k], perm[k])
    BY <1>5, <1>9, <2>5, <2>6, <2>7, <2>8, <2>9
  <2> QED BY <1>4, <1>7, <1>8, <2>5, <2>10
<1>14. \A k \in 1 .. n : input[s[k]] = input[perm[k]]
  BY <1>8, <1>13
<1> QED BY <1>2, <1>4, <1>14

\* The merge sort of glist.c, for every list, every data and every comparison
\* that is a strict weak order, and in either order of its two calls, returns
\* the stable order that g_queue_sort stands for in the queue and the pool
\* (xlist_sort_real, xlist_sort_merge); and the list is linked backwards as
\* well, with no link left to the stack variable of xlist_sort_merge
\* (glist.c:1236).
THEOREM MergeSorts == ListSpec => []SortsStably
<1>1. ASSUME ListInv, frames = <<>> PROVE StableOrder
  <2>1. input \in Seq(Data) /\ head \in Seq(Nodes)
    BY <1>1 DEF ListInv, ListTypeOK
  <2>2. Len(head) = Len(input) /\ InOrder(input, head)
    BY <1>1 DEF ListInv, ReturnedOK
  <2> QED BY <2>1, <2>2, InOrderIsSorted DEF StableOrder
<1>2. ASSUME ListInv, frames = <<>> PROVE LinkedBothWays
  <2> SUFFICES ASSUME NEW k \in 1 .. Len(head)
               PROVE  prev[head[k]] = IF k = 1 THEN NULL ELSE head[k - 1]
    BY DEF LinkedBothWays
  <2>1. head \in Seq(Nodes) /\ LinkedBack(prev, head) /\ (head # <<>> => prev[head[1]] = NULL)
    BY <1>2 DEF ListInv, ListTypeOK, ReturnedOK
  <2>2. Len(head) \in Nat /\ (head = <<>> => Len(head) = 0)
    BY <2>1
  <2>3. CASE k = 1
    BY <2>1, <2>2, <2>3
  <2>4. CASE k # 1
    <3>1. k \in 2 .. Len(head)
      BY <2>2, <2>4
    <3> QED BY <2>1, <2>4, <3>1 DEF LinkedBack
  <2> QED BY <2>3, <2>4
<1>3. ListInv => SortsStably
  BY <1>1, <1>2 DEF SortsStably, ListInv
<1> QED BY <1>3, ListInvariant, PTL
=============================================================================
