-------------------------- MODULE GThreadPoolProofs --------------------------
(***************************************************************************)
(* Safety of GThreadPool for every set of threads and tasks, every limit   *)
(* and every order of the tasks.  The inductive invariant follows          *)
(* xthread_pool_free through its phases, says where a task that was pushed *)
(* is, and counts the threads in the pool, in the pop and awake; the       *)
(* operations of the queue come from GQueueProofs.                         *)
(***************************************************************************)
EXTENDS GThreadPool, GThreadPoolUnused, GQueueProofs

\* What is in a queue.
Items(q) == {q[i] : i \in 1 .. Len(q)}

\* The threads whose wait for a task is over.
Awake == {t \in Threads : pc[t] \in {"woken", "expired"}}

\* The threads that left as the last one and are to free the pool.
Freeing == {t \in Threads : pc[t] = "free"}

\* num_threads is the number of threads in the pool or on their way to it.
Counted == num_threads = Cardinality(Attached)

\* The phases of the pool: in use, being freed by a caller that waits, and freed
\* by the caller or left to the threads.
PhaseOK ==
  /\ running => caller = "using" /\ ~ waiting /\ ~ immediate /\ ~ freed
  /\ ~ running => caller # "using"
  /\ caller \in {"wait", "woken"} => waiting /\ (immediate <=> asked.immediate)
  /\ ~ running /\ asked.immediate => immediate
  /\ waiting /\ caller = "done" => freed
  /\ running => ~ asked.immediate /\ ~ asked.wait

\* At most one is about to free the pool, which has no threads then.
FreeingOK ==
  /\ caller = "free" => num_threads = 0
  /\ freed => num_threads = 0 /\ caller = "done" /\ Freeing = {} /\ queue = <<>>
  /\ \A t \in Freeing : /\ ~ running /\ ~ waiting /\ ~ freed
                        /\ num_threads = 0 /\ caller = "done"
  /\ \A t, u \in Freeing : t = u

\* Dummies are in the queue only of a pool that stops immediately, so that none
\* is run.
DummyOK ==
  /\ Dummy \in Items(queue) => ~ running /\ immediate
  /\ \A t \in Running : task[t] \in Tasks

\* Only what was pushed is in the queue, is run or was executed.
KnownOK ==
  /\ executed \subseteq pushed
  /\ \A x \in Items(queue) : x = Dummy \/ x \in pushed
  /\ \A t \in Running : task[t] \in pushed

\* Nothing that was pushed is lost, unless the caller asked for an immediate stop.
KeptOK ==
  ~ asked.immediate =>
    \A x \in pushed : \/ x \in executed
                      \/ x \in Items(queue)
                      \/ \E t \in Running : task[t] = x

\* A pool that turned to stop immediately by itself, or is about to be freed, has
\* no task left.
StoppedOK ==
  ~ asked.immediate =>
    /\ immediate => Running = {} /\ Items(queue) \subseteq {Dummy}
    /\ caller = "free" \/ Freeing # {} => Items(queue) \subseteq {Dummy}

\* After a call that waited no task runs, and none will.
WaitedOK ==
  asked.wait /\ caller = "done" => Running = {} /\ (immediate \/ freed)

\* With a limit of 0, a stopping pool has a thread in the pop for every task left:
\* no thread comes back to the queue after it has run one.
LimitOK ==
  max_threads = 0 /\ ~ running /\ ~ immediate => Len(queue) <= Cardinality(InPop)

\* While a thread sleeps, as many threads are awake as there are tasks.
SleepOK == Asleep # {} => Len(queue) <= Cardinality(Awake)

\* Tasks that wait have a thread in the pool.
StaffedOK ==
  queue # <<>> /\ (running \/ ~ immediate) /\ max_threads # 0 /\ ~ failed
    => num_threads # 0

\* The inductive invariant.
PoolInv ==
  /\ TypeOK /\ Counted /\ PhaseOK /\ FreeingOK /\ DummyOK /\ KnownOK /\ KeptOK
  /\ StoppedOK /\ WaitedOK /\ LimitOK /\ SleepOK /\ StaffedOK

\* When a thread leaves the pool, and what is then the queue.
MayLeave(t, q) ==
  \/ /\ q = queue /\ pc[t] \in {"start", "run"}
     /\ \/ ~ running /\ (immediate \/ Length <= 0)
        \/ max_threads # -1 /\ num_threads > max_threads
  \/ q = queue /\ queue = <<>>
  \/ queue # <<>> /\ q = g_queue_pop_tail(queue) /\ ~ running /\ immediate

-----------------------------------------------------------------------------
\* The subsets of a finite set.
LEMMA FiniteSizes ==
  ASSUME NEW S, IsFiniteSet(S), NEW A \in SUBSET S
  PROVE  /\ IsFiniteSet(A) /\ Cardinality(A) \in Nat
         /\ Cardinality(A) <= Cardinality(S)
         /\ Cardinality(A) = 0 <=> A = {}
         /\ \A x \in S \ A : Cardinality(A \cup {x}) = Cardinality(A) + 1
         /\ \A x \in A : Cardinality(A \ {x}) = Cardinality(A) - 1
         /\ \A B \in SUBSET A : /\ Cardinality(B) <= Cardinality(A)
                                /\ Cardinality(B) = Cardinality(A) => A = B
<1>1. IsFiniteSet(A) /\ Cardinality(A) <= Cardinality(S)
  BY FS_Subset
<1>2. Cardinality(A) \in Nat
  BY <1>1, FS_CardinalityType
<1>3. Cardinality(A) = 0 <=> A = {}
  BY <1>1, FS_EmptySet
<1>4. \A x \in S \ A : Cardinality(A \cup {x}) = Cardinality(A) + 1
  BY <1>1, FS_AddElement
<1>5. \A x \in A : Cardinality(A \ {x}) = Cardinality(A) - 1
  BY <1>1, FS_RemoveElement
<1>6. \A B \in SUBSET A : /\ Cardinality(B) <= Cardinality(A)
                          /\ Cardinality(B) = Cardinality(A) => A = B
  BY <1>1, FS_Subset
<1> QED BY <1>1, <1>2, <1>3, <1>4, <1>5, <1>6

\* The number of threads of a kind.
LEMMA Sizes ==
  ASSUME NEW A \in SUBSET Threads
  PROVE  /\ IsFiniteSet(A) /\ Cardinality(A) \in Nat
         /\ Cardinality(A) <= Cardinality(Threads)
         /\ Cardinality(A) = 0 <=> A = {}
         /\ \A x \in Threads \ A : Cardinality(A \cup {x}) = Cardinality(A) + 1
         /\ \A x \in A : Cardinality(A \ {x}) = Cardinality(A) - 1
         /\ \A B \in SUBSET A : /\ Cardinality(B) <= Cardinality(A)
                                /\ Cardinality(B) = Cardinality(A) => A = B
  BY GThreadPoolAssumption, FiniteSizes

\* The kinds of threads.
LEMMA Kinds ==
  /\ Attached \in SUBSET Threads /\ InPop \in SUBSET Attached
  /\ Asleep \in SUBSET InPop /\ Awake \in SUBSET InPop
  /\ Running \in SUBSET Attached /\ Freeing \in SUBSET Threads
  /\ InPop \in SUBSET Threads /\ Awake \in SUBSET Threads
  BY DEF Attached, InPop, Asleep, Awake, Running, Freeing

\* An element put into a queue.
LEMMA ItemsInsert ==
  ASSUME NEW S, NEW q \in Seq(S), NEW e \in S, NEW p \in 1 .. Len(q) + 1
  PROVE  /\ InsertAt(q, p, e) \in Seq(S) /\ Len(InsertAt(q, p, e)) = Len(q) + 1
         /\ Items(InsertAt(q, p, e)) = Items(q) \cup {e}
<1> DEFINE r == InsertAt(q, p, e)
<1>1. /\ r \in Seq(S) /\ Len(r) = Len(q) + 1 /\ Len(q) \in Nat
      /\ \A i \in 1 .. Len(q) + 1 :
             r[i] = IF i < p THEN q[i] ELSE IF i = p THEN e ELSE q[i - 1]
  BY InsertAtPlace
<1> HIDE DEF r
<1>2. ASSUME NEW i \in 1 .. Len(r) PROVE r[i] \in Items(q) \cup {e}
  BY <1>1 DEF Items
<1>3. ASSUME NEW i \in 1 .. Len(q) PROVE q[i] \in Items(r)
  <2>1. CASE i < p
    <3>1. i \in 1 .. Len(r) /\ r[i] = q[i]
      BY <1>1, <2>1
    <3> QED BY <3>1 DEF Items
  <2>2. CASE ~ (i < p)
    <3>1. i + 1 \in 1 .. Len(r) /\ r[i + 1] = q[i]
      BY <1>1, <2>2
    <3> QED BY <3>1 DEF Items
  <2> QED BY <2>1, <2>2
<1>4. e \in Items(r)
  <2>1. p \in 1 .. Len(r) /\ r[p] = e
    BY <1>1
  <2> QED BY <2>1 DEF Items
<1>5. Items(r) = Items(q) \cup {e}
  BY <1>2, <1>3, <1>4 DEF Items
<1> QED BY <1>1, <1>5 DEF r

\* An element taken from a queue.
LEMMA ItemsRemove ==
  ASSUME NEW S, NEW q \in Seq(S), NEW p \in 1 .. Len(q)
  PROVE  /\ RemoveAt(q, p) \in Seq(S) /\ Len(RemoveAt(q, p)) = Len(q) - 1
         /\ Items(RemoveAt(q, p)) \cup {q[p]} = Items(q)
<1> DEFINE r == RemoveAt(q, p)
<1>1. /\ r \in Seq(S) /\ Len(r) = Len(q) - 1 /\ Len(q) \in Nat
      /\ \A i \in 1 .. Len(q) - 1 : r[i] = IF i < p THEN q[i] ELSE q[i + 1]
  BY RemovedAt
<1> HIDE DEF r
<1>2. ASSUME NEW i \in 1 .. Len(r) PROVE r[i] \in Items(q)
  BY <1>1 DEF Items
<1>3. ASSUME NEW i \in 1 .. Len(q) PROVE q[i] \in Items(r) \cup {q[p]}
  <2>1. CASE i < p
    <3>1. i \in 1 .. Len(r) /\ r[i] = q[i]
      BY <1>1, <2>1
    <3> QED BY <3>1 DEF Items
  <2>2. CASE i > p
    <3>1. i - 1 \in 1 .. Len(r) /\ r[i - 1] = q[i]
      BY <1>1, <2>2
    <3> QED BY <3>1 DEF Items
  <2>3. CASE i = p
    BY <2>3
  <2> QED BY <1>1, <2>1, <2>2, <2>3
<1>4. q[p] \in Items(q)
  BY DEF Items
<1>5. Items(r) \cup {q[p]} = Items(q)
  BY <1>2, <1>3, <1>4 DEF Items
<1> QED BY <1>1, <1>5 DEF r

\* The pop of the tail.
LEMMA ItemsPop ==
  ASSUME NEW S, NEW q \in Seq(S), q # <<>>
  PROVE  /\ g_queue_pop_tail(q) \in Seq(S) /\ Len(g_queue_pop_tail(q)) = Len(q) - 1
         /\ Items(g_queue_pop_tail(q)) \cup {Last(q)} = Items(q)
         /\ Last(q) \in S
<1> DEFINE r == g_queue_pop_tail(q)
<1>1. /\ r \in Seq(S) /\ Len(r) = Len(q) - 1 /\ Len(q) \in Nat \ {0}
      /\ \A i \in 1 .. Len(r) : r[i] = q[i]
  BY PopTail
<1> HIDE DEF r
<1>2. Last(q) = q[Len(q)] /\ Len(q) \in 1 .. Len(q)
  BY <1>1 DEF Last
<1>3. ASSUME NEW i \in 1 .. Len(q) PROVE q[i] \in Items(r) \cup {Last(q)}
  <2>1. CASE i = Len(q)
    BY <1>2, <2>1
  <2>2. CASE i # Len(q)
    <3>1. i \in 1 .. Len(r) /\ r[i] = q[i]
      BY <1>1, <2>2
    <3> QED BY <3>1 DEF Items
  <2> QED BY <2>1, <2>2
<1>4. ASSUME NEW i \in 1 .. Len(r) PROVE r[i] \in Items(q)
  BY <1>1 DEF Items
<1>5. Last(q) \in Items(q)
  BY <1>2 DEF Items
<1>6. Items(r) \cup {Last(q)} = Items(q)
  BY <1>3, <1>4, <1>5 DEF Items
<1> QED BY <1>1, <1>2, <1>6 DEF r

\* The sort of the tasks.
LEMMA ItemsSort ==
  ASSUME NEW q \in Seq(Tasks)
  PROVE  /\ g_queue_sort(q, Less) \in Seq(Tasks)
         /\ Len(g_queue_sort(q, Less)) = Len(q)
         /\ Items(g_queue_sort(q, Less)) = Items(q)
<1>1. Len(q) \in Nat /\ \A i \in 1 .. Len(q) : q[i] \in Tasks /\ Key[q[i]] \in Int
  BY GThreadPoolAssumption
<1>2. \A i, j \in 1 .. Len(q) : <<q[i], q[j]>> \in Less <=> Key[q[j]] < Key[q[i]]
  BY <1>1 DEF Less
<1>3. IsLess(Less, q)
  <2>1. \A i, j \in 1 .. Len(q) : <<q[i], q[j]>> \in Less => <<q[j], q[i]>> \notin Less
    BY <1>1, <1>2
  <2>2. ASSUME NEW i \in 1 .. Len(q), NEW j \in 1 .. Len(q), NEW k \in 1 .. Len(q),
               <<q[i], q[k]>> \in Less
        PROVE  <<q[i], q[j]>> \in Less \/ <<q[j], q[k]>> \in Less
    <3>1. Key[q[i]] \in Int /\ Key[q[j]] \in Int /\ Key[q[k]] \in Int
      BY <1>1
    <3>2. Key[q[k]] < Key[q[i]]
      BY <1>2, <2>2
    <3>3. Key[q[j]] < Key[q[i]] \/ Key[q[k]] < Key[q[j]]
      BY <3>1, <3>2
    <3> QED BY <1>2, <3>3
  <2> QED BY <2>1, <2>2 DEF IsLess
<1>4. PICK perm \in [1 .. Len(q) -> 1 .. Len(q)] :
           /\ g_queue_sort(q, Less) = [i \in 1 .. Len(q) |-> q[perm[i]]]
           /\ \A i, j \in 1 .. Len(q) : i < j =>
                /\ <<q[perm[j]], q[perm[i]]>> \notin Less
                /\ perm[i] < perm[j] \/ <<q[perm[i]], q[perm[j]]>> \in Less
           /\ \A i, j \in 1 .. Len(q) : i # j => perm[i] # perm[j]
  BY <1>3, StableSort
<1> DEFINE r == g_queue_sort(q, Less)
<1>5. r \in Seq(Tasks) /\ Len(r) = Len(q) /\ \A i \in 1 .. Len(q) : r[i] = q[perm[i]]
  <2>1. \A i \in 1 .. Len(q) : perm[i] \in 1 .. Len(q) /\ q[perm[i]] \in Tasks
    BY <1>1
  <2>2. r = [i \in 1 .. Len(q) |-> q[perm[i]]]
    BY <1>4
  <2> HIDE DEF r
  <2> QED BY <1>1, <2>1, <2>2
<1> HIDE DEF r
<1>6. \A i \in 1 .. Len(q) : r[i] \in Items(q)
  BY <1>5 DEF Items
<1>7. ASSUME NEW i \in 1 .. Len(q) PROVE q[i] \in Items(r)
  <2>1. perm \in Injection(1 .. Len(q), 1 .. Len(q))
    BY <1>4 DEF Injection, IsInjective
  <2>2. perm \in Surjection(1 .. Len(q), 1 .. Len(q))
    <3>1. /\ IsFiniteSet(1 .. Len(q))
          /\ Cardinality(1 .. Len(q)) = Cardinality(1 .. Len(q))
      BY <1>1, FS_Interval
    <3> QED BY <2>1, <3>1, FS_Injection
  <2>3. PICK p \in 1 .. Len(q) : perm[p] = i
    BY <2>2 DEF Surjection
  <2>4. p \in 1 .. Len(r) /\ r[p] = q[i]
    BY <1>5, <2>3
  <2> QED BY <2>4 DEF Items
<1>8. Items(r) = Items(q)
  BY <1>5, <1>6, <1>7 DEF Items
<1> QED BY <1>5, <1>8 DEF r

\* Dummies are pushed.
LEMMA ItemsDummies ==
  ASSUME NEW S, NEW q \in Seq(S), Dummy \in S, NEW n \in Nat
  PROVE  /\ Dummies(n) \o q \in Seq(S) /\ Len(Dummies(n) \o q) = Len(q) + n
         /\ Items(q) \subseteq Items(Dummies(n) \o q)
         /\ Items(Dummies(n) \o q) \subseteq Items(q) \cup {Dummy}
<1> DEFINE r == Dummies(n) \o q
<1>1. Dummies(n) \in Seq(S) /\ Len(Dummies(n)) = n /\ \A i \in 1 .. n :
          Dummies(n)[i] = Dummy
  BY DEF Dummies
<1>2. /\ r \in Seq(S) /\ Len(r) = n + Len(q) /\ Len(q) \in Nat
      /\ \A i \in 1 .. n + Len(q) : r[i] = IF i <= n THEN Dummies(n)[i] ELSE q[i - n]
  BY <1>1
<1> HIDE DEF r
<1>3. ASSUME NEW i \in 1 .. Len(r) PROVE r[i] \in Items(q) \cup {Dummy}
  <2>1. CASE i <= n
    BY <1>1, <1>2, <2>1
  <2>2. CASE ~ (i <= n)
    <3>1. i - n \in 1 .. Len(q) /\ r[i] = q[i - n]
      BY <1>2, <2>2
    <3> QED BY <3>1 DEF Items
  <2> QED BY <2>1, <2>2
<1>4. ASSUME NEW i \in 1 .. Len(q) PROVE q[i] \in Items(r)
  <2>1. i + n \in 1 .. Len(r) /\ r[i + n] = q[i]
    BY <1>2
  <2> QED BY <2>1 DEF Items
<1>5. Items(q) \subseteq Items(r) /\ Items(r) \subseteq Items(q) \cup {Dummy}
  BY <1>3, <1>4 DEF Items
<1> QED BY <1>2, <1>5 DEF r

\* Two kinds of threads together.
LEMMA SizesUnion ==
  ASSUME NEW A \in SUBSET Threads, NEW B \in SUBSET Threads, A \cap B = {}
  PROVE  Cardinality(A \cup B) = Cardinality(A) + Cardinality(B)
<1>1. IsFiniteSet(A) /\ IsFiniteSet(B) /\ Cardinality(A) \in Nat /\ Cardinality(B) \in Nat
  BY Sizes
<1>2. Cardinality(A \cup B) = Cardinality(A) + Cardinality(B) - Cardinality(A \cap B)
  BY <1>1, FS_Union
<1>3. Cardinality(A \cap B) = 0
  BY FS_EmptySet
<1> QED BY <1>1, <1>2, <1>3

\* xthread_pool_start_thread with a limit other than 0: afterwards the pool has
\* a thread, unless the creation of one failed.
LEMMA StartsSome ==
  ASSUME PoolInv, NEW want \in Nat, want # 0, NEW max \in MaxThreads, max # 0,
         NEW S \in SUBSET Threads, Starts(want, max, S, TRUE)
  PROVE  num_threads + Cardinality(S) # 0
<1>1. num_threads \in Nat /\ Cardinality(S) \in Nat /\ max \in Nat \cup {-1}
  BY Sizes, GThreadPoolAssumption DEF PoolInv, TypeOK
<1>2. CASE num_threads # 0
  BY <1>1, <1>2
<1>3. CASE num_threads = 0 /\ max = -1
  <2>1. Cardinality(S) = want
    BY <1>3 DEF Starts
  <2> QED BY <1>1, <2>1
<1>4. CASE num_threads = 0 /\ max # -1
  <2>1. ~ (num_threads >= max) /\ max - num_threads = max /\ max \in Nat
    BY <1>1, <1>4
  <2>2. Cardinality(S) = Min({want, max})
    BY <1>4, <2>1 DEF Starts
  <2>3. Min({want, max}) \in {want, max}
    BY <2>1, MinIsLeast
  <2>4. Cardinality(S) = want \/ Cardinality(S) = max
    BY <2>2, <2>3
  <2> QED BY <1>1, <2>1, <2>4
<1> QED BY <1>2, <1>3, <1>4

\* The threads after a push that has started the threads of S.
LEMMA SignalKinds ==
  ASSUME PoolInv, NEW S \in SUBSET Threads, \A t \in S : pc[t] = "out",
         StartAndSignal(S)
  PROVE  /\ pc' \in [Threads -> PC]
         /\ Attached' = Attached \cup S /\ InPop' = InPop /\ Running' = Running
         /\ Freeing' = Freeing
         /\ Cardinality(Attached') = Cardinality(Attached) + Cardinality(S)
         /\ Cardinality(Awake) \in Nat
         /\ Asleep = {} => Asleep' = {}
         /\ Asleep # {} => Cardinality(Awake') = Cardinality(Awake) + 1
<1> DEFINE started == [t \in Threads |-> IF t \in S THEN "start" ELSE pc[t]]
<1>1. pc \in [Threads -> PC]
  BY DEF PoolInv, TypeOK
<1>2. CASE Asleep = {}
  <2>1. pc' = started
    BY <1>2 DEF StartAndSignal
  <2>2. /\ pc' \in [Threads -> PC] /\ Attached' = Attached \cup S /\ InPop' = InPop
        /\ Running' = Running /\ Freeing' = Freeing /\ Asleep' = Asleep
    BY <1>1, <2>1 DEF PC, Attached, InPop, Running, Freeing, Asleep
  <2>3. Cardinality(Attached \cup S) = Cardinality(Attached) + Cardinality(S)
    BY Kinds, SizesUnion DEF Attached
  <2>4. Cardinality(Awake) \in Nat
    BY Kinds, Sizes
  <2> QED BY <1>2, <2>2, <2>3, <2>4
<1>3. CASE Asleep # {}
  <2>1. PICK u \in Asleep : pc' = [started EXCEPT ![u] = "woken"]
    BY <1>3 DEF StartAndSignal
  <2>2. u \in Threads /\ pc[u] = "asleep" /\ u \notin S /\ u \notin Awake
    BY DEF Asleep, Awake
  <2>3. /\ pc'[u] = "woken"
        /\ \A t \in Threads : t # u => pc'[t] = IF t \in S THEN "start" ELSE pc[t]
    BY <2>1, <2>2
  <2>4. pc' \in [Threads -> PC]
    BY <1>1, <2>1 DEF PC
  <2>5. Attached' = Attached \cup S
    BY <2>2, <2>3 DEF Attached
  <2>6. InPop' = InPop /\ Running' = Running /\ Freeing' = Freeing
    BY <2>2, <2>3 DEF InPop, Running, Freeing
  <2>7. Awake' = Awake \cup {u}
    BY <2>2, <2>3 DEF Awake
  <2>8. Cardinality(Attached \cup S) = Cardinality(Attached) + Cardinality(S)
    BY Kinds, SizesUnion DEF Attached
  <2>9. Cardinality(Awake) \in Nat /\ Cardinality(Awake \cup {u}) = Cardinality(Awake) + 1
    BY <2>2, Kinds, Sizes
  <2> QED BY <1>3, <2>4, <2>5, <2>6, <2>7, <2>8, <2>9
<1> QED BY <1>2, <1>3

\* A task is moved to the front.
LEMMA ItemsMove ==
  ASSUME NEW S, NEW q \in Seq(S), NEW e \in S, Contains(q, e)
  PROVE  LET r == g_queue_push_tail(g_queue_remove(q, {e}), e)
         IN  r \in Seq(S) /\ Len(r) = Len(q) /\ Items(r) = Items(q)
<1>1. PICK i \in 1 .. Len(q) : q[i] = e
  BY DEF Contains
<1>2. PICK p \in 1 .. Len(q) : q[p] = e /\ g_queue_remove(q, {e}) = RemoveAt(q, p)
  BY <1>1, RemoveOne
<1> DEFINE m == RemoveAt(q, p)
<1>3. /\ m \in Seq(S) /\ Len(m) = Len(q) - 1 /\ Len(q) \in Nat
      /\ Items(m) \cup {e} = Items(q)
  <2>1. /\ m \in Seq(S) /\ Len(m) = Len(q) - 1 /\ Items(m) \cup {q[p]} = Items(q)
    BY ItemsRemove
  <2> QED BY <1>2, <2>1
<1> HIDE DEF m
<1>4. Len(m) \in Nat /\ Len(m) + 1 \in 1 .. Len(m) + 1
  BY <1>3
<1>5. /\ InsertAt(m, Len(m) + 1, e) \in Seq(S)
      /\ Len(InsertAt(m, Len(m) + 1, e)) = Len(m) + 1
      /\ Items(InsertAt(m, Len(m) + 1, e)) = Items(m) \cup {e}
  BY <1>3, <1>4, ItemsInsert
<1>6. g_queue_push_tail(m, e) = InsertAt(m, Len(m) + 1, e)
  BY <1>3, PushTail
<1>7. g_queue_push_tail(g_queue_remove(q, {e}), e) = InsertAt(m, Len(m) + 1, e)
  BY <1>2, <1>6 DEF m
<1>8. Len(m) + 1 = Len(q)
  BY <1>3
<1> QED BY <1>3, <1>5, <1>7, <1>8

\* The half second of a pop is over.
LEMMA ExpireStep ==
  ASSUME PoolInv, NEW t \in Threads, Expire(t)
  PROVE  PoolInv'
<1>1. /\ queue' = queue /\ num_threads' = num_threads /\ immediate' = immediate
      /\ exclusive' = exclusive /\ max_threads' = max_threads /\ running' = running
      /\ waiting' = waiting /\ sort_func' = sort_func /\ freed' = freed
      /\ task' = task /\ caller' = caller /\ executed' = executed
      /\ asked' = asked /\ pushed' = pushed /\ handed' = handed /\ failed' = failed
  BY DEF Expire, pool, history
<1>2. /\ Attached' = Attached /\ InPop' = InPop /\ Running' = Running
      /\ Freeing' = Freeing /\ Asleep' \subseteq Asleep /\ Awake \subseteq Awake'
      /\ Awake' \subseteq Threads
  BY DEF PoolInv, TypeOK, PC, Expire, Attached, InPop, Running, Freeing, Asleep, Awake
<1>3. /\ Cardinality(Awake) \in Nat /\ Cardinality(Awake') \in Nat
      /\ Cardinality(Awake) <= Cardinality(Awake')
  BY <1>2, Sizes
<1>4. TypeOK'
  BY <1>1 DEF PoolInv, TypeOK, PC, Expire
<1>5. Counted'
  BY <1>1, <1>2, <1>3 DEF PoolInv, Counted, TypeOK
<1>6. PhaseOK'
  BY <1>1, <1>2, <1>3 DEF PoolInv, PhaseOK, TypeOK, FreeingOK
<1>7. FreeingOK'
  BY <1>1, <1>2, <1>3 DEF PoolInv, FreeingOK, TypeOK, PhaseOK
<1>8. DummyOK'
  BY <1>1, <1>2, <1>3 DEF PoolInv, DummyOK, TypeOK, PhaseOK
<1>9. KnownOK'
  BY <1>1, <1>2, <1>3 DEF PoolInv, KnownOK, TypeOK, DummyOK
<1>10. KeptOK'
  BY <1>1, <1>2, <1>3 DEF PoolInv, KeptOK, TypeOK, DummyOK, StoppedOK
<1>11. StoppedOK'
  BY <1>1, <1>2, <1>3 DEF PoolInv, StoppedOK, TypeOK, PhaseOK, FreeingOK
<1>12. WaitedOK'
  BY <1>1, <1>2, <1>3 DEF PoolInv, WaitedOK, TypeOK, PhaseOK, FreeingOK
<1>13. LimitOK'
  BY <1>1, <1>2, <1>3 DEF PoolInv, LimitOK, TypeOK, PhaseOK
<1>14. SleepOK'
  BY <1>1, <1>2, <1>3 DEF PoolInv, SleepOK, TypeOK
<1>15. StaffedOK'
  BY <1>1, <1>2, <1>3 DEF PoolInv, StaffedOK, TypeOK, PhaseOK
<1> QED
  BY <1>4, <1>5, <1>6, <1>7, <1>8, <1>9, <1>10, <1>11, <1>12, <1>13, <1>14, <1>15
     DEF PoolInv

\* A spurious wakeup.
LEMMA SpuriousStep ==
  ASSUME PoolInv, NEW t \in Threads, SpuriousWakeup(t)
  PROVE  PoolInv'
<1>1. /\ queue' = queue /\ num_threads' = num_threads /\ immediate' = immediate
      /\ exclusive' = exclusive /\ max_threads' = max_threads /\ running' = running
      /\ waiting' = waiting /\ sort_func' = sort_func /\ freed' = freed
      /\ task' = task /\ caller' = caller /\ executed' = executed
      /\ asked' = asked /\ pushed' = pushed /\ handed' = handed /\ failed' = failed
  BY DEF SpuriousWakeup, pool, history
<1>2. /\ Attached' = Attached /\ InPop' = InPop /\ Running' = Running
      /\ Freeing' = Freeing /\ Asleep' \subseteq Asleep /\ Awake \subseteq Awake'
      /\ Awake' \subseteq Threads
  BY DEF PoolInv, TypeOK, PC, SpuriousWakeup, Attached, InPop, Running, Freeing,
     Asleep, Awake
<1>3. /\ Cardinality(Awake) \in Nat /\ Cardinality(Awake') \in Nat
      /\ Cardinality(Awake) <= Cardinality(Awake')
  BY <1>2, Sizes
<1>4. TypeOK'
  BY <1>1 DEF PoolInv, TypeOK, PC, SpuriousWakeup
<1>5. Counted'
  BY <1>1, <1>2, <1>3 DEF PoolInv, Counted, TypeOK
<1>6. PhaseOK'
  BY <1>1, <1>2, <1>3 DEF PoolInv, PhaseOK, TypeOK, FreeingOK
<1>7. FreeingOK'
  BY <1>1, <1>2, <1>3 DEF PoolInv, FreeingOK, TypeOK, PhaseOK
<1>8. DummyOK'
  BY <1>1, <1>2, <1>3 DEF PoolInv, DummyOK, TypeOK, PhaseOK
<1>9. KnownOK'
  BY <1>1, <1>2, <1>3 DEF PoolInv, KnownOK, TypeOK, DummyOK
<1>10. KeptOK'
  BY <1>1, <1>2, <1>3 DEF PoolInv, KeptOK, TypeOK, DummyOK, StoppedOK
<1>11. StoppedOK'
  BY <1>1, <1>2, <1>3 DEF PoolInv, StoppedOK, TypeOK, PhaseOK, FreeingOK
<1>12. WaitedOK'
  BY <1>1, <1>2, <1>3 DEF PoolInv, WaitedOK, TypeOK, PhaseOK, FreeingOK
<1>13. LimitOK'
  BY <1>1, <1>2, <1>3 DEF PoolInv, LimitOK, TypeOK, PhaseOK
<1>14. SleepOK'
  BY <1>1, <1>2, <1>3 DEF PoolInv, SleepOK, TypeOK
<1>15. StaffedOK'
  BY <1>1, <1>2, <1>3 DEF PoolInv, StaffedOK, TypeOK, PhaseOK
<1> QED
  BY <1>4, <1>5, <1>6, <1>7, <1>8, <1>9, <1>10, <1>11, <1>12, <1>13, <1>14, <1>15
     DEF PoolInv

\* The caller of xthread_pool_free wakes up.
LEMMA CallerWakesStep ==
  ASSUME PoolInv, CallerWakes
  PROVE  PoolInv'
<1>1. /\ queue' = queue /\ num_threads' = num_threads /\ immediate' = immediate
      /\ exclusive' = exclusive /\ max_threads' = max_threads /\ running' = running
      /\ waiting' = waiting /\ sort_func' = sort_func /\ freed' = freed
      /\ task' = task /\ executed' = executed /\ pc' = pc
      /\ asked' = asked /\ pushed' = pushed /\ handed' = handed /\ failed' = failed
      /\ caller = "wait" /\ caller' = "woken"
  BY DEF CallerWakes, pool, history
<1>2. /\ Attached' = Attached /\ InPop' = InPop /\ Running' = Running
      /\ Freeing' = Freeing /\ Asleep' = Asleep /\ Awake' = Awake
  BY <1>1 DEF Attached, InPop, Running, Freeing, Asleep, Awake
<1>3. TypeOK'
  BY <1>1 DEF PoolInv, TypeOK, Caller
<1>4. Counted'
  BY <1>1, <1>2 DEF PoolInv, Counted, TypeOK
<1>5. PhaseOK'
  BY <1>1, <1>2 DEF PoolInv, PhaseOK, TypeOK, FreeingOK
<1>6. FreeingOK'
  BY <1>1, <1>2 DEF PoolInv, FreeingOK, TypeOK, PhaseOK
<1>7. DummyOK'
  BY <1>1, <1>2 DEF PoolInv, DummyOK, TypeOK, PhaseOK
<1>8. KnownOK'
  BY <1>1, <1>2 DEF PoolInv, KnownOK, TypeOK, DummyOK
<1>9. KeptOK'
  BY <1>1, <1>2 DEF PoolInv, KeptOK, TypeOK, DummyOK, StoppedOK
<1>10. StoppedOK'
  BY <1>1, <1>2 DEF PoolInv, StoppedOK, TypeOK, PhaseOK, FreeingOK
<1>11. WaitedOK'
  BY <1>1, <1>2 DEF PoolInv, WaitedOK, TypeOK, PhaseOK, FreeingOK
<1>12. LimitOK'
  BY <1>1, <1>2 DEF PoolInv, LimitOK, TypeOK, PhaseOK
<1>13. SleepOK'
  BY <1>1, <1>2 DEF PoolInv, SleepOK, TypeOK
<1>14. StaffedOK'
  BY <1>1, <1>2 DEF PoolInv, StaffedOK, TypeOK, PhaseOK
<1> QED
  BY <1>3, <1>4, <1>5, <1>6, <1>7, <1>8, <1>9, <1>10, <1>11, <1>12, <1>13, <1>14
     DEF PoolInv

\* A step that changes nothing.
LEMMA StutterStep ==
  ASSUME PoolInv, UNCHANGED vars
  PROVE  PoolInv'
<1>1. /\ queue' = queue /\ num_threads' = num_threads /\ immediate' = immediate
      /\ exclusive' = exclusive /\ max_threads' = max_threads /\ running' = running
      /\ waiting' = waiting /\ sort_func' = sort_func /\ freed' = freed
      /\ task' = task /\ executed' = executed /\ pc' = pc /\ caller' = caller
      /\ asked' = asked /\ pushed' = pushed /\ handed' = handed /\ failed' = failed
  BY DEF vars, pool, history
<1>2. /\ Attached' = Attached /\ InPop' = InPop /\ Running' = Running
      /\ Freeing' = Freeing /\ Asleep' = Asleep /\ Awake' = Awake
  BY <1>1 DEF Attached, InPop, Running, Freeing, Asleep, Awake
<1>3. TypeOK'
  BY <1>1, <1>2 DEF PoolInv, TypeOK
<1>4. Counted'
  BY <1>1, <1>2 DEF PoolInv, Counted, TypeOK
<1>5. PhaseOK'
  BY <1>1, <1>2 DEF PoolInv, PhaseOK, TypeOK, FreeingOK
<1>6. FreeingOK'
  BY <1>1, <1>2 DEF PoolInv, FreeingOK, TypeOK, PhaseOK
<1>7. DummyOK'
  BY <1>1, <1>2 DEF PoolInv, DummyOK, TypeOK, PhaseOK
<1>8. KnownOK'
  BY <1>1, <1>2 DEF PoolInv, KnownOK, TypeOK, DummyOK
<1>9. KeptOK'
  BY <1>1, <1>2 DEF PoolInv, KeptOK, TypeOK, DummyOK, StoppedOK
<1>10. StoppedOK'
  BY <1>1, <1>2 DEF PoolInv, StoppedOK, TypeOK, PhaseOK, FreeingOK
<1>11. WaitedOK'
  BY <1>1, <1>2 DEF PoolInv, WaitedOK, TypeOK, PhaseOK, FreeingOK
<1>12. LimitOK'
  BY <1>1, <1>2 DEF PoolInv, LimitOK, TypeOK, PhaseOK
<1>13. SleepOK'
  BY <1>1, <1>2 DEF PoolInv, SleepOK, TypeOK
<1>14. StaffedOK'
  BY <1>1, <1>2 DEF PoolInv, StaffedOK, TypeOK, PhaseOK
<1> QED
  BY <1>3, <1>4, <1>5, <1>6, <1>7, <1>8, <1>9, <1>10, <1>11, <1>12, <1>13, <1>14
     DEF PoolInv

\* xthread_pool_free_internal: whoever calls it is the only one, and the pool has
\* no threads, so that it never returns early.
LEMMA FreeInternalStep ==
  ASSUME PoolInv, xthread_pool_free_internal
  PROVE  PoolInv'
<1>1. /\ num_threads' = num_threads /\ immediate' = immediate
      /\ exclusive' = exclusive /\ max_threads' = max_threads /\ running' = running
      /\ waiting' = waiting /\ sort_func' = sort_func
      /\ task' = task /\ executed' = executed
      /\ asked' = asked /\ pushed' = pushed /\ failed' = failed
  BY DEF xthread_pool_free_internal
<1>2. /\ ~ running /\ num_threads = 0 /\ caller # "using"
      /\ Items(queue) \subseteq {Dummy} \/ asked.immediate
  <2>1. (caller = "free" \/ Freeing # {}) /\ (caller = "free" => ~ running)
    BY DEF PoolInv, PhaseOK, TypeOK, xthread_pool_free_internal, Freeing
  <2> QED BY <2>1 DEF PoolInv, PhaseOK, FreeingOK, StoppedOK, TypeOK
<1>3. /\ freed' = TRUE /\ queue' = <<>> /\ Items(queue') = {} /\ Len(queue') = 0
      /\ handed' = handed \o g_queue_remove(queue, {Dummy})
  <2>1. freed' = TRUE /\ queue' = <<>>
            /\ handed' = handed \o g_queue_remove(queue, {Dummy})
    BY <1>2 DEF xthread_pool_free_internal
  <2>2. Len(<<>>) = 0 /\ Items(<<>>) = {}
    BY DEF Items
  <2> QED BY <2>1, <2>2
<1>4. Attached = {} /\ Running = {} /\ InPop = {} /\ Asleep = {} /\ Awake = {}
  BY <1>2, Kinds, Sizes DEF PoolInv, Counted
<1>5. /\ pc' \in [Threads -> PC] /\ caller' = "done" /\ Freeing' = {}
      /\ Attached' = {}
      /\ Running' = {} /\ InPop' = {} /\ Asleep' = {} /\ Awake' = {}
  <2>1. CASE caller = "free" /\ caller' = "done" /\ pc' = pc
    <3>1. Freeing = {}
      BY <2>1 DEF PoolInv, FreeingOK
    <3> QED
      BY <1>4, <2>1, <3>1
         DEF PoolInv, TypeOK, Attached, InPop, Running, Freeing, Asleep, Awake
  <2>2. CASE \E t \in Threads : /\ pc[t] = "free" /\ pc' = [pc EXCEPT ![t] = "out"]
                                /\ caller' = caller
    <3>1. PICK t \in Threads : /\ pc[t] = "free" /\ pc' = [pc EXCEPT ![t] = "out"]
                               /\ caller' = caller
      BY <2>2
    <3>2. Freeing = {t} /\ caller = "done"
      BY <3>1 DEF PoolInv, FreeingOK, Freeing
    <3> QED
      BY <1>4, <3>1, <3>2
         DEF PoolInv, TypeOK, PC, Attached, InPop, Running, Freeing, Asleep, Awake
  <2> QED BY <2>1, <2>2 DEF xthread_pool_free_internal
<1>6. handed' \in Seq(Tasks \cup {Dummy})
  <2>1. g_queue_remove(queue, {Dummy}) \in Seq(Tasks \cup {Dummy})
    <3>1. queue \in Seq(Tasks \cup {Dummy})
      BY DEF PoolInv, TypeOK
    <3> QED BY <3>1, RemoveOne, RemovedAt
  <2> QED BY <1>3, <2>1 DEF PoolInv, TypeOK
<1>7. Cardinality({}) = 0
  BY FS_EmptySet
<1>8. TypeOK'
  BY <1>1, <1>3, <1>5, <1>6 DEF PoolInv, TypeOK, Caller
<1>9. Counted'
  BY <1>1, <1>2, <1>5, <1>7 DEF Counted
<1>10. PhaseOK'
  BY <1>1, <1>2, <1>3, <1>4, <1>5, <1>7 DEF PoolInv, PhaseOK, TypeOK, FreeingOK
<1>11. FreeingOK'
  BY <1>1, <1>2, <1>3, <1>4, <1>5, <1>7 DEF PoolInv, FreeingOK, TypeOK, PhaseOK
<1>12. DummyOK'
  BY <1>1, <1>2, <1>3, <1>4, <1>5, <1>7 DEF PoolInv, DummyOK, TypeOK, PhaseOK
<1>13. KnownOK'
  BY <1>1, <1>2, <1>3, <1>4, <1>5, <1>7 DEF PoolInv, KnownOK, TypeOK, DummyOK
<1>14. KeptOK'
  BY <1>1, <1>2, <1>3, <1>4, <1>5, <1>7, GThreadPoolAssumption
     DEF PoolInv, KeptOK, TypeOK
<1>15. StoppedOK'
  BY <1>1, <1>2, <1>3, <1>4, <1>5, <1>7
     DEF PoolInv, StoppedOK, TypeOK, PhaseOK, FreeingOK
<1>16. WaitedOK'
  BY <1>1, <1>2, <1>3, <1>4, <1>5, <1>7
     DEF PoolInv, WaitedOK, TypeOK, PhaseOK, FreeingOK
<1>17. LimitOK'
  BY <1>1, <1>2, <1>3, <1>4, <1>5, <1>7 DEF PoolInv, LimitOK, TypeOK, PhaseOK
<1>18. SleepOK'
  BY <1>1, <1>2, <1>3, <1>4, <1>5, <1>7 DEF PoolInv, SleepOK, TypeOK
<1>19. StaffedOK'
  BY <1>1, <1>2, <1>3, <1>4, <1>5, <1>7 DEF PoolInv, StaffedOK, TypeOK, PhaseOK
<1> QED
  BY <1>8, <1>9, <1>10, <1>11, <1>12, <1>13, <1>14, <1>15, <1>16, <1>17, <1>18, <1>19
     DEF PoolInv

\* A thread leaves the pool.  As the last one it finds no task in the queue, and
\* if it finds all others in the pop it makes them stop.
LEMMA LeaveStep ==
  ASSUME PoolInv, NEW t \in Threads, NEW q,
         pc[t] \in {"start", "run", "woken", "expired"}, MayLeave(t, q), LeavePool(t, q),
         executed' = IF pc[t] = "run" THEN executed \cup {task[t]} ELSE executed,
         task' \in [Threads -> Tasks \cup {Dummy}],
         \A u \in Threads : u # t => task'[u] = task[u],
         UNCHANGED <<pool, history>>
  PROVE  PoolInv'
<1> DEFINE left == num_threads - 1
           length == Len(q) - Cardinality(InPop \ {t})
           free == ~ running /\ ~ waiting /\ left = 0
           stop == ~ running /\ ~ waiting /\ left # 0 /\ length = - left
<1>1. /\ exclusive' = exclusive /\ max_threads' = max_threads /\ running' = running
      /\ waiting' = waiting /\ sort_func' = sort_func /\ freed' = freed
      /\ asked' = asked /\ pushed' = pushed /\ handed' = handed /\ failed' = failed
  BY DEF pool, history
<1>2. /\ num_threads' = left /\ immediate' = (immediate \/ stop)
      /\ stop => queue' = Dummies(left) \o q
      /\ ~ stop => queue' = q
      /\ caller' = caller \/ (caller = "wait" /\ caller' = "woken")
      /\ pc' = [u \in Threads |-> IF u = t THEN IF free THEN "free" ELSE "out"
                                  ELSE IF stop /\ u \in Asleep THEN "woken" ELSE pc[u]]
  BY DEF LeavePool
<1>3. /\ q \in Seq(Tasks \cup {Dummy}) /\ queue \in Seq(Tasks \cup {Dummy})
      /\ Len(q) \in Nat /\ Len(queue) \in Nat /\ Len(q) <= Len(queue)
      /\ Items(q) \subseteq Items(queue)
      /\ running \/ ~ immediate => q = queue
      /\ pc[t] \in {"woken", "expired"} => Len(q) = 0 \/ Len(q) = Len(queue) - 1
  <2>1. queue \in Seq(Tasks \cup {Dummy}) /\ Len(queue) \in Nat
    BY DEF PoolInv, TypeOK
  <2>2. CASE q = queue /\ (pc[t] \in {"start", "run"} \/ q = <<>>)
    BY <2>1, <2>2
  <2>3. CASE queue # <<>> /\ q = g_queue_pop_tail(queue) /\ ~ running /\ immediate
    BY <2>1, <2>3, ItemsPop
  <2> QED BY <2>2, <2>3 DEF MayLeave
<1> HIDE DEF stop, free, length
<1>4. /\ t \in Attached /\ Attached' = Attached \ {t} /\ InPop' = InPop \ {t}
      /\ Running' = Running \ {t}
      /\ stop => Asleep' = {}
      /\ ~ stop => Asleep' = Asleep /\ Awake' = Awake \ {t}
      /\ free => Freeing' = Freeing \cup {t}
      /\ ~ free => Freeing' = Freeing
  <2>1. \A u \in Threads : u # t =>
            /\ ~ stop \/ pc[u] # "asleep" => pc'[u] = pc[u]
            /\ stop /\ pc[u] = "asleep" => pc'[u] = "woken"
    BY <1>2 DEF Asleep
  <2>2. pc'[t] \in {"free", "out"} /\ (free <=> pc'[t] = "free")
    BY <1>2
  <2>3. t \in Attached /\ Attached' = Attached \ {t}
    BY <2>1, <2>2 DEF Attached
  <2>4. InPop' = InPop \ {t}
    BY <2>1, <2>2 DEF InPop
  <2>5. Running' = Running \ {t}
    BY <2>1, <2>2 DEF Running
  <2>6. stop => Asleep' = {}
    BY <2>1, <2>2 DEF Asleep
  <2>7. ~ stop => Asleep' = Asleep
    BY <2>1, <2>2 DEF Asleep
  <2>8. ~ stop => Awake' = Awake \ {t}
    BY <2>1, <2>2 DEF Awake
  <2>9. (free => Freeing' = Freeing \cup {t}) /\ (~ free => Freeing' = Freeing)
    BY <2>1, <2>2 DEF Freeing
  <2> QED BY <2>3, <2>4, <2>5, <2>6, <2>7, <2>8, <2>9
<1>5. /\ num_threads \in Nat /\ num_threads >= 1 /\ left \in Nat
      /\ left = Cardinality(Attached') /\ left <= Cardinality(Threads)
      /\ Cardinality(Threads) \in Nat
      /\ Cardinality(InPop') \in Nat /\ Cardinality(InPop') <= left
      /\ Cardinality(InPop') = left => Running' = {}
  <2>1. /\ Cardinality(Attached) = num_threads
        /\ Cardinality(Attached \ {t}) = Cardinality(Attached) - 1
        /\ Cardinality(Attached) \in Nat
    BY <1>4, Kinds, Sizes DEF PoolInv, Counted
  <2>2. /\ Attached' \in SUBSET Threads /\ InPop' \in SUBSET Attached'
        /\ Running' \in SUBSET Attached'
        /\ Running' \cap InPop' = {}
    BY DEF Attached, InPop, Running
  <2>3. /\ Cardinality(Attached') \in Nat
        /\ Cardinality(Attached') <= Cardinality(Threads)
        /\ Cardinality(InPop') <= Cardinality(Attached')
        /\ Cardinality(InPop') = Cardinality(Attached') => InPop' = Attached'
    BY <2>2, Sizes
  <2>4. Cardinality(InPop') \in Nat
    BY <2>2, Sizes
  <2>5. Cardinality(Threads) \in Nat
    BY Sizes
  <2> QED BY <1>4, <2>1, <2>2, <2>3, <2>4, <2>5
<1>6. stop => /\ ~ running /\ ~ waiting /\ left # 0
              /\ Len(q) = 0 /\ Running' = {}
  <2>1. stop => Len(q) - Cardinality(InPop') = - left
    BY <1>4 DEF stop, length
  <2> QED BY <1>3, <1>5, <2>1 DEF stop
<1>7. free <=> ~ running /\ ~ waiting /\ left = 0
  BY DEF free
<1>8. left = 0 /\ (running => max_threads # 0) /\ (running \/ ~ immediate) => Len(q) = 0
  <2> SUFFICES ASSUME left = 0, running => max_threads # 0, running \/ ~ immediate,
                      Len(q) # 0
               PROVE  FALSE
    OBVIOUS
  <2>1. q = queue /\ q # <<>>
    BY <1>3
  <2>2. pc[t] \in {"start", "run"}
    BY <2>1 DEF MayLeave
  <2>3. InPop' = InPop
    BY <1>4, <2>2 DEF InPop
  <2>4. Cardinality(InPop) = 0
    BY <1>5, <2>3
  <2>5. CASE ~ running /\ (immediate \/ Length <= 0)
    BY <1>3, <2>1, <2>4, <2>5 DEF Length
  <2>6. CASE max_threads # -1 /\ num_threads > max_threads
    <3>1. max_threads = 0
      BY <1>5, <2>6, GThreadPoolAssumption DEF PoolInv, TypeOK
    <3> QED BY <1>3, <2>1, <2>4, <3>1 DEF PoolInv, LimitOK
  <2> QED BY <2>1, <2>2, <2>5, <2>6 DEF MayLeave
<1>9. /\ queue' \in Seq(Tasks \cup {Dummy})
      /\ Items(q) \subseteq Items(queue')
      /\ Items(queue') \subseteq Items(q) \cup {Dummy}
      /\ stop => Items(queue') \subseteq {Dummy}
  <2>1. CASE stop
    <3>1. /\ Dummies(left) \o q \in Seq(Tasks \cup {Dummy})
          /\ Items(q) \subseteq Items(Dummies(left) \o q)
          /\ Items(Dummies(left) \o q) \subseteq Items(q) \cup {Dummy}
      <4> HIDE DEF left
      <4>1. left \in Nat /\ Dummy \in Tasks \cup {Dummy}
        BY <1>5
      <4> QED BY <1>3, <4>1, ItemsDummies
    <3>2. Items(q) = {}
      <4>1. Len(q) = 0
        BY <1>6, <2>1
      <4> QED BY <4>1 DEF Items
    <3> QED BY <1>2, <2>1, <3>1, <3>2
  <2>2. CASE ~ stop
    BY <1>2, <1>3, <2>2
  <2> QED BY <2>1, <2>2
<1>10. ~ freed /\ Freeing = {} /\ caller # "free"
  BY <1>5 DEF PoolInv, FreeingOK
<1> HIDE DEF left
<1>11. TypeOK'
  <2>1. immediate' \in BOOLEAN
    BY <1>2, Zenon
  <2>2. num_threads' \in 0 .. Cardinality(Threads)
    BY <1>2, <1>5 DEF left
  <2>3. pc' \in [Threads -> PC]
    BY <1>2 DEF PoolInv, TypeOK, PC
  <2>4. caller' \in Caller
    BY <1>2 DEF PoolInv, TypeOK, Caller
  <2>5. executed' \subseteq Tasks
    BY DEF PoolInv, TypeOK, DummyOK, Running
  <2> QED BY <1>1, <1>9, <2>1, <2>2, <2>3, <2>4, <2>5 DEF PoolInv, TypeOK
<1>12. Counted'
  BY <1>2, <1>5 DEF Counted
<1>13. PhaseOK'
  BY <1>1, <1>2, <1>3, <1>4, <1>5, <1>6, <1>7, <1>8, <1>9, <1>10
     DEF PoolInv, PhaseOK, TypeOK, FreeingOK
<1>14. FreeingOK'
  <2>1. CASE ~ free
    BY <1>1, <1>2, <1>4, <1>10, <2>1 DEF PoolInv, FreeingOK
  <2>2. CASE free
    <3>1. Freeing' = {t}
      BY <1>4, <1>10, <2>2
    <3>2. ~ running /\ ~ waiting /\ left = 0
      BY <1>7, <2>2
    <3>3. caller = "done" /\ caller' = "done"
      BY <1>2, <1>10, <3>2 DEF PoolInv, PhaseOK, TypeOK, Caller
    <3> QED BY <1>1, <1>2, <1>10, <3>1, <3>2, <3>3 DEF FreeingOK
  <2> QED BY <2>1, <2>2
<1>15. DummyOK'
  <2>1. Dummy \in Items(queue') => ~ running /\ immediate'
    BY <1>2, <1>3, <1>6 DEF PoolInv, DummyOK
  <2>2. \A u \in Running' : task'[u] \in Tasks
    BY <1>4, Kinds DEF PoolInv, DummyOK
  <2> QED BY <1>1, <2>1, <2>2 DEF DummyOK
<1>16. KnownOK'
  <2>1. executed' \subseteq pushed
    BY DEF PoolInv, KnownOK, Running
  <2> QED BY <1>1, <1>3, <1>4, <1>9, <2>1, Kinds DEF PoolInv, KnownOK
<1>17. KeptOK'
  <2> SUFFICES ASSUME ~ asked.immediate, NEW x \in pushed
               PROVE  \/ x \in executed' \/ x \in Items(queue')
                      \/ \E u \in Running' : task'[u] = x
    BY <1>1 DEF KeptOK
  <2>1. CASE x \in executed
    BY <2>1
  <2>2. CASE x \in Items(queue)
    <3>1. x # Dummy
      BY GThreadPoolAssumption DEF PoolInv, TypeOK
    <3>2. q = queue
      BY <1>3, <2>2, <3>1 DEF PoolInv, StoppedOK, TypeOK
    <3> QED BY <1>9, <2>2, <3>2
  <2>3. CASE \E u \in Running : task[u] = x
    BY <1>4, <2>3 DEF Running
  <2> QED BY <2>1, <2>2, <2>3 DEF PoolInv, KeptOK
<1>18. StoppedOK'
  <2> SUFFICES ASSUME ~ asked.immediate
               PROVE  /\ immediate' => Running' = {} /\ Items(queue') \subseteq {Dummy}
                      /\ caller' = "free" \/ Freeing' # {}
                             => Items(queue') \subseteq {Dummy}
    BY <1>1 DEF StoppedOK
  <2>1. CASE immediate
    <3>1. Running = {} /\ Items(queue) \subseteq {Dummy}
      BY <2>1 DEF PoolInv, StoppedOK
    <3> QED BY <1>3, <1>4, <1>9, <3>1
  <2>2. CASE stop
    BY <1>6, <1>9, <2>2
  <2>3. CASE ~ immediate /\ ~ stop
    <3>1. ~ immediate' /\ caller' # "free"
      BY <1>2, <1>10, <2>3
    <3>2. ASSUME Freeing' # {} PROVE Items(queue') \subseteq {Dummy}
      <4>1. free
        BY <1>4, <1>10, <3>2
      <4>2. Len(q) = 0
        BY <1>7, <1>8, <2>3, <4>1
      <4> QED BY <1>2, <2>3, <4>2 DEF Items
    <3> QED BY <3>1, <3>2
  <2> QED BY <2>1, <2>2, <2>3
<1>19. WaitedOK'
  BY <1>1, <1>2, <1>3, <1>4, <1>5, <1>6, <1>7, <1>8, <1>9, <1>10
     DEF PoolInv, WaitedOK, TypeOK, PhaseOK, FreeingOK
<1>20. LimitOK'
  <2> SUFFICES ASSUME max_threads = 0, ~ running, ~ immediate'
               PROVE  Len(queue') <= Cardinality(InPop')
    BY <1>1 DEF LimitOK
  <2>1. ~ immediate /\ queue' = queue /\ q = queue
    BY <1>2, <1>3
  <2>2. CASE Len(q) = 0
    BY <1>5, <2>1, <2>2
  <2>3. CASE Len(q) # 0
    <3>1. pc[t] \in {"start", "run"}
      BY <1>3, <2>1, <2>3 DEF MayLeave
    <3>2. InPop' = InPop
      BY <1>4, <3>1 DEF InPop
    <3> QED BY <2>1, <3>2 DEF PoolInv, LimitOK
  <2> QED BY <2>2, <2>3
<1>21. SleepOK'
  <2> SUFFICES ASSUME Asleep' # {}
               PROVE  Len(queue') <= Cardinality(Awake')
    BY DEF SleepOK
  <2>1. ~ stop /\ Awake' = Awake \ {t} /\ Asleep # {}
    BY <1>4
  <2>2. Len(queue) <= Cardinality(Awake)
    BY <2>1 DEF PoolInv, SleepOK
  <2>3. /\ Cardinality(Awake) \in Nat /\ Cardinality(Awake') \in Nat
        /\ t \in Awake => Cardinality(Awake') = Cardinality(Awake) - 1
    BY <2>1, Kinds, Sizes
  <2>4. Len(queue') = Len(q)
    BY <1>2, <2>1
  <2>5. CASE t \in Awake
    <3>1. Len(q) = 0 \/ Len(q) = Len(queue) - 1
      BY <1>3, <2>5 DEF Awake
    <3> QED BY <1>3, <2>2, <2>3, <2>5, <2>4, <3>1
  <2>6. CASE t \notin Awake
    <3>1. Awake' = Awake
      BY <2>1, <2>6
    <3> QED BY <1>3, <2>2, <2>3, <2>4, <3>1
  <2> QED BY <2>5, <2>6
<1>22. StaffedOK'
  <2> SUFFICES ASSUME queue' # <<>>, running \/ ~ immediate', max_threads # 0,
                      left = 0
               PROVE  FALSE
    BY <1>1, <1>2 DEF StaffedOK
  <2>1. ~ stop /\ queue' = q /\ (running \/ ~ immediate)
    BY <1>2, <1>6
  <2>2. Len(q) = 0
    BY <1>8, <2>1
  <2> QED BY <1>3, <2>1, <2>2
<1> QED
  BY <1>11, <1>12, <1>13, <1>14, <1>15, <1>16, <1>17, <1>18, <1>19, <1>20, <1>21,
     <1>22
     DEF PoolInv

\* A thread receives a task.
LEMMA ReceiveStep ==
  ASSUME PoolInv, NEW t \in Threads,
         pc[t] \in {"start", "run", "woken", "expired"},
         queue # <<>>, running \/ ~ immediate,
         pc[t] \in {"start", "run"} => max_threads = -1 \/ num_threads <= max_threads,
         executed' = IF pc[t] = "run" THEN executed \cup {task[t]} ELSE executed,
         task' = [task EXCEPT ![t] = Last(queue)],
         queue' = g_queue_pop_tail(queue), pc' = [pc EXCEPT ![t] = "run"],
         UNCHANGED <<num_threads, immediate, caller, pool, history>>
  PROVE  PoolInv'
<1>1. /\ exclusive' = exclusive /\ max_threads' = max_threads /\ running' = running
      /\ waiting' = waiting /\ sort_func' = sort_func /\ freed' = freed
      /\ asked' = asked /\ pushed' = pushed /\ handed' = handed /\ failed' = failed
      /\ num_threads' = num_threads /\ immediate' = immediate /\ caller' = caller
  BY DEF pool, history

<1>2. /\ queue \in Seq(Tasks \cup {Dummy}) /\ Len(queue) \in Nat /\ Len(queue) > 0
      /\ queue' \in Seq(Tasks \cup {Dummy}) /\ Len(queue') = Len(queue) - 1
      /\ Items(queue') \cup {Last(queue)} = Items(queue)
  <2>1. queue \in Seq(Tasks \cup {Dummy})
    BY DEF PoolInv, TypeOK
  <2> QED BY <2>1, ItemsPop
<1>3. Last(queue) \in Tasks /\ Last(queue) \in pushed
  <2>1. Last(queue) # Dummy
    BY <1>2 DEF PoolInv, DummyOK
  <2>2. Last(queue) \in pushed
    BY <1>2, <2>1 DEF PoolInv, KnownOK
  <2> QED BY <2>2 DEF PoolInv, TypeOK
<1>4. /\ Attached' = Attached /\ t \in Attached
      /\ InPop' = InPop \ {t} /\ Running' = Running \cup {t} /\ Freeing' = Freeing
      /\ Asleep' = Asleep /\ Awake' = Awake \ {t}
  BY DEF PoolInv, TypeOK, Attached, InPop, Running, Freeing, Asleep, Awake
<1>5. num_threads \in Nat /\ num_threads >= 1
  <2>1. Cardinality(Attached) \in Nat /\ Cardinality(Attached) # 0
    BY <1>4, Kinds, Sizes
  <2> QED BY <2>1 DEF PoolInv, Counted
<1>6. ~ freed /\ Freeing = {} /\ caller # "free" /\ ~ immediate
  BY <1>5 DEF PoolInv, FreeingOK, PhaseOK
<1>7. /\ \A u \in Threads : u # t => task'[u] = task[u]
      /\ task'[t] = Last(queue) /\ task' \in [Threads -> Tasks \cup {Dummy}]
  BY <1>3 DEF PoolInv, TypeOK
<1>8. TypeOK'
  <2>1. pc' \in [Threads -> PC]
    BY DEF PoolInv, TypeOK, PC
  <2>2. executed' \subseteq Tasks
    BY DEF PoolInv, TypeOK, DummyOK, Running
  <2> QED BY <1>1, <1>2, <1>7, <2>1, <2>2 DEF PoolInv, TypeOK
<1>9. Counted'
  BY <1>1, <1>4 DEF PoolInv, Counted
<1>10. PhaseOK'
  BY <1>1 DEF PoolInv, PhaseOK
<1>11. FreeingOK'
  BY <1>1, <1>4, <1>6 DEF PoolInv, FreeingOK
<1>12. DummyOK'
  <2>1. Dummy \in Items(queue') => ~ running /\ immediate
    BY <1>2 DEF PoolInv, DummyOK
  <2>2. \A u \in Running' : task'[u] \in Tasks
    BY <1>3, <1>4, <1>7, Kinds DEF PoolInv, DummyOK
  <2> QED BY <1>1, <2>1, <2>2 DEF DummyOK
<1>13. KnownOK'
  <2>1. executed' \subseteq pushed
    BY DEF PoolInv, KnownOK, Running
  <2>2. \A u \in Running' : task'[u] \in pushed
    BY <1>3, <1>4, <1>7, Kinds DEF PoolInv, KnownOK
  <2> QED BY <1>1, <1>2, <2>1, <2>2 DEF PoolInv, KnownOK
<1>14. KeptOK'
  <2> SUFFICES ASSUME ~ asked.immediate, NEW x \in pushed
               PROVE  \/ x \in executed' \/ x \in Items(queue')
                      \/ \E u \in Running' : task'[u] = x
    BY <1>1 DEF KeptOK
  <2>1. CASE x \in executed
    BY <2>1
  <2>2. CASE x \in Items(queue)
    BY <1>2, <1>4, <1>7, <2>2
  <2>3. CASE \E u \in Running : task[u] = x
    <3>1. PICK u \in Running : task[u] = x
      BY <2>3
    <3>2. CASE u = t
      BY <3>1, <3>2 DEF Running
    <3>3. CASE u # t
      BY <1>4, <1>7, <3>1, <3>3, Kinds
    <3> QED BY <3>2, <3>3
  <2> QED BY <2>1, <2>2, <2>3 DEF PoolInv, KeptOK
<1>15. StoppedOK'
  BY <1>1, <1>4, <1>6 DEF StoppedOK
<1>16. WaitedOK'
  BY <1>1, <1>6 DEF PoolInv, PhaseOK, WaitedOK
<1>17. LimitOK'
  <2> SUFFICES ASSUME max_threads = 0, ~ running
               PROVE  Len(queue') <= Cardinality(InPop')
    BY <1>1 DEF LimitOK
  <2>1. t \in InPop
    BY <1>5 DEF InPop
  <2>2. /\ Cardinality(InPop') = Cardinality(InPop) - 1
        /\ Cardinality(InPop) \in Nat
    BY <1>4, <2>1, Kinds, Sizes
  <2>3. Len(queue) <= Cardinality(InPop)
    BY DEF PoolInv, LimitOK
  <2> QED BY <1>2, <2>2, <2>3
<1>18. SleepOK'
  <2> SUFFICES ASSUME Asleep # {}
               PROVE  Len(queue') <= Cardinality(Awake')
    BY <1>4 DEF SleepOK
  <2>1. Len(queue) <= Cardinality(Awake)
    BY DEF PoolInv, SleepOK
  <2>2. /\ Cardinality(Awake) \in Nat
        /\ t \in Awake => Cardinality(Awake') = Cardinality(Awake) - 1
        /\ t \notin Awake => Cardinality(Awake') = Cardinality(Awake)
    <3>1. t \notin Awake => Awake' = Awake
      BY <1>4
    <3> QED BY <1>4, <3>1, Kinds, Sizes
  <2> QED BY <1>2, <2>1, <2>2
<1>19. StaffedOK'
  BY <1>1, <1>5 DEF StaffedOK
<1> QED
  BY <1>8, <1>9, <1>10, <1>11, <1>12, <1>13, <1>14, <1>15, <1>16, <1>17, <1>18, <1>19
     DEF PoolInv

\* A thread goes to sleep on the empty queue.
LEMMA SleepStep ==
  ASSUME PoolInv, NEW t \in Threads, queue = <<>>, queue' = queue,
         pc[t] \in {"start", "run", "woken"},
         executed' = IF pc[t] = "run" THEN executed \cup {task[t]} ELSE executed,
         task' \in [Threads -> Tasks \cup {Dummy}],
         \A u \in Threads : u # t => task'[u] = task[u],
         pc' = [pc EXCEPT ![t] = "asleep"],
         UNCHANGED <<num_threads, immediate, caller, pool, history>>
  PROVE  PoolInv'
<1>1. /\ exclusive' = exclusive /\ max_threads' = max_threads /\ running' = running
      /\ waiting' = waiting /\ sort_func' = sort_func /\ freed' = freed
      /\ asked' = asked /\ pushed' = pushed /\ handed' = handed /\ failed' = failed
      /\ num_threads' = num_threads /\ immediate' = immediate /\ caller' = caller
  BY DEF pool, history

<1>2. /\ queue' = <<>> /\ Len(queue') = 0 /\ Items(queue') = {} /\ Items(queue) = {}
  <2>1. Len(<<>>) = 0 /\ Items(<<>>) = {}
    BY DEF Items
  <2> QED BY <2>1
<1>3. /\ Attached' = Attached /\ t \in Attached /\ InPop' \in SUBSET Threads
      /\ Running' = Running \ {t} /\ Freeing' = Freeing /\ Awake' \in SUBSET Threads
  BY DEF PoolInv, TypeOK, Attached, InPop, Running, Freeing, Awake
<1>4. Cardinality(InPop') \in Nat /\ Cardinality(Awake') \in Nat
  BY <1>3, Sizes
<1>5. TypeOK'
  <2>1. pc' \in [Threads -> PC]
    BY DEF PoolInv, TypeOK, PC
  <2>2. executed' \subseteq Tasks
    BY DEF PoolInv, TypeOK, DummyOK, Running
  <2> QED BY <1>1, <2>1, <2>2 DEF PoolInv, TypeOK
<1>6. Counted'
  BY <1>1, <1>3 DEF PoolInv, Counted
<1>7. PhaseOK'
  BY <1>1 DEF PoolInv, PhaseOK
<1>8. FreeingOK'
  BY <1>1, <1>3 DEF PoolInv, FreeingOK
<1>9. DummyOK'
  BY <1>1, <1>2, <1>3, Kinds DEF PoolInv, DummyOK
<1>10. KnownOK'
  <2>1. executed' \subseteq pushed
    BY DEF PoolInv, KnownOK, Running
  <2> QED BY <1>1, <1>2, <1>3, <2>1, Kinds DEF PoolInv, KnownOK
<1>11. KeptOK'
  <2> SUFFICES ASSUME ~ asked.immediate, NEW x \in pushed
               PROVE  \/ x \in executed' \/ x \in Items(queue')
                      \/ \E u \in Running' : task'[u] = x
    BY <1>1 DEF KeptOK
  <2>1. CASE x \in executed
    BY <2>1
  <2>2. CASE \E u \in Running : task[u] = x
    BY <1>3, <2>2 DEF Running
  <2> QED BY <1>2, <2>1, <2>2 DEF PoolInv, KeptOK
<1>12. StoppedOK'
  BY <1>1, <1>2, <1>3 DEF PoolInv, StoppedOK
<1>13. WaitedOK'
  BY <1>1, <1>3 DEF PoolInv, WaitedOK
<1>14. LimitOK'
  BY <1>2, <1>4 DEF LimitOK
<1>15. SleepOK'
  BY <1>2, <1>4 DEF SleepOK
<1>16. StaffedOK'
  BY <1>2 DEF StaffedOK
<1> QED
  BY <1>5, <1>6, <1>7, <1>8, <1>9, <1>10, <1>11, <1>12, <1>13, <1>14, <1>15, <1>16
     DEF PoolInv

\* xthread_pool_wait_for_new_task.
LEMMA WaitStep ==
  ASSUME PoolInv, NEW t \in Threads, pc[t] \in {"start", "run"},
         xthread_pool_wait_for_new_task(t),
         executed' = IF pc[t] = "run" THEN executed \cup {task[t]} ELSE executed,
         UNCHANGED <<pool, history>>
  PROVE  PoolInv'
<1> DEFINE active == running \/ (~ immediate /\ Length > 0)
           superfluous == max_threads # -1 /\ num_threads > max_threads
<1>1. /\ task \in [Threads -> Tasks \cup {Dummy}] /\ queue \in Seq(Tasks \cup {Dummy})
      /\ Len(queue) \in Nat
      /\ num_threads \in Nat /\ max_threads \in Nat \cup {-1}
      /\ Cardinality(InPop) \in Nat
  <2>1. Cardinality(InPop) \in Nat
    BY Kinds, Sizes
  <2>2. num_threads \in Nat
    BY Sizes DEF PoolInv, TypeOK
  <2> QED BY <2>1, <2>2, GThreadPoolAssumption DEF PoolInv, TypeOK
<1>2. CASE (~ active \/ superfluous) /\ LeavePool(t, queue)
          /\ task' = [task EXCEPT ![t] = Dummy]
  <2>1. MayLeave(t, queue)
    BY <1>1, <1>2 DEF MayLeave, Length
  <2>2. /\ task' \in [Threads -> Tasks \cup {Dummy}]
        /\ \A u \in Threads : u # t => task'[u] = task[u]
    BY <1>1, <1>2
  <2> QED BY <1>2, <2>1, <2>2, LeaveStep
<1>3. CASE active /\ ~ superfluous /\ queue # <<>> /\ ReceiveTask(t)
  <2>1. CASE running \/ ~ immediate
    <3>1. max_threads = -1 \/ num_threads <= max_threads
      BY <1>1, <1>3
    <3>2. /\ task' = [task EXCEPT ![t] = Last(queue)]
          /\ queue' = g_queue_pop_tail(queue) /\ pc' = [pc EXCEPT ![t] = "run"]
          /\ UNCHANGED <<num_threads, immediate, caller>>
      BY <1>3, <2>1 DEF ReceiveTask
    <3> QED BY <1>3, <2>1, <3>1, <3>2, ReceiveStep
  <2>2. CASE ~ running /\ immediate
    BY <1>3, <2>2
  <2> QED BY <2>1, <2>2 DEF PoolInv, TypeOK
<1>4. CASE /\ active /\ queue = <<>> /\ pc' = [pc EXCEPT ![t] = "asleep"]
           /\ task' = [task EXCEPT ![t] = Dummy]
           /\ UNCHANGED <<queue, num_threads, immediate, caller>>
  <2>1. /\ task' \in [Threads -> Tasks \cup {Dummy}]
        /\ \A u \in Threads : u # t => task'[u] = task[u]
    BY <1>1, <1>4
  <2> QED BY <1>4, <2>1, SleepStep
<1> QED BY <1>2, <1>3, <1>4 DEF xthread_pool_wait_for_new_task

\* The pop returns to a thread.
LEMMA PopReturnsStep ==
  ASSUME PoolInv, NEW t \in Threads, PopReturns(t)
  PROVE  PoolInv'
<1>1. /\ task \in [Threads -> Tasks \cup {Dummy}] /\ pc[t] \in {"woken", "expired"}
      /\ executed' = IF pc[t] = "run" THEN executed \cup {task[t]} ELSE executed
      /\ UNCHANGED <<pool, history>>
  BY DEF PoolInv, TypeOK, PopReturns
<1>2. CASE queue # <<>> /\ ReceiveTask(t)
  <2>1. CASE running \/ ~ immediate
    <3>1. /\ task' = [task EXCEPT ![t] = Last(queue)]
          /\ queue' = g_queue_pop_tail(queue) /\ pc' = [pc EXCEPT ![t] = "run"]
          /\ UNCHANGED <<num_threads, immediate, caller>>
      BY <1>2, <2>1 DEF ReceiveTask
    <3> QED BY <1>1, <1>2, <2>1, <3>1, ReceiveStep
  <2>2. CASE ~ running /\ immediate
    <3>1. LeavePool(t, g_queue_pop_tail(queue)) /\ task' = [task EXCEPT ![t] = Dummy]
      BY <1>2, <2>2 DEF ReceiveTask
    <3>2. MayLeave(t, g_queue_pop_tail(queue))
      BY <1>2, <2>2 DEF MayLeave
    <3>3. /\ task' \in [Threads -> Tasks \cup {Dummy}]
          /\ \A u \in Threads : u # t => task'[u] = task[u]
      BY <1>1, <3>1
    <3> QED BY <1>1, <3>1, <3>2, <3>3, LeaveStep
  <2> QED BY <2>1, <2>2 DEF PoolInv, TypeOK
<1>3. CASE queue = <<>> /\ pc[t] = "expired" /\ LeavePool(t, queue) /\ task' = task
  <2>1. MayLeave(t, queue)
    BY <1>3 DEF MayLeave
  <2> QED BY <1>1, <1>3, <2>1, LeaveStep
<1>4. CASE /\ queue = <<>> /\ pc[t] = "woken" /\ pc' = [pc EXCEPT ![t] = "asleep"]
           /\ UNCHANGED <<queue, num_threads, immediate, caller, task>>
  BY <1>1, <1>4, SleepStep
<1> QED BY <1>1, <1>2, <1>3, <1>4 DEF PopReturns

\* xthread_pool_push: the new task has a sleeper to wake or a thread to start, or
\* there is a thread that will look at the queue.
LEMMA PushStep ==
  ASSUME PoolInv, NEW item \in Tasks, xthread_pool_push(item)
  PROVE  PoolInv'
<1>1. PICK S \in SUBSET Threads, all \in BOOLEAN :
       /\ IF Length >= 0 THEN Starts(1, max_threads, S, all) ELSE S = {} /\ all
       /\ num_threads' = num_threads + Cardinality(S)
       /\ failed' = (failed \/ ~ all)
       /\ StartAndSignal(S)
  BY DEF xthread_pool_push
<1>2. /\ caller = "using" /\ running /\ caller' = caller
      /\ exclusive' = exclusive /\ max_threads' = max_threads /\ running' = running
      /\ waiting' = waiting /\ sort_func' = sort_func /\ freed' = freed
      /\ immediate' = immediate /\ task' = task /\ executed' = executed
      /\ asked' = asked /\ handed' = handed /\ pushed' = pushed \cup {item}
  BY DEF xthread_pool_push, pool
<1>3. /\ queue \in Seq(Tasks \cup {Dummy}) /\ Len(queue) \in Nat
      /\ queue' \in Seq(Tasks \cup {Dummy}) /\ Len(queue') = Len(queue) + 1
      /\ Items(queue') = Items(queue) \cup {item}
  <2>1. queue \in Seq(Tasks \cup {Dummy}) /\ item \in Tasks \cup {Dummy}
            /\ Len(queue) \in Nat
    BY DEF PoolInv, TypeOK
  <2>2. PICK p \in 1 .. Len(queue) + 1 : queue' = InsertAt(queue, p, item)
    <3>1. CASE sort_func
      <4>1. queue' = g_queue_insert_sorted(queue, item, Less)
        BY <3>1 DEF xthread_pool_push
      <4>2. PICK p \in 1 .. Len(queue) + 1 :
               /\ \A i \in 1 .. p - 1 : <<queue[i], item>> \in Less
               /\ p <= Len(queue) => <<queue[p], item>> \notin Less
               /\ g_queue_insert_sorted(queue, item, Less) = InsertAt(queue, p, item)
        BY <2>1, InsertSorted, ZenonT(30)
      <4> QED BY <4>1, <4>2
    <3>2. CASE ~ sort_func
      <4>1. queue' = g_queue_push_head(queue, item) /\ 1 \in 1 .. Len(queue) + 1
        BY <2>1, <3>2 DEF xthread_pool_push
      <4> QED BY <2>1, <4>1, PushHead
    <3> QED BY <3>1, <3>2
  <2> QED BY <2>1, <2>2, ItemsInsert
<1>4. \A t \in S : pc[t] = "out"
  BY <1>1 DEF Starts
<1>5. /\ pc' \in [Threads -> PC]
      /\ Attached' = Attached \cup S /\ InPop' = InPop /\ Running' = Running
      /\ Freeing' = Freeing
      /\ Cardinality(Attached') = Cardinality(Attached) + Cardinality(S)
      /\ Cardinality(Awake) \in Nat
      /\ Asleep = {} => Asleep' = {}
      /\ Asleep # {} => Cardinality(Awake') = Cardinality(Awake) + 1
  BY <1>1, <1>4, SignalKinds
<1>6. item \in Tasks /\ item # Dummy /\ ~ freed /\ ~ immediate /\ Freeing = {}
          /\ ~ asked.wait
  BY <1>2, GThreadPoolAssumption DEF PoolInv, PhaseOK, FreeingOK
<1>7. TypeOK'
  <2>1. num_threads' \in 0 .. Cardinality(Threads)
    <3>1. num_threads' = Cardinality(Attached')
      BY <1>1, <1>5 DEF PoolInv, Counted
    <3>2. Attached' \in SUBSET Threads
      BY <1>5, Kinds
    <3>3. Cardinality(Threads) \in Nat
      BY Sizes
    <3> QED BY <3>1, <3>2, <3>3, Sizes
  <2>2. failed' \in BOOLEAN
    BY <1>1, Zenon
  <2> QED BY <1>2, <1>3, <1>5, <2>1, <2>2 DEF PoolInv, TypeOK
<1>8. Counted'
  BY <1>1, <1>5 DEF PoolInv, Counted
<1>9. PhaseOK'
  BY <1>2 DEF PoolInv, PhaseOK
<1>10. FreeingOK'
  BY <1>2, <1>5, <1>6 DEF FreeingOK
<1>11. DummyOK'
  BY <1>2, <1>3, <1>5, <1>6 DEF PoolInv, DummyOK
<1>12. KnownOK'
  BY <1>2, <1>3, <1>5 DEF PoolInv, KnownOK
<1>13. KeptOK'
  BY <1>2, <1>3, <1>5 DEF PoolInv, KeptOK
<1>14. StoppedOK'
  BY <1>2, <1>5, <1>6 DEF StoppedOK
<1>15. WaitedOK'
  BY <1>2 DEF WaitedOK
<1>16. LimitOK'
  BY <1>2 DEF LimitOK
<1>17. SleepOK'
  <2> SUFFICES ASSUME Asleep' # {} PROVE Len(queue') <= Cardinality(Awake')
    BY DEF SleepOK
  <2>1. Len(queue) <= Cardinality(Awake) /\ Cardinality(Awake') = Cardinality(Awake) + 1
    BY <1>5 DEF PoolInv, SleepOK
  <2> QED BY <1>3, <1>5, <2>1
<1>18. StaffedOK'
  <2> SUFFICES ASSUME max_threads # 0, ~ failed' PROVE num_threads' # 0
    BY <1>2 DEF StaffedOK
  <2>1. num_threads \in Nat /\ Cardinality(S) \in Nat /\ Cardinality(InPop) \in Nat
    BY Kinds, Sizes DEF PoolInv, TypeOK
  <2>2. CASE Length >= 0
    <3>1. all = TRUE
      BY <1>1
    <3>2. Starts(1, max_threads, S, TRUE)
      BY <1>1, <2>2, <3>1
    <3>3. max_threads \in MaxThreads
      BY DEF PoolInv, TypeOK
    <3>4. num_threads + Cardinality(S) # 0
      <4> DEFINE one == 1
      <4>1. one \in Nat /\ one # 0
        OBVIOUS
      <4>2. Starts(one, max_threads, S, TRUE)
        BY <3>2
      <4> HIDE DEF one
      <4> QED BY <3>3, <4>1, <4>2, StartsSome
    <3> QED BY <1>1, <3>4
  <2>3. CASE ~ (Length >= 0)
    <3>1. Cardinality(InPop) > 0
      BY <1>3, <2>1, <2>3 DEF Length
    <3>2. Cardinality(InPop) <= Cardinality(Attached)
              /\ Cardinality(Attached) = num_threads
      BY Kinds, Sizes DEF PoolInv, Counted
    <3> QED BY <1>1, <2>1, <3>1, <3>2
  <2> QED BY <2>2, <2>3
<1> QED
  BY <1>7, <1>8, <1>9, <1>10, <1>11, <1>12, <1>13, <1>14, <1>15, <1>16, <1>17, <1>18
     DEF PoolInv

\* xthread_pool_move_to_front.
LEMMA MoveStep ==
  ASSUME PoolInv, NEW item \in Tasks, xthread_pool_move_to_front(item)
  PROVE  PoolInv'
<1>1. /\ caller = "using" /\ running /\ caller' = caller
      /\ exclusive' = exclusive /\ max_threads' = max_threads /\ running' = running
      /\ waiting' = waiting /\ sort_func' = sort_func /\ freed' = freed
      /\ immediate' = immediate /\ task' = task /\ executed' = executed
      /\ num_threads' = num_threads
      /\ asked' = asked /\ handed' = handed /\ pushed' = pushed /\ failed' = failed
  BY DEF xthread_pool_move_to_front, pool, history
<1>2. /\ queue \in Seq(Tasks \cup {Dummy}) /\ Len(queue) \in Nat
      /\ queue' \in Seq(Tasks \cup {Dummy}) /\ Len(queue') = Len(queue)
      /\ Items(queue') = Items(queue)
  <2>1. queue \in Seq(Tasks \cup {Dummy}) /\ item \in Tasks \cup {Dummy}
            /\ Len(queue) \in Nat
    BY DEF PoolInv, TypeOK
  <2>2. /\ queue' = g_queue_push_tail(g_queue_remove(queue, {item}), item)
        /\ Contains(queue, item)
    BY DEF xthread_pool_move_to_front
  <2> QED BY <2>1, <2>2, ItemsMove
<1>3. /\ pc' \in [Threads -> PC]
      /\ Attached' = Attached \cup {} /\ InPop' = InPop /\ Running' = Running
      /\ Freeing' = Freeing
      /\ Cardinality(Awake) \in Nat
      /\ Asleep = {} => Asleep' = {}
      /\ Asleep # {} => Cardinality(Awake') = Cardinality(Awake) + 1
  BY SignalKinds DEF xthread_pool_move_to_front
<1>4. TypeOK'
  BY <1>1, <1>2, <1>3 DEF PoolInv, TypeOK
<1>5. Counted'
  BY <1>1, <1>3 DEF PoolInv, Counted
<1>6. PhaseOK'
  BY <1>1, <1>2, <1>3 DEF PoolInv, PhaseOK, TypeOK, FreeingOK
<1>7. FreeingOK'
  BY <1>1, <1>3 DEF PoolInv, PhaseOK, FreeingOK
<1>8. DummyOK'
  BY <1>1, <1>2, <1>3 DEF PoolInv, DummyOK, TypeOK, PhaseOK
<1>9. KnownOK'
  BY <1>1, <1>2, <1>3 DEF PoolInv, KnownOK, TypeOK, DummyOK
<1>10. KeptOK'
  BY <1>1, <1>2, <1>3 DEF PoolInv, KeptOK, TypeOK, DummyOK, StoppedOK
<1>11. StoppedOK'
  BY <1>1, <1>2, <1>3 DEF PoolInv, StoppedOK, TypeOK, PhaseOK, FreeingOK
<1>12. WaitedOK'
  BY <1>1, <1>2, <1>3 DEF PoolInv, WaitedOK, TypeOK, PhaseOK, FreeingOK
<1>13. LimitOK'
  BY <1>1, <1>2, <1>3 DEF PoolInv, LimitOK, TypeOK, PhaseOK
<1>14. SleepOK'
  BY <1>1, <1>2, <1>3 DEF PoolInv, SleepOK, TypeOK
<1>15. StaffedOK'
  <2>1. queue' # <<>> => queue # <<>>
    BY <1>2
  <2> QED BY <1>1, <2>1 DEF PoolInv, StaffedOK
<1> QED
  BY <1>4, <1>5, <1>6, <1>7, <1>8, <1>9, <1>10, <1>11, <1>12, <1>13, <1>14, <1>15
     DEF PoolInv

\* xthread_pool_set_max_threads: tasks that lie in the queue of a pool without
\* threads get one.
LEMMA SetMaxStep ==
  ASSUME PoolInv, NEW max \in MaxThreads, xthread_pool_set_max_threads(max)
  PROVE  PoolInv'
<1> DEFINE to_start == IF exclusive THEN max - num_threads ELSE Length
<1>1. PICK S \in SUBSET Threads, all \in BOOLEAN :
       /\ IF to_start > 0 THEN Starts(to_start, max, S, all) ELSE S = {} /\ all
       /\ num_threads' = num_threads + Cardinality(S)
       /\ failed' = (failed \/ ~ all)
       /\ pc' = [t \in Threads |-> IF t \in S THEN "start" ELSE pc[t]]
  BY DEF xthread_pool_set_max_threads
<1>2. /\ caller = "using" /\ running /\ caller' = caller /\ (exclusive => max # -1)
      /\ exclusive' = exclusive /\ max_threads' = max /\ running' = running
      /\ waiting' = waiting /\ sort_func' = sort_func /\ freed' = freed
      /\ immediate' = immediate /\ task' = task /\ executed' = executed
      /\ asked' = asked /\ handed' = handed /\ pushed' = pushed /\ queue' = queue
  BY DEF xthread_pool_set_max_threads
<1>3. \A t \in S : pc[t] = "out"
  BY <1>1 DEF Starts
<1>4. /\ pc' \in [Threads -> PC]
      /\ Attached' = Attached \cup S /\ InPop' = InPop /\ Running' = Running
      /\ Freeing' = Freeing /\ Asleep' = Asleep /\ Awake' = Awake
  BY <1>1, <1>3
     DEF PoolInv, TypeOK, PC, Attached, InPop, Running, Freeing, Asleep, Awake
<1>5. Cardinality(Attached') = Cardinality(Attached) + Cardinality(S)
  BY <1>3, <1>4, Kinds, SizesUnion DEF Attached
<1>6. ~ freed /\ ~ immediate /\ Freeing = {} /\ ~ asked.wait
  BY <1>2 DEF PoolInv, PhaseOK, FreeingOK
<1>7. TypeOK'
  <2>1. num_threads' \in 0 .. Cardinality(Threads)
    <3>1. num_threads' = Cardinality(Attached')
      BY <1>1, <1>5 DEF PoolInv, Counted
    <3>2. Attached' \in SUBSET Threads
      BY <1>4, Kinds
    <3>3. Cardinality(Threads) \in Nat
      BY Sizes
    <3> QED BY <3>1, <3>2, <3>3, Sizes
  <2>2. failed' \in BOOLEAN
    BY <1>1, Zenon
  <2> QED BY <1>2, <1>4, <2>1, <2>2 DEF PoolInv, TypeOK
<1>8. Counted'
  BY <1>1, <1>5 DEF PoolInv, Counted
<1>9. PhaseOK'
  BY <1>2 DEF PoolInv, PhaseOK
<1>10. FreeingOK'
  BY <1>2, <1>4, <1>6 DEF FreeingOK
<1>11. DummyOK'
  BY <1>2, <1>4 DEF PoolInv, DummyOK
<1>12. KnownOK'
  BY <1>2, <1>4 DEF PoolInv, KnownOK
<1>13. KeptOK'
  BY <1>2, <1>4 DEF PoolInv, KeptOK
<1>14. StoppedOK'
  BY <1>2, <1>4, <1>6 DEF StoppedOK
<1>15. WaitedOK'
  BY <1>2 DEF WaitedOK
<1>16. LimitOK'
  BY <1>2 DEF LimitOK
<1>17. SleepOK'
  BY <1>2, <1>4 DEF PoolInv, SleepOK
<1>18. StaffedOK'
  <2> SUFFICES ASSUME queue # <<>>, max # 0, ~ failed' PROVE num_threads' # 0
    BY <1>2 DEF StaffedOK
  <2>1. num_threads \in Nat /\ Cardinality(S) \in Nat
    BY Sizes DEF PoolInv, TypeOK
  <2>2. CASE num_threads # 0
    BY <1>1, <2>1, <2>2
  <2>3. CASE num_threads = 0
    <3>1. Cardinality(InPop) = 0
      <4>1. Attached = {}
        BY <2>3, Kinds, Sizes DEF PoolInv, Counted
      <4> QED BY <4>1, Kinds, Sizes
    <3>2. Len(queue) \in Nat \ {0}
      BY DEF PoolInv, TypeOK
    <3>3. max \in Nat \cup {-1}
      BY GThreadPoolAssumption
    <3>4. to_start \in Nat /\ to_start # 0 /\ to_start > 0
      BY <1>2, <2>3, <3>1, <3>2, <3>3 DEF Length
    <3>5. all = TRUE
      BY <1>1
    <3>6. Starts(to_start, max, S, TRUE)
      BY <1>1, <3>4, <3>5
    <3> HIDE DEF to_start
    <3> QED BY <1>1, <3>4, <3>6, StartsSome
  <2> QED BY <2>2, <2>3
<1> QED
  BY <1>7, <1>8, <1>9, <1>10, <1>11, <1>12, <1>13, <1>14, <1>15, <1>16, <1>17, <1>18
     DEF PoolInv

\* xthread_pool_set_sort_function.
LEMMA SetSortStep ==
  ASSUME PoolInv, NEW func \in BOOLEAN, xthread_pool_set_sort_function(func)
  PROVE  PoolInv'
<1>1. /\ caller = "using" /\ running /\ caller' = caller
      /\ exclusive' = exclusive /\ max_threads' = max_threads /\ running' = running
      /\ waiting' = waiting /\ sort_func' = func /\ freed' = freed
      /\ immediate' = immediate /\ task' = task /\ executed' = executed
      /\ num_threads' = num_threads /\ pc' = pc
      /\ asked' = asked /\ handed' = handed /\ pushed' = pushed /\ failed' = failed
      /\ queue' = IF func THEN g_queue_sort(queue, Less) ELSE queue
  BY DEF xthread_pool_set_sort_function, history
<1>2. /\ queue' \in Seq(Tasks \cup {Dummy}) /\ Len(queue') = Len(queue)
      /\ Items(queue') = Items(queue) /\ queue \in Seq(Tasks \cup {Dummy})
  <2>1. queue \in Seq(Tasks \cup {Dummy}) /\ Len(queue) \in Nat
    BY DEF PoolInv, TypeOK
  <2>2. CASE ~ func
    BY <1>1, <2>1, <2>2
  <2>3. CASE func
    <3>1. \A i \in 1 .. Len(queue) : queue[i] \in Tasks
      BY <1>1, <2>1 DEF PoolInv, DummyOK, Items
    <3>2. queue \in Seq(Tasks)
      BY <2>1, <3>1
    <3>3. /\ queue' \in Seq(Tasks) /\ Len(queue') = Len(queue)
          /\ Items(queue') = Items(queue)
      BY <1>1, <2>3, <3>2, ItemsSort
    <3>4. queue' \in Seq(Tasks \cup {Dummy})
      BY <3>3
    <3> QED BY <2>1, <3>3, <3>4
  <2> QED BY <2>2, <2>3
<1>3. /\ Attached' = Attached /\ InPop' = InPop /\ Running' = Running
      /\ Freeing' = Freeing /\ Asleep' = Asleep /\ Awake' = Awake
  BY <1>1 DEF Attached, InPop, Running, Freeing, Asleep, Awake
<1>4. TypeOK'
  BY <1>1, <1>2, <1>3 DEF PoolInv, TypeOK
<1>5. Counted'
  BY <1>1, <1>2, <1>3 DEF PoolInv, Counted, TypeOK
<1>6. PhaseOK'
  BY <1>1, <1>2, <1>3 DEF PoolInv, PhaseOK, TypeOK, FreeingOK
<1>7. FreeingOK'
  BY <1>1, <1>3 DEF PoolInv, PhaseOK, FreeingOK
<1>8. DummyOK'
  BY <1>1, <1>2, <1>3 DEF PoolInv, DummyOK, TypeOK, PhaseOK
<1>9. KnownOK'
  BY <1>1, <1>2, <1>3 DEF PoolInv, KnownOK, TypeOK, DummyOK
<1>10. KeptOK'
  BY <1>1, <1>2, <1>3 DEF PoolInv, KeptOK, TypeOK, DummyOK, StoppedOK
<1>11. StoppedOK'
  BY <1>1, <1>2, <1>3 DEF PoolInv, StoppedOK, TypeOK, PhaseOK, FreeingOK
<1>12. WaitedOK'
  BY <1>1, <1>2, <1>3 DEF PoolInv, WaitedOK, TypeOK, PhaseOK, FreeingOK
<1>13. LimitOK'
  BY <1>1, <1>2, <1>3 DEF PoolInv, LimitOK, TypeOK, PhaseOK
<1>14. SleepOK'
  BY <1>1, <1>2, <1>3 DEF PoolInv, SleepOK, TypeOK
<1>15. StaffedOK'
  <2>1. queue' # <<>> => queue # <<>>
    BY <1>2
  <2> QED BY <1>1, <2>1 DEF PoolInv, StaffedOK
<1> QED
  BY <1>4, <1>5, <1>6, <1>7, <1>8, <1>9, <1>10, <1>11, <1>12, <1>13, <1>14, <1>15
     DEF PoolInv

\* xthread_pool_free after its loop, at once or when the caller wakes up.
LEMMA AfterWaitStep ==
  ASSUME PoolInv, NEW imm \in BOOLEAN,
         running \/ (caller = "woken" /\ asked' = asked),
         running => imm \/ max_threads # 0 \/ Length = 0,
         running' = FALSE, asked' \in [immediate : BOOLEAN, wait : BOOLEAN],
         asked'.immediate = imm, asked'.wait => ~ MustWait(imm), FreeAfterWait(imm),
         UNCHANGED <<num_threads, exclusive, max_threads, sort_func, freed, task,
                     executed, pushed, handed, failed>>
  PROVE  PoolInv'
<1> DEFINE idle == imm \/ Length = - num_threads
<1>1. /\ exclusive' = exclusive /\ max_threads' = max_threads /\ running' = FALSE
      /\ sort_func' = sort_func /\ freed' = freed /\ num_threads' = num_threads
      /\ task' = task /\ executed' = executed
      /\ handed' = handed /\ pushed' = pushed /\ failed' = failed
  OBVIOUS
<1>2. /\ Len(queue) \in Nat
      /\ Length = - num_threads => Len(queue) = 0 /\ Items(queue) = {} /\ Running = {}
  <2>1. /\ Cardinality(InPop) \in Nat /\ Cardinality(Attached) \in Nat
        /\ Cardinality(InPop) <= Cardinality(Attached)
        /\ Cardinality(InPop) = Cardinality(Attached) => InPop = Attached
    BY Kinds, Sizes
  <2>2. Running \cap InPop = {} /\ Running \subseteq Attached
    BY DEF Running, InPop, Attached
  <2>3. Len(queue) \in Nat /\ num_threads = Cardinality(Attached)
    BY DEF PoolInv, TypeOK, Counted
  <2>4. ASSUME Length = - num_threads PROVE Len(queue) = 0 /\ Running = {}
    BY <2>1, <2>2, <2>3, <2>4 DEF Length
  <2>5. Len(queue) = 0 => Items(queue) = {}
    BY DEF Items
  <2> QED BY <2>3, <2>4, <2>5
<1>3. /\ ~ freed /\ Freeing = {} /\ (~ asked.immediate \/ imm)
      /\ immediate => imm
      /\ ~ running => (immediate <=> imm)
  <2>1. CASE running
    BY <2>1 DEF PoolInv, PhaseOK, FreeingOK
  <2>2. CASE ~ running
    BY <2>2 DEF PoolInv, PhaseOK, FreeingOK
  <2> QED BY <2>1, <2>2
<1>4. \/ /\ idle /\ num_threads = 0 /\ caller' = "free" /\ immediate' = imm
         /\ queue' = queue /\ waiting' = waiting /\ pc' = pc
      \/ /\ idle /\ num_threads # 0 /\ caller' = "done" /\ immediate' = TRUE
                /\ waiting' = FALSE
         /\ queue' = Dummies(num_threads) \o queue
         /\ pc' = [t \in Threads |-> IF t \in Asleep THEN "woken" ELSE pc[t]]
      \/ /\ ~ idle /\ caller' = "done" /\ immediate' = imm /\ waiting' = FALSE
         /\ queue' = queue /\ pc' = pc
  BY DEF FreeAfterWait
<1>5. /\ Attached' = Attached /\ InPop' = InPop /\ Running' = Running
      /\ Freeing' = Freeing
      /\ pc' = pc => Asleep' = Asleep /\ Awake' = Awake
      /\ pc' # pc => Asleep' = {}
      /\ pc' \in [Threads -> PC]
  <2>1. CASE pc' = pc
    BY <2>1 DEF PoolInv, TypeOK, Attached, InPop, Running, Freeing, Asleep, Awake
  <2>2. CASE pc' = [t \in Threads |-> IF t \in Asleep THEN "woken" ELSE pc[t]]
    BY <2>2 DEF PoolInv, TypeOK, PC, Attached, InPop, Running, Freeing, Asleep, Awake
  <2> QED BY <1>4, <2>1, <2>2
<1>6. /\ queue' \in Seq(Tasks \cup {Dummy}) /\ Items(queue) \subseteq Items(queue')
      /\ Items(queue') \subseteq Items(queue) \cup {Dummy}
  <2>1. queue \in Seq(Tasks \cup {Dummy}) /\ num_threads \in Nat
            /\ Dummy \in Tasks \cup {Dummy}
    BY Sizes DEF PoolInv, TypeOK
  <2>2. CASE queue' = queue
    BY <2>1, <2>2
  <2>3. CASE queue' = Dummies(num_threads) \o queue
    BY <2>1, <2>3, ItemsDummies
  <2> QED BY <1>4, <2>2, <2>3
<1>7. TypeOK'
  <2>1. immediate' \in BOOLEAN /\ waiting' \in BOOLEAN /\ caller' \in Caller
    BY <1>4 DEF PoolInv, TypeOK, Caller
  <2> QED BY <1>1, <1>5, <1>6, <2>1 DEF PoolInv, TypeOK
<1>8. Counted'
  BY <1>1, <1>5 DEF PoolInv, Counted
<1>9. PhaseOK'
  BY <1>1, <1>3, <1>4 DEF PhaseOK
<1>10. FreeingOK'
  BY <1>1, <1>3, <1>4, <1>5 DEF FreeingOK
<1>11. DummyOK'
  <2>1. Dummy \in Items(queue') => immediate'
    BY <1>3, <1>4 DEF PoolInv, DummyOK
  <2> QED BY <1>1, <1>5, <2>1 DEF PoolInv, DummyOK
<1>12. KnownOK'
  BY <1>1, <1>5, <1>6 DEF PoolInv, KnownOK
<1>13. KeptOK'
  BY <1>1, <1>3, <1>5, <1>6 DEF PoolInv, KeptOK
<1>14. StoppedOK'
  <2> SUFFICES ASSUME ~ imm
               PROVE  /\ immediate' => Running' = {} /\ Items(queue') \subseteq {Dummy}
                      /\ caller' = "free" \/ Freeing' # {}
                             => Items(queue') \subseteq {Dummy}
    BY DEF StoppedOK
  <2>1. CASE idle
    BY <1>2, <1>5, <1>6, <2>1
  <2>2. CASE ~ idle
    BY <1>3, <1>4, <1>5, <2>2
  <2> QED BY <2>1, <2>2
<1>15. WaitedOK'
  <2> SUFFICES ASSUME asked'.wait, caller' = "done" PROVE Running' = {} /\ immediate'
    BY DEF WaitedOK
  <2>1. Length = - num_threads \/ (imm /\ num_threads = 0)
    <3>1. ~ MustWait(imm)
      OBVIOUS
    <3> QED BY <3>1 DEF MustWait
  <2>2. Length = - num_threads /\ idle /\ num_threads # 0
    BY <1>4, <2>1
  <2> QED BY <1>2, <1>4, <1>5, <2>2
<1>16. LimitOK'
  <2> SUFFICES ASSUME max_threads = 0, ~ immediate'
               PROVE  Len(queue') <= Cardinality(InPop')
    BY <1>1 DEF LimitOK
  <2>1. queue' = queue /\ InPop' = InPop /\ ~ imm
    BY <1>4, <1>5
  <2>2. CASE running
    <3>1. Length = 0 /\ Cardinality(InPop) \in Nat
      BY <2>1, <2>2, Kinds, Sizes
    <3> QED BY <1>2, <2>1, <3>1 DEF Length
  <2>3. CASE ~ running
    BY <1>3, <2>1, <2>3 DEF PoolInv, LimitOK
  <2> QED BY <2>2, <2>3
<1>17. SleepOK'
  <2>1. Asleep' # {} => queue' = queue /\ Asleep' = Asleep /\ Awake' = Awake
    <3>1. CASE queue' = queue /\ pc' = pc
      BY <1>5, <3>1
    <3>2. CASE pc' = [t \in Threads |-> IF t \in Asleep THEN "woken" ELSE pc[t]]
      BY <3>2 DEF Asleep
    <3> QED BY <1>4, <3>1, <3>2
  <2> QED BY <2>1 DEF PoolInv, SleepOK
<1>18. StaffedOK'
  <2> SUFFICES ASSUME queue' # <<>>, ~ immediate', max_threads # 0, ~ failed
               PROVE  num_threads # 0
    BY <1>1 DEF StaffedOK
  <2>1. queue' = queue /\ ~ imm
    BY <1>4
  <2> QED BY <1>3, <2>1 DEF PoolInv, StaffedOK
<1> QED
  BY <1>7, <1>8, <1>9, <1>10, <1>11, <1>12, <1>13, <1>14, <1>15, <1>16, <1>17, <1>18
     DEF PoolInv

\* xthread_pool_free waits.
LEMMA FreeWaitsStep ==
  ASSUME PoolInv, NEW imm \in BOOLEAN,
         running \/ (caller = "woken" /\ asked' = asked),
         running => imm \/ max_threads # 0 \/ Length = 0,
         running' = FALSE, asked' \in [immediate : BOOLEAN, wait : BOOLEAN],
         asked'.immediate = imm, queue' = queue,
         pc' = pc, waiting' = TRUE, immediate' = imm, caller' = "wait",
         UNCHANGED <<num_threads, exclusive, max_threads, sort_func, freed, task,
                     executed, pushed, handed, failed>>
  PROVE  PoolInv'
<1>1. /\ exclusive' = exclusive /\ max_threads' = max_threads /\ running' = FALSE
      /\ sort_func' = sort_func /\ freed' = freed /\ num_threads' = num_threads
      /\ task' = task /\ executed' = executed /\ queue' = queue /\ pc' = pc
      /\ handed' = handed /\ pushed' = pushed /\ failed' = failed
      /\ waiting' = TRUE /\ immediate' = imm /\ caller' = "wait"
  OBVIOUS
<1>2. /\ ~ freed /\ Freeing = {} /\ (~ asked.immediate \/ imm)
      /\ immediate => imm
      /\ ~ running => (immediate <=> imm)
  <2>1. CASE running
    BY <2>1 DEF PoolInv, PhaseOK, FreeingOK
  <2>2. CASE ~ running
    BY <2>2 DEF PoolInv, PhaseOK, FreeingOK
  <2> QED BY <2>1, <2>2
<1>3. /\ Attached' = Attached /\ InPop' = InPop /\ Running' = Running
      /\ Freeing' = Freeing /\ Asleep' = Asleep /\ Awake' = Awake
  BY <1>1 DEF Attached, InPop, Running, Freeing, Asleep, Awake
<1>4. TypeOK'
  BY <1>1 DEF PoolInv, TypeOK, Caller
<1>5. Counted'
  BY <1>1, <1>2, <1>3 DEF PoolInv, Counted, TypeOK
<1>6. PhaseOK'
  BY <1>1, <1>2 DEF PhaseOK
<1>7. FreeingOK'
  BY <1>1, <1>2, <1>3 DEF FreeingOK
<1>8. DummyOK'
  BY <1>1, <1>2, <1>3 DEF PoolInv, DummyOK, TypeOK, PhaseOK
<1>9. KnownOK'
  BY <1>1, <1>2, <1>3 DEF PoolInv, KnownOK, TypeOK, DummyOK
<1>10. KeptOK'
  BY <1>1, <1>2, <1>3 DEF PoolInv, KeptOK, TypeOK, DummyOK, StoppedOK
<1>11. StoppedOK'
  BY <1>1, <1>2, <1>3 DEF StoppedOK
<1>12. WaitedOK'
  BY <1>1 DEF WaitedOK
<1>13. LimitOK'
  <2> SUFFICES ASSUME max_threads = 0, ~ imm PROVE Len(queue) <= Cardinality(InPop)
    BY <1>1, <1>3 DEF LimitOK
  <2>1. CASE running
    <3>1. Length = 0 /\ Cardinality(InPop) \in Nat /\ Len(queue) \in Nat
      BY <2>1, Kinds, Sizes DEF PoolInv, TypeOK
    <3> QED BY <3>1 DEF Length
  <2>2. CASE ~ running
    BY <1>2, <2>2 DEF PoolInv, LimitOK
  <2> QED BY <2>1, <2>2
<1>14. SleepOK'
  BY <1>1, <1>2, <1>3 DEF PoolInv, SleepOK, TypeOK
<1>15. StaffedOK'
  BY <1>1, <1>2, <1>3 DEF PoolInv, StaffedOK, TypeOK, PhaseOK
<1> QED
  BY <1>4, <1>5, <1>6, <1>7, <1>8, <1>9, <1>10, <1>11, <1>12, <1>13, <1>14, <1>15
     DEF PoolInv

\* xthread_pool_free, as it is called.
LEMMA FreeStep ==
  ASSUME PoolInv, NEW imm \in BOOLEAN, NEW wait \in BOOLEAN,
         xthread_pool_free(imm, wait)
  PROVE  PoolInv'
<1>1. /\ running /\ running' = FALSE /\ (imm \/ max_threads # 0 \/ Length = 0)
      /\ asked' = [immediate |-> imm, wait |-> wait]
      /\ UNCHANGED <<num_threads, exclusive, max_threads, sort_func, freed, task,
                     executed, pushed, handed, failed>>
  BY DEF xthread_pool_free
<1>2. /\ asked' \in [immediate : BOOLEAN, wait : BOOLEAN]
      /\ asked'.immediate = imm /\ asked'.wait = wait
  BY <1>1
<1>3. /\ running \/ (caller = "woken" /\ asked' = asked)
      /\ running => imm \/ max_threads # 0 \/ Length = 0
  BY <1>1
<1>4. CASE wait /\ MustWait(imm)
  <2>1. /\ queue' = queue /\ pc' = pc /\ waiting' = TRUE /\ immediate' = imm
        /\ caller' = "wait"
    BY <1>4 DEF xthread_pool_free
  <2> QED BY <1>1, <1>2, <1>3, <2>1, FreeWaitsStep
<1>5. CASE ~ (wait /\ MustWait(imm))
  <2>1. FreeAfterWait(imm)
    BY <1>5 DEF xthread_pool_free
  <2>2. asked'.wait => ~ MustWait(imm)
    BY <1>2, <1>5
  <2> QED BY <1>1, <1>2, <1>3, <2>1, <2>2, AfterWaitStep
<1> QED BY <1>4, <1>5

\* xthread_pool_free, when it looks again.
LEMMA FreeResumesStep ==
  ASSUME PoolInv, FreeResumes
  PROVE  PoolInv'
<1> DEFINE imm == asked.immediate
<1>1. /\ caller = "woken" /\ asked' = asked /\ running' = running
      /\ UNCHANGED <<num_threads, exclusive, max_threads, sort_func, freed, task,
                     executed, pushed, handed, failed>>
  BY DEF FreeResumes, history
<1>2. /\ asked' \in [immediate : BOOLEAN, wait : BOOLEAN] /\ imm \in BOOLEAN
      /\ asked'.immediate = imm
  BY <1>1 DEF PoolInv, TypeOK
<1>3. ~ running /\ running' = FALSE /\ waiting = TRUE /\ immediate = imm
  BY <1>1 DEF PoolInv, TypeOK, PhaseOK
<1>4. CASE MustWait(imm)
  <2>1. /\ queue' = queue /\ pc' = pc /\ waiting' = waiting /\ immediate' = immediate
        /\ caller' = "wait"
    BY <1>4 DEF FreeResumes
  <2>2. waiting' = TRUE /\ immediate' = imm
    BY <1>3, <2>1
  <2> HIDE DEF imm
  <2> QED BY <1>1, <1>2, <1>3, <2>1, <2>2, FreeWaitsStep
<1>5. CASE ~ MustWait(imm)
  <2>1. FreeAfterWait(imm)
    BY <1>5 DEF FreeResumes
  <2> HIDE DEF imm
  <2> QED BY <1>1, <1>2, <1>3, <1>5, <2>1, AfterWaitStep
<1> QED BY <1>4, <1>5

\* The steps of a thread in xthread_pool_thread_proxy.
LEMMA ThreadStepInv ==
  ASSUME PoolInv, NEW t \in Threads, ThreadStep(t)
  PROVE  PoolInv'
<1>1. CASE Enter(t)
  <2>1. /\ pc[t] \in {"start", "run"} /\ xthread_pool_wait_for_new_task(t)
        /\ executed' = IF pc[t] = "run" THEN executed \cup {task[t]} ELSE executed
        /\ UNCHANGED <<pool, history>>
    BY <1>1 DEF Enter
  <2> QED BY <2>1, WaitStep
<1>2. CASE FuncReturns(t)
  <2>1. /\ pc[t] \in {"start", "run"} /\ xthread_pool_wait_for_new_task(t)
        /\ executed' = IF pc[t] = "run" THEN executed \cup {task[t]} ELSE executed
        /\ UNCHANGED <<pool, history>>
    BY <1>2 DEF FuncReturns
  <2> QED BY <2>1, WaitStep
<1>3. CASE PopReturns(t)
  BY <1>3, PopReturnsStep
<1> QED BY <1>1, <1>2, <1>3 DEF ThreadStep

\* xthread_pool_new.
LEMMA InitInv ==
  ASSUME Init
  PROVE  PoolInv
<1>1. PICK S \in SUBSET Threads :
        /\ IF exclusive
           THEN Cardinality(S) <= max_threads /\ failed = (Cardinality(S) < max_threads)
           ELSE S = {} /\ failed = FALSE
        /\ pc = [t \in Threads |-> IF t \in S THEN "start" ELSE "out"]
        /\ num_threads = Cardinality(S)
  BY DEF Init
<1>2. /\ queue = <<>> /\ max_threads \in MaxThreads /\ exclusive \in BOOLEAN
      /\ running = TRUE /\ immediate = FALSE /\ waiting = FALSE
      /\ sort_func = FALSE /\ freed = FALSE /\ caller = "using"
      /\ task = [t \in Threads |-> Dummy]
      /\ asked = [immediate |-> FALSE, wait |-> FALSE]
      /\ pushed = {} /\ executed = {} /\ handed = <<>>
  BY DEF Init
<1>3. /\ Attached = S /\ InPop = {} /\ Running = {} /\ Freeing = {} /\ Asleep = {}
      /\ pc \in [Threads -> PC]
  BY <1>1 DEF Attached, InPop, Running, Freeing, Asleep, PC
<1>4. Items(queue) = {} /\ Len(queue) = 0
  BY <1>2 DEF Items
<1>5. failed \in BOOLEAN
  <2>1. CASE exclusive
    <3>1. failed = (Cardinality(S) < max_threads)
      BY <1>1, <2>1
    <3>2. CASE Cardinality(S) < max_threads
      BY <3>1, <3>2
    <3>3. CASE ~ (Cardinality(S) < max_threads)
      BY <3>1, <3>3
    <3> QED BY <3>2, <3>3
  <2>2. CASE ~ exclusive
    BY <1>1, <2>2
  <2> QED BY <2>1, <2>2
<1>6. TypeOK
  <2>1. num_threads \in 0 .. Cardinality(Threads)
    <3>1. Cardinality(Threads) \in Nat
      BY Sizes
    <3> QED BY <1>1, <3>1, Sizes
  <2>2. /\ queue \in Seq(Tasks \cup {Dummy}) /\ handed \in Seq(Tasks \cup {Dummy})
        /\ task \in [Threads -> Tasks \cup {Dummy}]
    BY <1>2
  <2>3. asked \in [immediate : BOOLEAN, wait : BOOLEAN]
    BY <1>2
  <2>4. /\ running \in BOOLEAN /\ immediate \in BOOLEAN /\ waiting \in BOOLEAN
        /\ sort_func \in BOOLEAN /\ freed \in BOOLEAN
    BY <1>2
  <2> QED BY <1>2, <1>3, <1>5, <2>1, <2>2, <2>3, <2>4 DEF TypeOK, Caller
<1>7. Counted
  BY <1>1, <1>3 DEF Counted
<1>8. PhaseOK /\ FreeingOK /\ DummyOK /\ KnownOK /\ KeptOK
  BY <1>2, <1>3, <1>4 DEF PhaseOK, FreeingOK, DummyOK, KnownOK, KeptOK
<1>9. StoppedOK /\ WaitedOK /\ LimitOK /\ SleepOK /\ StaffedOK
  BY <1>2, <1>3, <1>4 DEF StoppedOK, WaitedOK, LimitOK, SleepOK, StaffedOK
<1> QED BY <1>6, <1>7, <1>8, <1>9 DEF PoolInv

\* Every step preserves the invariant.
LEMMA NextInv ==
  ASSUME PoolInv, [Next]_vars
  PROVE  PoolInv'
<1>1. ASSUME NEW item \in Tasks, xthread_pool_push(item) PROVE PoolInv'
  BY <1>1, PushStep
<1>2. ASSUME NEW item \in Tasks, xthread_pool_move_to_front(item) PROVE PoolInv'
  BY <1>2, MoveStep
<1>3. ASSUME NEW max \in MaxThreads, xthread_pool_set_max_threads(max) PROVE PoolInv'
  BY <1>3, SetMaxStep
<1>4. ASSUME NEW func \in BOOLEAN, xthread_pool_set_sort_function(func) PROVE PoolInv'
  BY <1>4, SetSortStep
<1>5. ASSUME NEW imm \in BOOLEAN, NEW wait \in BOOLEAN, xthread_pool_free(imm, wait)
      PROVE PoolInv'
  BY <1>5, FreeStep
<1>6. ASSUME NEW t \in Threads, ThreadStep(t) PROVE PoolInv'
  BY <1>6, ThreadStepInv
<1>7. ASSUME NEW t \in Threads, Expire(t) PROVE PoolInv'
  BY <1>7, ExpireStep
<1>8. ASSUME NEW t \in Threads, SpuriousWakeup(t) PROVE PoolInv'
  BY <1>8, SpuriousStep
<1>9. CASE FreeResumes
  BY <1>9, FreeResumesStep
<1>10. CASE CallerWakes
  BY <1>10, CallerWakesStep
<1>11. CASE xthread_pool_free_internal
  BY <1>11, FreeInternalStep
<1>12. CASE UNCHANGED vars
  BY <1>12, StutterStep
<1> QED BY <1>1, <1>2, <1>3, <1>4, <1>5, <1>6, <1>7, <1>8, <1>9, <1>10, <1>11, <1>12
        DEF Next

\* The invariant holds throughout every behaviour.
THEOREM PoolInvariant == Spec => []PoolInv
<1>1. Init => PoolInv
  BY InitInv
<1>2. PoolInv /\ [Next]_vars => PoolInv'
  BY NextInv
<1> QED BY <1>1, <1>2, PTL DEF Spec

\* pool->num_threads counts exactly the threads in the pool or on their way to
\* it, so that the last to leave knows it, and xthread_pool_free_internal frees
\* the pool once and when nobody is left that could touch it, whether xthread_pool_free or the last thread calls it, and no
\* dummy of xthread_pool_wakeup_and_stop_all is passed to func.
THEOREM FreedByOne == Spec => []FreedOnce
<1>1. ASSUME PoolInv PROVE FreedOnce
  <2>1. freed => Attached = {} /\ caller = "done"
    BY <1>1, Kinds, Sizes DEF PoolInv, FreeingOK, Counted
  <2>2. Cardinality(Freeing) + (IF caller = "free" \/ freed THEN 1 ELSE 0) <= 1
    <3>1. CASE Freeing = {}
      <4>1. Cardinality(Freeing) = 0
        BY <3>1, FS_EmptySet
      <4> QED BY <4>1
    <3>2. CASE Freeing # {}
      <4>1. PICK t \in Freeing : TRUE
        BY <3>2
      <4>2. Freeing = {t} /\ ~ freed /\ caller # "free"
        BY <1>1, <4>1 DEF PoolInv, FreeingOK
      <4>3. Cardinality(Freeing) = 1
        BY <4>2, FS_Singleton
      <4> QED BY <4>2, <4>3
    <3> QED BY <3>1, <3>2
  <2>3. \A t \in Running : task[t] # Dummy
    BY <1>1, GThreadPoolAssumption DEF PoolInv, DummyOK
  <2>4. NumThreadsExact
    BY <1>1 DEF PoolInv, Counted, NumThreadsExact
  <2> QED BY <2>1, <2>2, <2>3, <2>4 DEF FreedOnce, Freeing
<1> QED BY <1>1, PoolInvariant, PTL

\* xthread_pool_free with immediate = FALSE: the pool is not freed before every
\* task pushed was executed; with wait_ = TRUE the call does not return before
\* the tasks are done.  In particular the test in xthread_pool_thread_proxy that
\* compares the length of the queue with the number of threads left stops the
\* others only when no task is queued or running.
THEOREM TasksProcessed == Spec => []AllTasksProcessed
<1>1. ASSUME PoolInv PROVE AllTasksProcessed
  <2>1. pushed \subseteq Tasks /\ Dummy \notin Tasks /\ executed \subseteq pushed
    BY <1>1, GThreadPoolAssumption DEF PoolInv, TypeOK, KnownOK
  <2>2. freed => Running = {} /\ Items(queue) = {}
    <3>1. freed => Attached = {} /\ queue = <<>>
      BY <1>1, Kinds, Sizes DEF PoolInv, FreeingOK, Counted
    <3>2. Items(<<>>) = {}
      BY DEF Items
    <3> QED BY <3>1, <3>2, Kinds
  <2>3. freed /\ ~ asked.immediate => executed = pushed
    BY <1>1, <2>1, <2>2 DEF PoolInv, KeptOK
  <2>4. caller = "done" /\ asked.wait => Running = {} /\ (immediate \/ freed)
    BY <1>1 DEF PoolInv, WaitedOK
  <2>5. caller = "done" /\ asked.wait /\ ~ asked.immediate => executed = pushed
    BY <1>1, <2>1, <2>3, <2>4 DEF PoolInv, KeptOK, StoppedOK
  <2> QED BY <2>3, <2>4, <2>5 DEF AllTasksProcessed
<1> QED BY <1>1, PoolInvariant, PTL

\* A task in the queue is never left to sleeping or departed threads: a push
\* wakes a sleeper or starts a thread, superfluous and expired threads leave only
\* if the queue is empty or others stay, unless the creation of a thread failed.
THEOREM TasksServed == Spec => []QueuedTasksServed
<1>1. ASSUME PoolInv PROVE QueuedTasksServed
  <2> SUFFICES ASSUME queue # <<>>, running \/ ~ immediate, max_threads # 0, ~ failed
               PROVE  Attached \ Asleep # {}
    BY DEF QueuedTasksServed
  <2>1. num_threads # 0
    BY <1>1 DEF PoolInv, StaffedOK
  <2>2. Attached # {}
    BY <1>1, <2>1, Kinds, Sizes DEF PoolInv, Counted
  <2>3. CASE Asleep = {}
    BY <2>2, <2>3
  <2>4. CASE Asleep # {}
    <3>1. Len(queue) \in Nat \ {0}
      BY <1>1 DEF PoolInv, TypeOK
    <3>2. Cardinality(Awake) # 0
      BY <1>1, <2>4, <3>1 DEF PoolInv, SleepOK
    <3>3. Awake # {}
      BY <3>2, FS_EmptySet
    <3> QED BY <3>3 DEF Awake, Attached, Asleep
  <2> QED BY <2>3, <2>4
<1> QED BY <1>1, PoolInvariant, PTL

-----------------------------------------------------------------------------
(***************************************************************************)
(* The threads between two pools, in GThreadPoolUnused.  Its three         *)
(* invariants are inductive together, once the progress of a call that     *)
(* changes the limits has its type: a pool in the queue and the threads in *)
(* the pop are pushed and taken one for one, whatever markers come behind  *)
(* it.                                                                     *)
(***************************************************************************)
\* The threads in a pop that do not sleep.
Taking == UnusedInPop \ UnusedAsleep

\* The progress of a call that changes the limits.
SetterOK ==
  setter \in [at : {"idle", "zero", "again", "excess", "count", "kill", "serial",
                    "push"}, n : Nat, then : SUBSET (Limits \cup {0})]

\* The inductive invariant.
UnusedInv ==
  /\ UnusedExact /\ PoolsHaveThreads /\ EntriesAreTaken
  /\ SetterOK

\* The number of threads of a kind.
LEMMA UnusedSizes ==
  ASSUME NEW A \in SUBSET Workers
  PROVE  /\ IsFiniteSet(A) /\ Cardinality(A) \in Nat
         /\ Cardinality(A) <= Cardinality(Workers)
         /\ Cardinality(A) = 0 <=> A = {}
         /\ \A x \in Workers \ A : Cardinality(A \cup {x}) = Cardinality(A) + 1
         /\ \A x \in A : Cardinality(A \ {x}) = Cardinality(A) - 1
         /\ \A B \in SUBSET A : /\ Cardinality(B) <= Cardinality(A)
                                /\ Cardinality(B) = Cardinality(A) => A = B
  BY GThreadPoolUnusedAssumption, FiniteSizes

\* Two kinds of them together.
LEMMA UnusedSizesUnion ==
  ASSUME NEW A \in SUBSET Workers, NEW B \in SUBSET Workers, A \cap B = {}
  PROVE  Cardinality(A \cup B) = Cardinality(A) + Cardinality(B)
<1>1. IsFiniteSet(A) /\ IsFiniteSet(B) /\ Cardinality(A) \in Nat /\ Cardinality(B) \in Nat
  BY UnusedSizes
<1>2. Cardinality(A \cup B) = Cardinality(A) + Cardinality(B) - Cardinality(A \cap B)
  BY <1>1, FS_Union
<1>3. Cardinality(A \cap B) = 0
  BY FS_EmptySet
<1> QED BY <1>1, <1>2, <1>3

\* Initially all threads are in a pool.
LEMMA InitUnused ==
  ASSUME UnusedInit PROVE UnusedInv
<1>1. UnusedTypeOK /\ SetterOK
  BY GThreadPoolUnusedAssumption
     DEF UnusedInit, UnusedTypeOK, Local, NoLocal, Stage, SetterOK
<1>2. Unused = {} /\ UnusedAsleep = {}
  BY DEF UnusedInit, Unused, UnusedAsleep
<1>3. unused_threads = Cardinality(Unused)
  BY <1>2, FS_EmptySet DEF UnusedInit
<1> QED BY <1>1, <1>2, <1>3
        DEF UnusedInv, UnusedExact, PoolsHaveThreads, EntriesAreTaken, UnusedInit

\* The kinds of threads.
LEMMA UnusedKinds ==
  /\ UnusedInPop \in SUBSET Workers /\ UnusedAsleep \in SUBSET UnusedInPop
  /\ UnusedAsleep \in SUBSET Workers
  /\ Unused \in SUBSET Workers /\ Taking \in SUBSET Workers
  BY DEF UnusedInPop, UnusedAsleep, Unused, Taking

\* The parts of the invariant that a step outside the pop can disturb.
LEMMA UnusedKept ==
  ASSUME UnusedInv, UnusedTypeOK', SetterOK', unused_threads' = Cardinality(Unused'),
         unused_thread_queue' = unused_thread_queue,
         UnusedInPop' = UnusedInPop, UnusedAsleep' = UnusedAsleep
  PROVE  UnusedInv'
<1>1. UnusedExact'
  BY DEF UnusedExact
<1>2. PoolsHaveThreads'
  BY DEF UnusedInv, PoolsHaveThreads
<1>3. EntriesAreTaken'
  BY DEF UnusedInv, EntriesAreTaken
<1> QED BY <1>1, <1>2, <1>3 DEF UnusedInv

\* A change of the limits: nothing but the limits and the progress of the call.
LEMMA SetterQuiet ==
  ASSUME UnusedInv,
         \/ \E max \in Limits : xthread_pool_set_max_unused_threads(max)
         \/ xthread_pool_stop_unused_threads
         \/ \E interval \in {0, 1} : xthread_pool_set_max_idle_time(interval)
         \/ SetZero \/ SetOldLimit \/ ReadUnused \/ SetKill \/ IncSerial
  PROVE  UnusedInv'
<1>1. UnusedTypeOK /\ SetterOK /\ unused_threads = Cardinality(Unused)
  BY DEF UnusedInv, UnusedExact
<1>2. max_unused_threads \in Int /\ unused_threads \in Nat
  BY <1>1, GThreadPoolUnusedAssumption DEF UnusedTypeOK
<1>3. SetterOK'
  <2>1. CASE \E max \in Limits : xthread_pool_set_max_unused_threads(max)
    BY <1>1, <2>1 DEF SetterOK, xthread_pool_set_max_unused_threads
  <2>2. CASE xthread_pool_stop_unused_threads
    BY <1>1, <2>2 DEF SetterOK, xthread_pool_stop_unused_threads, UnusedTypeOK
  <2>3. CASE \E interval \in {0, 1} : xthread_pool_set_max_idle_time(interval)
    BY <1>1, <2>3 DEF SetterOK, xthread_pool_set_max_idle_time
  <2>4. CASE SetOldLimit
    BY <1>1, <2>4 DEF SetterOK, SetOldLimit
  <2>5. CASE ReadUnused
    <3>1. SetterDone \in [at : {"idle", "again"}, n : Nat,
                             then : SUBSET (Limits \cup {0})]
      BY <1>1 DEF SetterOK, SetterDone
    <3>2. \/ setter' = SetterDone
          \/ \E n \in Nat : setter' = [setter EXCEPT !.at = "kill", !.n = n]
          \/ \E n \in Nat : setter' = [setter EXCEPT !.at = "serial", !.n = n]
      <4> DEFINE excess == unused_threads - max_unused_threads
      <4>1. excess \in Int
        BY <1>2
      <4>2. CASE setter.at = "excess" /\ excess > 0
        <5>1. setter' = [setter EXCEPT !.at = "kill", !.n = excess]
          BY <2>5, <4>2 DEF ReadUnused
        <5>2. excess \in Nat
          BY <4>1, <4>2
        <5> QED BY <5>1, <5>2
      <4>3. CASE setter.at = "excess" /\ ~ (excess > 0)
        BY <2>5, <4>3 DEF ReadUnused
      <4>4. CASE setter.at = "count"
        BY <1>2, <2>5, <4>4 DEF ReadUnused
      <4> QED BY <2>5, <4>2, <4>3, <4>4 DEF ReadUnused
    <3> QED BY <1>1, <3>1, <3>2 DEF SetterOK
  <2>6. CASE SetKill
    BY <1>1, <2>6 DEF SetterOK, SetKill
  <2>7. CASE IncSerial
    BY <1>1, <2>7 DEF SetterOK, IncSerial
  <2>8. CASE SetZero
    BY <1>1, <2>8 DEF SetterOK, SetZero
  <2> QED BY <2>1, <2>2, <2>3, <2>4, <2>5, <2>6, <2>7, <2>8
<1>4. /\ unused_thread_queue' = unused_thread_queue /\ stage' = stage
      /\ local' = local
      /\ unused_threads' = unused_threads
      /\ max_unused_threads' \in Limits \cup {0} /\ kill_unused_threads' \in Int
      /\ wakeup_thread_serial' \in Nat /\ max_idle_time' \in {0, 1}
  BY <1>1 DEF UnusedTypeOK, SetterOK, xthread_pool_set_max_unused_threads,
              xthread_pool_stop_unused_threads, xthread_pool_set_max_idle_time,
              SetZero, SetOldLimit, ReadUnused, SetKill, IncSerial, atomics
<1>5. UnusedTypeOK'
  BY <1>1, <1>4 DEF UnusedTypeOK
<1>6. Unused' = Unused /\ UnusedInPop' = UnusedInPop /\ UnusedAsleep' = UnusedAsleep
  BY <1>4 DEF Unused, UnusedInPop, UnusedAsleep
<1> QED BY <1>1, <1>3, <1>4, <1>5, <1>6, UnusedKept

\* The steps of a thread that neither enter nor leave the pop.
LEMMA ThreadQuiet ==
  ASSUME UnusedInv, NEW t \in Workers,
         \/ ReadMax(t) \/ ReadIdleTime(t) \/ ReadSerial(t)
         \/ CheckSuperfluous(t) \/ CompareSerial(t) \/ KillOrStay(t)
         \/ RereadMax(t) \/ RereadIdleTime(t)
  PROVE  UnusedInv'
<1>1. UnusedTypeOK /\ SetterOK /\ unused_threads = Cardinality(Unused)
  BY DEF UnusedInv, UnusedExact
<1>2. /\ unused_thread_queue' = unused_thread_queue /\ setter' = setter
      /\ unused_threads' = unused_threads
      /\ max_unused_threads' = max_unused_threads
      /\ wakeup_thread_serial' = wakeup_thread_serial
      /\ max_idle_time' = max_idle_time
      /\ kill_unused_threads' \in Int
  BY <1>1
     DEF UnusedTypeOK, ReadMax, ReadIdleTime, ReadSerial, CheckSuperfluous,
         CompareSerial, KillOrStay, RereadMax, RereadIdleTime, atomics
<1>3. PICK to \in Stage :
           /\ stage' = [stage EXCEPT ![t] = to]
           /\ to \notin {"asleep", "woken", "expired"}
           /\ stage[t] \notin {"asleep", "woken", "expired"}
           /\ to \in {"none", "work", "idle", "serial", "inc"}
                <=> stage[t] \in {"none", "work", "idle", "serial", "inc"}
  BY <1>1 DEF UnusedTypeOK, Stage, Goto, ReadMax, ReadIdleTime, ReadSerial,
              CheckSuperfluous, CompareSerial, KillOrStay, RereadMax, RereadIdleTime
<1>4. Unused' = Unused /\ UnusedInPop' = UnusedInPop /\ UnusedAsleep' = UnusedAsleep
  <2>1. stage'[t] = to /\ \A u \in Workers : u # t => stage'[u] = stage[u]
    BY <1>1, <1>3 DEF UnusedTypeOK
  <2>2. Unused' = Unused
    BY <1>3, <2>1 DEF Unused
  <2>3. UnusedInPop' = UnusedInPop /\ UnusedAsleep' = UnusedAsleep
    BY <1>3, <2>1 DEF UnusedInPop, UnusedAsleep
  <2> QED BY <2>2, <2>3
<1>5. local' \in [Workers -> Local]
  <2>1. local \in [Workers -> Local] /\ local[t] \in Local
    BY <1>1 DEF UnusedTypeOK
  <2>2. CASE ReadMax(t) \/ RereadMax(t)
    <3>1. local' = [local EXCEPT ![t].max = max_unused_threads]
      BY <2>2 DEF ReadMax, RereadMax
    <3>2. [local[t] EXCEPT !.max = max_unused_threads] \in Local
      <4>1. max_unused_threads \in Limits \cup {0}
        BY <1>1 DEF UnusedTypeOK
      <4> QED BY ONLY <2>1, <4>1 DEF Local
    <3> QED BY ONLY <2>1, <3>1, <3>2
  <2>3. CASE ReadSerial(t)
    BY <1>1, <2>1, <2>3 DEF ReadSerial, Local, UnusedTypeOK
  <2>4. CASE CompareSerial(t)
    <3>1. \/ local' = local
          \/ local' = [local EXCEPT ![t].serial = wakeup_thread_serial]
      BY <2>4 DEF CompareSerial
    <3> QED BY <1>1, <2>1, <3>1 DEF Local, UnusedTypeOK
  <2>5. CASE ReadIdleTime(t) \/ RereadIdleTime(t)
    <3>1. \/ local' = [local EXCEPT ![t].idle = max_idle_time]
          \/ local' = [local EXCEPT ![t].idle = max_idle_time, ![t].relayed = FALSE]
      BY <2>5 DEF ReadIdleTime, RereadIdleTime
    <3>2. /\ [local[t] EXCEPT !.idle = max_idle_time] \in Local
          /\ [local[t] EXCEPT !.idle = max_idle_time, !.relayed = FALSE] \in Local
      <4>1. max_idle_time \in {0, 1}
        BY <1>1 DEF UnusedTypeOK
      <4> QED BY ONLY <2>1, <4>1 DEF Local
    <3> QED BY ONLY <2>1, <3>1, <3>2
  <2>6. CASE CheckSuperfluous(t) \/ KillOrStay(t)
    BY <2>1, <2>6 DEF CheckSuperfluous, KillOrStay
  <2> QED BY <2>2, <2>3, <2>4, <2>5, <2>6
<1>6. UnusedTypeOK'
  <2>1. stage' \in [Workers -> Stage]
    BY <1>1, <1>3 DEF UnusedTypeOK
  <2> QED BY <1>1, <1>2, <1>5, <2>1 DEF UnusedTypeOK
<1>7. SetterOK'
  BY <1>1, <1>2 DEF SetterOK
<1> QED BY <1>1, <1>2, <1>4, <1>6, <1>7, UnusedKept

\* A thread becomes unused.
LEMMA IncUnusedStep ==
  ASSUME UnusedInv, NEW t \in Workers, IncUnused(t)
  PROVE  UnusedInv'
<1>1. UnusedTypeOK /\ SetterOK /\ unused_threads = Cardinality(Unused)
  BY DEF UnusedInv, UnusedExact
<1>2. /\ stage' = [stage EXCEPT ![t] = "check"] /\ stage[t] = "inc"
      /\ unused_threads' = unused_threads + 1
  BY DEF IncUnused, Goto
<1>3. /\ Unused' = Unused \cup {t} /\ t \notin Unused
      /\ UnusedInPop' = UnusedInPop /\ UnusedAsleep' = UnusedAsleep
  BY <1>1, <1>2 DEF Unused, UnusedInPop, UnusedAsleep, UnusedTypeOK
<1>4. unused_threads' = Cardinality(Unused')
  BY <1>1, <1>2, <1>3, UnusedKinds, UnusedSizes
<1>5. UnusedTypeOK' /\ SetterOK' /\ unused_thread_queue' = unused_thread_queue
  BY <1>1, <1>2 DEF UnusedTypeOK, SetterOK, IncUnused, Stage
<1> QED BY <1>3, <1>4, <1>5, UnusedKept

\* A thread stops or goes to its pool.
LEMMA LeaveUnusedStep ==
  ASSUME UnusedInv, NEW t \in Workers, Leave(t)
  PROVE  UnusedInv'
<1>1. UnusedTypeOK /\ SetterOK /\ unused_threads = Cardinality(Unused)
  BY DEF UnusedInv, UnusedExact
<1>2. /\ \E to \in {"none", "work"} : stage' = [stage EXCEPT ![t] = to]
      /\ stage[t] = "leave" /\ unused_threads' = unused_threads - 1
  BY DEF Leave, Goto
<1>3. /\ Unused' = Unused \ {t} /\ t \in Unused
      /\ UnusedInPop' = UnusedInPop /\ UnusedAsleep' = UnusedAsleep
  BY <1>1, <1>2 DEF Unused, UnusedInPop, UnusedAsleep, UnusedTypeOK
<1>4. unused_threads' = Cardinality(Unused') /\ unused_threads' \in Nat
  <2>1. Unused \in SUBSET Workers /\ Unused' \in SUBSET Workers
    BY <1>3, UnusedKinds
  <2> QED BY <1>1, <1>2, <1>3, <2>1, UnusedSizes
<1>5. stage' \in [Workers -> Stage] /\ local' \in [Workers -> Local]
  BY <1>1, <1>2, GThreadPoolUnusedAssumption
     DEF UnusedTypeOK, Leave, Stage, NoLocal, Local
<1>6. UnusedTypeOK' /\ SetterOK' /\ unused_thread_queue' = unused_thread_queue
  BY <1>1, <1>4, <1>5 DEF UnusedTypeOK, SetterOK, Leave
<1> QED BY <1>3, <1>4, <1>6, UnusedKept

\* A thread that waits, or comes to the queue, takes the tail.
LEMMA ReceiveUnusedStep ==
  ASSUME UnusedInv, NEW t \in Workers, stage[t] \in {"pop", "woken", "expired"},
         unused_thread_queue # <<>>, Receive(t),
         UNCHANGED <<atomics, setter, starts, changes>>
  PROVE  UnusedInv'
<1> DEFINE q == unused_thread_queue
<1>1. UnusedTypeOK /\ SetterOK /\ unused_threads = Cardinality(Unused)
  BY DEF UnusedInv, UnusedExact
<1>2. /\ q' \in Seq(Pools \cup {Marker}) /\ Len(q') = Len(q) - 1 /\ Len(q) \in Nat
      /\ \A i \in 1 .. Len(q') : q'[i] = q[i]
  <2>1. q' = g_queue_pop_tail(q) /\ q \in Seq(Pools \cup {Marker})
    BY <1>1 DEF Receive, UnusedTypeOK
  <2> QED BY <2>1, PopTail
<1>3. Last(q) \in Pools \cup {Marker}
  BY <1>1, ItemsPop DEF UnusedTypeOK
<1>4. PICK to \in {"marker", "leave"} : stage' = [stage EXCEPT ![t] = to]
  BY DEF Receive, Goto
<1>5. stage'[t] = to /\ \A u \in Workers : u # t => stage'[u] = stage[u]
  BY <1>1, <1>4 DEF UnusedTypeOK
<1>6. local' \in [Workers -> Local]
  <2>1. local \in [Workers -> Local] /\ local[t] \in Local
    BY <1>1 DEF UnusedTypeOK
  <2>2. local' = local \/ \E p \in Pools : local' = [local EXCEPT ![t].pool = p]
    BY <1>3 DEF Receive
  <2> QED BY <2>1, <2>2 DEF Local
<1>7. UnusedTypeOK' /\ SetterOK'
  <2>1. stage' \in [Workers -> Stage]
    BY <1>1, <1>4 DEF UnusedTypeOK, Stage
  <2>2. /\ unused_threads' = unused_threads
        /\ kill_unused_threads' = kill_unused_threads
        /\ max_unused_threads' = max_unused_threads
        /\ wakeup_thread_serial' = wakeup_thread_serial
        /\ max_idle_time' = max_idle_time
        /\ setter' = setter
    BY DEF atomics
  <2> QED BY <1>1, <1>2, <1>6, <2>1, <2>2 DEF UnusedTypeOK, SetterOK
<1>8. /\ Unused' = Unused /\ UnusedInPop' = UnusedInPop \ {t}
      /\ UnusedAsleep' = UnusedAsleep
      /\ Taking' = Taking \ {t}
  <2>1. Unused' = Unused
    BY <1>4, <1>5 DEF Unused
  <2>2. UnusedInPop' = UnusedInPop \ {t} /\ UnusedAsleep' = UnusedAsleep
    BY <1>4, <1>5 DEF UnusedInPop, UnusedAsleep
  <2> QED BY <2>1, <2>2 DEF Taking
<1>9. UnusedExact'
  BY <1>1, <1>7, <1>8 DEF UnusedExact, atomics
<1>10. /\ Cardinality(UnusedInPop) \in Nat /\ Cardinality(Taking) \in Nat
       /\ Cardinality(UnusedInPop') >= Cardinality(UnusedInPop) - 1
       /\ Cardinality(Taking') >= Cardinality(Taking) - 1
       /\ Cardinality(UnusedInPop') \in Nat /\ Cardinality(Taking') \in Nat
  <2>1. /\ UnusedInPop \in SUBSET Workers /\ Taking \in SUBSET Workers
        /\ UnusedInPop \ {t} \in SUBSET Workers /\ Taking \ {t} \in SUBSET Workers
    BY UnusedKinds
  <2>2. ASSUME NEW A \in SUBSET Workers
        PROVE  /\ Cardinality(A) \in Nat /\ Cardinality(A \ {t}) \in Nat
               /\ Cardinality(A \ {t}) >= Cardinality(A) - 1
    <3>1. Cardinality(A) \in Nat /\ Cardinality(A \ {t}) \in Nat
      BY UnusedSizes
    <3>2. CASE t \in A
      BY <3>1, <3>2, UnusedSizes
    <3>3. CASE t \notin A
      <4>1. A \ {t} = A
        BY <3>3
      <4>2. Cardinality(A \ {t}) = Cardinality(A)
        BY <4>1
      <4> QED BY <3>1, <4>2
    <3> QED BY <3>2, <3>3
  <2> QED BY <1>8, <2>1, <2>2
<1>11. PoolsHaveThreads'
  <2>1. ASSUME NEW i \in 1 .. Len(q'), q'[i] # Marker
        PROVE  Len(q') - i + 1 <= Cardinality(UnusedInPop')
    <3>1. i \in 1 .. Len(q) /\ q[i] # Marker
      BY <1>2, <2>1
    <3>2. Len(q) - i + 1 <= Cardinality(UnusedInPop)
      BY <3>1 DEF UnusedInv, PoolsHaveThreads
    <3> QED BY <1>2, <1>10, <3>2
  <2> QED BY <2>1 DEF PoolsHaveThreads
<1>12. EntriesAreTaken'
  <2>1. ASSUME UnusedAsleep' # {} PROVE Len(q') <= Cardinality(Taking')
    <3>1. Len(q) <= Cardinality(Taking)
      BY <1>8, <2>1 DEF UnusedInv, EntriesAreTaken, Taking
    <3> QED BY <1>2, <1>10, <3>1
  <2> QED BY <2>1 DEF EntriesAreTaken, Taking
<1> QED BY <1>7, <1>9, <1>11, <1>12 DEF UnusedInv

\* A thread whose pop finds nothing: it sleeps, or gives up.
LEMMA EmptyPopStep ==
  ASSUME UnusedInv, NEW t \in Workers, stage[t] \in {"pop", "woken", "expired"},
         unused_thread_queue = <<>>, unused_thread_queue' = unused_thread_queue,
         NEW to \in {"asleep", "leave"}, Goto(t, to), local' = local,
         UNCHANGED <<atomics, setter, starts, changes>>
  PROVE  UnusedInv'
<1>1. UnusedTypeOK /\ SetterOK /\ unused_threads = Cardinality(Unused)
  BY DEF UnusedInv, UnusedExact
<1>2. stage'[t] = to /\ \A u \in Workers : u # t => stage'[u] = stage[u]
  BY <1>1 DEF UnusedTypeOK, Goto
<1>3. Unused' = Unused
  BY <1>2 DEF Unused
<1>4. UnusedTypeOK' /\ SetterOK'
  BY <1>1 DEF UnusedTypeOK, SetterOK, Goto, Stage, atomics
<1>5. Len(unused_thread_queue') = 0
  OBVIOUS
<1>6. Cardinality(Taking') \in Nat
  <2>1. Taking' \in SUBSET Workers
    BY DEF Taking, UnusedInPop
  <2> QED BY <2>1, UnusedSizes
<1>7. UnusedExact'
  BY <1>1, <1>3, <1>4 DEF UnusedExact, atomics
<1>8. PoolsHaveThreads' /\ EntriesAreTaken'
  BY <1>5, <1>6 DEF PoolsHaveThreads, EntriesAreTaken, Taking
<1> QED BY <1>4, <1>7, <1>8 DEF UnusedInv

\* A thread that sleeps, or is awake, is out of time or woken up.
LEMMA WakeStep ==
  ASSUME UnusedInv, NEW t \in Workers, UnusedExpire(t) \/ UnusedSpurious(t)
  PROVE  UnusedInv'
<1>1. UnusedTypeOK /\ SetterOK /\ unused_threads = Cardinality(Unused)
  BY DEF UnusedInv, UnusedExact
<1>2. PICK to \in {"woken", "expired"} : stage' = [stage EXCEPT ![t] = to]
  BY DEF UnusedExpire, UnusedSpurious, Goto
<1>3. /\ stage'[t] = to /\ \A u \in Workers : u # t => stage'[u] = stage[u]
      /\ stage[t] \in {"asleep", "woken"}
  BY <1>1, <1>2 DEF UnusedTypeOK, UnusedExpire, UnusedSpurious
<1>4. Unused' = Unused
  BY <1>2, <1>3 DEF Unused
<1>5. UnusedInPop' = UnusedInPop /\ UnusedAsleep' = UnusedAsleep \ {t}
          /\ Taking \in SUBSET Taking'
  <2>1. UnusedInPop' = UnusedInPop
    BY <1>2, <1>3 DEF UnusedInPop
  <2>2. UnusedAsleep' = UnusedAsleep \ {t}
    BY <1>2, <1>3 DEF UnusedAsleep
  <2> QED BY <2>1, <2>2 DEF Taking
<1>6. UnusedTypeOK' /\ SetterOK' /\ unused_thread_queue' = unused_thread_queue
  BY <1>1, <1>2
     DEF UnusedTypeOK, SetterOK, Stage, atomics, UnusedExpire, UnusedSpurious
<1>7. UnusedExact'
  BY <1>1, <1>4, <1>6
     DEF UnusedExact, atomics, UnusedExpire, UnusedSpurious
<1>8. PoolsHaveThreads'
  BY <1>5, <1>6 DEF UnusedInv, PoolsHaveThreads
<1>9. EntriesAreTaken'
  <2>1. Taking' \in SUBSET Workers
    BY DEF Taking, UnusedInPop
  <2>2. /\ Cardinality(Taking) \in Nat /\ Cardinality(Taking') \in Nat
        /\ Cardinality(Taking) <= Cardinality(Taking')
    BY <1>5, <2>1, UnusedKinds, UnusedSizes
  <2>3. Len(unused_thread_queue) \in Nat
    BY <1>1 DEF UnusedTypeOK
  <2>4. ASSUME UnusedAsleep' # {}
        PROVE  Len(unused_thread_queue') <= Cardinality(Taking')
    <3>1. Len(unused_thread_queue) <= Cardinality(Taking)
      BY <1>5, <2>4 DEF UnusedInv, EntriesAreTaken, Taking
    <3> QED BY <1>6, <2>2, <2>3, <3>1
  <2> QED BY <2>4 DEF EntriesAreTaken, Taking
<1> QED BY <1>6, <1>7, <1>8, <1>9 DEF UnusedInv

\* Entries are pushed at the head, and as many sleepers as there are entries, or
\* all of them, are woken up.
LEMMA PushUnused ==
  ASSUME UnusedInv, NEW n \in Nat, NEW head \in Seq(Pools \cup {Marker}),
         Len(head) = n, unused_thread_queue' = head \o unused_thread_queue,
         (\A i \in 1 .. n : head[i] = Marker)
           \/ (n = 1 /\ Len(unused_thread_queue) < Cardinality(UnusedInPop)),
         NEW W \in SUBSET UnusedAsleep, Cardinality(W) = n \/ W = UnusedAsleep,
         UnusedAsleep' = UnusedAsleep \ W, UnusedInPop' = UnusedInPop, Unused' = Unused,
         unused_threads' = unused_threads, UnusedTypeOK', SetterOK'
  PROVE  UnusedInv'
<1> DEFINE q == unused_thread_queue
<1>1. UnusedTypeOK /\ SetterOK /\ unused_threads = Cardinality(Unused)
  BY DEF UnusedInv, UnusedExact
<1>2. /\ q \in Seq(Pools \cup {Marker}) /\ Len(q) \in Nat /\ Len(q') = n + Len(q)
      /\ \A i \in 1 .. n + Len(q) : q'[i] = IF i <= n THEN head[i] ELSE q[i - n]
  <2>1. q \in Seq(Pools \cup {Marker}) /\ q' = head \o q
    BY <1>1 DEF UnusedTypeOK
  <2>2. /\ Len(head \o q) = n + Len(q) /\ Len(q) \in Nat
        /\ \A i \in 1 .. n + Len(q) :
             (head \o q)[i] = IF i <= n THEN head[i] ELSE q[i - n]
    BY <2>1, ConcatProperties, LenProperties
  <2> HIDE DEF q
  <2> QED BY <2>1, <2>2
<1>3. Cardinality(UnusedInPop) \in Nat /\ Cardinality(Taking) \in Nat
  BY UnusedKinds, UnusedSizes
<1>4. UnusedExact'
  BY <1>1 DEF UnusedExact
<1>5. PoolsHaveThreads'
  <2>1. ASSUME NEW i \in 1 .. Len(q'), q'[i] # Marker
        PROVE  Len(q') - i + 1 <= Cardinality(UnusedInPop')
    <3>1. CASE i <= n
      <4>1. q'[i] = head[i] /\ i \in 1 .. n
        BY <1>2, <3>1
      <4>2. n = 1 /\ Len(q) < Cardinality(UnusedInPop)
        BY <2>1, <4>1
      <4> QED BY <1>2, <1>3, <4>1, <4>2
    <3>2. CASE i > n
      <4>1. i - n \in 1 .. Len(q) /\ q[i - n] # Marker
        BY <1>2, <2>1, <3>2
      <4>2. Len(q) - (i - n) + 1 <= Cardinality(UnusedInPop)
        BY <4>1 DEF UnusedInv, PoolsHaveThreads
      <4> QED BY <1>2, <1>3, <4>2
    <3> QED BY <1>2, <3>1, <3>2
  <2> QED BY <2>1 DEF PoolsHaveThreads
<1>6. EntriesAreTaken'
  <2>1. ASSUME UnusedAsleep' # {} PROVE Len(q') <= Cardinality(Taking')
    <3>1. Cardinality(W) = n /\ UnusedAsleep # {}
      BY <2>1
    <3>2. Len(q) <= Cardinality(Taking)
      BY <3>1 DEF UnusedInv, EntriesAreTaken, Taking
    <3>3. Taking' = Taking \cup W /\ Taking \cap W = {}
      BY UnusedKinds DEF Taking
    <3>4. Cardinality(Taking') = Cardinality(Taking) + n
      BY <3>1, <3>3, UnusedKinds, UnusedSizesUnion
    <3> QED BY <1>2, <1>3, <3>2, <3>4
  <2> QED BY <2>1 DEF EntriesAreTaken, Taking
<1> QED BY <1>4, <1>5, <1>6 DEF UnusedInv

\* Whom n signals wake up.
LEMMA SignalUnused ==
  ASSUME UnusedTypeOK, NEW n \in Nat, Signal(n)
  PROVE  /\ stage' \in [Workers -> Stage] /\ UnusedInPop' = UnusedInPop
                /\ Unused' = Unused
         /\ \E W \in SUBSET UnusedAsleep : /\ Cardinality(W) = n \/ W = UnusedAsleep
                                           /\ UnusedAsleep' = UnusedAsleep \ W
<1>1. PICK W \in SUBSET UnusedAsleep :
           /\ Cardinality(W) = Min({n, Cardinality(UnusedAsleep)})
           /\ stage' = [t \in Workers |-> IF t \in W THEN "woken" ELSE stage[t]]
  BY DEF Signal
<1>2. \A t \in W : t \in Workers /\ stage[t] = "asleep"
  BY DEF UnusedAsleep
<1>3. stage' \in [Workers -> Stage]
  BY <1>1 DEF UnusedTypeOK, Stage
<1>4. \A t \in Workers : stage'[t] = IF t \in W THEN "woken" ELSE stage[t]
  BY <1>1
<1>5. UnusedInPop' = UnusedInPop /\ UnusedAsleep' = UnusedAsleep \ W /\ Unused' = Unused
  <2>1. UnusedInPop' = UnusedInPop
    BY <1>2, <1>4 DEF UnusedInPop
  <2>2. UnusedAsleep' = UnusedAsleep \ W
    BY <1>2, <1>4 DEF UnusedAsleep
  <2>3. Unused' = Unused
    BY <1>2, <1>4 DEF Unused
  <2> QED BY <2>1, <2>2, <2>3
<1>6. Cardinality(W) = n \/ W = UnusedAsleep
  <2>1. Cardinality(UnusedAsleep) \in Nat
    BY UnusedKinds, UnusedSizes
  <2>2. Cardinality(W) \in {n, Cardinality(UnusedAsleep)}
    BY <1>1, <2>1, MinIsLeast
  <2> QED BY <2>2, UnusedKinds, UnusedSizes
<1> QED BY <1>3, <1>5, <1>6

\* xthread_pool_start_thread hands a pool over or creates a thread.
LEMMA StartThreadStep ==
  ASSUME UnusedInv, NEW p \in Pools, xthread_pool_start_thread(p)
  PROVE  UnusedInv'
<1>1. UnusedTypeOK /\ SetterOK /\ unused_threads = Cardinality(Unused)
  BY DEF UnusedInv, UnusedExact
<1>2. /\ unused_threads' = unused_threads
      /\ kill_unused_threads' = kill_unused_threads
      /\ max_unused_threads' = max_unused_threads
      /\ wakeup_thread_serial' = wakeup_thread_serial
      /\ max_idle_time' = max_idle_time
      /\ setter' = setter /\ local' = local
  BY DEF xthread_pool_start_thread, atomics
<1>3. SetterOK'
  BY <1>1, <1>2 DEF SetterOK
<1>4. Len(unused_thread_queue) \in Nat /\ Cardinality(UnusedInPop) \in Nat
  BY <1>1, UnusedKinds, UnusedSizes DEF UnusedTypeOK
<1>5. CASE Len(unused_thread_queue) - Cardinality(UnusedInPop) < 0
  <2>1. /\ unused_thread_queue' = <<p>> \o unused_thread_queue /\ Signal(1)
        /\ Len(unused_thread_queue) < Cardinality(UnusedInPop)
    BY <1>4, <1>5 DEF xthread_pool_start_thread, g_queue_push_head
  <2>2. PICK W \in SUBSET UnusedAsleep : /\ Cardinality(W) = 1 \/ W = UnusedAsleep
                                         /\ UnusedAsleep' = UnusedAsleep \ W
    BY <1>1, <2>1, SignalUnused
  <2>3. stage' \in [Workers -> Stage] /\ UnusedInPop' = UnusedInPop /\ Unused' = Unused
    BY <1>1, <2>1, SignalUnused
  <2>4. <<p>> \in Seq(Pools \cup {Marker}) /\ Len(<<p>>) = 1
    OBVIOUS
  <2>5. UnusedTypeOK'
    BY <1>1, <1>2, <2>1, <2>3, <2>4 DEF UnusedTypeOK
  <2> QED BY <1>2, <1>3, <2>1, <2>2, <2>3, <2>4, <2>5, PushUnused
<1>6. CASE ~ (Len(unused_thread_queue) - Cardinality(UnusedInPop) < 0)
  <2>1. PICK t \in Workers : stage[t] = "none" /\ stage' = [stage EXCEPT ![t] = "work"]
    BY <1>6 DEF xthread_pool_start_thread, Goto
  <2>2. unused_thread_queue' = unused_thread_queue
    BY <1>6 DEF xthread_pool_start_thread
  <2>3. UnusedTypeOK'
    BY <1>1, <1>2, <2>1, <2>2 DEF UnusedTypeOK, Stage
  <2>4. Unused' = Unused /\ UnusedInPop' = UnusedInPop /\ UnusedAsleep' = UnusedAsleep
    BY <1>1, <2>1 DEF Unused, UnusedInPop, UnusedAsleep, UnusedTypeOK
  <2> QED BY <1>1, <1>2, <1>3, <2>2, <2>3, <2>4, UnusedKept
<1> QED BY <1>5, <1>6

\* The markers of a change of the limits.
LEMMA PushMarkersStep ==
  ASSUME UnusedInv, PushMarkers
  PROVE  UnusedInv'
<1> DEFINE head == [i \in 1 .. setter.n |-> Marker]
<1>1. UnusedTypeOK /\ SetterOK /\ unused_threads = Cardinality(Unused)
  BY DEF UnusedInv, UnusedExact
<1>2. /\ unused_threads' = unused_threads
      /\ kill_unused_threads' = kill_unused_threads
      /\ max_unused_threads' = max_unused_threads
      /\ wakeup_thread_serial' = wakeup_thread_serial
      /\ max_idle_time' = max_idle_time
      /\ local' = local
  BY DEF PushMarkers, atomics
<1>3. setter.n \in Nat
  BY <1>1 DEF SetterOK
<1>4. SetterOK'
  BY <1>1 DEF SetterOK, PushMarkers, SetterDone
<1>5. unused_thread_queue' = head \o unused_thread_queue /\ Signal(setter.n)
  BY DEF PushMarkers
<1>6. /\ head \in Seq(Pools \cup {Marker}) /\ Len(head) = setter.n
      /\ \A i \in 1 .. setter.n : head[i] = Marker
  BY <1>3
<1> HIDE DEF head
<1>7. PICK W \in SUBSET UnusedAsleep : /\ Cardinality(W) = setter.n \/ W = UnusedAsleep
                                       /\ UnusedAsleep' = UnusedAsleep \ W
  BY <1>1, <1>3, <1>5, SignalUnused
<1>8. stage' \in [Workers -> Stage] /\ UnusedInPop' = UnusedInPop /\ Unused' = Unused
  BY <1>1, <1>3, <1>5, SignalUnused
<1>9. UnusedTypeOK'
  BY <1>1, <1>2, <1>5, <1>6, <1>8 DEF UnusedTypeOK
<1> QED BY <1>2, <1>3, <1>4, <1>5, <1>6, <1>7, <1>8, <1>9, PushUnused

\* A marker is relayed.
LEMMA RelayStep ==
  ASSUME UnusedInv, NEW t \in Workers, RelayMarker(t)
  PROVE  UnusedInv'
<1>1. UnusedTypeOK /\ SetterOK /\ unused_threads = Cardinality(Unused)
  BY DEF UnusedInv, UnusedExact
<1>2. /\ unused_threads' = unused_threads
      /\ kill_unused_threads' = kill_unused_threads
      /\ max_unused_threads' = max_unused_threads
      /\ wakeup_thread_serial' = wakeup_thread_serial
      /\ max_idle_time' = max_idle_time
      /\ setter' = setter /\ local' = [local EXCEPT ![t].relayed = TRUE]
      /\ unused_thread_queue' = <<Marker>> \o unused_thread_queue
      /\ stage[t] = "relay"
  BY DEF RelayMarker, atomics, g_queue_push_head
<1>3. local' \in [Workers -> Local]
  BY <1>1, <1>2 DEF UnusedTypeOK, Local
<1>4. /\ <<Marker>> \in Seq(Pools \cup {Marker}) /\ Len(<<Marker>>) = 1
      /\ \A i \in 1 .. 1 : <<Marker>>[i] = Marker
  OBVIOUS
<1>5. PICK W \in SUBSET UnusedAsleep :
           /\ Cardinality(W) = 1 \/ W = UnusedAsleep
           /\ \A u \in Workers : stage'[u] = IF u = t THEN "check" ELSE
                                            IF u \in W THEN "woken" ELSE stage[u]
           /\ stage' \in [Workers -> Stage]
  <2>1. CASE UnusedAsleep = {}
    <3>1. stage' = [stage EXCEPT ![t] = "check"]
      BY <2>1 DEF RelayMarker, Goto
    <3>2. /\ \A u \in Workers : stage'[u] = IF u = t THEN "check" ELSE stage[u]
          /\ stage' \in [Workers -> Stage]
      BY <1>1, <3>1 DEF UnusedTypeOK, Stage
    <3> WITNESS {} \in SUBSET UnusedAsleep
    <3> QED BY <2>1, <3>2
  <2>2. CASE UnusedAsleep # {}
    <3>1. PICK u \in UnusedAsleep : stage' = [stage EXCEPT ![t] = "check", ![u] = "woken"]
      BY <2>2 DEF RelayMarker
    <3>2. u # t /\ u \in Workers
      BY <1>2 DEF UnusedAsleep
    <3>3. /\ \A v \in Workers : stage'[v] = IF v = t THEN "check" ELSE
                                          IF v = u THEN "woken" ELSE stage[v]
          /\ stage' \in [Workers -> Stage]
      BY <1>1, <3>1, <3>2 DEF UnusedTypeOK, Stage
    <3>4. Cardinality({u}) = 1
      BY FS_Singleton
    <3> WITNESS {u} \in SUBSET UnusedAsleep
    <3> QED BY <3>3, <3>4
  <2> QED BY <2>1, <2>2
<1>6. \A u \in W : u \in Workers /\ stage[u] = "asleep"
  BY DEF UnusedAsleep
<1>7. UnusedInPop' = UnusedInPop /\ UnusedAsleep' = UnusedAsleep \ W /\ Unused' = Unused
  <2>1. UnusedInPop' = UnusedInPop
    BY <1>2, <1>5, <1>6 DEF UnusedInPop
  <2>2. UnusedAsleep' = UnusedAsleep \ W
    BY <1>2, <1>5, <1>6 DEF UnusedAsleep
  <2>3. Unused' = Unused
    BY <1>2, <1>5, <1>6 DEF Unused
  <2> QED BY <2>1, <2>2, <2>3
<1>8. UnusedTypeOK'
  BY <1>1, <1>2, <1>3, <1>4, <1>5 DEF UnusedTypeOK
<1>9. SetterOK'
  BY <1>1, <1>2 DEF SetterOK
<1> QED BY <1>2, <1>4, <1>5, <1>7, <1>8, <1>9, PushUnused

\* The invariant holds of every behaviour: a step per action.
THEOREM UnusedInvariant == UnusedSpec => []UnusedInv
<1>1. UnusedInit => UnusedInv
  BY InitUnused
<1>2. ASSUME UnusedInv, [UnusedNext]_unusedvars PROVE UnusedInv'
  <2>1. ASSUME NEW p \in Pools, xthread_pool_start_thread(p) PROVE UnusedInv'
    BY <1>2, <2>1, StartThreadStep
  <2>2. ASSUME NEW t \in Workers, UnusedStep(t) PROVE UnusedInv'
    <3>1. CASE ReadIdleTime(t) \/ ReadSerial(t) \/ CheckSuperfluous(t)
               \/ CompareSerial(t) \/ KillOrStay(t) \/ RereadMax(t)
               \/ RereadIdleTime(t)
      BY <1>2, <3>1, ThreadQuiet
    <3>2. CASE IncUnused(t) \/ Leave(t)
      BY <1>2, <3>2, IncUnusedStep, LeaveUnusedStep
    <3>3. CASE RelayMarker(t)
      BY <1>2, <3>3, RelayStep
    <3>4. CASE Pop(t)
      <4>1. CASE unused_thread_queue # <<>>
        BY <1>2, <3>4, <4>1, ReceiveUnusedStep DEF Pop
      <4>2. CASE unused_thread_queue = <<>>
        BY <1>2, <3>4, <4>2, EmptyPopStep DEF Pop
      <4> QED BY <4>1, <4>2
    <3>5. CASE UnusedPopReturns(t)
      <4>1. CASE unused_thread_queue # <<>>
        BY <1>2, <3>5, <4>1, ReceiveUnusedStep DEF UnusedPopReturns
      <4>2. CASE unused_thread_queue = <<>>
        <5>1. PICK to \in {"asleep", "leave"} : Goto(t, to)
          BY <3>5, <4>2 DEF UnusedPopReturns
        <5> QED BY <1>2, <3>5, <4>2, <5>1, EmptyPopStep DEF UnusedPopReturns
      <4> QED BY <4>1, <4>2
    <3> QED BY <2>2, <3>1, <3>2, <3>3, <3>4, <3>5 DEF UnusedStep
  <2>3. ASSUME NEW t \in Workers,
               ReadMax(t) \/ UnusedExpire(t) \/ UnusedSpurious(t)
        PROVE  UnusedInv'
    BY <1>2, <2>3, ThreadQuiet, WakeStep
  <2>4. CASE \/ \E max \in Limits : xthread_pool_set_max_unused_threads(max)
             \/ xthread_pool_stop_unused_threads
             \/ \E interval \in {0, 1} : xthread_pool_set_max_idle_time(interval)
    BY <1>2, <2>4, SetterQuiet
  <2>5. CASE SetterStep
    BY <1>2, <2>5, SetterQuiet, PushMarkersStep DEF SetterStep
  <2>6. CASE UNCHANGED unusedvars
    <3>1. UnusedTypeOK /\ SetterOK /\ unused_threads = Cardinality(Unused)
      BY <1>2 DEF UnusedInv, UnusedExact
    <3>2. Unused' = Unused /\ UnusedInPop' = UnusedInPop /\ UnusedAsleep' = UnusedAsleep
      BY <2>6 DEF Unused, UnusedInPop, UnusedAsleep, unusedvars
    <3>3. UnusedTypeOK' /\ SetterOK'
      BY <2>6, <3>1 DEF UnusedTypeOK, SetterOK, unusedvars, atomics
    <3> QED BY <1>2, <2>6, <3>1, <3>2, <3>3, UnusedKept DEF unusedvars, atomics
  <2> QED BY <1>2, <2>1, <2>2, <2>3, <2>4, <2>5, <2>6 DEF UnusedNext
<1> QED BY <1>1, <1>2, PTL DEF UnusedSpec

\* UnusedExact: unused_threads is the number of threads in
\* xthread_pool_wait_for_new_pool, whichever way they left it.
THEOREM UnusedCounted == UnusedSpec => []UnusedExact
<1>1. UnusedInv => UnusedExact
  BY DEF UnusedInv
<1> QED BY <1>1, UnusedInvariant, PTL

\* PoolsHaveThreads: a pool handed over by xthread_pool_start_thread keeps a
\* thread in the pop for it; markers and timeouts cannot take it away.
THEOREM PoolsStaffed == UnusedSpec => []PoolsHaveThreads
<1>1. UnusedInv => PoolsHaveThreads
  BY DEF UnusedInv
<1> QED BY <1>1, UnusedInvariant, PTL

\* EntriesAreTaken: no wakeup is lost between a push to unused_thread_queue and a
\* thread that goes to sleep.
THEOREM EntriesTaken == UnusedSpec => []EntriesAreTaken
<1>1. UnusedInv => EntriesAreTaken
  BY DEF UnusedInv
<1> QED BY <1>1, UnusedInvariant, PTL

=============================================================================
