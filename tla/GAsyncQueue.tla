----------------------------- MODULE GAsyncQueue -----------------------------
(***************************************************************************)
(* The asynchronous queue of glib/gasyncqueue.c: a list of items under one *)
(* mutex, a condition variable for the threads that wait for an item, and  *)
(* a reference count.                                                      *)
(*                                                                         *)
(* Mutex and condition variable are those of GMutex, used through what     *)
(* they promise: a critical section is one step, a signal given under the  *)
(* mutex wakes one sleeper if there is one, and a sleep may end at any     *)
(* time.  A function and its _unlocked variant are one action: the caller  *)
(* finds the mutex free, and leaves it free, or holds it and keeps it.     *)
(***************************************************************************)
EXTENDS GQueue

CONSTANTS
  Threads,     \* the threads that share the queue
  NoThread,    \* the owner of a free mutex
  Items,       \* the data pointers that are pushed (one may be pushed twice)
  Key,         \* what the compare function of the sorted operations looks at
  EndTimes,    \* the end_time arguments: -1 for ever, > 0 a deadline
  MaxPushes,   \* bound: how many items are ever pushed
  MaxRefs      \* bound on the reference count

ASSUME GAsyncQueueAssumption ==
  /\ IsFiniteSet(Threads) /\ Threads # {}
  /\ NoThread \notin Threads
  /\ Key \in [Items -> Int]
  /\ EndTimes \subseteq Int
  /\ MaxPushes \in Nat
  /\ MaxRefs \in Nat \ {0}

VARIABLES
  queue,       \* queue->queue from head to tail; the tail is popped
  waiting,     \* queue->waitinxthreads
  ref_count,   \* queue->ref_count
  owner,       \* the thread between g_async_queue_lock and _unlock
  pc,          \* where each thread is
  end_time,    \* the argument of the pop it is in (else -1)
  unlocked,    \* the pop it is in returns with the mutex (_unlocked variant)
  refs,        \* the references each thread holds
  lo, hi,      \* history: the ranks given out so far are lo + 1 .. hi
  sorted       \* history: only sorted pushes since the last sort

vars == <<queue, waiting, ref_count, owner, pc, end_time, unlocked, refs,
          lo, hi, sorted>>

(***************************************************************************)
(* idle     not in a call      asleep   in g_cond_wait or g_cond_wait_until *)
(* woken    the wait is over, the mutex not taken again yet                *)
(* expired  the same, and g_cond_wait_until will return FALSE              *)
(* unref    in g_async_queue_unref_and_unlock, after the unlock            *)
(* aborted  the assertion of g_async_queue_pop_intern_unlocked failed      *)
(***************************************************************************)
PC == {"idle", "asleep", "woken", "expired", "unref", "aborted"}

Asleep == {t \in Threads : pc[t] = "asleep"}
Waking == {t \in Threads : pc[t] \in {"woken", "expired"}}

\* A queue element: the item, and its rank in the order of the pushes (a
\* push_front ranks before all that came earlier).
Element == [item : Items, rank : Int]

\* g_async_queue_new_full, called by a thread of its choice.
Init ==
  /\ queue = <<>>
  /\ waiting = 0
  /\ ref_count = 1
  /\ owner = NoThread
  /\ pc = [t \in Threads |-> "idle"]
  /\ end_time = [t \in Threads |-> -1]
  /\ unlocked = [t \in Threads |-> FALSE]
  /\ \E creator \in Threads :
       refs = [t \in Threads |-> IF t = creator THEN 1 ELSE 0]
  /\ lo = 0 /\ hi = 0
  /\ sorted = TRUE

\* The caller's side of the contract: a thread uses the queue while it holds a
\* reference, and locks the mutex before an _unlocked function.
MayCall(t) ==
  /\ pc[t] = "idle"
  /\ refs[t] > 0
  /\ owner \in {NoThread, t}

-----------------------------------------------------------------------------
g_async_queue_lock(t) ==
  /\ MayCall(t)
  /\ owner = NoThread
  /\ owner' = t
  /\ UNCHANGED <<queue, waiting, ref_count, pc, end_time, unlocked, refs,
                 lo, hi, sorted>>

g_async_queue_unlock(t) ==
  /\ MayCall(t)
  /\ owner = t
  /\ owner' = NoThread
  /\ UNCHANGED <<queue, waiting, ref_count, pc, end_time, unlocked, refs,
                 lo, hi, sorted>>

\* A push signals only when it makes an empty queue non-empty.
Bug_SignalWhenEmpty ==
  IF waiting > 0 /\ queue = <<>> /\ Asleep # {}
  THEN \E u \in Asleep : pc' = [pc EXCEPT ![u] = "woken"]
  ELSE UNCHANGED pc

\* The g_cond_signal that ends every push.
SignalWaiter ==
  IF waiting > 0 /\ Asleep # {}
  THEN \E u \in Asleep : pc' = [pc EXCEPT ![u] = "woken"]
  ELSE UNCHANGED pc

\* What the three pushes have in common.
Push(t) ==
  /\ MayCall(t)
  /\ hi - lo < MaxPushes
  /\ SignalWaiter
  /\ UNCHANGED <<waiting, ref_count, owner, end_time, unlocked, refs>>

\* Pushes at the head: popped after everything that is in the queue.
g_async_queue_push(t, item) ==
  /\ Push(t)
  /\ queue' = g_queue_push_head(queue, [item |-> item, rank |-> hi + 1])
  /\ hi' = hi + 1
  /\ sorted' = FALSE
  /\ UNCHANGED lo

\* Pushes at the tail: popped next.
g_async_queue_push_front(t, item) ==
  /\ Push(t)
  /\ queue' = g_queue_push_tail(queue, [item |-> item, rank |-> lo])
  /\ lo' = lo - 1
  /\ sorted' = FALSE
  /\ UNCHANGED hi

\* What a compare function says of two elements.
Compare(x, y) == Key[x.item] - Key[y.item]

\* The comparison is not inverted.
Bug_NotInverted(v1, v2) == Compare(v1, v2)

g_async_queue_invert_compare(v1, v2) == - Compare(v1, v2)

\* The inverted comparison as a relation on the elements S.
Less(S) == {p \in S \X S : g_async_queue_invert_compare(p[1], p[2]) < 0}

g_async_queue_push_sorted(t, item) ==
  /\ Push(t)
  /\ LET e == [item |-> item, rank |-> hi + 1]
     IN  queue' = g_queue_insert_sorted(queue, e, Less(Range(queue) \cup {e}))
  /\ hi' = hi + 1
  /\ UNCHANGED <<lo, sorted>>

g_async_queue_sort(t) ==
  /\ MayCall(t)
  /\ queue' = g_queue_sort(queue, Less(Range(queue)))
  /\ sorted' = TRUE
  /\ UNCHANGED <<waiting, ref_count, owner, pc, end_time, unlocked, refs, lo, hi>>

\* Removes one element with this item, if there is one.
g_async_queue_remove(t, item) ==
  /\ MayCall(t)
  /\ queue' = g_queue_remove(queue, {e \in Range(queue) : e.item = item})
  /\ UNCHANGED <<waiting, ref_count, owner, pc, end_time, unlocked, refs,
                 lo, hi, sorted>>

-----------------------------------------------------------------------------
(***************************************************************************)
(* g_async_queue_pop_intern_unlocked.  A pop that finds an item takes it;  *)
(* one that may not wait, or whose deadline is past, returns NULL and      *)
(* changes nothing.  g_cond_wait_until refuses a negative time at once,    *)
(* and the assertion at the end of the function accepts NULL from a pop    *)
(* that waits only if end_time > 0.                                        *)
(***************************************************************************)
g_async_queue_pop(t, e) ==
  /\ MayCall(t)
  /\ IF queue # <<>>
     THEN /\ queue' = g_queue_pop_tail(queue)
          /\ UNCHANGED <<waiting, owner, pc, end_time, unlocked>>
     ELSE IF e = -1 \/ e > 0
     THEN /\ waiting' = waiting + 1
          /\ owner' = NoThread
          /\ pc' = [pc EXCEPT ![t] = "asleep"]
          /\ end_time' = [end_time EXCEPT ![t] = e]
          /\ unlocked' = [unlocked EXCEPT ![t] = (owner = t)]
          /\ UNCHANGED queue
     ELSE /\ pc' = [pc EXCEPT ![t] = "aborted"]
          /\ UNCHANGED <<queue, waiting, owner, end_time, unlocked>>
  /\ UNCHANGED <<ref_count, refs, lo, hi, sorted>>

\* A wait that ends without a signal.
SpuriousWakeup(t) ==
  /\ pc[t] = "asleep"
  /\ pc' = [pc EXCEPT ![t] = "woken"]
  /\ UNCHANGED <<queue, waiting, ref_count, owner, end_time, unlocked, refs,
                 lo, hi, sorted>>

\* The deadline passes, in the sleep or between two rounds of the loop.
Expire(t) ==
  /\ pc[t] \in {"asleep", "woken"}
  /\ end_time[t] # -1
  /\ pc' = [pc EXCEPT ![t] = "expired"]
  /\ UNCHANGED <<queue, waiting, ref_count, owner, end_time, unlocked, refs,
                 lo, hi, sorted>>

\* A thread that times out returns NULL without a look at the queue.
Bug_ExpiredReturnsNull(t) ==
  /\ pc[t] \in {"woken", "expired"}
  /\ owner = NoThread
  /\ IF queue = <<>> /\ pc[t] = "woken"
     THEN /\ pc' = [pc EXCEPT ![t] = "asleep"]
          /\ UNCHANGED <<queue, waiting, owner, end_time, unlocked>>
     ELSE /\ queue' = IF pc[t] = "expired" THEN queue ELSE g_queue_pop_tail(queue)
          /\ waiting' = waiting - 1
          /\ pc' = [pc EXCEPT ![t] = "idle"]
          /\ owner' = IF unlocked[t] THEN t ELSE NoThread
          /\ end_time' = [end_time EXCEPT ![t] = -1]
          /\ unlocked' = [unlocked EXCEPT ![t] = FALSE]
  /\ UNCHANGED <<ref_count, refs, lo, hi, sorted>>

\* The wait returns with the mutex.  The loop of the pop goes round again if
\* the queue is empty still and the deadline is not past; else the pop ends,
\* with the tail of the queue or with NULL.
WaitReturns(t) ==
  /\ pc[t] \in {"woken", "expired"}
  /\ owner = NoThread
  /\ IF queue = <<>> /\ pc[t] = "woken"
     THEN /\ pc' = [pc EXCEPT ![t] = "asleep"]
          /\ UNCHANGED <<queue, waiting, owner, end_time, unlocked>>
     ELSE /\ queue' = g_queue_pop_tail(queue)
          /\ waiting' = waiting - 1
          /\ pc' = [pc EXCEPT ![t] = "idle"]
          /\ owner' = IF unlocked[t] THEN t ELSE NoThread
          /\ end_time' = [end_time EXCEPT ![t] = -1]
          /\ unlocked' = [unlocked EXCEPT ![t] = FALSE]
  /\ UNCHANGED <<ref_count, refs, lo, hi, sorted>>

-----------------------------------------------------------------------------
\* g_async_queue_ref, for the thread itself or to hand it to another one.
g_async_queue_ref(t, u) ==
  /\ pc[t] = "idle" /\ refs[t] > 0
  /\ ref_count < MaxRefs
  /\ ref_count' = ref_count + 1
  /\ refs' = [refs EXCEPT ![u] = @ + 1]
  /\ UNCHANGED <<queue, waiting, owner, pc, end_time, unlocked, lo, hi, sorted>>

\* g_async_queue_unref.  The last one frees the items and the queue, unless
\* the check for waiting threads makes it return early.
g_async_queue_unref(t) ==
  /\ refs[t] > 0
  /\ \/ pc[t] = "unref"
     \/ pc[t] = "idle" /\ (owner = t => refs[t] > 1)
  /\ ref_count' = ref_count - 1
  /\ refs' = [refs EXCEPT ![t] = @ - 1]
  /\ pc' = [pc EXCEPT ![t] = "idle"]
  /\ queue' = IF ref_count = 1 /\ waiting = 0 THEN <<>> ELSE queue
  /\ UNCHANGED <<waiting, owner, end_time, unlocked, lo, hi, sorted>>

\* The reference is dropped first, the mutex unlocked afterwards.
Bug_UnrefThenUnlock(t) ==
  /\ MayCall(t)
  /\ owner = t
  /\ ref_count' = ref_count - 1
  /\ refs' = [refs EXCEPT ![t] = @ - 1]
  /\ UNCHANGED <<queue, waiting, owner, pc, end_time, unlocked, lo, hi, sorted>>

\* The unlock of g_async_queue_unref_and_unlock.
g_async_queue_unref_and_unlock(t) ==
  /\ MayCall(t)
  /\ owner = t
  /\ owner' = NoThread
  /\ pc' = [pc EXCEPT ![t] = "unref"]
  /\ UNCHANGED <<queue, waiting, ref_count, end_time, unlocked, refs,
                 lo, hi, sorted>>

\* g_async_queue_length, and its _unlocked variant.
g_async_queue_length == Len(queue) - waiting

-----------------------------------------------------------------------------
\* The steps of a call in progress.
Continue(t) ==
  \/ WaitReturns(t)
  \/ pc[t] = "unref" /\ g_async_queue_unref(t)

Next ==
  \E t \in Threads :
    \/ g_async_queue_lock(t)
    \/ g_async_queue_unlock(t)
    \/ \E item \in Items :
         \/ g_async_queue_push(t, item)
         \/ g_async_queue_push_front(t, item)
         \/ g_async_queue_push_sorted(t, item)
         \/ g_async_queue_remove(t, item)
    \/ g_async_queue_sort(t)
    \/ \E e \in EndTimes : g_async_queue_pop(t, e)
    \/ SpuriousWakeup(t)
    \/ Expire(t)
    \/ \E u \in Threads : g_async_queue_ref(t, u)
    \/ pc[t] = "idle" /\ g_async_queue_unref(t)
    \/ g_async_queue_unref_and_unlock(t)
    \/ Continue(t)

Spec == Init /\ [][Next]_vars

(***************************************************************************)
(* A thread in a call goes on when the mutex stays free, a holder releases *)
(* it, and a deadline passes.  The mutex is not fair: a thread that takes  *)
(* it again and again may keep the others out, so the clients are assumed  *)
(* to call g_async_queue_lock finitely often.                              *)
(***************************************************************************)
Fairness ==
  \A t \in Threads :
    /\ WF_vars(Continue(t))
    /\ WF_vars(g_async_queue_unlock(t))
    /\ WF_vars(Expire(t))

LocksEnd == <>[][\A t \in Threads : ~ g_async_queue_lock(t)]_vars

FairSpec == Spec /\ Fairness /\ LocksEnd

-----------------------------------------------------------------------------
TypeOK ==
  /\ queue \in Seq(Element)
  /\ waiting \in Nat
  /\ ref_count \in 0 .. MaxRefs
  /\ owner \in Threads \cup {NoThread}
  /\ pc \in [Threads -> PC]
  /\ end_time \in [Threads -> Int]
  /\ unlocked \in [Threads -> BOOLEAN]
  /\ refs \in [Threads -> Nat]
  /\ lo \in Int /\ hi \in Int
  /\ sorted \in BOOLEAN

\* waitinxthreads counts exactly the threads inside a wait, whichever way the
\* waits end (served, timed out, spurious), so that no push skips the signal
\* and no wakeup is lost: while a thread sleeps, every item in the queue has a
\* thread of its own that is awake and on its way to take it.  The length is
\* then negative exactly as documented, "a negative value means waiting
\* threads", by whose sign the thread pool decides.
NoLostWakeup ==
  /\ TypeOK
  /\ waiting = Cardinality(Asleep \cup Waking)
  /\ Asleep # {} => Len(queue) <= Cardinality(Waking)
  /\ g_async_queue_length >= 0 => Asleep = {}

\* After a sort, and as long as items are only pushed with push_sorted, pops
\* come in the order of the compare function; items that compare equal are
\* popped first in, first out, however pushes, sorted pushes, pushes to the
\* front, sorts and removals are mixed.
PopOrder ==
  \A i, j \in 1 .. Len(queue) : i < j =>
    /\ sorted => Key[queue[i].item] >= Key[queue[j].item]
    /\ Key[queue[i].item] = Key[queue[j].item] => queue[i].rank > queue[j].rank

\* When the last reference is dropped nobody holds the mutex, waits, or has
\* the queue still to touch.
FreedQuiescent ==
  ref_count = 0 =>
    /\ owner = NoThread
    /\ waiting = 0
    /\ \A t \in Threads : pc[t] = "idle" /\ refs[t] = 0

\* A pop that ends without an item returns NULL and does not abort.
TimedPopReturns == \A t \in Threads : pc[t] # "aborted"

\* While somebody waits and the queue is not empty, the items are taken or the
\* waits end: items do not lie in the queue beside sleeping threads.
ItemsAreTaken ==
  (queue # <<>> /\ waiting > 0) ~> (queue = <<>> \/ waiting = 0)

=============================================================================
