----------------------------- MODULE GThreadPool -----------------------------
(***************************************************************************)
(* One thread pool of glib/gthreadpool.c, from xthread_pool_new to the end *)
(* of xthread_pool_free.  The pool's fields are protected by the mutex of  *)
(* its task queue (a GAsyncQueue), so that a critical section is one step; *)
(* a thread that waits for a task and a caller of xthread_pool_free that   *)
(* waits for the threads release the mutex.                                *)
(*                                                                         *)
(* Where threads come from and where they go to (the queue of the unused   *)
(* threads) is GThreadPoolUnused.  Here an idle slot of Threads is a       *)
(* thread the pool may get.                                                *)
(***************************************************************************)
EXTENDS GQueue

CONSTANTS
  Threads,     \* slots for the threads of the pool
  Tasks,       \* the data pushed; each is pushed once
  Dummy,       \* GUINT_TO_POINTER (1), pushed to wake the threads up
  Key,         \* what the sort function looks at
  MaxThreads   \* the arguments of xthread_pool_new and _set_max_threads

ASSUME GThreadPoolAssumption ==
  /\ IsFiniteSet(Threads) /\ IsFiniteSet(Tasks)
  /\ Dummy \notin Tasks
  /\ Key \in [Tasks -> Int]
  /\ MaxThreads \subseteq (Nat \cup {-1})

VARIABLES
  queue,         \* pool->queue, head to tail
  exclusive,     \* pool->pool.exclusive, fixed when the pool is made
  num_threads, max_threads, running, immediate, waiting,
  sort_func,     \* a sort function is set
  freed,         \* xthread_pool_free_internal has freed the pool
  pc, task,      \* where each thread is, and the task it runs
  caller,        \* the application: using the pool, or in xthread_pool_free
  asked,         \* the arguments of xthread_pool_free
  pushed, executed,  \* history: the tasks pushed, and those func returned from
  handed,        \* history: what item_free_func was called with
  failed         \* history: the creation of a thread has failed

pool == <<exclusive, max_threads, running, waiting, sort_func, freed>>
history == <<asked, pushed, handed, failed>>
vars == <<queue, num_threads, immediate, pool, pc, task, caller, executed, history>>

(***************************************************************************)
(* Threads.  out      not in this pool                                     *)
(*           start    on the way into it, before the lock                  *)
(*           asleep   waiting in the pop of xthread_pool_wait_for_new_task *)
(*           woken, expired  that wait is over (expired: by its timeout)   *)
(*           run      in func                                              *)
(*           free     left as the last one, to free the pool               *)
(* The caller is "using" the pool, asleep ("wait") or awake again          *)
(* ("woken") in the loop of xthread_pool_free, has the pool to free        *)
(* ("free"), or has returned ("done").                                     *)
(***************************************************************************)
PC == {"out", "start", "asleep", "woken", "expired", "run", "free"}
Caller == {"using", "wait", "woken", "free", "done"}

Attached == {t \in Threads : pc[t] \notin {"out", "free"}}
InPop == {t \in Threads : pc[t] \in {"asleep", "woken", "expired"}}
Asleep == {t \in Threads : pc[t] = "asleep"}
Running == {t \in Threads : pc[t] = "run"}

\* g_async_queue_length_unlocked, to a caller that is not itself waiting.
Length == Len(queue) - Cardinality(InPop)

Init ==
  /\ queue = <<>>
  /\ exclusive \in BOOLEAN
  /\ max_threads \in MaxThreads /\ (exclusive => max_threads # -1)
  /\ \E S \in SUBSET Threads :     \* an exclusive pool gets its threads at once
       /\ IF exclusive
          THEN Cardinality(S) <= max_threads /\ failed = (Cardinality(S) < max_threads)
          ELSE S = {} /\ failed = FALSE
       /\ pc = [t \in Threads |-> IF t \in S THEN "start" ELSE "out"]
       /\ num_threads = Cardinality(S)
  /\ running = TRUE /\ immediate = FALSE /\ waiting = FALSE
  /\ sort_func = FALSE /\ freed = FALSE
  /\ task = [t \in Threads |-> Dummy]
  /\ caller = "using"
  /\ asked = [immediate |-> FALSE, wait |-> FALSE]
  /\ pushed = {} /\ executed = {} /\ handed = <<>>

-----------------------------------------------------------------------------
(***************************************************************************)
(* The calls of the application.                                           *)
(***************************************************************************)
\* The sort function, inverted as the queue wants it.
Less == {p \in Tasks \X Tasks : Key[p[2]] < Key[p[1]]}

\* xthread_pool_start_thread, called up to "want" times: a thread per call,
\* unless max_threads is reached, until the creation of one fails.  Says
\* which threads start and whether all did.
Starts(want, max, S, all) ==
  LET most == IF max = -1 THEN want
              ELSE IF num_threads >= max THEN 0 ELSE Min({want, max - num_threads})
  IN  /\ S \subseteq {t \in Threads : pc[t] = "out"}
      /\ all = (Cardinality(S) = most)
      /\ Cardinality(S) <= most

\* The signal of a push, with the threads of S started in the same section.
StartAndSignal(S) ==
  LET started == [t \in Threads |-> IF t \in S THEN "start" ELSE pc[t]]
  IN  IF Asleep = {} THEN pc' = started
      ELSE \E u \in Asleep : pc' = [started EXCEPT ![u] = "woken"]

xthread_pool_push(item) ==
  /\ caller = "using" /\ running
  /\ item \notin pushed
  /\ \E S \in SUBSET Threads, all \in BOOLEAN :
       /\ IF Length >= 0 THEN Starts(1, max_threads, S, all) ELSE S = {} /\ all
       /\ num_threads' = num_threads + Cardinality(S)
       /\ failed' = (failed \/ ~ all)
       /\ StartAndSignal(S)
  /\ queue' = IF sort_func THEN g_queue_insert_sorted(queue, item, Less)
                           ELSE g_queue_push_head(queue, item)
  /\ pushed' = pushed \cup {item}
  /\ UNCHANGED <<immediate, pool, task, caller, executed, asked, handed>>

\* The new maximum starts no threads for the tasks that lie in the queue.
Bug_SetMaxStartsNone(max) ==
  /\ caller = "using" /\ running
  /\ exclusive => max # -1
  /\ max_threads' = max
  /\ UNCHANGED <<queue, num_threads, exclusive, immediate, running, waiting,
                 sort_func, freed, pc, task, caller, executed, history>>

xthread_pool_set_max_threads(max) ==
  /\ caller = "using" /\ running
  /\ exclusive => max # -1
  /\ max_threads' = max
  /\ LET to_start == IF exclusive THEN max - num_threads ELSE Length
     IN  \E S \in SUBSET Threads, all \in BOOLEAN :
           /\ IF to_start > 0 THEN Starts(to_start, max, S, all) ELSE S = {} /\ all
           /\ num_threads' = num_threads + Cardinality(S)
           /\ failed' = (failed \/ ~ all)
           /\ pc' = [t \in Threads |-> IF t \in S THEN "start" ELSE pc[t]]
  /\ UNCHANGED <<queue, exclusive, immediate, running, waiting, sort_func,
                 freed, task, caller, executed, asked, pushed, handed>>

xthread_pool_set_sort_function(func) ==
  /\ caller = "using" /\ running
  /\ sort_func' = func
  /\ queue' = IF func THEN g_queue_sort(queue, Less) ELSE queue
  /\ UNCHANGED <<num_threads, exclusive, immediate, max_threads, running,
                 waiting, freed, pc, task, caller, executed, history>>

\* Takes a task that is still in the queue and pushes it at the other end.
xthread_pool_move_to_front(item) ==
  /\ caller = "using" /\ running
  /\ Contains(queue, item)
  /\ queue' = g_queue_push_tail(g_queue_remove(queue, {item}), item)
  /\ StartAndSignal({})
  /\ UNCHANGED <<num_threads, immediate, pool, task, caller, executed, history>>

-----------------------------------------------------------------------------
(***************************************************************************)
(* xthread_pool_thread_proxy, from the lock of the pool's mutex to its     *)
(* release.                                                                *)
(***************************************************************************)
Dummies(n) == [i \in 1 .. n |-> Dummy]

\* The last thread to leave frees the pool even while the caller waits for it.
Bug_LastThreadFrees(t, q) ==
  LET left == num_threads - 1
      length == Len(q) - Cardinality(InPop \ {t})
      free == ~ running /\ left = 0
      stop == ~ running /\ ~ waiting /\ left # 0 /\ length = - left
      tell == ~ running /\ waiting /\ (immediate \/ length <= 0)
  IN  /\ num_threads' = left
      /\ queue' = IF stop THEN Dummies(left) \o q ELSE q
      /\ immediate' = (immediate \/ stop)
      /\ pc' = [u \in Threads |-> IF u = t THEN IF free THEN "free" ELSE "out"
                                  ELSE IF stop /\ u \in Asleep THEN "woken" ELSE pc[u]]
      /\ caller' = IF tell /\ caller = "wait" THEN "woken" ELSE caller

\* The waiting caller is told only if the pool stops immediately.
Bug_TellsOnlyImmediate(t, q) ==
  LET left == num_threads - 1
      length == Len(q) - Cardinality(InPop \ {t})
      free == ~ running /\ ~ waiting /\ left = 0
      stop == ~ running /\ ~ waiting /\ left # 0 /\ length = - left
      tell == ~ running /\ waiting /\ immediate
  IN  /\ num_threads' = left
      /\ queue' = IF stop THEN Dummies(left) \o q ELSE q
      /\ immediate' = (immediate \/ stop)
      /\ pc' = [u \in Threads |-> IF u = t THEN IF free THEN "free" ELSE "out"
                                  ELSE IF stop /\ u \in Asleep THEN "woken" ELSE pc[u]]
      /\ caller' = IF tell /\ caller = "wait" THEN "woken" ELSE caller

\* No task was received: the thread leaves the pool, in which q is left.  It
\* may have to free the pool, to stop the threads that still wait (each dummy
\* of xthread_pool_wakeup_and_stop_all signals one, so all wake up), or to
\* tell the caller of xthread_pool_free.
LeavePool(t, q) ==
  LET left == num_threads - 1
      length == Len(q) - Cardinality(InPop \ {t})
      free == ~ running /\ ~ waiting /\ left = 0
      stop == ~ running /\ ~ waiting /\ left # 0 /\ length = - left
      tell == ~ running /\ waiting /\ (immediate \/ length <= 0)
  IN  /\ num_threads' = left
      /\ queue' = IF stop THEN Dummies(left) \o q ELSE q
      /\ immediate' = (immediate \/ stop)
      /\ pc' = [u \in Threads |-> IF u = t THEN IF free THEN "free" ELSE "out"
                                  ELSE IF stop /\ u \in Asleep THEN "woken" ELSE pc[u]]
      /\ caller' = IF tell /\ caller = "wait" THEN "woken" ELSE caller

\* The tail of the queue was received.  It is run, unless the pool stops
\* immediately: then it is dropped, and the next round finds the pool inactive.
ReceiveTask(t) ==
  IF running \/ ~ immediate
  THEN /\ task' = [task EXCEPT ![t] = Last(queue)]
       /\ queue' = g_queue_pop_tail(queue)
       /\ pc' = [pc EXCEPT ![t] = "run"]
       /\ UNCHANGED <<num_threads, immediate, caller>>
  ELSE /\ LeavePool(t, g_queue_pop_tail(queue))
       /\ task' = [task EXCEPT ![t] = Dummy]

\* xthread_pool_wait_for_new_task: a superfluous thread leaves, and so does
\* every thread of an inactive pool; the others pop, and sleep if they must.
xthread_pool_wait_for_new_task(t) ==
  LET active == running \/ (~ immediate /\ Length > 0)
      superfluous == max_threads # -1 /\ num_threads > max_threads
  IN  IF ~ active \/ superfluous
      THEN LeavePool(t, queue) /\ task' = [task EXCEPT ![t] = Dummy]
      ELSE IF queue # <<>> THEN ReceiveTask(t)
      ELSE /\ pc' = [pc EXCEPT ![t] = "asleep"]
           /\ task' = [task EXCEPT ![t] = Dummy]
           /\ UNCHANGED <<queue, num_threads, immediate, caller>>

\* A thread enters the pool.
Enter(t) ==
  /\ pc[t] = "start"
  /\ xthread_pool_wait_for_new_task(t)
  /\ UNCHANGED <<pool, executed, history>>

\* A thread comes back from func.
FuncReturns(t) ==
  /\ pc[t] = "run"
  /\ executed' = executed \cup {task[t]}
  /\ xthread_pool_wait_for_new_task(t)
  /\ UNCHANGED <<pool, history>>

\* A thread whose wait for a task is over gets the mutex again.
PopReturns(t) ==
  /\ pc[t] \in {"woken", "expired"}
  /\ IF queue # <<>> THEN ReceiveTask(t)
     ELSE IF pc[t] = "expired" THEN LeavePool(t, queue) /\ UNCHANGED task
     ELSE /\ pc' = [pc EXCEPT ![t] = "asleep"]
          /\ UNCHANGED <<queue, num_threads, immediate, caller, task>>
  /\ UNCHANGED <<pool, executed, history>>

\* Half a second has passed; the threads of an exclusive pool wait for ever.
Expire(t) ==
  /\ ~ exclusive
  /\ pc[t] \in {"asleep", "woken"}
  /\ pc' = [pc EXCEPT ![t] = "expired"]
  /\ UNCHANGED <<queue, num_threads, immediate, pool, task, caller, executed, history>>

SpuriousWakeup(t) ==
  /\ pc[t] = "asleep"
  /\ pc' = [pc EXCEPT ![t] = "woken"]
  /\ UNCHANGED <<queue, num_threads, immediate, pool, task, caller, executed, history>>

-----------------------------------------------------------------------------
(***************************************************************************)
(* xthread_pool_free.                                                      *)
(***************************************************************************)
\* The condition of the loop in which a caller with wait_ waits.
MustWait(imm) == Length # - num_threads /\ ~ (imm /\ num_threads = 0)

\* A pool that has tasks left is stopped as well.
Bug_AlwaysStops(imm) ==
  IF num_threads = 0
  THEN /\ caller' = "free"
       /\ immediate' = imm
       /\ UNCHANGED <<queue, waiting, pc>>
  ELSE /\ waiting' = FALSE
       /\ caller' = "done"
       /\ queue' = Dummies(num_threads) \o queue
       /\ immediate' = TRUE
       /\ pc' = [t \in Threads |-> IF t \in Asleep THEN "woken" ELSE pc[t]]

\* The rest of the function, after the loop: frees the pool if no thread is
\* left, stops the threads if nothing is left to do, or leaves all to them.
FreeAfterWait(imm) ==
  LET idle == imm \/ Length = - num_threads
  IN  IF idle /\ num_threads = 0
      THEN /\ caller' = "free"
           /\ immediate' = imm
           /\ UNCHANGED <<queue, waiting, pc>>
      ELSE /\ waiting' = FALSE
           /\ caller' = "done"
           /\ IF idle
              THEN /\ queue' = Dummies(num_threads) \o queue
                   /\ immediate' = TRUE
                   /\ pc' = [t \in Threads |-> IF t \in Asleep THEN "woken" ELSE pc[t]]
              ELSE immediate' = imm /\ UNCHANGED <<queue, pc>>

\* The call up to the wait, or to its end if it need not wait.
xthread_pool_free(imm, wait) ==
  /\ caller = "using" /\ running
  /\ imm \/ max_threads # 0 \/ Length = 0
  /\ running' = FALSE
  /\ asked' = [immediate |-> imm, wait |-> wait]
  /\ IF wait /\ MustWait(imm)
     THEN /\ waiting' = TRUE
          /\ immediate' = imm
          /\ caller' = "wait"
          /\ UNCHANGED <<queue, pc>>
     ELSE FreeAfterWait(imm)
  /\ UNCHANGED <<num_threads, exclusive, max_threads, sort_func, freed, task,
                 executed, pushed, handed, failed>>

\* The caller was told, or woke up by itself, and looks again.
FreeResumes ==
  /\ caller = "woken"
  /\ IF MustWait(asked.immediate)
     THEN /\ caller' = "wait"
          /\ UNCHANGED <<queue, immediate, waiting, pc>>
     ELSE FreeAfterWait(asked.immediate)
  /\ UNCHANGED <<num_threads, exclusive, max_threads, running, sort_func,
                 freed, task, executed, history>>

CallerWakes ==
  /\ caller = "wait"
  /\ caller' = "woken"
  /\ UNCHANGED <<queue, num_threads, immediate, pool, pc, task, executed, history>>

\* xthread_pool_free_internal, by the caller or by the last thread.  It returns
\* early unless the pool is stopped and without threads, removes one dummy and
\* drops the queue, whose items go to item_free_func.
xthread_pool_free_internal ==
  /\ \/ /\ caller = "free"
        /\ caller' = "done"
        /\ UNCHANGED pc
     \/ \E t \in Threads :
          /\ pc[t] = "free"
          /\ pc' = [pc EXCEPT ![t] = "out"]
          /\ UNCHANGED caller
  /\ IF running \/ num_threads # 0
     THEN UNCHANGED <<freed, queue, handed>>
     ELSE /\ freed' = TRUE
          /\ handed' = handed \o g_queue_remove(queue, {Dummy})
          /\ queue' = <<>>
  /\ UNCHANGED <<num_threads, exclusive, immediate, max_threads, running,
                 waiting, sort_func, task, executed, asked, pushed, failed>>

-----------------------------------------------------------------------------
ThreadStep(t) == Enter(t) \/ FuncReturns(t) \/ PopReturns(t)

Next ==
  \/ \E item \in Tasks : xthread_pool_push(item) \/ xthread_pool_move_to_front(item)
  \/ \E max \in MaxThreads : xthread_pool_set_max_threads(max)
  \/ \E func \in BOOLEAN : xthread_pool_set_sort_function(func)
  \/ \E imm, wait \in BOOLEAN : xthread_pool_free(imm, wait)
  \/ \E t \in Threads : ThreadStep(t) \/ Expire(t) \/ SpuriousWakeup(t)
  \/ FreeResumes
  \/ CallerWakes
  \/ xthread_pool_free_internal

Spec == Init /\ [][Next]_vars

(***************************************************************************)
(* Threads are scheduled, func returns, the half second passes, and the    *)
(* caller goes on when it was told.  Nobody has to call xthread_pool_free. *)
(***************************************************************************)
FairSpec ==
  /\ Spec
  /\ \A t \in Threads : WF_vars(ThreadStep(t)) /\ WF_vars(Expire(t))
  /\ WF_vars(FreeResumes)
  /\ WF_vars(xthread_pool_free_internal)

-----------------------------------------------------------------------------
TypeOK ==
  /\ queue \in Seq(Tasks \cup {Dummy})
  /\ num_threads \in 0 .. Cardinality(Threads)
  /\ max_threads \in MaxThreads
  /\ exclusive \in BOOLEAN /\ running \in BOOLEAN /\ immediate \in BOOLEAN
  /\ waiting \in BOOLEAN /\ sort_func \in BOOLEAN /\ freed \in BOOLEAN
  /\ failed \in BOOLEAN
  /\ pc \in [Threads -> PC]
  /\ task \in [Threads -> Tasks \cup {Dummy}]
  /\ caller \in Caller
  /\ asked \in [immediate : BOOLEAN, wait : BOOLEAN]
  /\ pushed \subseteq Tasks /\ executed \subseteq Tasks
  /\ handed \in Seq(Tasks \cup {Dummy})

\* num_threads counts the threads that are in the pool or on their way to it,
\* failed creations and threads that leave included.
NumThreadsExact == TypeOK /\ num_threads = Cardinality(Attached)

\* The last thread to leave knows that it is the last, and the pool is freed
\* once, when nobody is left that could touch it: no thread in it or on its way
\* to it, no caller inside xthread_pool_free, and nobody else about to free it.
\* The dummy items that get its threads out are never passed to func.
FreedOnce ==
  /\ NumThreadsExact
  /\ freed => Attached = {} /\ caller = "done"
  /\ Cardinality({t \in Threads : pc[t] = "free"})
       + (IF caller = "free" \/ freed THEN 1 ELSE 0) <= 1
  /\ \A t \in Running : task[t] # Dummy

\* "Otherwise pool is not freed before the last task is processed": a pool
\* freed with immediate = FALSE has executed every task pushed.  And "if wait_
\* is TRUE, this function does not return before all tasks to be processed
\* (dependent on immediate, whether all or only the currently running) are
\* ready."
AllTasksProcessed ==
  /\ freed /\ ~ asked.immediate => executed = pushed
  /\ caller = "done" /\ asked.wait =>
       /\ Running = {}
       /\ ~ asked.immediate => executed = pushed

\* A task in the queue is not left to sleeping or departed threads: as long as
\* the pool may have threads, could create them and is not told to stop, one
\* of its threads is awake and will look at the queue.
QueuedTasksServed ==
  queue # <<>> /\ (running \/ ~ immediate) /\ max_threads # 0 /\ ~ failed
    => Attached \ Asleep # {}

\* item_free_func is not called with the dummy item ("Ensure the dummy item
\* ... is removed, before it's potentially passed to the user-provided
\* item_free_func").
DummyNeverHanded == ~ Contains(handed, Dummy)

\* What was pushed and not executed when the pool is freed is passed to
\* item_free_func (xthread_pool_new_full, gthreadpool.c:578).  The code does
\* not keep it: xthread_pool_thread_proxy drops a task that it took from a pool
\* stopped immediately.
UnexecutedAreHanded == freed => pushed \ executed \subseteq Range(handed)

\* A pool whose free was asked for is freed in the end, unless the creation of
\* a thread has failed.
EventuallyFreed == ~ running ~> (freed \/ failed)

=============================================================================
