-------------------------------- MODULE GTask --------------------------------
(***************************************************************************)
(* The tasks of gio/gtask.c: run in a thread (xtask_run_in_thread, the     *)
(* call returns and a callback comes later), run in a thread and waited    *)
(* for (xtask_run_in_thread_sync), or returned by the application itself   *)
(* ("plain").  A task_func may create and run tasks of its own.            *)
(*                                                                         *)
(* Three threads meet in one task: the one that starts it, the pool thread *)
(* that runs its task_func (actor "worker"), and the one that cancels its  *)
(* cancellable (actor "canceller").  The starter holds task->lock from     *)
(* xtask_start_task_thread on; every other use of the lock is a section of *)
(* one step.  The thread pool is what GThreadPool shows it to be: a sorted *)
(* queue from which at most max_threads threads take.                      *)
(***************************************************************************)
EXTENDS Integers, Sequences, FiniteSets, GQueue

CONSTANTS
  Tasks,
  None,
  Parent,        \* the task whose task_func creates and runs the task, or None
  Modes,         \* how each task may be run
  Results,       \* what each task may be returned with
  Priority,      \* the priority of each task
  Cancellable,   \* the tasks made with a cancellable, each with its own
  PoolSize       \* XTASK_POOL_SIZE

ASSUME GTaskAssumption ==
  /\ IsFiniteSet(Tasks) /\ None \notin Tasks
  /\ Parent \in [Tasks -> Tasks \cup {None}]
  /\ Modes \in [Tasks -> SUBSET {"plain", "async", "sync"}]
  /\ Results \in [Tasks -> SUBSET {"value", "error"}]
  /\ Priority \in [Tasks -> Int]
  /\ Cancellable \subseteq Tasks
  /\ PoolSize \in Nat \ {0}

VARIABLES
  mode, check_cancellable,        \* of each task, chosen when it is created
  run,                            \* where the thread that starts the task is
  at,                             \* where its worker and its canceller are
  nested,                         \* the worker completes the task in task_func
  ref_count, app_ref,
  thread_complete, thread_cancelled, return_on_cancel, blocking_other_task,
  error, result_set, ever_returned, completed,
  cancelled,                      \* of the cancellable
  handler,                        \* task_thread_cancelled at the cancellable
  idle,                           \* complete_in_idle_cb sources not yet run
  calls, got,                     \* callbacks made, and what they were given
  queue, max_threads,             \* task_pool
  tasks_running, armed,           \* armed: the manager has a ready time
  manager                         \* "idle", or "dispatch": it was found ready

taskvars == <<mode, check_cancellable, blocking_other_task, app_ref>>
lockvars == <<thread_complete, thread_cancelled, return_on_cancel>>
resvars == <<error, result_set, ever_returned>>
donevars == <<completed, calls, got, idle>>
poolvars == <<max_threads, tasks_running, armed, manager>>
vars == <<taskvars, lockvars, resvars, donevars, poolvars, run, at, nested,
          ref_count, cancelled, handler, queue>>

Actors == {"worker", "canceller"}

RunStates == {"unused", "new", "check", "connect", "push", "unlock", "return",
              "wait", "asleep", "unref", "done"}

AtStates == {"idle", "queued", "taken", "func", "unref", "cleanup", "gone",
             "emit", "front", "handler", "handled",
             "complete", "disconnect", "finish"}

TypeOK ==
  /\ mode \in [Tasks -> {"plain", "async", "sync"}]
  /\ run \in [Tasks -> RunStates]
  /\ at \in [Tasks -> [Actors -> AtStates]]
  /\ check_cancellable \in [Tasks -> BOOLEAN] /\ app_ref \in [Tasks -> BOOLEAN]
  /\ nested \in [Tasks -> BOOLEAN] /\ blocking_other_task \in [Tasks -> BOOLEAN]
  /\ thread_complete \in [Tasks -> BOOLEAN] /\ thread_cancelled \in [Tasks -> BOOLEAN]
  /\ return_on_cancel \in [Tasks -> BOOLEAN] /\ cancelled \in [Tasks -> BOOLEAN]
  /\ error \in [Tasks -> BOOLEAN] /\ result_set \in [Tasks -> BOOLEAN]
  /\ ever_returned \in [Tasks -> BOOLEAN] /\ completed \in [Tasks -> BOOLEAN]
  /\ ref_count \in [Tasks -> Nat] /\ idle \in [Tasks -> Nat] /\ calls \in [Tasks -> Nat]
  /\ handler \in [Tasks -> {"none", "connected", "disconnected"}]
  /\ got \in [Tasks -> {"nothing", "cancelled", "error", "value", "empty"}]
  /\ queue \in Seq(Tasks)
  /\ max_threads \in Nat /\ tasks_running \in Nat
  /\ armed \in BOOLEAN /\ manager \in {"idle", "dispatch"}

Init ==
  /\ mode = [k \in Tasks |-> "plain"]
  /\ run = [k \in Tasks |-> "unused"]
  /\ at = [k \in Tasks |-> [a \in Actors |-> "idle"]]
  /\ check_cancellable = [k \in Tasks |-> TRUE]
  /\ nested = [k \in Tasks |-> FALSE]
  /\ ref_count = [k \in Tasks |-> 0] /\ app_ref = [k \in Tasks |-> FALSE]
  /\ thread_complete = [k \in Tasks |-> FALSE]
  /\ thread_cancelled = [k \in Tasks |-> FALSE]
  /\ return_on_cancel = [k \in Tasks |-> FALSE]
  /\ blocking_other_task = [k \in Tasks |-> FALSE]
  /\ error = [k \in Tasks |-> FALSE]
  /\ result_set = [k \in Tasks |-> FALSE]
  /\ ever_returned = [k \in Tasks |-> FALSE]
  /\ completed = [k \in Tasks |-> FALSE]
  /\ cancelled = [k \in Tasks |-> FALSE]
  /\ handler = [k \in Tasks |-> "none"]
  /\ idle = [k \in Tasks |-> 0]
  /\ calls = [k \in Tasks |-> 0] /\ got = [k \in Tasks |-> "nothing"]
  /\ queue = <<>> /\ max_threads = PoolSize
  /\ tasks_running = 0 /\ armed = FALSE /\ manager = "idle"

-----------------------------------------------------------------------------
(***************************************************************************)
(* References, locks and results.                                          *)
(***************************************************************************)

Ref(k, n) == ref_count' = [ref_count EXCEPT ![k] = @ + n]

\* task->lock is free: the starter holds it until it unlocks or sleeps.
Unlocked(k) == run[k] \notin {"check", "connect", "push", "unlock", "wait"}

\* The thread of task_func k is inside a call that starts another task.
Calling(k) == \E c \in Tasks : Parent[c] = k /\ run[c] \notin {"unused", "new", "done"}

InFunc(k) == at[k]["worker"] = "func" /\ ~Calling(k)

\* The code that creates and starts k is running.
MayStart(k) == Parent[k] \in {None} \cup {p \in Tasks : InFunc(p)}

\* What xtask_propagate_pointer and the like make of the task.
xtask_propagate(k) ==
  IF check_cancellable[k] /\ cancelled[k] THEN "cancelled"
  ELSE IF error[k] THEN "error"
  ELSE IF result_set[k] THEN "value" ELSE "empty"

\* The callback is called and takes the result; then the task has completed.
xtask_return_now(k) ==
  /\ calls' = [calls EXCEPT ![k] = @ + 1]
  /\ got' = [got EXCEPT ![k] = xtask_propagate(k)']
  /\ completed' = [completed EXCEPT ![k] = TRUE]

\* The end of xtask_return outside the task's main context: the idle source
\* holds two references, one for its callback and one of xtask_attach_source.
ReturnInIdle(k) ==
  /\ idle' = [idle EXCEPT ![k] = @ + 1]
  /\ Ref(k, 2)
  /\ UNCHANGED <<completed, calls, got>>

complete_in_idle_cb(k) ==
  /\ idle[k] > 0
  /\ idle' = [idle EXCEPT ![k] = @ - 1]
  /\ UNCHANGED <<taskvars, lockvars, resvars, poolvars, run, at, nested,
                 cancelled, handler, queue>>
  /\ xtask_return_now(k)
  /\ Ref(k, -2)

-----------------------------------------------------------------------------
(***************************************************************************)
(* The application.                                                        *)
(***************************************************************************)

xtask_new(k) ==
  /\ run[k] = "unused" /\ MayStart(k)
  /\ run' = [run EXCEPT ![k] = "new"]
  /\ \E m \in Modes[k] : mode' = [mode EXCEPT ![k] = m]
  /\ ref_count' = [ref_count EXCEPT ![k] = 1]
  /\ app_ref' = [app_ref EXCEPT ![k] = TRUE]
  /\ UNCHANGED <<check_cancellable, blocking_other_task, lockvars, resvars, donevars,
                 poolvars, at, nested, cancelled, handler, queue>>

\* Refused for a task that returns when it is cancelled.
xtask_set_check_cancellable(k) ==
  /\ run[k] = "new" /\ k \in Cancellable
  /\ check_cancellable[k] /\ ~return_on_cancel[k]
  /\ check_cancellable' = [check_cancellable EXCEPT ![k] = FALSE]
  /\ UNCHANGED <<mode, blocking_other_task, app_ref, lockvars, resvars, donevars,
                 poolvars, run, at, nested, ref_count, cancelled, handler, queue>>

\* Before the task is threaded the flag is only stored.  Inside task_func
\* the lock is taken; when the task was cancelled before, the request to
\* return on cancel completes it, and the flag keeps its value.
xtask_set_return_on_cancel(k, v) ==
  /\ k \in Cancellable
  /\ check_cancellable[k] \/ ~v
  /\ v # return_on_cancel[k]
  /\ \/ /\ run[k] = "new"
        /\ return_on_cancel' = [return_on_cancel EXCEPT ![k] = v]
        /\ UNCHANGED <<at, nested>>
     \/ /\ InFunc(k) /\ Unlocked(k)
        /\ IF thread_cancelled[k]
           THEN /\ v
                /\ at' = [at EXCEPT ![k]["worker"] = "complete"]
                /\ nested' = [nested EXCEPT ![k] = TRUE]
                /\ UNCHANGED return_on_cancel
           ELSE /\ return_on_cancel' = [return_on_cancel EXCEPT ![k] = v]
                /\ UNCHANGED <<at, nested>>
  /\ UNCHANGED <<taskvars, thread_complete, thread_cancelled, resvars, donevars,
                 poolvars, run, ref_count, cancelled, handler, queue>>

\* xtask_return_pointer and its kin, xtask_return_error: one of them, once.
SetResult(k) ==
  /\ ~ever_returned[k]
  /\ ever_returned' = [ever_returned EXCEPT ![k] = TRUE]
  /\ \E r \in Results[k] :
       /\ result_set' = [result_set EXCEPT ![k] = @ \/ r = "value"]
       /\ error' = [error EXCEPT ![k] = @ \/ r = "error"]

\* A plain task is returned by the application.  It completes at once in a
\* later iteration of its own main context, unless it has been cancelled.
ReturnPlain(k) ==
  /\ run[k] = "new" /\ mode[k] = "plain" /\ MayStart(k)
  /\ SetResult(k)
  /\ run' = [run EXCEPT ![k] = "done"]
  /\ UNCHANGED <<taskvars, lockvars, poolvars, at, nested, cancelled, handler, queue>>
  /\ \/ ~cancelled[k] /\ xtask_return_now(k) /\ UNCHANGED <<idle, ref_count>>
     \/ ReturnInIdle(k)

xobject_unref(k) ==
  /\ app_ref[k] /\ run[k] = "done"
  /\ app_ref' = [app_ref EXCEPT ![k] = FALSE]
  /\ Ref(k, -1)
  /\ UNCHANGED <<mode, check_cancellable, blocking_other_task, lockvars, resvars,
                 donevars, poolvars, run, at, nested, cancelled, handler, queue>>

-----------------------------------------------------------------------------
(***************************************************************************)
(* xtask_run_in_thread, xtask_run_in_thread_sync and                       *)
(* xtask_start_task_thread.                                                *)
(***************************************************************************)

\* A step of the starter that leaves most of the task alone.
Starts(k, from, to) ==
  /\ run[k] = from
  /\ run' = [run EXCEPT ![k] = to]
  /\ UNCHANGED <<mode, check_cancellable, app_ref, poolvars, return_on_cancel,
                 result_set, ever_returned, nested, cancelled>>

xtask_run_in_thread(k) ==
  /\ mode[k] \in {"async", "sync"} /\ MayStart(k)
  /\ Starts(k, "new", "check")
  /\ Ref(k, 1)
  /\ UNCHANGED <<blocking_other_task, at, thread_complete, thread_cancelled, error,
                 donevars, handler, queue>>

\* A task that returns on cancel and is cancelled already is complete before
\* its task_func runs; its signal handler is not connected.
CheckCancelled(k) ==
  LET returned == k \in Cancellable /\ return_on_cancel[k] /\ cancelled[k] IN
  /\ Starts(k, "check", IF k \in Cancellable /\ ~returned THEN "connect" ELSE "push")
  /\ thread_complete' = [thread_complete EXCEPT ![k] = returned]
  /\ thread_cancelled' = [thread_cancelled EXCEPT ![k] = returned]
  /\ error' = [error EXCEPT ![k] = returned]
  /\ UNCHANGED <<blocking_other_task, ref_count, at, donevars, handler, queue>>

\* xsignal_connect_data does not look at the cancellable again.
ConnectHandler(k) ==
  /\ Starts(k, "connect", "push")
  /\ handler' = [handler EXCEPT ![k] = "connected"]
  /\ Ref(k, 1)
  /\ UNCHANGED <<blocking_other_task, at, thread_complete, thread_cancelled, error,
                 donevars, queue>>

\* The tasks that run before others: those that block another task, then the
\* cancelled ones, then by priority (true: xtask_compare_priority (a, b) < 0).
xtask_compare_priority(a, b, blocking) ==
  LET late(k) == check_cancellable[k] /\ cancelled[k] IN
  \/ blocking[a] /\ ~blocking[b]
  \/ /\ blocking[a] = blocking[b]
     /\ \/ late(a) /\ ~late(b)
        \/ late(a) = late(b) /\ Priority[a] < Priority[b]

\* xthread_pool_push: threads take from the tail of the queue, so that the
\* compare function is inverted.  A task started by a task_func blocks it.
PushTask(k) ==
  LET blocking == [blocking_other_task EXCEPT ![k] = ~thread_complete[k] /\ Parent[k] # None]
      inverted == {p \in Tasks \X Tasks : xtask_compare_priority(p[2], p[1], blocking)} IN
  /\ Starts(k, "push", IF mode[k] = "sync" THEN "wait" ELSE "unlock")
  /\ blocking_other_task' = blocking
  /\ queue' = g_queue_insert_sorted(queue, k, inverted)
  /\ at' = [at EXCEPT ![k]["worker"] = "queued"]
  /\ Ref(k, 1)
  /\ UNCHANGED <<thread_complete, thread_cancelled, error, donevars, handler>>

\* xtask_run_in_thread unlocks, and returns the task that was complete already.
UnlockStarted(k) ==
  /\ Starts(k, "unlock", IF thread_complete[k] THEN "return" ELSE "unref")
  /\ UNCHANGED <<blocking_other_task, ref_count, at, thread_complete, thread_cancelled,
                 error, donevars, handler, queue>>

ReturnStarted(k) ==
  /\ Starts(k, "return", "unref")
  /\ ReturnInIdle(k)
  /\ UNCHANGED <<blocking_other_task, at, thread_complete, thread_cancelled, error,
                 handler, queue>>

\* The loop of xtask_run_in_thread_sync: sleep on task->cond, which gives up
\* the lock, or unlock and complete in this thread.  The caller then takes
\* the result.
WaitComplete(k) ==
  /\ Starts(k, "wait", IF thread_complete[k] THEN "unref" ELSE "asleep")
  /\ completed' = [completed EXCEPT ![k] = thread_complete[k]]
  /\ got' = [got EXCEPT ![k] = IF thread_complete[k] THEN xtask_propagate(k) ELSE @]
  /\ UNCHANGED <<blocking_other_task, ref_count, at, thread_complete, thread_cancelled,
                 error, calls, idle, handler, queue>>

UnrefStarted(k) ==
  /\ Starts(k, "unref", "done")
  /\ Ref(k, -1)
  /\ UNCHANGED <<blocking_other_task, at, thread_complete, thread_cancelled, error,
                 donevars, handler, queue>>

Start(k) ==
  \/ CheckCancelled(k) \/ ConnectHandler(k) \/ PushTask(k) \/ UnlockStarted(k)
  \/ ReturnStarted(k) \/ WaitComplete(k) \/ UnrefStarted(k)

-----------------------------------------------------------------------------
(***************************************************************************)
(* xtask_thread_complete, called by the worker when task_func returns or   *)
(* inside xtask_set_return_on_cancel, and by the canceller.                *)
(***************************************************************************)

\* Where the caller goes on.
Caller(k, a) ==
  IF a = "canceller" THEN "handled" ELSE IF nested[k] THEN "func" ELSE "unref"

Acts(k, a, from, to) ==
  /\ at[k][a] = from
  /\ at' = [at EXCEPT ![k][a] = to]
  /\ UNCHANGED <<taskvars, return_on_cancel, cancelled>>

\* Whoever comes second completes the task again.
Bug_CompleteTwice(k, a) ==
  /\ Unlocked(k)
  /\ Acts(k, a, "complete", "disconnect")
  /\ thread_complete' = [thread_complete EXCEPT ![k] = TRUE]
  /\ UNCHANGED <<thread_cancelled, resvars, donevars, poolvars, run, nested, ref_count,
                 handler, queue>>

\* The first to set thread_complete goes on, the other one returns.
xtask_thread_complete(k, a) ==
  /\ Unlocked(k)
  /\ Acts(k, a, "complete", IF thread_complete[k] THEN Caller(k, a) ELSE "disconnect")
  /\ thread_complete' = [thread_complete EXCEPT ![k] = TRUE]
  /\ UNCHANGED <<thread_cancelled, resvars, donevars, poolvars, run, nested, ref_count,
                 handler, queue>>

\* Emitting ::cancelled holds the handler, and with it the task.
Emitting(k) ==
  at[k]["canceller"] \in {"front", "handler", "complete", "disconnect", "finish", "handled"}

\* The handler is disconnected by the canceller only.
Bug_StaysConnected(k, a) ==
  /\ Acts(k, a, "disconnect", "finish")
  /\ IF handler[k] = "connected" /\ a = "canceller"
     THEN handler' = [handler EXCEPT ![k] = "disconnected"]
     ELSE UNCHANGED handler
  /\ UNCHANGED <<thread_complete, thread_cancelled, resvars, donevars, poolvars, run,
                 nested, ref_count, queue>>

DisconnectHandler(k, a) ==
  /\ Acts(k, a, "disconnect", "finish")
  /\ IF handler[k] = "connected"
     THEN /\ handler' = [handler EXCEPT ![k] = IF Emitting(k) THEN "disconnected" ELSE "none"]
          /\ Ref(k, IF Emitting(k) THEN 0 ELSE -1)
     ELSE UNCHANGED <<handler, ref_count>>
  /\ UNCHANGED <<thread_complete, thread_cancelled, resvars, donevars, poolvars, run,
                 nested, queue>>

\* g_cond_signal, outside the lock, or xtask_return from the thread.
SignalComplete(k, a) ==
  /\ Acts(k, a, "finish", Caller(k, a))
  /\ IF mode[k] = "sync"
     THEN /\ run' = [run EXCEPT ![k] = IF @ = "asleep" THEN "wait" ELSE @]
          /\ UNCHANGED <<donevars, ref_count>>
     ELSE ReturnInIdle(k) /\ UNCHANGED run
  /\ UNCHANGED <<thread_complete, thread_cancelled, resvars, poolvars, nested, handler,
                 queue>>

Complete(k, a) ==
  xtask_thread_complete(k, a) \/ DisconnectHandler(k, a) \/ SignalComplete(k, a)

-----------------------------------------------------------------------------
(***************************************************************************)
(* The canceller: xcancellable_cancel and task_thread_cancelled.           *)
(***************************************************************************)

xcancellable_cancel(k) ==
  /\ k \in Cancellable /\ run[k] # "unused"
  /\ ~cancelled[k]
  /\ cancelled' = [cancelled EXCEPT ![k] = TRUE]
  /\ at' = [at EXCEPT ![k]["canceller"] = "emit"]
  /\ UNCHANGED <<taskvars, lockvars, resvars, donevars, poolvars, run, nested, ref_count,
                 handler, queue>>

\* A handler that is not connected by now is not called.
EmitCancelled(k) ==
  /\ Acts(k, "canceller", "emit", IF handler[k] = "connected" THEN "front" ELSE "gone")
  /\ UNCHANGED <<thread_complete, thread_cancelled, resvars, donevars, poolvars, run,
                 nested, ref_count, handler, queue>>

\* xthread_pool_move_to_front: the tail of the queue is taken next.
MoveToFront(k) ==
  /\ Acts(k, "canceller", "front", "handler")
  /\ queue' = IF \E i \in DOMAIN queue : queue[i] = k
              THEN g_queue_push_tail(g_queue_remove(queue, {k}), k) ELSE queue
  /\ UNCHANGED <<thread_complete, thread_cancelled, resvars, donevars, poolvars, run,
                 nested, ref_count, handler>>

\* The handler leaves it to task_func to notice.
Bug_OnlyFlag(k) ==
  /\ Unlocked(k)
  /\ Acts(k, "canceller", "handler", "handled")
  /\ thread_cancelled' = [thread_cancelled EXCEPT ![k] = TRUE]
  /\ UNCHANGED <<thread_complete, resvars, donevars, poolvars, run, nested, ref_count,
                 handler, queue>>

task_thread_cancelled(k) ==
  /\ Unlocked(k)
  /\ Acts(k, "canceller", "handler", IF return_on_cancel[k] THEN "complete" ELSE "handled")
  /\ thread_cancelled' = [thread_cancelled EXCEPT ![k] = TRUE]
  /\ UNCHANGED <<thread_complete, resvars, donevars, poolvars, run, nested, ref_count,
                 handler, queue>>

\* The emission gives up the handler; if that was disconnected meanwhile,
\* task_thread_cancelled_disconnect_notify runs now.
EmissionEnds(k) ==
  /\ Acts(k, "canceller", "handled", "gone")
  /\ IF handler[k] = "disconnected"
     THEN handler' = [handler EXCEPT ![k] = "none"] /\ Ref(k, -1)
     ELSE UNCHANGED <<handler, ref_count>>
  /\ UNCHANGED <<thread_complete, thread_cancelled, resvars, donevars, poolvars, run,
                 nested, queue>>

Cancelling(k) ==
  \/ EmitCancelled(k) \/ MoveToFront(k) \/ task_thread_cancelled(k)
  \/ Complete(k, "canceller") \/ EmissionEnds(k)

-----------------------------------------------------------------------------
(***************************************************************************)
(* The pool: its threads run xtask_thread_pool_thread.                     *)
(***************************************************************************)

Works(k, from, to) ==
  /\ Acts(k, "worker", from, to)
  /\ UNCHANGED <<thread_complete, thread_cancelled, donevars, run, handler>>

\* Tasks a thread of the pool has taken and not finished.
Busy == {k \in Tasks : at[k]["worker"] \notin {"idle", "queued", "gone"}}

TakeTask(k) ==
  /\ queue # <<>> /\ Last(queue) = k
  /\ Cardinality(Busy) < max_threads
  /\ Works(k, "queued", "taken")
  /\ queue' = g_queue_pop_tail(queue)
  /\ UNCHANGED <<resvars, poolvars, nested, ref_count>>

xtask_thread_setup(k) ==
  /\ Works(k, "taken", "func")
  /\ tasks_running' = tasks_running + 1
  /\ armed' = (armed \/ tasks_running' >= PoolSize)
  /\ UNCHANGED <<resvars, max_threads, manager, nested, ref_count, queue>>

\* task_func returns a result; the task completes when task_func returns.
FuncSetsResult(k) ==
  /\ InFunc(k)
  /\ SetResult(k)
  /\ UNCHANGED <<taskvars, lockvars, donevars, poolvars, run, at, nested, ref_count,
                 cancelled, handler, queue>>

xtask_return_error_if_cancelled(k) ==
  /\ InFunc(k)
  /\ ~ever_returned[k] /\ cancelled[k]
  /\ error' = [error EXCEPT ![k] = TRUE]
  /\ ever_returned' = [ever_returned EXCEPT ![k] = TRUE]
  /\ UNCHANGED <<taskvars, lockvars, result_set, donevars, poolvars, run, at, nested,
                 ref_count, cancelled, handler, queue>>

\* task_func ends with a result, or without one if the task has completed
\* without it.
FuncReturns(k) ==
  /\ InFunc(k)
  /\ ever_returned[k] \/ thread_complete[k]
  /\ Works(k, "func", "complete")
  /\ nested' = [nested EXCEPT ![k] = FALSE]
  /\ UNCHANGED <<resvars, poolvars, ref_count, queue>>

UnrefWorked(k) ==
  /\ Works(k, "unref", "cleanup")
  /\ Ref(k, -1)
  /\ UNCHANGED <<resvars, poolvars, nested, queue>>

\* An overflow thread takes its place with it when it ends.
xtask_thread_cleanup(k) ==
  /\ Works(k, "cleanup", "gone")
  /\ tasks_running' = tasks_running - 1
  /\ max_threads' = IF tasks_running > PoolSize THEN tasks_running - 1 ELSE max_threads
  /\ armed' = (armed /\ (tasks_running > PoolSize \/ tasks_running + Len(queue) >= PoolSize))
  /\ UNCHANGED <<resvars, manager, nested, ref_count, queue>>

\* The worker context finds the ready time passed, then calls the callback.
ManagerReady ==
  /\ armed /\ manager = "idle"
  /\ manager' = "dispatch"
  /\ UNCHANGED <<taskvars, lockvars, resvars, donevars, max_threads, tasks_running, armed,
                 run, at, nested, ref_count, cancelled, handler, queue>>

task_pool_manager_timeout ==
  /\ manager = "dispatch"
  /\ manager' = "idle"
  /\ max_threads' = tasks_running + 1
  /\ armed' = FALSE
  /\ UNCHANGED <<taskvars, lockvars, resvars, donevars, tasks_running,
                 run, at, nested, ref_count, cancelled, handler, queue>>

Work(k) ==
  \/ xtask_thread_setup(k) \/ Complete(k, "worker") \/ UnrefWorked(k)
  \/ xtask_thread_cleanup(k)

Func(k) == FuncSetsResult(k) \/ xtask_return_error_if_cancelled(k) \/ FuncReturns(k)

Next ==
  \/ \E k \in Tasks :
       \/ xtask_new(k) \/ xtask_set_check_cancellable(k) \/ ReturnPlain(k)
       \/ xobject_unref(k) \/ xtask_run_in_thread(k) \/ Start(k)
       \/ \E v \in BOOLEAN : xtask_set_return_on_cancel(k, v)
       \/ complete_in_idle_cb(k)
       \/ xcancellable_cancel(k) \/ Cancelling(k)
       \/ TakeTask(k) \/ Work(k) \/ Func(k)
  \/ ManagerReady \/ task_pool_manager_timeout

Spec == Init /\ [][Next]_vars

(***************************************************************************)
(* Threads that are inside a function of gtask.c go on, the main context   *)
(* and the worker context iterate, the pool takes tasks when it may.       *)
(* Nothing is assumed of a task_func: it may run for ever.                 *)
(***************************************************************************)
Fairness ==
  /\ \A k \in Tasks : /\ WF_vars(Start(k)) /\ WF_vars(Cancelling(k)) /\ WF_vars(Work(k))
                      /\ WF_vars(complete_in_idle_cb(k))
  /\ WF_vars(\E k \in Tasks : TakeTask(k))
  /\ WF_vars(ManagerReady) /\ WF_vars(task_pool_manager_timeout)

FairSpec == Spec /\ Fairness

\* Every task_func that is not waiting for a task of its own ends.
FuncsEnd == \A k \in Tasks : WF_vars(Func(k))

-----------------------------------------------------------------------------

\* A task is completed once, whoever comes first of the worker, the canceller
\* and the starter of a cancelled task; earlier than its task_func returns
\* only when it was cancelled; and never without a result to propagate
\* (xtask_thread_complete, xtask_run_in_thread).
CompletedOnce ==
  \A k \in Tasks :
    /\ calls[k] + idle[k] <= IF mode[k] = "sync" THEN 0 ELSE 1
    /\ completed[k] => mode[k] = "sync" \/ calls[k] = 1
    /\ got[k] # "empty"
    /\ mode[k] # "plain" /\ (completed[k] \/ idle[k] > 0) /\ ~thread_cancelled[k]
         => at[k]["worker"] \in {"unref", "cleanup", "gone"}

\* Some thread is inside a function that uses the task, or will be.
InUse(k) ==
  \/ app_ref[k] \/ idle[k] > 0
  \/ run[k] \notin {"unused", "done"}
  \/ at[k]["worker"] \notin {"idle", "cleanup", "gone"}
  \/ Emitting(k)

\* The references keep a task exactly as long as a thread uses it: it is not
\* finalized under the worker, the canceller or the waiting starter, and the
\* loop of references through the cancellable's handler is always broken
\* (gtask.c:1509).
RefsExact == TypeOK /\ \A k \in Tasks : ref_count[k] > 0 <=> InUse(k)

\* A task that returns on cancel and is told of the cancellation completes
\* even if its task_func runs for ever: also when task_func asks for it late
\* (task_thread_cancelled, xtask_set_return_on_cancel).
CancelReturns ==
  \A k \in Tasks :
    (thread_cancelled[k] /\ (return_on_cancel[k] \/ nested[k])) ~> completed[k]

\* Every task that is started completes, if the task_funcs that do not wait
\* end: the pool grows when its threads wait for tasks in its own queue
\* (gtask.c:629).
StartedCompletes ==
  FuncsEnd => \A k \in Tasks : (run[k] = "check") ~> completed[k]

\* The pool keeps its base size: overflow threads come and go, but the limit
\* is never below XTASK_POOL_SIZE (gtask.c:629).
BaseSizeKept == max_threads >= PoolSize

=============================================================================
