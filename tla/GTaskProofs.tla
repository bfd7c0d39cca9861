---------------------------- MODULE GTaskProofs ----------------------------
(***************************************************************************)
(* Safety of GTask for every set of tasks and every size of the pool.  The *)
(* tasks meet only in the queue of the pool and in tasks_running, so the   *)
(* inductive invariant is one statement per task (TaskInv) and the count   *)
(* of the running tasks, and a step of one task is shown to leave the      *)
(* others alone.                                                           *)
(***************************************************************************)
EXTENDS GTask, GQueueProofs

\* What each actor may be at.
WorkerStates == {"idle", "queued", "taken", "func", "complete", "disconnect", "finish",
                 "unref", "cleanup", "gone"}
CancellerStates == {"idle", "emit", "front", "handler", "complete", "disconnect",
                    "finish", "handled", "gone"}

\* A condition, as a number.
Count(b) == IF b THEN 1 ELSE 0

\* The actor has set thread_complete and has not told anybody yet.
Finishing(k, a) == at[k][a] \in {"disconnect", "finish"}

\* xtask_propagate finds something.
HasResult(k) == error[k] \/ result_set[k] \/ (check_cancellable[k] /\ cancelled[k])

\* The task has not got to the pool.
Unpushed(k) == run[k] \in {"unused", "new", "check", "connect", "push"}

\* Which positions of the caller, the worker and the canceller go together.
StateOK(k) ==
  /\ at[k]["worker"] \in WorkerStates /\ at[k]["canceller"] \in CancellerStates
  /\ at[k]["canceller"] # "idle" => cancelled[k]
  /\ at[k]["worker"] = "idle" <=> Unpushed(k) \/ mode[k] = "plain"
  /\ mode[k] = "plain" => run[k] \in {"unused", "new", "done"} /\ ~thread_complete[k]
  /\ mode[k] = "sync" => run[k] \notin {"unused", "unlock", "return"}
  /\ mode[k] = "async" => run[k] \notin {"unused", "wait", "asleep"}
  /\ run[k] \in {"unused", "new", "check", "connect"} => ~thread_complete[k]
  /\ run[k] \in {"unused", "new", "check"} => ~ever_returned[k]
  /\ run[k] = "unused" => ~app_ref[k]
  /\ run[k] = "new" => app_ref[k]

\* A task that is complete, or about to be, has a result or an error for
\* xtask_propagate to find; nobody has found nothing.
ResultOK(k) ==
  /\ ever_returned[k] => error[k] \/ result_set[k]
  /\ return_on_cancel[k] => check_cancellable[k]
  /\ thread_complete[k] \/ idle[k] > 0 \/ at[k]["worker"] = "complete" => HasResult(k)
  /\ at[k]["canceller"] = "complete" => check_cancellable[k]
  /\ got[k] # "empty"

\* Who may have completed the task: the handler of "cancelled", which sets
\* thread_cancelled, or the worker.
CancelOK(k) ==
  /\ thread_cancelled[k] => cancelled[k]
  /\ at[k]["canceller"] \in {"complete", "disconnect", "finish", "handled"}
       => thread_cancelled[k]
  /\ nested[k] /\ at[k]["worker"] \in {"complete", "disconnect", "finish"}
       => thread_cancelled[k]
  /\ thread_complete[k] /\ ~thread_cancelled[k]
       => at[k]["worker"] \in {"disconnect", "finish", "unref", "cleanup", "gone"}

\* The callback is owed once.  Of a task that has completed, exactly one of these
\* holds: an actor is about to tell, the caller has still to return it from
\* xtask_start_task_thread, an idle source waits, or the callback was called.
DoneOK(k) ==
  /\ \A a \in Actors : Finishing(k, a) => thread_complete[k]
  /\ ~(Finishing(k, "worker") /\ Finishing(k, "canceller"))
  /\ at[k]["worker"] \in {"unref", "cleanup", "gone"} => thread_complete[k]
  /\ mode[k] = "plain" => calls[k] + idle[k] = Count(run[k] = "done")
  /\ mode[k] = "async" =>
       calls[k] + idle[k] + Count(Finishing(k, "worker"))
           + Count(Finishing(k, "canceller"))
         + Count(run[k] \in {"push", "unlock", "return"} /\ thread_complete[k])
         = Count(thread_complete[k])
  /\ mode[k] = "sync" =>
       /\ calls[k] = 0 /\ idle[k] = 0
       /\ \A a \in Actors : Finishing(k, a) => run[k] = "asleep"
       /\ run[k] \in {"unref", "done"} => thread_complete[k]
  /\ completed[k]
         => IF mode[k] = "sync" THEN run[k] \in {"unref", "done"} ELSE calls[k] > 0
  /\ run[k] = "return" => thread_complete[k]

\* A connected handler belongs to a task that is not complete, or somebody is
\* about to disconnect it.
HandlerOK(k) ==
  /\ handler[k] # "none"
         => ~(run[k] \in {"unused", "new", "check", "connect"} \/ mode[k] = "plain")
  /\ Emitting(k) => handler[k] # "none"
  /\ handler[k] = "disconnected" => Emitting(k)
  /\ handler[k] = "connected" => \/ ~thread_complete[k]
                                 \/ \E a \in Actors : at[k][a] = "disconnect"

\* Who holds a reference to the task, apart from the idle sources.
Users(k) ==
  Count(app_ref[k])
    + Count(run[k] \in {"check", "connect", "push", "unlock", "return", "wait",
                        "asleep", "unref"})
    + Count(at[k]["worker"] \in {"queued", "taken", "func", "complete", "disconnect",
                                 "finish", "unref"})
    + Count(handler[k] # "none")

\* The reference count; an idle source counts twice, for its own reference and
\* for the one of the task to itself.
RefOK(k) == ref_count[k] = Users(k) + idle[k] + idle[k]

\* What is true of one task.
TaskInv(k) ==
  StateOK(k) /\ ResultOK(k) /\ CancelOK(k) /\ DoneOK(k) /\ HandlerOK(k) /\ RefOK(k)

\* The tasks counted by tasks_running.
RunningStates == {"func", "complete", "disconnect", "finish", "unref", "cleanup"}
Running == {k \in Tasks : at[k]["worker"] \in RunningStates}

\* The inductive invariant.
GTaskInv ==
  /\ TypeOK
  /\ tasks_running = Cardinality(Running)
  /\ \A k \in Tasks : TaskInv(k)

\* A step of another task leaves task j as it is.
SameTask(j) ==
  /\ at'[j] = at[j]
  /\ mode'[j] = mode[j]
  /\ run'[j] = run[j]
  /\ check_cancellable'[j] = check_cancellable[j]
  /\ nested'[j] = nested[j]
  /\ ref_count'[j] = ref_count[j]
  /\ app_ref'[j] = app_ref[j]
  /\ thread_complete'[j] = thread_complete[j]
  /\ thread_cancelled'[j] = thread_cancelled[j]
  /\ return_on_cancel'[j] = return_on_cancel[j]
  /\ blocking_other_task'[j] = blocking_other_task[j]
  /\ error'[j] = error[j]
  /\ result_set'[j] = result_set[j]
  /\ ever_returned'[j] = ever_returned[j]
  /\ completed'[j] = completed[j]
  /\ cancelled'[j] = cancelled[j]
  /\ handler'[j] = handler[j]
  /\ idle'[j] = idle[j]
  /\ calls'[j] = calls[j]
  /\ got'[j] = got[j]

\* What is true of a task stays true while other tasks move.
LEMMA Frame ==
  ASSUME NEW j \in Tasks, TaskInv(j), SameTask(j)
  PROVE  TaskInv(j)'
<1>1. StateOK(j)'
  BY DEF TaskInv, SameTask, StateOK, Unpushed
<1>2. ResultOK(j)'
  BY DEF TaskInv, SameTask, ResultOK, HasResult
<1>3. CancelOK(j)'
  BY DEF TaskInv, SameTask, CancelOK
<1>4. DoneOK(j)'
  BY DEF TaskInv, SameTask, DoneOK, Finishing
<1>5. HandlerOK(j)'
  BY DEF TaskInv, SameTask, HandlerOK, Emitting
<1>6. RefOK(j)'
  BY DEF TaskInv, SameTask, RefOK, Users
<1> QED BY <1>1, <1>2, <1>3, <1>4, <1>5, <1>6 DEF TaskInv

\* It is enough to look at the task that moves.
LEMMA OneTask ==
  ASSUME GTaskInv, TypeOK', tasks_running' = Cardinality(Running'), NEW k \in Tasks,
         TaskInv(k)', \A j \in Tasks \ {k} : SameTask(j)
  PROVE  GTaskInv'
<1>1. ASSUME NEW j \in Tasks PROVE TaskInv(j)'
  <2>1. CASE j = k
    BY <2>1
  <2>2. CASE j # k
    BY Frame DEF GTaskInv
  <2> QED BY <2>2
<1> QED BY <1>1 DEF GTaskInv

\* tasks_running when the task that moves neither starts nor ends to run,
LEMMA SameRunning ==
  ASSUME NEW k \in Tasks, tasks_running = Cardinality(Running),
         at'[k]["worker"] \in RunningStates <=> at[k]["worker"] \in RunningStates,
         \A j \in Tasks \ {k} : SameTask(j), tasks_running' = tasks_running
  PROVE  tasks_running' = Cardinality(Running')
<1>1. Running' = Running
  BY DEF Running, SameTask
<1> QED BY <1>1

\* when it starts,
LEMMA OneMoreRunning ==
  ASSUME NEW k \in Tasks, tasks_running = Cardinality(Running),
         at[k]["worker"] \notin RunningStates, at'[k]["worker"] \in RunningStates,
         \A j \in Tasks \ {k} : SameTask(j), tasks_running' = tasks_running + 1
  PROVE  tasks_running' = Cardinality(Running') /\ tasks_running' \in Nat
<1>1. Running' = Running \cup {k} /\ k \notin Running
  BY DEF Running, SameTask
<1>2. IsFiniteSet(Running)
  BY GTaskAssumption, FS_Subset DEF Running
<1> QED BY <1>1, <1>2, FS_AddElement, FS_CardinalityType

\* and when it ends.
LEMMA OneLessRunning ==
  ASSUME NEW k \in Tasks, tasks_running = Cardinality(Running),
         at[k]["worker"] \in RunningStates, at'[k]["worker"] \notin RunningStates,
         \A j \in Tasks \ {k} : SameTask(j), tasks_running' = tasks_running - 1
  PROVE  tasks_running' = Cardinality(Running') /\ tasks_running' \in Nat
<1>1. Running' = Running \ {k} /\ k \in Running
  BY DEF Running, SameTask
<1>2. IsFiniteSet(Running) /\ IsFiniteSet(Running')
  BY GTaskAssumption, FS_Subset DEF Running
<1> QED BY <1>1, <1>2, FS_RemoveElement, FS_CardinalityType

\* xtask_new.
LEMMA NewStep ==
  ASSUME GTaskInv, NEW k \in Tasks, xtask_new(k)
  PROVE  GTaskInv'
<1>1. /\ TypeOK /\ TaskInv(k) /\ tasks_running = Cardinality(Running)
      /\ idle[k] \in Nat /\ calls[k] \in Nat /\ ref_count[k] \in Nat
  BY DEF GTaskInv, TypeOK
<1>2. /\ run[k] = "unused" /\ run'[k] = "new" /\ ref_count'[k] = 1 /\ app_ref'[k]
      /\ UNCHANGED <<at, check_cancellable, nested, thread_complete, thread_cancelled,
                     return_on_cancel, blocking_other_task, error, result_set,
                     ever_returned, completed, cancelled, handler, idle, calls,
                     got>>
  BY <1>1 DEF TypeOK, xtask_new, lockvars, resvars, donevars
<1>3. \A j \in Tasks \ {k} : SameTask(j)
  BY DEF SameTask, xtask_new, lockvars, resvars, donevars
<1>4. idle[k] = 0 /\ calls[k] = 0 /\ mode[k] = "plain" /\ handler[k] = "none"
          /\ at[k]["worker"] = "idle"
  BY <1>1, <1>2 DEF TaskInv, StateOK, DoneOK, HandlerOK, Count, TypeOK
<1>5. StateOK(k)'
  BY <1>1, <1>2 DEF TaskInv, StateOK, Unpushed
<1>6. DoneOK(k)'
  BY <1>1, <1>2, <1>4 DEF TypeOK, TaskInv, DoneOK, Finishing, Actors, StateOK
<1>7. HandlerOK(k)'
  BY <1>1, <1>2 DEF TaskInv, HandlerOK, Emitting
<1>8. RefOK(k)'
  BY <1>2, <1>4 DEF RefOK, Users, Count
<1>9. ResultOK(k)' /\ CancelOK(k)'
  BY <1>1, <1>2 DEF TaskInv, ResultOK, HasResult, CancelOK
<1>10. TypeOK' /\ tasks_running' = Cardinality(Running')
  <2>1. tasks_running' = Cardinality(Running')
    BY <1>1, <1>3, SameRunning DEF xtask_new, poolvars
  <2>2. ref_count' \in [Tasks -> Nat]
    <3>1. ref_count'[k] \in Nat
      BY <1>2
    <3> QED BY <1>1 DEF TypeOK, xtask_new
  <2>3. mode' \in [Tasks -> {"plain", "async", "sync"}]
    BY <1>1, GTaskAssumption DEF TypeOK, xtask_new
  <2> QED
    BY <1>1, <2>1, <2>3 DEF TypeOK, xtask_new, RunStates, lockvars, resvars, donevars,
       poolvars
<1> QED BY <1>3, <1>10, <1>5, <1>6, <1>7, <1>8, <1>9, OneTask DEF TaskInv

\* xtask_set_check_cancellable.
LEMMA SetCheckStep ==
  ASSUME GTaskInv, NEW k \in Tasks, xtask_set_check_cancellable(k)
  PROVE  GTaskInv'
<1>1. /\ TypeOK /\ TaskInv(k) /\ tasks_running = Cardinality(Running)
      /\ idle[k] \in Nat /\ calls[k] \in Nat /\ ref_count[k] \in Nat
  BY DEF GTaskInv, TypeOK
<1>2. /\ run[k] = "new" /\ ~return_on_cancel[k] /\ ~check_cancellable'[k]
      /\ UNCHANGED <<at, mode, run, nested, ref_count, app_ref, thread_complete,
                     thread_cancelled, return_on_cancel, blocking_other_task,
                     error, result_set, ever_returned, completed, cancelled,
                     handler, idle, calls, got>>
  BY <1>1 DEF TypeOK, xtask_set_check_cancellable, lockvars, resvars, donevars
<1>3. \A j \in Tasks \ {k} : SameTask(j)
  BY DEF SameTask, xtask_set_check_cancellable, lockvars, resvars, donevars
<1>4. idle[k] = 0 /\ at[k]["canceller"] # "complete" /\ at[k]["worker"] = "idle"
          /\ ~thread_complete[k] /\ ~ever_returned[k]
  BY <1>1, <1>2 DEF TypeOK, TaskInv, StateOK, Unpushed, DoneOK, Count, HandlerOK,
     Emitting
<1>5. ResultOK(k)'
  BY <1>1, <1>2, <1>4 DEF TaskInv, ResultOK
<1>6. StateOK(k)' /\ CancelOK(k)' /\ DoneOK(k)' /\ HandlerOK(k)' /\ RefOK(k)'
  BY <1>1, <1>2
     DEF TaskInv, StateOK, Unpushed, CancelOK, DoneOK, Finishing, HandlerOK, Emitting,
         RefOK, Users
<1>7. TypeOK' /\ tasks_running' = Cardinality(Running')
  <2>1. tasks_running' = Cardinality(Running')
    BY <1>1, <1>3, SameRunning DEF xtask_set_check_cancellable, poolvars
  <2>2. ref_count' \in [Tasks -> Nat]
    BY <1>1 DEF TypeOK, xtask_set_check_cancellable
  <2> QED
    BY <1>1, <2>1
       DEF TypeOK, xtask_set_check_cancellable, lockvars, resvars, donevars, poolvars
<1> QED BY <1>3, <1>7, <1>5, <1>6, OneTask DEF TaskInv

\* The application drops its reference.
LEMMA AppUnrefStep ==
  ASSUME GTaskInv, NEW k \in Tasks, xobject_unref(k)
  PROVE  GTaskInv'
<1>1. /\ TypeOK /\ TaskInv(k) /\ tasks_running = Cardinality(Running)
      /\ idle[k] \in Nat /\ calls[k] \in Nat /\ ref_count[k] \in Nat
  BY DEF GTaskInv, TypeOK
<1>2. /\ app_ref[k] /\ run[k] = "done" /\ ref_count'[k] = ref_count[k] - 1
      /\ ~app_ref'[k]
      /\ UNCHANGED <<at, mode, run, check_cancellable, nested, thread_complete,
                     thread_cancelled, return_on_cancel, blocking_other_task,
                     error, result_set, ever_returned, completed, cancelled,
                     handler, idle, calls, got>>
  BY <1>1 DEF TypeOK, xobject_unref, Ref, lockvars, resvars, donevars
<1>3. \A j \in Tasks \ {k} : SameTask(j)
  BY DEF SameTask, xobject_unref, Ref, lockvars, resvars, donevars
<1>4. StateOK(k)'
  BY <1>1, <1>2 DEF TaskInv, StateOK, Unpushed
<1>5. RefOK(k)'
  <2>1. Users(k) \in Nat /\ Users(k)' = Users(k) - 1
    BY <1>2 DEF Users, Count
  <2>2. ref_count[k] = Users(k) + idle[k] + idle[k]
    BY <1>1 DEF TaskInv, RefOK
  <2> QED BY <1>1, <1>2, <2>1, <2>2 DEF RefOK
<1>6. ResultOK(k)' /\ CancelOK(k)' /\ DoneOK(k)' /\ HandlerOK(k)'
  BY <1>1, <1>2 DEF TaskInv, ResultOK, HasResult, CancelOK, DoneOK, Finishing,
     HandlerOK, Emitting
<1>7. TypeOK' /\ tasks_running' = Cardinality(Running')
  <2>1. tasks_running' = Cardinality(Running')
    BY <1>1, <1>3, SameRunning DEF xobject_unref, poolvars
  <2>2. ref_count' \in [Tasks -> Nat]
    <3>1. ref_count'[k] \in Nat
      BY <1>1, <1>2, <1>5 DEF RefOK, Users, Count
    <3> QED BY <1>1, <3>1 DEF TypeOK, xobject_unref, Ref
  <2> QED
    BY <1>1, <2>1, <2>2 DEF TypeOK, xobject_unref, Ref, lockvars, resvars, donevars,
       poolvars
<1> QED BY <1>3, <1>7, <1>4, <1>5, <1>6, OneTask DEF TaskInv

\* xtask_run_in_thread and xtask_run_in_thread_sync.
LEMMA RunStep ==
  ASSUME GTaskInv, NEW k \in Tasks, xtask_run_in_thread(k)
  PROVE  GTaskInv'
<1>1. /\ TypeOK /\ TaskInv(k) /\ tasks_running = Cardinality(Running)
      /\ idle[k] \in Nat /\ calls[k] \in Nat /\ ref_count[k] \in Nat
  BY DEF GTaskInv, TypeOK
<1>2. /\ run[k] = "new" /\ mode[k] \in {"async", "sync"} /\ run'[k] = "check"
      /\ ref_count'[k] = ref_count[k] + 1
      /\ UNCHANGED <<at, mode, check_cancellable, nested, app_ref, thread_complete,
                     thread_cancelled, return_on_cancel, blocking_other_task,
                     error, result_set, ever_returned, completed, cancelled,
                     handler, idle, calls, got>>
  BY <1>1 DEF TypeOK, xtask_run_in_thread, Starts, Ref, donevars
<1>3. \A j \in Tasks \ {k} : SameTask(j)
  BY DEF SameTask, xtask_run_in_thread, Starts, Ref, donevars
<1>4. StateOK(k)'
  BY <1>1, <1>2 DEF TaskInv, StateOK, Unpushed
<1>5. DoneOK(k)'
  BY <1>1, <1>2 DEF TaskInv, DoneOK, Finishing
<1>6. HandlerOK(k)'
  BY <1>1, <1>2 DEF TaskInv, HandlerOK, Emitting
<1>7. RefOK(k)'
  BY <1>1, <1>2 DEF TaskInv, RefOK, Users, Count
<1>8. ResultOK(k)' /\ CancelOK(k)'
  BY <1>1, <1>2 DEF TaskInv, ResultOK, HasResult, CancelOK
<1>9. TypeOK' /\ tasks_running' = Cardinality(Running')
  <2>1. tasks_running' = Cardinality(Running')
    BY <1>1, <1>2, <1>3, SameRunning DEF RunningStates, xtask_run_in_thread, Starts,
       Ref, poolvars
  <2>2. ref_count' \in [Tasks -> Nat]
    <3>1. ref_count'[k] \in Nat
      BY <1>1, <1>2
    <3> QED BY <1>1 DEF TypeOK, xtask_run_in_thread, Ref
  <2> QED
    BY <1>1, <2>1, <2>2 DEF TypeOK, xtask_run_in_thread, Starts, RunStates, donevars,
       poolvars
<1> QED BY <1>3, <1>9, <1>4, <1>5, <1>6, <1>7, <1>8, OneTask DEF TaskInv

\* xtask_start_task_thread finds the cancellable cancelled, or goes on.
LEMMA CheckStep ==
  ASSUME GTaskInv, NEW k \in Tasks, CheckCancelled(k)
  PROVE  GTaskInv'
<1> DEFINE ret == k \in Cancellable /\ return_on_cancel[k] /\ cancelled[k]
<1>1. /\ TypeOK /\ TaskInv(k) /\ tasks_running = Cardinality(Running)
      /\ idle[k] \in Nat /\ calls[k] \in Nat /\ ref_count[k] \in Nat
  BY DEF GTaskInv, TypeOK
<1>2. /\ run[k] = "check"
      /\ run'[k] = IF k \in Cancellable /\ ~ret THEN "connect" ELSE "push"
      /\ thread_complete'[k] <=> (ret)
      /\ thread_cancelled'[k] <=> (ret)
      /\ error'[k] <=> (ret)
      /\ UNCHANGED <<at, mode, check_cancellable, nested, ref_count, app_ref,
                     return_on_cancel, blocking_other_task, result_set,
                     ever_returned, completed, cancelled, handler, idle, calls,
                     got>>
  BY <1>1 DEF TypeOK, CheckCancelled, Starts, AtStates, Actors, taskvars, lockvars,
     resvars, donevars, poolvars
<1>3. \A j \in Tasks \ {k} : SameTask(j)
  BY DEF SameTask, CheckCancelled, Starts, donevars
<1>4. /\ idle[k] = 0 /\ ~Emitting(k) /\ at[k]["worker"] = "idle" /\ ~ever_returned[k]
      /\ ret => HasResult(k)' /\ cancelled[k]
  BY <1>1, <1>2 DEF TypeOK, TaskInv, StateOK, Unpushed, DoneOK, Count, HandlerOK,
     HasResult
<1>5. StateOK(k)'
  BY <1>1, <1>2 DEF TaskInv, StateOK, Unpushed
<1>6. ResultOK(k)'
  BY <1>1, <1>2, <1>4 DEF TaskInv, ResultOK
<1>7. CancelOK(k)'
  BY <1>2, <1>4 DEF CancelOK, Emitting
<1>8. DoneOK(k)'
  BY <1>1, <1>2 DEF TaskInv, DoneOK, Finishing, Count, StateOK
<1>9. HandlerOK(k)'
  BY <1>1, <1>2 DEF TaskInv, HandlerOK, Emitting
<1>10. RefOK(k)'
  BY <1>1, <1>2 DEF TaskInv, RefOK, Users
<1>11. TypeOK' /\ tasks_running' = Cardinality(Running')
  <2>1. tasks_running' = Cardinality(Running')
    BY <1>1, <1>3, SameRunning DEF CheckCancelled, Starts, poolvars
  <2>2. ref_count' \in [Tasks -> Nat]
    BY <1>1 DEF TypeOK, CheckCancelled
  <2> QED
    BY <1>1, <2>1 DEF TypeOK, CheckCancelled, Starts, RunStates, donevars, poolvars
<1> QED BY <1>3, <1>11, <1>5, <1>6, <1>7, <1>8, <1>9, <1>10, OneTask DEF TaskInv

\* xtask_start_task_thread connects the handler, which is called at once if the
\* cancellable is already cancelled.
LEMMA ConnectStep ==
  ASSUME GTaskInv, NEW k \in Tasks, ConnectHandler(k)
  PROVE  GTaskInv'
<1>1. /\ TypeOK /\ TaskInv(k) /\ tasks_running = Cardinality(Running)
      /\ idle[k] \in Nat /\ calls[k] \in Nat /\ ref_count[k] \in Nat
  BY DEF GTaskInv, TypeOK
<1>2. /\ run[k] = "connect" /\ run'[k] = "push" /\ ref_count'[k] = ref_count[k] + 1
      /\ handler'[k] = "connected"
      /\ UNCHANGED <<at, mode, check_cancellable, nested, app_ref, thread_complete,
                     thread_cancelled, return_on_cancel, blocking_other_task,
                     error, result_set, ever_returned, completed, cancelled,
                     idle, calls, got>>
  BY <1>1 DEF TypeOK, ConnectHandler, Starts, Ref, donevars
<1>3. \A j \in Tasks \ {k} : SameTask(j)
  BY DEF SameTask, ConnectHandler, Starts, Ref, donevars
<1>4. handler[k] = "none"
  BY <1>1, <1>2 DEF TaskInv, HandlerOK
<1>5. StateOK(k)'
  BY <1>1, <1>2 DEF TaskInv, StateOK, Unpushed
<1>6. DoneOK(k)'
  BY <1>1, <1>2 DEF TaskInv, DoneOK, Finishing, StateOK
<1>7. HandlerOK(k)'
  BY <1>1, <1>2 DEF TaskInv, HandlerOK, StateOK
<1>8. RefOK(k)'
  BY <1>1, <1>2, <1>4 DEF TaskInv, RefOK, Users, Count
<1>9. ResultOK(k)' /\ CancelOK(k)'
  BY <1>1, <1>2 DEF TaskInv, ResultOK, HasResult, CancelOK
<1>10. TypeOK' /\ tasks_running' = Cardinality(Running')
  <2>1. tasks_running' = Cardinality(Running')
    BY <1>1, <1>3, SameRunning DEF ConnectHandler, Starts, poolvars
  <2>2. ref_count' \in [Tasks -> Nat]
    <3>1. ref_count'[k] \in Nat
      BY <1>1, <1>2
    <3> QED BY <1>1 DEF TypeOK, ConnectHandler, Ref
  <2> QED
    BY <1>1, <2>1, <2>2 DEF TypeOK, ConnectHandler, Starts, RunStates, donevars,
       poolvars
<1> QED BY <1>3, <1>10, <1>5, <1>6, <1>7, <1>8, <1>9, OneTask DEF TaskInv

\* xtask_start_task_thread pushes the task to the pool.
LEMMA PushStep ==
  ASSUME GTaskInv, NEW k \in Tasks, PushTask(k)
  PROVE  GTaskInv'
<1>1. /\ TypeOK /\ TaskInv(k) /\ tasks_running = Cardinality(Running)
      /\ idle[k] \in Nat /\ calls[k] \in Nat /\ ref_count[k] \in Nat
  BY DEF GTaskInv, TypeOK
<1>2. /\ run[k] = "push"
      /\ run'[k] = IF mode[k] = "sync" THEN "wait" ELSE "unlock"
      /\ ref_count'[k] = ref_count[k] + 1 /\ at'[k]["worker"] = "queued"
      /\ at'[k]["canceller"] = at[k]["canceller"]
      /\ UNCHANGED <<mode, check_cancellable, nested, app_ref, thread_complete,
                     thread_cancelled, return_on_cancel, error, result_set,
                     ever_returned, completed, cancelled, handler, idle, calls,
                     got>>
  BY <1>1 DEF TypeOK, PushTask, Starts, Ref, Actors, donevars
<1>3. \A j \in Tasks \ {k} : SameTask(j)
  BY DEF SameTask, PushTask, Starts, Ref, donevars
<1>4. at[k]["worker"] = "idle"
  BY <1>1, <1>2 DEF TaskInv, StateOK, Unpushed
<1>5. StateOK(k)'
  BY <1>1, <1>2 DEF TaskInv, StateOK, Unpushed, WorkerStates
<1>6. ResultOK(k)'
  BY <1>1, <1>2 DEF TaskInv, ResultOK, HasResult
<1>7. CancelOK(k)'
  BY <1>1, <1>2, <1>4 DEF TaskInv, CancelOK
<1>8. DoneOK(k)'
  BY <1>1, <1>2, <1>4 DEF TaskInv, DoneOK, Finishing, Actors
<1>9. HandlerOK(k)'
  BY <1>1, <1>2, <1>4 DEF TaskInv, HandlerOK, Emitting, Actors
<1>10. RefOK(k)'
  <2>1. Users(k) \in Nat /\ Users(k)' = Users(k) + 1
    BY <1>2, <1>4 DEF Users, Count
  <2>2. ref_count[k] = Users(k) + idle[k] + idle[k]
    BY <1>1 DEF TaskInv, RefOK
  <2> QED BY <1>1, <1>2, <2>1, <2>2 DEF RefOK
<1>11. TypeOK' /\ tasks_running' = Cardinality(Running')
  <2>1. tasks_running' = Cardinality(Running')
    BY <1>1, <1>3, <1>4, SameRunning DEF RunningStates, PushTask, Starts, poolvars
  <2>2. ref_count' \in [Tasks -> Nat]
    <3>1. ref_count'[k] \in Nat
      BY <1>1, <1>2
    <3> QED BY <1>1 DEF TypeOK, PushTask, Ref
  <2>3. queue' \in Seq(Tasks)
    <3>1. PICK less : queue' = g_queue_insert_sorted(queue, k, less)
      BY DEF PushTask
    <3>2. queue \in Seq(Tasks)
      BY <1>1 DEF TypeOK
    <3>3. \E p \in 1 .. Len(queue) + 1 :
            /\ \A i \in 1 .. p - 1 : <<queue[i], k>> \in less
            /\ p <= Len(queue) => <<queue[p], k>> \notin less
            /\ g_queue_insert_sorted(queue, k, less) = InsertAt(queue, p, k)
      BY <3>2, InsertSorted
    <3> QED BY <3>1, <3>2, <3>3, InsertAtPlace
  <2> QED
    BY <1>1, <2>1, <2>2, <2>3
       DEF TypeOK, PushTask, Starts, RunStates, AtStates, Actors, donevars, poolvars
<1> QED BY <1>3, <1>11, <1>5, <1>6, <1>7, <1>8, <1>9, <1>10, OneTask DEF TaskInv

\* xtask_run_in_thread unlocks the task,
LEMMA UnlockStep ==
  ASSUME GTaskInv, NEW k \in Tasks, UnlockStarted(k)
  PROVE  GTaskInv'
<1>1. /\ TypeOK /\ TaskInv(k) /\ tasks_running = Cardinality(Running)
      /\ idle[k] \in Nat /\ calls[k] \in Nat /\ ref_count[k] \in Nat
  BY DEF GTaskInv, TypeOK
<1>2. /\ run[k] = "unlock"
      /\ run'[k] = IF thread_complete[k] THEN "return" ELSE "unref"
      /\ UNCHANGED <<at, mode, check_cancellable, nested, ref_count, app_ref,
                     thread_complete, thread_cancelled, return_on_cancel,
                     blocking_other_task, error, result_set, ever_returned,
                     completed, cancelled, handler, idle, calls, got>>
  BY <1>1 DEF TypeOK, UnlockStarted, Starts, donevars
<1>3. \A j \in Tasks \ {k} : SameTask(j)
  BY DEF SameTask, UnlockStarted, Starts, donevars
<1>4. StateOK(k)'
  BY <1>1, <1>2 DEF TaskInv, StateOK, Unpushed
<1>5. DoneOK(k)'
  BY <1>1, <1>2 DEF TaskInv, DoneOK, Finishing, StateOK
<1>6. HandlerOK(k)'
  BY <1>1, <1>2 DEF TaskInv, HandlerOK, Emitting
<1>7. RefOK(k)'
  BY <1>1, <1>2 DEF TaskInv, RefOK, Users
<1>8. ResultOK(k)' /\ CancelOK(k)'
  BY <1>1, <1>2 DEF TaskInv, ResultOK, HasResult, CancelOK
<1>9. TypeOK' /\ tasks_running' = Cardinality(Running')
  <2>1. tasks_running' = Cardinality(Running')
    BY <1>1, <1>3, SameRunning DEF UnlockStarted, Starts, poolvars
  <2>2. ref_count' \in [Tasks -> Nat]
    BY <1>1 DEF TypeOK, UnlockStarted
  <2> QED
    BY <1>1, <2>1 DEF TypeOK, UnlockStarted, Starts, RunStates, donevars, poolvars
<1> QED BY <1>3, <1>9, <1>4, <1>5, <1>6, <1>7, <1>8, OneTask DEF TaskInv

\* returns it if it is complete by then,
LEMMA ReturnStep ==
  ASSUME GTaskInv, NEW k \in Tasks, ReturnStarted(k)
  PROVE  GTaskInv'
<1>1. /\ TypeOK /\ TaskInv(k) /\ tasks_running = Cardinality(Running)
      /\ idle[k] \in Nat /\ calls[k] \in Nat /\ ref_count[k] \in Nat
  BY DEF GTaskInv, TypeOK
<1>2. /\ run[k] = "return" /\ run'[k] = "unref" /\ ref_count'[k] = ref_count[k] + 2
      /\ idle'[k] = idle[k] + 1
      /\ UNCHANGED <<at, mode, check_cancellable, nested, app_ref, thread_complete,
                     thread_cancelled, return_on_cancel, blocking_other_task,
                     error, result_set, ever_returned, completed, cancelled,
                     handler, calls, got>>
  BY <1>1 DEF TypeOK, ReturnStarted, Starts, ReturnInIdle, Ref
<1>3. \A j \in Tasks \ {k} : SameTask(j)
  BY DEF SameTask, ReturnStarted, Starts, ReturnInIdle, Ref
<1>4. thread_complete[k]
  BY <1>1, <1>2 DEF TaskInv, DoneOK
<1>5. StateOK(k)'
  BY <1>1, <1>2 DEF TaskInv, StateOK, Unpushed
<1>6. ResultOK(k)'
  BY <1>1, <1>2, <1>4 DEF TaskInv, ResultOK, HasResult
<1>7. DoneOK(k)'
  BY <1>1, <1>2 DEF TaskInv, DoneOK, Finishing, Count, StateOK, WorkerStates
<1>8. HandlerOK(k)'
  BY <1>1, <1>2 DEF TaskInv, HandlerOK, Emitting
<1>9. RefOK(k)'
  <2>1. Users(k) \in Nat /\ Users(k)' = Users(k)
    BY <1>2 DEF Users, Count
  <2>2. ref_count[k] = Users(k) + idle[k] + idle[k]
    BY <1>1 DEF TaskInv, RefOK
  <2>3. ref_count'[k] = Users(k) + idle'[k] + idle'[k]
    BY <1>1, <1>2, <2>1, <2>2
  <2> QED BY <2>1, <2>3 DEF RefOK
<1>10. CancelOK(k)'
  BY <1>1, <1>2 DEF TaskInv, CancelOK
<1>11. TypeOK' /\ tasks_running' = Cardinality(Running')
  <2>1. tasks_running' = Cardinality(Running')
    BY <1>1, <1>3, SameRunning DEF ReturnStarted, Starts, poolvars
  <2>2. ref_count' \in [Tasks -> Nat]
    <3>1. ref_count'[k] \in Nat
      BY <1>1, <1>2
    <3> QED BY <1>1 DEF TypeOK, ReturnStarted, ReturnInIdle, Ref
  <2> QED
    BY <1>1, <2>1, <2>2 DEF TypeOK, ReturnStarted, Starts, ReturnInIdle, RunStates,
       poolvars
<1> QED BY <1>3, <1>11, <1>5, <1>6, <1>7, <1>8, <1>9, <1>10, OneTask DEF TaskInv

\* or, if synchronous, waits until it is.
LEMMA WaitStep ==
  ASSUME GTaskInv, NEW k \in Tasks, WaitComplete(k)
  PROVE  GTaskInv'
<1>1. /\ TypeOK /\ TaskInv(k) /\ tasks_running = Cardinality(Running)
      /\ idle[k] \in Nat /\ calls[k] \in Nat /\ ref_count[k] \in Nat
  BY DEF GTaskInv, TypeOK
<1>2. /\ run[k] = "wait"
      /\ run'[k] = IF thread_complete[k] THEN "unref" ELSE "asleep"
      /\ completed'[k] <=> (thread_complete[k])
      /\ got'[k] = IF thread_complete[k] THEN xtask_propagate(k) ELSE got[k]
      /\ UNCHANGED <<at, mode, check_cancellable, nested, ref_count, app_ref,
                     thread_complete, thread_cancelled, return_on_cancel,
                     blocking_other_task, error, result_set, ever_returned,
                     cancelled, handler, idle, calls>>
  BY <1>1 DEF TypeOK, WaitComplete, Starts
<1>3. \A j \in Tasks \ {k} : SameTask(j)
  BY DEF SameTask, WaitComplete, Starts
<1>4. got'[k] # "empty"
  BY <1>1, <1>2 DEF TaskInv, ResultOK, HasResult, xtask_propagate
<1>5. StateOK(k)'
  BY <1>1, <1>2 DEF TaskInv, StateOK, Unpushed
<1>6. ResultOK(k)'
  BY <1>1, <1>2, <1>4 DEF TaskInv, ResultOK, HasResult
<1>7. DoneOK(k)'
  BY <1>1, <1>2 DEF TypeOK, TaskInv, DoneOK, Finishing, StateOK
<1>8. HandlerOK(k)'
  BY <1>1, <1>2 DEF TaskInv, HandlerOK, Emitting
<1>9. RefOK(k)'
  BY <1>1, <1>2 DEF TaskInv, RefOK, Users
<1>10. CancelOK(k)'
  BY <1>1, <1>2 DEF TaskInv, CancelOK
<1>11. TypeOK' /\ tasks_running' = Cardinality(Running')
  <2>1. tasks_running' = Cardinality(Running')
    BY <1>1, <1>3, SameRunning DEF WaitComplete, Starts, poolvars
  <2>2. ref_count' \in [Tasks -> Nat]
    BY <1>1 DEF TypeOK, WaitComplete
  <2>3. got' \in [Tasks -> {"nothing", "cancelled", "error", "value", "empty"}]
    BY <1>1 DEF TypeOK, WaitComplete, xtask_propagate
  <2> QED
    BY <1>1, <2>1, <2>3 DEF TypeOK, WaitComplete, Starts, RunStates, poolvars
<1> QED BY <1>3, <1>11, <1>5, <1>6, <1>7, <1>8, <1>9, <1>10, OneTask DEF TaskInv

\* The reference of the call is dropped.
LEMMA UnrefStartedStep ==
  ASSUME GTaskInv, NEW k \in Tasks, UnrefStarted(k)
  PROVE  GTaskInv'
<1>1. /\ TypeOK /\ TaskInv(k) /\ tasks_running = Cardinality(Running)
      /\ idle[k] \in Nat /\ calls[k] \in Nat /\ ref_count[k] \in Nat
  BY DEF GTaskInv, TypeOK
<1>2. /\ run[k] = "unref" /\ run'[k] = "done" /\ ref_count'[k] = ref_count[k] - 1
      /\ UNCHANGED <<at, mode, check_cancellable, nested, app_ref, thread_complete,
                     thread_cancelled, return_on_cancel, blocking_other_task,
                     error, result_set, ever_returned, completed, cancelled,
                     handler, idle, calls, got>>
  BY <1>1 DEF TypeOK, UnrefStarted, Starts, Ref, donevars
<1>3. \A j \in Tasks \ {k} : SameTask(j)
  BY DEF SameTask, UnrefStarted, Starts, Ref, donevars
<1>4. StateOK(k)'
  BY <1>1, <1>2 DEF TaskInv, StateOK, Unpushed
<1>5. DoneOK(k)'
  BY <1>1, <1>2 DEF TaskInv, DoneOK, Finishing, StateOK
<1>6. HandlerOK(k)'
  BY <1>1, <1>2 DEF TaskInv, HandlerOK, Emitting
<1>7. RefOK(k)'
  <2>1. Users(k) \in Nat /\ Users(k)' = Users(k) - 1
    BY <1>2 DEF Users, Count
  <2>2. ref_count[k] = Users(k) + idle[k] + idle[k]
    BY <1>1 DEF TaskInv, RefOK
  <2> QED BY <1>1, <1>2, <2>1, <2>2 DEF RefOK
<1>8. ResultOK(k)' /\ CancelOK(k)'
  BY <1>1, <1>2 DEF TaskInv, ResultOK, HasResult, CancelOK
<1>9. TypeOK' /\ tasks_running' = Cardinality(Running')
  <2>1. tasks_running' = Cardinality(Running')
    BY <1>1, <1>3, SameRunning DEF UnrefStarted, Starts, poolvars
  <2>2. ref_count' \in [Tasks -> Nat]
    <3>1. ref_count'[k] \in Nat
      BY <1>1, <1>2, <1>7 DEF RefOK, Users, Count
    <3> QED BY <1>1, <3>1 DEF TypeOK, UnrefStarted, Ref
  <2> QED
    BY <1>1, <2>1, <2>2 DEF TypeOK, UnrefStarted, Starts, RunStates, Actors, donevars,
       poolvars
<1> QED BY <1>3, <1>9, <1>4, <1>5, <1>6, <1>7, <1>8, OneTask DEF TaskInv

\* complete_in_idle_cb calls the callback.
LEMMA IdleStep ==
  ASSUME GTaskInv, NEW k \in Tasks, complete_in_idle_cb(k)
  PROVE  GTaskInv'
<1>1. /\ TypeOK /\ TaskInv(k) /\ tasks_running = Cardinality(Running)
      /\ idle[k] \in Nat /\ calls[k] \in Nat /\ ref_count[k] \in Nat
  BY DEF GTaskInv, TypeOK
<1>2. /\ idle[k] > 0 /\ ref_count'[k] = ref_count[k] - 2 /\ completed'[k]
      /\ idle'[k] = idle[k] - 1 /\ calls'[k] = calls[k] + 1
      /\ got'[k] = xtask_propagate(k)'
      /\ UNCHANGED <<at, mode, run, check_cancellable, nested, app_ref, thread_complete,
                     thread_cancelled, return_on_cancel, blocking_other_task,
                     error, result_set, ever_returned, cancelled, handler>>
  BY <1>1 DEF TypeOK, complete_in_idle_cb, Ref, xtask_return_now, taskvars, lockvars,
     resvars
<1>3. \A j \in Tasks \ {k} : SameTask(j)
  BY DEF SameTask, complete_in_idle_cb, Ref, xtask_return_now, taskvars, lockvars,
     resvars
<1>4. got'[k] # "empty"
  <2>1. HasResult(k)'
    BY <1>1, <1>2 DEF TaskInv, ResultOK, HasResult
  <2> QED BY <1>2, <2>1 DEF HasResult, xtask_propagate
<1>5. ResultOK(k)'
  BY <1>1, <1>2, <1>4 DEF TaskInv, ResultOK, HasResult
<1>6. DoneOK(k)'
  <2>1. calls'[k] + idle'[k] = calls[k] + idle[k] /\ calls'[k] > 0
    BY <1>1, <1>2
  <2>2. calls[k] + idle[k] \in Nat /\ calls[k] + idle[k] > 0
    BY <1>1, <1>2
  <2> QED BY <1>1, <1>2 DEF TaskInv, DoneOK, Finishing
<1>7. RefOK(k)'
  <2>1. Users(k) \in Nat /\ Users(k)' = Users(k)
    BY <1>2 DEF Users, Count
  <2>2. ref_count[k] = Users(k) + idle[k] + idle[k]
    BY <1>1 DEF TaskInv, RefOK
  <2>3. ref_count'[k] = Users(k) + idle'[k] + idle'[k]
    BY <1>1, <1>2, <2>1, <2>2
  <2> QED BY <2>1, <2>3 DEF RefOK
<1>8. StateOK(k)' /\ CancelOK(k)' /\ HandlerOK(k)'
  BY <1>1, <1>2 DEF TaskInv, StateOK, Unpushed, CancelOK, HandlerOK, Emitting
<1>9. TypeOK' /\ tasks_running' = Cardinality(Running')
  <2>1. tasks_running' = Cardinality(Running')
    BY <1>1, <1>3, SameRunning DEF complete_in_idle_cb, poolvars
  <2>2. ref_count' \in [Tasks -> Nat]
    <3>1. ref_count'[k] \in Nat
      BY <1>1, <1>2, <1>7 DEF RefOK, Users, Count
    <3> QED BY <1>1, <3>1 DEF TypeOK, complete_in_idle_cb, Ref
  <2>3. got' \in [Tasks -> {"nothing", "cancelled", "error", "value", "empty"}]
    BY <1>1 DEF TypeOK, complete_in_idle_cb, xtask_return_now, xtask_propagate
  <2> QED
    BY <1>1, <2>1, <2>2, <2>3, SMTT(20)
       DEF TypeOK, complete_in_idle_cb, Ref, xtask_return_now,
       RunStates, AtStates, Actors, taskvars, lockvars, resvars, donevars, poolvars
<1> QED BY <1>3, <1>9, <1>5, <1>6, <1>7, <1>8, OneTask DEF TaskInv

\* xcancellable_cancel.
LEMMA CancelStep ==
  ASSUME GTaskInv, NEW k \in Tasks, xcancellable_cancel(k)
  PROVE  GTaskInv'
<1>1. /\ TypeOK /\ TaskInv(k) /\ tasks_running = Cardinality(Running)
      /\ idle[k] \in Nat /\ calls[k] \in Nat /\ ref_count[k] \in Nat
  BY DEF GTaskInv, TypeOK
<1>2. /\ k \in Cancellable /\ ~cancelled[k] /\ run[k] # "unused" /\ cancelled'[k]
      /\ at'[k]["worker"] = at[k]["worker"] /\ at'[k]["canceller"] = "emit"
      /\ UNCHANGED <<mode, run, check_cancellable, nested, ref_count, app_ref,
                     thread_complete, thread_cancelled, return_on_cancel,
                     blocking_other_task, error, result_set, ever_returned,
                     completed, handler, idle, calls, got>>
  BY <1>1
     DEF TypeOK, xcancellable_cancel, Actors, taskvars, lockvars, resvars, donevars
<1>3. \A j \in Tasks \ {k} : SameTask(j)
  BY DEF SameTask, xcancellable_cancel, taskvars, lockvars, resvars, donevars
<1>4. StateOK(k)'
  BY <1>1, <1>2 DEF TaskInv, StateOK, Unpushed, CancellerStates
<1>5. ResultOK(k)'
  BY <1>1, <1>2 DEF TaskInv, ResultOK, HasResult
<1>6. CancelOK(k)'
  BY <1>1, <1>2 DEF TaskInv, CancelOK
<1>7. DoneOK(k)'
  BY <1>1, <1>2 DEF TaskInv, DoneOK, Finishing, Actors, StateOK
<1>8. HandlerOK(k)'
  BY <1>1, <1>2 DEF TaskInv, HandlerOK, Emitting, Actors, StateOK
<1>9. RefOK(k)'
  BY <1>1, <1>2 DEF TaskInv, RefOK, Users
<1>10. TypeOK' /\ tasks_running' = Cardinality(Running')
  <2>1. tasks_running' = Cardinality(Running')
    BY <1>1, <1>3, SameRunning DEF xcancellable_cancel, poolvars
  <2>2. ref_count' \in [Tasks -> Nat]
    BY <1>1 DEF TypeOK, xcancellable_cancel
  <2> QED
    BY <1>1, <2>1
       DEF TypeOK, xcancellable_cancel, AtStates, Actors, taskvars, lockvars, resvars,
           donevars, poolvars
<1> QED BY <1>3, <1>10, <1>4, <1>5, <1>6, <1>7, <1>8, <1>9, OneTask DEF TaskInv

\* The emission reaches the handler.
LEMMA EmitStep ==
  ASSUME GTaskInv, NEW k \in Tasks, EmitCancelled(k)
  PROVE  GTaskInv'
<1>1. /\ TypeOK /\ TaskInv(k) /\ tasks_running = Cardinality(Running)
      /\ idle[k] \in Nat /\ calls[k] \in Nat /\ ref_count[k] \in Nat
  BY DEF GTaskInv, TypeOK
<1>2. /\ at[k]["canceller"] = "emit" /\ at'[k]["worker"] = at[k]["worker"]
      /\ at'[k]["canceller"] = IF handler[k] = "connected" THEN "front" ELSE "gone"
      /\ UNCHANGED <<mode, run, check_cancellable, nested, ref_count, app_ref,
                     thread_complete, thread_cancelled, return_on_cancel,
                     blocking_other_task, error, result_set, ever_returned,
                     completed, cancelled, handler, idle, calls, got>>
  BY <1>1 DEF TypeOK, EmitCancelled, Acts, Actors, taskvars, resvars, donevars
<1>3. \A j \in Tasks \ {k} : SameTask(j)
  BY DEF SameTask, EmitCancelled, Acts, taskvars, resvars, donevars
<1>4. StateOK(k)'
  BY <1>1, <1>2 DEF TaskInv, StateOK, Unpushed, CancellerStates
<1>5. ResultOK(k)'
  BY <1>1, <1>2 DEF TaskInv, ResultOK, HasResult
<1>6. CancelOK(k)'
  BY <1>1, <1>2 DEF TaskInv, CancelOK
<1>7. DoneOK(k)'
  BY <1>1, <1>2 DEF TaskInv, DoneOK, Finishing, Actors
<1>8. HandlerOK(k)'
  BY <1>1, <1>2 DEF TaskInv, HandlerOK, Emitting, Actors
<1>9. RefOK(k)'
  BY <1>1, <1>2 DEF TaskInv, RefOK, Users
<1>10. TypeOK' /\ tasks_running' = Cardinality(Running')
  <2>1. tasks_running' = Cardinality(Running')
    BY <1>1, <1>2, <1>3, SameRunning DEF EmitCancelled, poolvars
  <2>2. ref_count' \in [Tasks -> Nat]
    BY <1>1 DEF TypeOK, EmitCancelled
  <2> QED
    BY <1>1, <2>1
       DEF TypeOK, EmitCancelled, Acts, AtStates, Actors, taskvars, resvars, donevars,
           poolvars
<1> QED BY <1>3, <1>10, <1>4, <1>5, <1>6, <1>7, <1>8, <1>9, OneTask DEF TaskInv

\* task_thread_cancelled moves the task to the front of the pool's queue.
LEMMA MoveStep ==
  ASSUME GTaskInv, NEW k \in Tasks, MoveToFront(k)
  PROVE  GTaskInv'
<1>1. /\ TypeOK /\ TaskInv(k) /\ tasks_running = Cardinality(Running)
      /\ idle[k] \in Nat /\ calls[k] \in Nat /\ ref_count[k] \in Nat
  BY DEF GTaskInv, TypeOK
<1>2. /\ at[k]["canceller"] = "front" /\ at'[k]["worker"] = at[k]["worker"]
      /\ at'[k]["canceller"] = "handler"
      /\ UNCHANGED <<mode, run, check_cancellable, nested, ref_count, app_ref,
                     thread_complete, thread_cancelled, return_on_cancel,
                     blocking_other_task, error, result_set, ever_returned,
                     completed, cancelled, handler, idle, calls, got>>
  BY <1>1 DEF TypeOK, MoveToFront, Acts, Actors, taskvars, resvars, donevars
<1>3. \A j \in Tasks \ {k} : SameTask(j)
  BY DEF SameTask, MoveToFront, Acts, taskvars, resvars, donevars
<1>4. StateOK(k)'
  BY <1>1, <1>2 DEF TaskInv, StateOK, Unpushed, CancellerStates
<1>5. ResultOK(k)'
  BY <1>1, <1>2 DEF TaskInv, ResultOK, HasResult
<1>6. CancelOK(k)'
  BY <1>1, <1>2 DEF TaskInv, CancelOK
<1>7. DoneOK(k)'
  BY <1>1, <1>2 DEF TaskInv, DoneOK, Finishing, Actors
<1>8. HandlerOK(k)'
  BY <1>1, <1>2 DEF TaskInv, HandlerOK, Emitting, Actors
<1>9. RefOK(k)'
  BY <1>1, <1>2 DEF TaskInv, RefOK, Users
<1>10. TypeOK' /\ tasks_running' = Cardinality(Running')
  <2>1. tasks_running' = Cardinality(Running')
    BY <1>1, <1>2, <1>3, SameRunning DEF MoveToFront, poolvars
  <2>2. ref_count' \in [Tasks -> Nat]
    BY <1>1 DEF TypeOK, MoveToFront
  <2>3. queue' \in Seq(Tasks)
    <3>1. queue \in Seq(Tasks)
      BY <1>1 DEF TypeOK
    <3>2. g_queue_remove(queue, {k}) \in Seq(Tasks)
      BY <3>1, RemoveOne, RemovedAt
    <3>3. g_queue_push_tail(g_queue_remove(queue, {k}), k) \in Seq(Tasks)
      BY <3>2 DEF g_queue_push_tail
    <3> QED BY <3>1, <3>3 DEF MoveToFront
  <2> QED
    BY <1>1, <2>1, <2>3 DEF TypeOK, MoveToFront, Acts, AtStates, Actors, taskvars,
       resvars, donevars, poolvars
<1> QED BY <1>3, <1>10, <1>4, <1>5, <1>6, <1>7, <1>8, <1>9, OneTask DEF TaskInv

\* task_thread_cancelled sets thread_cancelled and completes the task if
\* return_on_cancel is set.
LEMMA HandlerStep ==
  ASSUME GTaskInv, NEW k \in Tasks, task_thread_cancelled(k)
  PROVE  GTaskInv'
<1>1. /\ TypeOK /\ TaskInv(k) /\ tasks_running = Cardinality(Running)
      /\ idle[k] \in Nat /\ calls[k] \in Nat /\ ref_count[k] \in Nat
  BY DEF GTaskInv, TypeOK
<1>2. /\ at[k]["canceller"] = "handler" /\ Unlocked(k) /\ thread_cancelled'[k]
      /\ at'[k]["worker"] = at[k]["worker"]
      /\ at'[k]["canceller"] = IF return_on_cancel[k] THEN "complete" ELSE "handled"
      /\ UNCHANGED <<mode, run, check_cancellable, nested, ref_count, app_ref,
                     thread_complete, return_on_cancel, blocking_other_task,
                     error, result_set, ever_returned, completed, cancelled,
                     handler, idle, calls, got>>
  BY <1>1 DEF TypeOK, task_thread_cancelled, Acts, Actors, taskvars, resvars, donevars
<1>3. \A j \in Tasks \ {k} : SameTask(j)
  BY DEF SameTask, task_thread_cancelled, Acts, taskvars, resvars, donevars
<1>4. StateOK(k)'
  BY <1>1, <1>2 DEF TaskInv, StateOK, Unpushed, CancellerStates
<1>5. ResultOK(k)'
  BY <1>1, <1>2 DEF TaskInv, ResultOK, HasResult
<1>6. CancelOK(k)'
  BY <1>1, <1>2 DEF TaskInv, CancelOK, StateOK
<1>7. DoneOK(k)'
  BY <1>1, <1>2 DEF TaskInv, DoneOK, Finishing, Actors
<1>8. HandlerOK(k)'
  BY <1>1, <1>2 DEF TaskInv, HandlerOK, Emitting, Actors
<1>9. RefOK(k)'
  BY <1>1, <1>2 DEF TaskInv, RefOK, Users
<1>10. TypeOK' /\ tasks_running' = Cardinality(Running')
  <2>1. tasks_running' = Cardinality(Running')
    BY <1>1, <1>2, <1>3, SameRunning DEF task_thread_cancelled, poolvars
  <2>2. ref_count' \in [Tasks -> Nat]
    BY <1>1 DEF TypeOK, task_thread_cancelled
  <2> QED
    BY <1>1, <2>1 DEF TypeOK, task_thread_cancelled, Acts, AtStates, Actors, taskvars,
       resvars, donevars, poolvars
<1> QED BY <1>3, <1>10, <1>4, <1>5, <1>6, <1>7, <1>8, <1>9, OneTask DEF TaskInv

\* The emission ends, and with it a handler disconnected meanwhile.
LEMMA EmissionStep ==
  ASSUME GTaskInv, NEW k \in Tasks, EmissionEnds(k)
  PROVE  GTaskInv'
<1>1. /\ TypeOK /\ TaskInv(k) /\ tasks_running = Cardinality(Running)
      /\ idle[k] \in Nat /\ calls[k] \in Nat /\ ref_count[k] \in Nat
  BY DEF GTaskInv, TypeOK
<1>2. /\ at[k]["canceller"] = "handled"
      /\ ref_count'[k] =
             IF handler[k] = "disconnected" THEN ref_count[k] - 1 ELSE ref_count[k]
      /\ handler'[k] = IF handler[k] = "disconnected" THEN "none" ELSE handler[k]
      /\ at'[k]["worker"] = at[k]["worker"] /\ at'[k]["canceller"] = "gone"
      /\ UNCHANGED <<mode, run, check_cancellable, nested, app_ref, thread_complete,
                     thread_cancelled, return_on_cancel, blocking_other_task,
                     error, result_set, ever_returned, completed, cancelled,
                     idle, calls, got>>
  BY <1>1 DEF TypeOK, EmissionEnds, Acts, Ref, Actors, taskvars, resvars, donevars
<1>3. \A j \in Tasks \ {k} : SameTask(j)
  BY <1>1 DEF TypeOK, SameTask, EmissionEnds, Acts, Ref, taskvars, resvars, donevars
<1>4. StateOK(k)'
  BY <1>1, <1>2 DEF TaskInv, StateOK, Unpushed, CancellerStates
<1>5. ResultOK(k)'
  BY <1>1, <1>2 DEF TaskInv, ResultOK, HasResult
<1>6. CancelOK(k)'
  BY <1>1, <1>2 DEF TaskInv, CancelOK
<1>7. DoneOK(k)'
  BY <1>1, <1>2 DEF TaskInv, DoneOK, Finishing, Actors
<1>8. HandlerOK(k)'
  BY <1>1, <1>2 DEF TaskInv, HandlerOK, Emitting, Actors
<1>9. RefOK(k)'
  <2>1. Users(k) \in Nat
    BY DEF Users, Count
  <2>2. Users(k)' = IF handler[k] = "disconnected" THEN Users(k) - 1 ELSE Users(k)
    BY <1>2 DEF Users, Count
  <2>3. ref_count[k] = Users(k) + idle[k] + idle[k]
    BY <1>1 DEF TaskInv, RefOK
  <2> QED BY <1>1, <1>2, <2>1, <2>2, <2>3 DEF RefOK
<1>10. TypeOK' /\ tasks_running' = Cardinality(Running')
  <2>1. tasks_running' = Cardinality(Running')
    BY <1>1, <1>2, <1>3, SameRunning DEF EmissionEnds, poolvars
  <2>2. ref_count' \in [Tasks -> Nat]
    <3>1. ref_count'[k] \in Nat
      BY <1>1, <1>2, <1>9 DEF RefOK, Users, Count
    <3> QED BY <1>1, <3>1 DEF TypeOK, EmissionEnds, Acts, Ref
  <2> QED
    BY <1>1, <2>1, <2>2 DEF TypeOK, EmissionEnds, Acts, Ref, RunStates, AtStates,
       Actors, taskvars, lockvars, resvars, donevars, poolvars
<1> QED BY <1>3, <1>10, <1>4, <1>5, <1>6, <1>7, <1>8, <1>9, OneTask DEF TaskInv

\* A thread of the pool takes the task.
LEMMA TakeStep ==
  ASSUME GTaskInv, NEW k \in Tasks, TakeTask(k)
  PROVE  GTaskInv'
<1>1. /\ TypeOK /\ TaskInv(k) /\ tasks_running = Cardinality(Running)
      /\ idle[k] \in Nat /\ calls[k] \in Nat /\ ref_count[k] \in Nat
  BY DEF GTaskInv, TypeOK
<1>2. /\ at[k]["worker"] = "queued" /\ at'[k]["worker"] = "taken"
      /\ at'[k]["canceller"] = at[k]["canceller"]
      /\ UNCHANGED <<mode, run, check_cancellable, nested, ref_count, app_ref,
                     thread_complete, thread_cancelled, return_on_cancel,
                     blocking_other_task, error, result_set, ever_returned,
                     completed, cancelled, handler, idle, calls, got>>
  BY <1>1 DEF TypeOK, TakeTask, Works, Acts, Actors, taskvars, resvars, donevars
<1>3. \A j \in Tasks \ {k} : SameTask(j)
  BY DEF SameTask, TakeTask, Works, Acts, taskvars, resvars, donevars
<1>4. StateOK(k)'
  BY <1>1, <1>2 DEF TaskInv, StateOK, Unpushed, WorkerStates
<1>5. ResultOK(k)'
  BY <1>1, <1>2 DEF TaskInv, ResultOK, HasResult
<1>6. CancelOK(k)'
  BY <1>1, <1>2 DEF TaskInv, CancelOK
<1>7. DoneOK(k)'
  BY <1>1, <1>2 DEF TaskInv, DoneOK, Finishing, Actors
<1>8. HandlerOK(k)'
  BY <1>1, <1>2 DEF TaskInv, HandlerOK, Emitting, Actors
<1>9. RefOK(k)'
  BY <1>1, <1>2 DEF TaskInv, RefOK, Users
<1>10. TypeOK' /\ tasks_running' = Cardinality(Running')
  <2>1. tasks_running' = Cardinality(Running')
    BY <1>1, <1>2, <1>3, SameRunning DEF RunningStates, TakeTask, poolvars
  <2>2. ref_count' \in [Tasks -> Nat]
    BY <1>1 DEF TypeOK, TakeTask
  <2>3. queue' \in Seq(Tasks)
    BY <1>1, PopTail DEF TypeOK, TakeTask
  <2> QED
    BY <1>1, <2>1, <2>2, <2>3 DEF TypeOK, TakeTask, Works, Acts, RunStates, AtStates,
       Actors, taskvars, lockvars, resvars, donevars, poolvars
<1> QED BY <1>3, <1>10, <1>4, <1>5, <1>6, <1>7, <1>8, <1>9, OneTask DEF TaskInv

\* xtask_thread_setup.
LEMMA SetupStep ==
  ASSUME GTaskInv, NEW k \in Tasks, xtask_thread_setup(k)
  PROVE  GTaskInv'
<1>1. /\ TypeOK /\ TaskInv(k) /\ tasks_running = Cardinality(Running)
      /\ idle[k] \in Nat /\ calls[k] \in Nat /\ ref_count[k] \in Nat
  BY DEF GTaskInv, TypeOK
<1>2. /\ at[k]["worker"] = "taken" /\ at'[k]["worker"] = "func"
      /\ at'[k]["canceller"] = at[k]["canceller"]
      /\ UNCHANGED <<mode, run, check_cancellable, nested, ref_count, app_ref,
                     thread_complete, thread_cancelled, return_on_cancel,
                     blocking_other_task, error, result_set, ever_returned,
                     completed, cancelled, handler, idle, calls, got>>
  BY <1>1 DEF TypeOK, xtask_thread_setup, Works, Acts, Actors, taskvars, resvars,
     donevars
<1>3. \A j \in Tasks \ {k} : SameTask(j)
  BY DEF SameTask, xtask_thread_setup, Works, Acts, taskvars, resvars, donevars
<1>4. StateOK(k)'
  BY <1>1, <1>2 DEF TaskInv, StateOK, Unpushed, WorkerStates
<1>5. ResultOK(k)'
  BY <1>1, <1>2 DEF TaskInv, ResultOK, HasResult
<1>6. CancelOK(k)'
  BY <1>1, <1>2 DEF TaskInv, CancelOK
<1>7. DoneOK(k)'
  BY <1>1, <1>2 DEF TaskInv, DoneOK, Finishing, Actors
<1>8. HandlerOK(k)'
  BY <1>1, <1>2 DEF TaskInv, HandlerOK, Emitting, Actors
<1>9. RefOK(k)'
  BY <1>1, <1>2 DEF TaskInv, RefOK, Users
<1>10. TypeOK' /\ tasks_running' = Cardinality(Running')
  <2>1. tasks_running' = Cardinality(Running') /\ tasks_running' \in Nat
    BY <1>1, <1>2, <1>3, OneMoreRunning DEF RunningStates, xtask_thread_setup
  <2>2. ref_count' \in [Tasks -> Nat]
    BY <1>1 DEF TypeOK, xtask_thread_setup
  <2>3. armed' \in BOOLEAN
    BY DEF xtask_thread_setup
  <2> QED
    BY <1>1, <2>1 DEF TypeOK, xtask_thread_setup, Works, Acts, AtStates, Actors,
       taskvars, resvars, donevars
<1> QED BY <1>3, <1>10, <1>4, <1>5, <1>6, <1>7, <1>8, <1>9, OneTask DEF TaskInv

\* The task function sets the result,
LEMMA SetsResultStep ==
  ASSUME GTaskInv, NEW k \in Tasks, FuncSetsResult(k)
  PROVE  GTaskInv'
<1>1. /\ TypeOK /\ TaskInv(k) /\ tasks_running = Cardinality(Running)
      /\ idle[k] \in Nat /\ calls[k] \in Nat /\ ref_count[k] \in Nat
  BY DEF GTaskInv, TypeOK
<1>2. /\ at[k]["worker"] = "func" /\ ever_returned'[k]
      /\ UNCHANGED <<at, mode, run, check_cancellable, nested, ref_count, app_ref,
                     thread_complete, thread_cancelled, return_on_cancel,
                     blocking_other_task, completed, cancelled, handler, idle,
                     calls, got>>
  BY <1>1 DEF TypeOK, FuncSetsResult, SetResult, InFunc, taskvars, lockvars, donevars
<1>3. \A j \in Tasks \ {k} : SameTask(j)
  BY DEF SameTask, FuncSetsResult, SetResult, taskvars, lockvars, donevars
<1>4. (error[k] => error'[k]) /\ (result_set[k]
          => result_set'[k]) /\ (error'[k] \/ result_set'[k])
  BY <1>1, GTaskAssumption DEF TypeOK, FuncSetsResult, SetResult
<1>5. StateOK(k)'
  BY <1>1, <1>2 DEF TaskInv, StateOK, Unpushed
<1>6. ResultOK(k)'
  BY <1>1, <1>2, <1>4 DEF TaskInv, ResultOK, HasResult
<1>7. CancelOK(k)' /\ DoneOK(k)' /\ HandlerOK(k)' /\ RefOK(k)'
  BY <1>1, <1>2 DEF TaskInv, CancelOK, DoneOK, Finishing, HandlerOK, Emitting, RefOK,
     Users
<1>8. TypeOK' /\ tasks_running' = Cardinality(Running')
  <2>1. tasks_running' = Cardinality(Running')
    BY <1>1, <1>3, SameRunning DEF FuncSetsResult, poolvars
  <2>2. ref_count' \in [Tasks -> Nat]
    BY <1>1 DEF TypeOK, FuncSetsResult
  <2> QED
    BY <1>1, <2>1 DEF TypeOK, FuncSetsResult, SetResult, taskvars, lockvars, donevars,
       poolvars
<1> QED BY <1>3, <1>8, <1>5, <1>6, <1>7, OneTask DEF TaskInv

\* or the error of the cancellation,
LEMMA ReturnErrorStep ==
  ASSUME GTaskInv, NEW k \in Tasks, xtask_return_error_if_cancelled(k)
  PROVE  GTaskInv'
<1>1. /\ TypeOK /\ TaskInv(k) /\ tasks_running = Cardinality(Running)
      /\ idle[k] \in Nat /\ calls[k] \in Nat /\ ref_count[k] \in Nat
  BY DEF GTaskInv, TypeOK
<1>2. /\ at[k]["worker"] = "func" /\ error'[k] /\ ever_returned'[k]
      /\ UNCHANGED <<at, mode, run, check_cancellable, nested, ref_count, app_ref,
                     thread_complete, thread_cancelled, return_on_cancel,
                     blocking_other_task, result_set, completed, cancelled,
                     handler, idle, calls, got>>
  BY <1>1 DEF TypeOK, xtask_return_error_if_cancelled, InFunc, taskvars, lockvars,
     donevars
<1>3. \A j \in Tasks \ {k} : SameTask(j)
  BY DEF SameTask, xtask_return_error_if_cancelled, taskvars, lockvars, donevars
<1>4. StateOK(k)'
  BY <1>1, <1>2 DEF TaskInv, StateOK, Unpushed
<1>5. ResultOK(k)'
  BY <1>1, <1>2 DEF TaskInv, ResultOK, HasResult
<1>6. CancelOK(k)' /\ DoneOK(k)' /\ HandlerOK(k)' /\ RefOK(k)'
  BY <1>1, <1>2 DEF TaskInv, CancelOK, DoneOK, Finishing, HandlerOK, Emitting, RefOK,
     Users
<1>7. TypeOK' /\ tasks_running' = Cardinality(Running')
  <2>1. tasks_running' = Cardinality(Running')
    BY <1>1, <1>3, SameRunning DEF xtask_return_error_if_cancelled, poolvars
  <2>2. ref_count' \in [Tasks -> Nat]
    BY <1>1 DEF TypeOK, xtask_return_error_if_cancelled
  <2> QED
    BY <1>1, <2>1 DEF TypeOK, xtask_return_error_if_cancelled, taskvars, lockvars,
       donevars, poolvars
<1> QED BY <1>3, <1>7, <1>4, <1>5, <1>6, OneTask DEF TaskInv

\* and returns.
LEMMA FuncReturnsStep ==
  ASSUME GTaskInv, NEW k \in Tasks, FuncReturns(k)
  PROVE  GTaskInv'
<1>1. /\ TypeOK /\ TaskInv(k) /\ tasks_running = Cardinality(Running)
      /\ idle[k] \in Nat /\ calls[k] \in Nat /\ ref_count[k] \in Nat
  BY DEF GTaskInv, TypeOK
<1>2. /\ ever_returned[k] \/ thread_complete[k]
      /\ at[k]["worker"] = "func" /\ ~nested'[k]
      /\ at'[k]["worker"] = "complete"
      /\ at'[k]["canceller"] = at[k]["canceller"]
      /\ UNCHANGED <<mode, run, check_cancellable, ref_count, app_ref, thread_complete,
                     thread_cancelled, return_on_cancel, blocking_other_task,
                     error, result_set, ever_returned, completed, cancelled,
                     handler, idle, calls, got>>
  BY <1>1 DEF TypeOK, FuncReturns, Works, Acts, Actors, taskvars, resvars, donevars
<1>3. \A j \in Tasks \ {k} : SameTask(j)
  BY DEF SameTask, FuncReturns, Works, Acts, taskvars, resvars, donevars
<1>4. StateOK(k)'
  BY <1>1, <1>2 DEF TaskInv, StateOK, Unpushed, WorkerStates
<1>5. ResultOK(k)'
  BY <1>1, <1>2 DEF TaskInv, ResultOK, HasResult
<1>6. CancelOK(k)'
  BY <1>1, <1>2 DEF TaskInv, CancelOK
<1>7. DoneOK(k)'
  BY <1>1, <1>2 DEF TaskInv, DoneOK, Finishing, Actors
<1>8. HandlerOK(k)'
  BY <1>1, <1>2 DEF TaskInv, HandlerOK, Emitting, Actors
<1>9. RefOK(k)'
  BY <1>1, <1>2 DEF TaskInv, RefOK, Users
<1>10. TypeOK' /\ tasks_running' = Cardinality(Running')
  <2>1. tasks_running' = Cardinality(Running')
    BY <1>1, <1>2, <1>3, SameRunning DEF RunningStates, FuncReturns, poolvars
  <2>2. ref_count' \in [Tasks -> Nat]
    BY <1>1 DEF TypeOK, FuncReturns
  <2> QED
    BY <1>1, <2>1 DEF TypeOK, FuncReturns, Works, Acts, AtStates, Actors, taskvars,
       resvars, donevars, poolvars
<1> QED BY <1>3, <1>10, <1>4, <1>5, <1>6, <1>7, <1>8, <1>9, OneTask DEF TaskInv

\* The reference of the pool is dropped.
LEMMA UnrefWorkedStep ==
  ASSUME GTaskInv, NEW k \in Tasks, UnrefWorked(k)
  PROVE  GTaskInv'
<1>1. /\ TypeOK /\ TaskInv(k) /\ tasks_running = Cardinality(Running)
      /\ idle[k] \in Nat /\ calls[k] \in Nat /\ ref_count[k] \in Nat
  BY DEF GTaskInv, TypeOK
<1>2. /\ at[k]["worker"] = "unref" /\ ref_count'[k] = ref_count[k] - 1
      /\ at'[k]["worker"] = "cleanup"
      /\ at'[k]["canceller"] = at[k]["canceller"]
      /\ UNCHANGED <<mode, run, check_cancellable, nested, app_ref, thread_complete,
                     thread_cancelled, return_on_cancel, blocking_other_task,
                     error, result_set, ever_returned, completed, cancelled,
                     handler, idle, calls, got>>
  BY <1>1
     DEF TypeOK, UnrefWorked, Works, Acts, Ref, Actors, taskvars, resvars, donevars
<1>3. \A j \in Tasks \ {k} : SameTask(j)
  BY DEF SameTask, UnrefWorked, Works, Acts, Ref, taskvars, resvars, donevars
<1>4. StateOK(k)'
  BY <1>1, <1>2 DEF TaskInv, StateOK, Unpushed, WorkerStates
<1>5. ResultOK(k)'
  BY <1>1, <1>2 DEF TaskInv, ResultOK, HasResult
<1>6. CancelOK(k)'
  BY <1>1, <1>2 DEF TaskInv, CancelOK
<1>7. DoneOK(k)'
  BY <1>1, <1>2 DEF TaskInv, DoneOK, Finishing, Count, Actors
<1>8. HandlerOK(k)'
  BY <1>1, <1>2 DEF TaskInv, HandlerOK, Emitting, Actors
<1>9. RefOK(k)'
  BY <1>1, <1>2 DEF TypeOK, TaskInv, RefOK, Users, Count, StateOK, Unpushed,
     WorkerStates, CancellerStates
<1>10. TypeOK' /\ tasks_running' = Cardinality(Running')
  <2>1. tasks_running' = Cardinality(Running')
    BY <1>1, <1>2, <1>3, SameRunning DEF RunningStates, UnrefWorked, poolvars
  <2>2. ref_count' \in [Tasks -> Nat]
    <3>1. ref_count'[k] \in Nat
      BY <1>1, <1>2, <1>9 DEF RefOK, Users, Count
    <3> QED BY <1>1, <3>1 DEF TypeOK, UnrefWorked, Ref
  <2> QED
    BY <1>1, <2>1, <2>2 DEF TypeOK, UnrefWorked, Works, Acts, RunStates, AtStates,
       Actors, taskvars, resvars, donevars, poolvars
<1> QED BY <1>3, <1>10, <1>4, <1>5, <1>6, <1>7, <1>8, <1>9, OneTask DEF TaskInv

\* xtask_thread_cleanup.
LEMMA CleanupStep ==
  ASSUME GTaskInv, NEW k \in Tasks, xtask_thread_cleanup(k)
  PROVE  GTaskInv'
<1>1. /\ TypeOK /\ TaskInv(k) /\ tasks_running = Cardinality(Running)
      /\ idle[k] \in Nat /\ calls[k] \in Nat /\ ref_count[k] \in Nat
  BY DEF GTaskInv, TypeOK
<1>2. /\ at[k]["worker"] = "cleanup" /\ at'[k]["worker"] = "gone"
      /\ at'[k]["canceller"] = at[k]["canceller"]
      /\ UNCHANGED <<mode, run, check_cancellable, nested, ref_count, app_ref,
                     thread_complete, thread_cancelled, return_on_cancel,
                     blocking_other_task, error, result_set, ever_returned,
                     completed, cancelled, handler, idle, calls, got>>
  BY <1>1 DEF TypeOK, xtask_thread_cleanup, Works, Acts, Actors, taskvars, resvars,
     donevars
<1>3. \A j \in Tasks \ {k} : SameTask(j)
  BY DEF SameTask, xtask_thread_cleanup, Works, Acts, taskvars, resvars, donevars
<1>4. StateOK(k)'
  BY <1>1, <1>2 DEF TaskInv, StateOK, Unpushed, WorkerStates
<1>5. ResultOK(k)'
  BY <1>1, <1>2 DEF TaskInv, ResultOK, HasResult
<1>6. CancelOK(k)'
  BY <1>1, <1>2 DEF TaskInv, CancelOK
<1>7. DoneOK(k)'
  BY <1>1, <1>2 DEF TaskInv, DoneOK, Finishing, Count, Actors
<1>8. HandlerOK(k)'
  BY <1>1, <1>2 DEF TaskInv, HandlerOK, Emitting, Actors
<1>9. RefOK(k)'
  BY <1>1, <1>2 DEF TaskInv, RefOK, Users
<1>10. TypeOK' /\ tasks_running' = Cardinality(Running')
  <2>1. tasks_running' = Cardinality(Running') /\ tasks_running' \in Nat
    BY <1>1, <1>2, <1>3, OneLessRunning DEF RunningStates, xtask_thread_cleanup
  <2>2. ref_count' \in [Tasks -> Nat]
    BY <1>1 DEF TypeOK, xtask_thread_cleanup
  <2>3. max_threads' \in Nat
    BY <1>1, <2>1 DEF TypeOK, xtask_thread_cleanup
  <2> QED
    BY <1>1, <2>1 DEF TypeOK, xtask_thread_cleanup, Works, Acts, AtStates, Actors,
       taskvars, resvars, donevars
<1> QED BY <1>3, <1>10, <1>4, <1>5, <1>6, <1>7, <1>8, <1>9, OneTask DEF TaskInv

\* xtask_return of a task that no thread runs.
LEMMA ReturnPlainStep ==
  ASSUME GTaskInv, NEW k \in Tasks, ReturnPlain(k)
  PROVE  GTaskInv'
<1> USE DEF ReturnPlain
<1>1. /\ TypeOK /\ TaskInv(k) /\ tasks_running = Cardinality(Running)
      /\ idle[k] \in Nat /\ calls[k] \in Nat /\ ref_count[k] \in Nat
  BY DEF GTaskInv, TypeOK
<1>2. /\ run[k] = "new" /\ mode[k] = "plain" /\ run'[k] = "done" /\ ever_returned'[k]
      /\ (error'[k] \/ result_set'[k]) /\ at'[k]["worker"] = at[k]["worker"]
      /\ at'[k]["canceller"] = at[k]["canceller"]
      /\ UNCHANGED <<mode, check_cancellable, nested, app_ref, thread_complete,
                      thread_cancelled, return_on_cancel, cancelled, handler,
                      tasks_running>>
  BY <1>1, GTaskAssumption DEF TypeOK, SetResult, taskvars, lockvars, poolvars
<1>3. \/ /\ idle'[k] = idle[k] /\ ref_count'[k] = ref_count[k] /\ calls'[k] = calls[k] + 1
         /\ completed'[k] /\ got'[k] = xtask_propagate(k)'
      \/ /\ idle'[k] = idle[k] + 1 /\ ref_count'[k] = ref_count[k] + 2
         /\ calls'[k] = calls[k] /\ completed'[k] = completed[k] /\ got'[k] = got[k]
  BY <1>1 DEF TypeOK, xtask_return_now, ReturnInIdle, Ref
<1>4. \A j \in Tasks \ {k} : SameTask(j)
  BY <1>1 DEF TypeOK, SameTask, SetResult, xtask_return_now, ReturnInIdle, Ref,
     taskvars, lockvars
<1>5. /\ idle[k] = 0 /\ calls[k] = 0 /\ ~thread_complete[k]
      /\ at[k]["worker"] = "idle"
      /\ handler[k] = "none" /\ ~Emitting(k)
  BY <1>1 DEF TaskInv, StateOK, DoneOK, HandlerOK, Count
<1>6. StateOK(k)'
  BY <1>1, <1>2 DEF TaskInv, StateOK
<1>7. ResultOK(k)'
  <2>1. HasResult(k)'
    BY <1>2 DEF HasResult
  <2>2. got'[k] # "empty"
    BY <1>1, <1>2, <1>3 DEF TaskInv, ResultOK, xtask_propagate
  <2> QED BY <1>1, <1>2, <2>1, <2>2 DEF TaskInv, ResultOK
<1>8. CancelOK(k)'
  BY <1>1, <1>2 DEF TaskInv, CancelOK
<1>9. DoneOK(k)'
  BY <1>1, <1>2, <1>3 DEF TaskInv, DoneOK, Finishing, Count
<1>10. HandlerOK(k)'
  BY <1>5 DEF HandlerOK, Emitting
<1>11. RefOK(k)'
  BY <1>1, <1>2, <1>3 DEF TaskInv, RefOK, Users, Count
<1>12. tasks_running' = Cardinality(Running')
  BY <1>1, <1>2, <1>4, SameRunning
<1>13. TypeOK'
  <2>1. idle' \in [Tasks -> Nat] /\ calls' \in [Tasks -> Nat]
            /\ ref_count' \in [Tasks -> Nat]
    <3>1. CASE xtask_return_now(k) /\ UNCHANGED <<idle, ref_count>>
      BY <1>1, <3>1 DEF TypeOK, xtask_return_now
    <3>2. CASE ReturnInIdle(k)
      <4>1. ref_count' = [ref_count EXCEPT ![k] = ref_count[k] + 2]
                /\ ref_count[k] + 2 \in Nat
        BY <1>1, <3>2 DEF ReturnInIdle, Ref
      <4>2. ref_count' \in [Tasks -> Nat]
        BY <1>1, <4>1 DEF TypeOK
      <4>3. /\ idle' = [idle EXCEPT ![k] = idle[k] + 1] /\ idle[k] + 1 \in Nat
            /\ calls' = calls
        BY <1>1, <3>2 DEF ReturnInIdle
      <4> QED BY <1>1, <4>2, <4>3 DEF TypeOK
    <3> QED BY <3>1, <3>2
  <2>2. /\ got' \in [Tasks -> {"nothing", "cancelled", "error", "value", "empty"}]
        /\ completed' \in [Tasks -> BOOLEAN]
    BY <1>1 DEF TypeOK, xtask_return_now, ReturnInIdle, xtask_propagate
  <2>3. /\ error' \in [Tasks -> BOOLEAN] /\ result_set' \in [Tasks -> BOOLEAN]
        /\ ever_returned' \in [Tasks -> BOOLEAN] /\ run' \in [Tasks -> RunStates]
    BY <1>1 DEF TypeOK, SetResult, RunStates
  <2> QED BY <1>1, <2>1, <2>2, <2>3 DEF TypeOK, taskvars, lockvars, poolvars
<1> QED
  BY <1>4, <1>6, <1>7, <1>8, <1>9, <1>10, <1>11, <1>12, <1>13, OneTask DEF TaskInv

\* xtask_set_return_on_cancel, which refuses once the task is cancelled.
LEMMA SetReturnStep ==
  ASSUME GTaskInv, NEW k \in Tasks, NEW v \in BOOLEAN,
         xtask_set_return_on_cancel(k, v)
  PROVE  GTaskInv'
<1> USE DEF xtask_set_return_on_cancel
<1>1. /\ TypeOK /\ TaskInv(k) /\ tasks_running = Cardinality(Running)
      /\ idle[k] \in Nat /\ calls[k] \in Nat /\ ref_count[k] \in Nat
  BY DEF GTaskInv, TypeOK
<1>2. /\ at'[k]["canceller"] = at[k]["canceller"]
      /\ UNCHANGED <<mode, run, check_cancellable, ref_count, app_ref,
                      thread_complete, thread_cancelled, error, result_set,
                      ever_returned, completed, cancelled, handler, idle, calls,
                      got, tasks_running>>
  BY <1>1 DEF TypeOK, Actors, taskvars, resvars, donevars, poolvars
<1>3. \/ /\ return_on_cancel'[k] => check_cancellable[k]
         /\ at'[k]["worker"] = at[k]["worker"] /\ nested'[k] = nested[k]
      \/ /\ return_on_cancel'[k] = return_on_cancel[k]
         /\ at[k]["worker"] = "func" /\ at'[k]["worker"] = "complete"
         /\ nested'[k] /\ thread_cancelled[k] /\ check_cancellable[k]
  BY <1>1 DEF TypeOK, Actors, InFunc
<1>4. \A j \in Tasks \ {k} : SameTask(j)
  BY <1>1 DEF TypeOK, SameTask, taskvars, resvars, donevars
<1>5. StateOK(k)'
  BY <1>1, <1>2, <1>3 DEF TaskInv, StateOK, Unpushed, WorkerStates
<1>6. ResultOK(k)'
  BY <1>1, <1>2, <1>3 DEF TaskInv, ResultOK, HasResult, CancelOK
<1>7. CancelOK(k)'
  BY <1>1 DEF TaskInv, CancelOK
<1>8. DoneOK(k)'
  BY <1>1, <1>2, <1>3 DEF TaskInv, DoneOK, Finishing, Actors
<1>9. HandlerOK(k)'
  BY <1>1, <1>2, <1>3 DEF TaskInv, HandlerOK, Emitting, Actors
<1>10. RefOK(k)'
  BY <1>1, <1>2, <1>3 DEF TaskInv, RefOK, Users
<1>11. tasks_running' = Cardinality(Running')
  BY <1>1, <1>2, <1>3, <1>4, SameRunning DEF RunningStates
<1>12. TypeOK'
  <2>1. at' \in [Tasks -> [Actors -> AtStates]]
    <3>1. at' = at \/ at' = [at EXCEPT ![k]["worker"] = "complete"]
      OBVIOUS
    <3>2. [at[k] EXCEPT !["worker"] = "complete"] \in [Actors -> AtStates]
      BY <1>1 DEF TypeOK, Actors, AtStates
    <3> QED BY <1>1, <3>1, <3>2 DEF TypeOK
  <2>2. return_on_cancel' \in [Tasks -> BOOLEAN] /\ nested' \in [Tasks -> BOOLEAN]
    <3>1. /\ \/ return_on_cancel' = return_on_cancel
             \/ return_on_cancel' = [return_on_cancel EXCEPT ![k] = v]
          /\ nested' = nested \/ nested' = [nested EXCEPT ![k] = TRUE]
      OBVIOUS
    <3>2. return_on_cancel \in [Tasks -> BOOLEAN] /\ nested \in [Tasks -> BOOLEAN]
      BY <1>1 DEF TypeOK
    <3> QED BY <3>1, <3>2
  <2> QED BY <1>1, <2>1, <2>2, SMTT(20)
          DEF TypeOK, taskvars, resvars, donevars, poolvars
<1> QED
  BY <1>4, <1>5, <1>6, <1>7, <1>8, <1>9, <1>10, <1>11, <1>12, OneTask DEF TaskInv

\* xtask_thread_complete: the first of the worker and the canceller wins.
LEMMA CompleteStep ==
  ASSUME GTaskInv, NEW k \in Tasks, NEW a \in Actors, xtask_thread_complete(k, a)
  PROVE  GTaskInv'
<1> USE DEF xtask_thread_complete
<1>1. /\ TypeOK /\ TaskInv(k) /\ tasks_running = Cardinality(Running)
      /\ idle[k] \in Nat /\ calls[k] \in Nat /\ ref_count[k] \in Nat
  BY DEF GTaskInv, TypeOK
<1>2. /\ thread_complete'[k] /\ Unlocked(k)
      /\ UNCHANGED <<mode, run, check_cancellable, nested, ref_count, app_ref,
                      thread_cancelled, return_on_cancel, error, result_set,
                      ever_returned, completed, cancelled, handler, idle, calls,
                      got, tasks_running>>
  BY <1>1 DEF TypeOK, Acts, taskvars, resvars, donevars, poolvars
<1>3. \/ /\ a = "worker" /\ at[k]["worker"] = "complete"
         /\ at'[k]["canceller"] = at[k]["canceller"]
         /\ \/ ~thread_complete[k] /\ at'[k]["worker"] = "disconnect"
            \/ /\ thread_complete[k]
               /\ at'[k]["worker"] = IF nested[k] THEN "func" ELSE "unref"
      \/ /\ a = "canceller" /\ at[k]["canceller"] = "complete"
         /\ at'[k]["worker"] = at[k]["worker"]
         /\ \/ ~thread_complete[k] /\ at'[k]["canceller"] = "disconnect"
            \/ thread_complete[k] /\ at'[k]["canceller"] = "handled"
  BY <1>1 DEF TypeOK, Acts, Caller, Actors
<1>4. \A j \in Tasks \ {k} : SameTask(j)
  BY DEF SameTask, Acts, taskvars, resvars, donevars
<1>5. StateOK(k)'
  BY <1>1, <1>2, <1>3 DEF TaskInv, StateOK, Unpushed, WorkerStates, CancellerStates,
     HandlerOK, Emitting
<1>6. ResultOK(k)'
  BY <1>1, <1>2, <1>3 DEF TaskInv, ResultOK, HasResult, StateOK
<1>7. CancelOK(k)'
  BY <1>1, <1>2, <1>3 DEF TaskInv, CancelOK
<1>8. DoneOK(k)'
  <2>1. CASE thread_complete[k]
    BY <1>1, <1>2, <1>3, <2>1 DEF TaskInv, DoneOK, Finishing, Count, Actors
  <2>2. CASE ~thread_complete[k]
    BY <1>1, <1>2, <1>3, <2>2
       DEF TypeOK, TaskInv, DoneOK, Finishing, Count, Actors, StateOK, Unpushed,
           Unlocked, RunStates, HandlerOK, Emitting
  <2> QED BY <2>1, <2>2
<1>9. HandlerOK(k)'
  BY <1>1, <1>2, <1>3 DEF TaskInv, HandlerOK, Emitting, Actors
<1>10. RefOK(k)'
  BY <1>1, <1>2, <1>3 DEF TaskInv, RefOK, Users
<1>11. tasks_running' = Cardinality(Running')
  BY <1>1, <1>2, <1>3, <1>4, SameRunning DEF RunningStates
<1>12. TypeOK'
  <2>1. at' \in [Tasks -> [Actors -> AtStates]]
    BY <1>1 DEF TypeOK, Acts, Caller, AtStates
  <2> QED BY <1>1, <2>1 DEF TypeOK, Acts, taskvars, resvars, donevars, poolvars
<1> QED
  BY <1>4, <1>5, <1>6, <1>7, <1>8, <1>9, <1>10, <1>11, <1>12, OneTask DEF TaskInv

\* The one that won disconnects the handler,
LEMMA DisconnectStep ==
  ASSUME GTaskInv, NEW k \in Tasks, NEW a \in Actors, DisconnectHandler(k, a)
  PROVE  GTaskInv'
<1> USE DEF DisconnectHandler
<1>1. /\ TypeOK /\ TaskInv(k) /\ tasks_running = Cardinality(Running)
      /\ idle[k] \in Nat /\ calls[k] \in Nat /\ ref_count[k] \in Nat
  BY DEF GTaskInv, TypeOK
<1>2. /\ UNCHANGED <<mode, run, check_cancellable, nested, app_ref,
                      thread_complete, thread_cancelled, return_on_cancel,
                      error, result_set, ever_returned, completed, cancelled,
                      idle, calls, got, tasks_running>>
  BY DEF Acts, taskvars, resvars, donevars, poolvars
<1>3. \/ /\ a = "worker" /\ at[k]["worker"] = "disconnect"
         /\ at'[k]["canceller"] = at[k]["canceller"] /\ at'[k]["worker"] = "finish"
      \/ /\ a = "canceller" /\ at[k]["canceller"] = "disconnect"
         /\ at'[k]["worker"] = at[k]["worker"] /\ at'[k]["canceller"] = "finish"
  BY <1>1 DEF TypeOK, Acts, Actors
<1>4. /\ handler[k] = "connected" /\ Emitting(k)
           => handler'[k] = "disconnected" /\ ref_count'[k] = ref_count[k]
      /\ handler[k] = "connected" /\ ~Emitting(k)
           => handler'[k] = "none" /\ ref_count'[k] = ref_count[k] - 1
      /\ handler[k] # "connected"
             => handler'[k] = handler[k] /\ ref_count'[k] = ref_count[k]
  BY <1>1 DEF TypeOK, Ref
<1>5. \A j \in Tasks \ {k} : SameTask(j)
  BY <1>1 DEF TypeOK, SameTask, Acts, Ref, taskvars, resvars, donevars
<1>6. StateOK(k)'
  BY <1>1, <1>2, <1>3 DEF TaskInv, StateOK, Unpushed, WorkerStates, CancellerStates
<1>7. ResultOK(k)'
  BY <1>1, <1>2, <1>3 DEF TaskInv, ResultOK, HasResult
<1>8. CancelOK(k)'
  BY <1>1, <1>2, <1>3 DEF TaskInv, CancelOK
<1>9. DoneOK(k)'
  BY <1>1, <1>2, <1>3 DEF TaskInv, DoneOK, Finishing
<1>10. HandlerOK(k)'
  BY <1>1, <1>2, <1>3, <1>4 DEF TaskInv, HandlerOK, Emitting
<1>11. RefOK(k)'
  BY <1>1, <1>2, <1>3, <1>4 DEF TaskInv, RefOK, Users, Count
<1>12. tasks_running' = Cardinality(Running')
  BY <1>1, <1>2, <1>3, <1>5, SameRunning DEF RunningStates
<1>13. TypeOK'
  <2>1. at' \in [Tasks -> [Actors -> AtStates]]
    BY <1>1 DEF TypeOK, Acts, AtStates
  <2>2. ref_count' \in [Tasks -> Nat]
    <3>1. ref_count'[k] \in Nat
      BY <1>1, <1>2, <1>11 DEF RefOK, Users, Count
    <3> QED BY <1>1, <3>1 DEF TypeOK, Ref
  <2>3. handler' \in [Tasks -> {"none", "connected", "disconnected"}]
    BY <1>1 DEF TypeOK
  <2> QED
    BY <1>1, <2>1, <2>2, <2>3 DEF TypeOK, Acts, taskvars, resvars, donevars, poolvars
<1> QED
  BY <1>5, <1>6, <1>7, <1>8, <1>9, <1>10, <1>11, <1>12, <1>13, OneTask DEF TaskInv

\* and wakes the waiting caller or queues the idle source.
LEMMA SignalStep ==
  ASSUME GTaskInv, NEW k \in Tasks, NEW a \in Actors, SignalComplete(k, a)
  PROVE  GTaskInv'
<1> USE DEF SignalComplete
<1>1. /\ TypeOK /\ TaskInv(k) /\ tasks_running = Cardinality(Running)
      /\ idle[k] \in Nat /\ calls[k] \in Nat /\ ref_count[k] \in Nat
  BY DEF GTaskInv, TypeOK
<1>2. /\ UNCHANGED <<mode, check_cancellable, nested, app_ref, thread_complete,
                      thread_cancelled, return_on_cancel, error, result_set,
                      ever_returned, completed, cancelled, handler, calls, got,
                      tasks_running>>
  BY DEF Acts, ReturnInIdle, taskvars, resvars, donevars, poolvars
<1>3. \/ /\ a = "worker" /\ at[k]["worker"] = "finish"
         /\ at'[k]["canceller"] = at[k]["canceller"]
         /\ at'[k]["worker"] = IF nested[k] THEN "func" ELSE "unref"
      \/ /\ a = "canceller" /\ at[k]["canceller"] = "finish"
         /\ at'[k]["worker"] = at[k]["worker"] /\ at'[k]["canceller"] = "handled"
  BY <1>1 DEF TypeOK, Acts, Caller, Actors
<1>4. /\ mode[k] = "sync" => /\ run'[k] = IF run[k] = "asleep" THEN "wait" ELSE run[k]
                             /\ idle'[k] = idle[k] /\ ref_count'[k] = ref_count[k]
      /\ mode[k] # "sync" => /\ run'[k] = run[k] /\ idle'[k] = idle[k] + 1
                             /\ ref_count'[k] = ref_count[k] + 2
  BY <1>1 DEF TypeOK, ReturnInIdle, Ref, donevars
<1>5. \A j \in Tasks \ {k} : SameTask(j)
  BY <1>1 DEF TypeOK, SameTask, Acts, ReturnInIdle, Ref, taskvars, resvars, donevars
<1>6. thread_complete[k] /\ mode[k] # "plain"
  BY <1>1, <1>3 DEF TaskInv, DoneOK, Finishing, StateOK
<1>7. StateOK(k)'
  BY <1>1, <1>2, <1>3, <1>4 DEF TaskInv, StateOK, Unpushed, WorkerStates,
     CancellerStates
<1>8. ResultOK(k)'
  BY <1>1, <1>2, <1>3, <1>6 DEF TaskInv, ResultOK, HasResult
<1>9. CancelOK(k)'
  BY <1>1, <1>2, <1>3 DEF TaskInv, CancelOK
<1>10. DoneOK(k)'
  <2>1. CASE mode[k] = "sync"
    BY <1>1, <1>2, <1>3, <1>4, <2>1 DEF TaskInv, DoneOK, Finishing, Actors
  <2>2. CASE mode[k] = "async"
    BY <1>1, <1>2, <1>3, <1>4, <2>2 DEF TaskInv, DoneOK, Finishing, Count
  <2> QED BY <1>1, <1>6, <2>1, <2>2 DEF TypeOK
<1>11. HandlerOK(k)'
  BY <1>1, <1>2, <1>3, <1>4 DEF TaskInv, HandlerOK, Emitting, Actors
<1>12. RefOK(k)'
  BY <1>1, <1>2, <1>3, <1>4 DEF TaskInv, RefOK, Users, Count
<1>13. tasks_running' = Cardinality(Running')
  BY <1>1, <1>2, <1>3, <1>5, SameRunning DEF RunningStates
<1>14. TypeOK'
  <2>1. at' \in [Tasks -> [Actors -> AtStates]]
    BY <1>1 DEF TypeOK, Acts, Caller, AtStates
  <2>2. ref_count' \in [Tasks -> Nat] /\ idle' \in [Tasks -> Nat]
            /\ run' \in [Tasks -> RunStates]
    <3>1. CASE mode[k] = "sync"
      BY <1>1, <3>1 DEF TypeOK, RunStates, donevars
    <3>2. CASE mode[k] # "sync"
      <4>1. ref_count' = [ref_count EXCEPT ![k] = ref_count[k] + 2]
                /\ ref_count[k] + 2 \in Nat
        BY <1>1, <3>2 DEF ReturnInIdle, Ref
      <4>2. ref_count' \in [Tasks -> Nat]
        BY <1>1, <4>1 DEF TypeOK
      <4>3. /\ idle' = [idle EXCEPT ![k] = idle[k] + 1] /\ idle[k] + 1 \in Nat
            /\ run' = run
        BY <1>1, <3>2 DEF ReturnInIdle
      <4> QED BY <1>1, <4>2, <4>3 DEF TypeOK
    <3> QED BY <3>1, <3>2
  <2> QED
    BY <1>1, <2>1, <2>2 DEF TypeOK, Acts, ReturnInIdle, taskvars, resvars, donevars,
       poolvars
<1> QED
  BY <1>5, <1>7, <1>8, <1>9, <1>10, <1>11, <1>12, <1>13, <1>14, OneTask DEF TaskInv

\* The pool manager's steps touch no task.
LEMMA OtherStep ==
  ASSUME GTaskInv, \/ ManagerReady \/ task_pool_manager_timeout \/ UNCHANGED vars
  PROVE  GTaskInv'
<1>1. /\ \A j \in Tasks : SameTask(j)
      /\ tasks_running' = tasks_running /\ Running' = Running
  BY DEF SameTask, ManagerReady, task_pool_manager_timeout, vars, Running, taskvars,
     lockvars, resvars, donevars, poolvars
<1>2. TypeOK'
  <2>1. CASE ManagerReady
    BY <2>1 DEF GTaskInv, TypeOK, ManagerReady, taskvars, lockvars, resvars, donevars
  <2>2. CASE task_pool_manager_timeout
    <3>1. armed' \in BOOLEAN
      BY <2>2, Zenon DEF task_pool_manager_timeout
    <3> QED BY <2>2, <3>1 DEF GTaskInv, TypeOK, task_pool_manager_timeout, taskvars,
               lockvars, resvars, donevars
  <2>3. CASE UNCHANGED vars
    BY <2>3
       DEF GTaskInv, TypeOK, vars, taskvars, lockvars, resvars, donevars, poolvars
  <2> QED BY <2>1, <2>2, <2>3
<1>3. \A j \in Tasks : TaskInv(j)'
  BY <1>1, Frame DEF GTaskInv
<1> QED BY <1>1, <1>2, <1>3 DEF GTaskInv

\* No task exists at first.
LEMMA InitInv == Init => GTaskInv
<1> SUFFICES ASSUME Init PROVE GTaskInv
  OBVIOUS
<1>1. TypeOK
  <2>1. /\ mode \in [Tasks -> {"plain", "async", "sync"}]
        /\ run \in [Tasks -> RunStates]
        /\ at \in [Tasks -> [Actors -> AtStates]]
        /\ ref_count \in [Tasks -> Nat] /\ idle \in [Tasks -> Nat]
        /\ calls \in [Tasks -> Nat]
        /\ handler \in [Tasks -> {"none", "connected", "disconnected"}]
        /\ got \in [Tasks -> {"nothing", "cancelled", "error", "value", "empty"}]
    BY DEF Init, RunStates, AtStates
  <2>2. /\ queue \in Seq(Tasks) /\ max_threads \in Nat /\ tasks_running \in Nat
        /\ manager \in {"idle", "dispatch"}
    BY GTaskAssumption DEF Init
  <2>3. armed \in BOOLEAN
    BY Zenon DEF Init
  <2> QED BY <2>1, <2>2, <2>3 DEF Init, TypeOK
<1>2. tasks_running = Cardinality(Running)
  <2>1. Running = {}
    BY DEF Init, Running, RunningStates, Actors
  <2> QED BY <2>1, FS_EmptySet DEF Init
<1>3. ASSUME NEW k \in Tasks PROVE TaskInv(k)
  <2>1. /\ mode[k] = "plain" /\ run[k] = "unused" /\ at[k]["worker"] = "idle"
        /\ at[k]["canceller"] = "idle" /\ ref_count[k] = 0 /\ ~app_ref[k]
        /\ ~thread_complete[k] /\ ~thread_cancelled[k] /\ ~return_on_cancel[k]
        /\ ~ever_returned[k] /\ ~completed[k] /\ handler[k] = "none" /\ idle[k] = 0
        /\ calls[k] = 0 /\ got[k] = "nothing"
    BY DEF Init, Actors
  <2> QED
    BY <2>1 DEF TaskInv, StateOK, WorkerStates, CancellerStates, ResultOK, CancelOK,
       DoneOK, Finishing, Count, HandlerOK, Emitting, RefOK, Users, Actors
<1> QED BY <1>1, <1>2, <1>3 DEF GTaskInv

\* Every step preserves the invariant.
LEMMA NextInv == GTaskInv /\ [Next]_vars => GTaskInv'
<1> SUFFICES ASSUME GTaskInv, [Next]_vars PROVE GTaskInv'
  OBVIOUS
<1>1. ASSUME NEW k \in Tasks,
             \/ xtask_new(k) \/ xtask_set_check_cancellable(k) \/ ReturnPlain(k)
             \/ xobject_unref(k) \/ xtask_run_in_thread(k)
             \/ \E v \in BOOLEAN : xtask_set_return_on_cancel(k, v)
             \/ complete_in_idle_cb(k) \/ xcancellable_cancel(k) \/ TakeTask(k)
      PROVE  GTaskInv'
  BY <1>1, NewStep, SetCheckStep, ReturnPlainStep, AppUnrefStep, RunStep,
     SetReturnStep, IdleStep, CancelStep, TakeStep
<1>2. ASSUME NEW k \in Tasks, Start(k)
      PROVE  GTaskInv'
  BY <1>2, CheckStep, ConnectStep, PushStep, UnlockStep, ReturnStep, WaitStep,
     UnrefStartedStep DEF Start
<1>3. ASSUME NEW k \in Tasks, NEW a \in Actors, Complete(k, a)
      PROVE  GTaskInv'
  BY <1>3, CompleteStep, DisconnectStep, SignalStep DEF Complete
<1>4. ASSUME NEW k \in Tasks, Cancelling(k)
      PROVE  GTaskInv'
  BY <1>3, <1>4, EmitStep, MoveStep, HandlerStep, EmissionStep DEF Cancelling, Actors
<1>5. ASSUME NEW k \in Tasks, Work(k)
      PROVE  GTaskInv'
  BY <1>3, <1>5, SetupStep, UnrefWorkedStep, CleanupStep DEF Work, Actors
<1>6. ASSUME NEW k \in Tasks, Func(k)
      PROVE  GTaskInv'
  BY <1>6, SetsResultStep, ReturnErrorStep, FuncReturnsStep DEF Func
<1>7. CASE \/ ManagerReady \/ task_pool_manager_timeout \/ UNCHANGED vars
  BY <1>7, OtherStep
<1> QED BY <1>1, <1>2, <1>4, <1>5, <1>6, <1>7 DEF Next

\* The invariant holds throughout every behaviour.
LEMMA TaskInvariant == Spec => []GTaskInv
BY InitInv, NextInv, PTL DEF Spec

\* The callback of a task is called at most once, with a result or an error to
\* propagate, and before the task function has returned only if the task was
\* cancelled with return_on_cancel: whether the worker or the handler of
\* "cancelled" completes the task, and however both race with
\* xtask_start_task_thread.
THEOREM Completion == Spec => []CompletedOnce
<1>1. GTaskInv => CompletedOnce
  <2> SUFFICES ASSUME GTaskInv, NEW k \in Tasks
               PROVE  /\ calls[k] + idle[k] <= IF mode[k] = "sync" THEN 0 ELSE 1
                      /\ completed[k] => mode[k] = "sync" \/ calls[k] = 1
                      /\ got[k] # "empty"
                      /\ mode[k] # "plain" /\ (completed[k] \/ idle[k] > 0)
                           /\ ~thread_cancelled[k]
                           => at[k]["worker"] \in {"unref", "cleanup", "gone"}
    BY DEF CompletedOnce
  <2>1. /\ TypeOK /\ TaskInv(k) /\ idle[k] \in Nat /\ calls[k] \in Nat
        /\ mode[k] \in {"plain", "async", "sync"}
    BY DEF GTaskInv, TypeOK
  <2>2. calls[k] + idle[k] <= IF mode[k] = "sync" THEN 0 ELSE 1
    BY <2>1 DEF TaskInv, DoneOK, Count
  <2>3. completed[k] => mode[k] = "sync" \/ calls[k] = 1
    BY <2>1, <2>2 DEF TaskInv, DoneOK
  <2>4. got[k] # "empty"
    BY <2>1 DEF TaskInv, ResultOK
  <2>5. ASSUME mode[k] # "plain", completed[k] \/ idle[k] > 0, ~thread_cancelled[k]
        PROVE  at[k]["worker"] \in {"unref", "cleanup", "gone"}
    <3>1. thread_complete[k] /\ ~Finishing(k, "worker")
      <4>1. CASE mode[k] = "sync"
        BY <2>1, <2>5, <4>1 DEF TaskInv, DoneOK, Actors
      <4>2. CASE mode[k] = "async"
        BY <2>1, <2>5, <4>2 DEF TaskInv, DoneOK, Count
      <4> QED BY <2>1, <2>5, <4>1, <4>2
    <3> QED BY <2>1, <2>5, <3>1 DEF TaskInv, CancelOK, Finishing
  <2> QED BY <2>2, <2>3, <2>4, <2>5
<1> QED BY <1>1, TaskInvariant, PTL

\* A task has references as long as the application, the starting call, the pool,
\* the handler of "cancelled" or an idle source may touch it, and no longer.
THEOREM References == Spec => []RefsExact
<1>1. GTaskInv => RefsExact
  <2> SUFFICES ASSUME GTaskInv, NEW k \in Tasks
               PROVE  ref_count[k] > 0 <=> InUse(k)
    BY DEF RefsExact, GTaskInv
  <2>1. /\ TypeOK /\ TaskInv(k) /\ idle[k] \in Nat /\ run[k] \in RunStates
        /\ handler[k] \in {"none", "connected", "disconnected"}
    BY DEF GTaskInv, TypeOK
  <2>2. ref_count[k] > 0 <=> \/ app_ref[k] \/ idle[k] > 0
          \/ run[k] \in {"check", "connect", "push", "unlock", "return", "wait",
                         "asleep", "unref"}
          \/ at[k]["worker"] \in {"queued", "taken", "func", "complete", "disconnect",
                                 "finish", "unref"}
          \/ handler[k] # "none"
    BY <2>1 DEF TaskInv, RefOK, Users, Count
  <2>3. ASSUME handler[k] # "none" PROVE InUse(k)
    <3>1. CASE handler[k] = "disconnected"
      BY <2>1, <3>1 DEF TaskInv, HandlerOK, InUse
    <3>2. CASE handler[k] = "connected"
      BY <2>1, <3>2
         DEF TaskInv, HandlerOK, StateOK, Unpushed, DoneOK, InUse, Emitting, Actors
    <3> QED BY <2>1, <2>3, <3>1, <3>2
  <2>4. InUse(k) => ref_count[k] > 0
    BY <2>1, <2>2 DEF TaskInv, InUse, StateOK, HandlerOK, WorkerStates, RunStates
  <2>5. ref_count[k] > 0 => InUse(k)
    BY <2>2, <2>3 DEF InUse
  <2> QED BY <2>4, <2>5
<1> QED BY <1>1, TaskInvariant, PTL

=============================================================================
