-------------------------- MODULE GThreadPoolUnused --------------------------
(***************************************************************************)
(* The unused threads of glib/gthreadpool.c, shared by all non-exclusive   *)
(* pools: a thread that leaves its pool waits in unused_thread_queue for   *)
(* another one (xthread_pool_wait_for_new_pool) until it is handed a pool, *)
(* is superfluous, or has been idle too long.  A change of the limits      *)
(* sends wakeup markers through the same queue.                            *)
(*                                                                         *)
(* Every access to one of the atomic variables is one step, and so is a    *)
(* critical section of the queue (a GAsyncQueue).  The pools themselves    *)
(* are GThreadPool.                                                        *)
(***************************************************************************)
EXTENDS GQueue

CONSTANTS
  Workers,      \* slots for the threads that are ever alive at one time
  Pools,        \* the pools
  Marker,       \* wakeup_thread_marker
  Null,         \* the NULL pool that stops a thread
  Limits,       \* the values set with xthread_pool_set_max_unused_threads
  MaxChanges,   \* bound: how often the limits are changed
  MaxStarts     \* bound: how often a pool asks for a thread

ASSUME GThreadPoolUnusedAssumption ==
  /\ IsFiniteSet(Workers)
  /\ Marker \notin Pools /\ Null \notin Pools /\ Marker # Null
  /\ Limits \subseteq (Nat \cup {-1})
  /\ MaxChanges \in Nat /\ MaxStarts \in Nat

VARIABLES
  unused_thread_queue,   \* pools and markers, head to tail
  unused_threads, max_unused_threads, kill_unused_threads,
  wakeup_thread_serial,
  max_idle_time,         \* 0: no limit, 1: some limit
  stage,                 \* where each thread is
  local,                 \* its local variables
  setter,                \* the progress of a change of the limits
  starts, changes        \* history: how often a thread was asked for, and the
                         \* limits were changed

atomics == <<unused_threads, max_unused_threads, kill_unused_threads,
             wakeup_thread_serial, max_idle_time>>
unusedvars == <<unused_thread_queue, atomics, stage, local, setter, starts, changes>>

(***************************************************************************)
(* none     not alive              work     in a pool                      *)
(* idle     has read the maximum   serial   has read the idle time too     *)
(* inc      has read the serial as well                                    *)
(* check    at the head of the loop         pop     about to pop           *)
(* asleep, woken, expired  in the pop, as in GAsyncQueue                   *)
(* marker   has popped a marker    relay    about to push it again         *)
(* kill     about to decrement kill_unused_threads                         *)
(* limits   about to read the new maximum   time    ... and idle time      *)
(* leave    out of the loop                                                *)
(***************************************************************************)
Stage == {"none", "work", "idle", "serial", "inc", "check", "pop", "asleep", "woken",
       "expired", "marker", "relay", "kill", "limits", "time", "leave"}

\* The local variables: the limits, the last serial, whether the marker has
\* been relayed, and the pool to return.
Local == [max : Limits \cup {0}, idle : {0, 1}, serial : Nat, relayed : BOOLEAN,
          pool : Pools \cup {Null}]

NoLocal == [max |-> 0, idle |-> 0, serial |-> 0, relayed |-> FALSE, pool |-> Null]

UnusedAsleep == {t \in Workers : stage[t] = "asleep"}
UnusedInPop == {t \in Workers : stage[t] \in {"asleep", "woken", "expired"}}
Unused == {t \in Workers : stage[t] \notin {"none", "work", "idle", "serial", "inc"}}

\* The limits are as set at some time; the threads were created for pools.
UnusedInit ==
  /\ unused_thread_queue = <<>>
  /\ unused_threads = 0 /\ kill_unused_threads = 0
  /\ max_unused_threads \in Limits
  /\ wakeup_thread_serial = 0
  /\ max_idle_time \in {0, 1}
  /\ stage = [t \in Workers |-> "work"]
  /\ local = [t \in Workers |-> NoLocal]
  /\ setter = [at |-> "idle", n |-> 0, then |-> {}]
  /\ starts = 0 /\ changes = 0

Goto(t, label) == stage' = [stage EXCEPT ![t] = label]

\* The signals of "many" pushes in one critical section, each of which wakes a
\* thread that sleeps.
Signal(many) ==
  \E W \in SUBSET UnusedAsleep :
    /\ Cardinality(W) = Min({many, Cardinality(UnusedAsleep)})
    /\ stage' = [t \in Workers |-> IF t \in W THEN "woken" ELSE stage[t]]

-----------------------------------------------------------------------------
\* xthread_pool_start_thread for pool p: hands the pool to an unused thread, if
\* more threads wait than there is in the queue, or creates a thread.
xthread_pool_start_thread(p) ==
  /\ starts < MaxStarts
  /\ IF Len(unused_thread_queue) - Cardinality(UnusedInPop) < 0
     THEN /\ unused_thread_queue' = g_queue_push_head(unused_thread_queue, p)
          /\ Signal(1)
     ELSE /\ \E t \in Workers : stage[t] = "none" /\ Goto(t, "work")
          /\ UNCHANGED unused_thread_queue
  /\ starts' = starts + 1
  /\ UNCHANGED <<atomics, local, setter, changes>>

-----------------------------------------------------------------------------
(***************************************************************************)
(* xthread_pool_wait_for_new_pool.                                         *)
(***************************************************************************)
\* A thread leaves its pool and reads the limits, one after the other.
ReadMax(t) ==
  /\ stage[t] = "work"
  /\ local' = [local EXCEPT ![t].max = max_unused_threads]
  /\ Goto(t, "idle")
  /\ UNCHANGED <<unused_thread_queue, atomics, setter, starts, changes>>

ReadIdleTime(t) ==
  /\ stage[t] = "idle"
  /\ local' = [local EXCEPT ![t].idle = max_idle_time]
  /\ Goto(t, "serial")
  /\ UNCHANGED <<unused_thread_queue, atomics, setter, starts, changes>>

ReadSerial(t) ==
  /\ stage[t] = "serial"
  /\ local' = [local EXCEPT ![t].serial = wakeup_thread_serial]
  /\ Goto(t, "inc")
  /\ UNCHANGED <<unused_thread_queue, atomics, setter, starts, changes>>

IncUnused(t) ==
  /\ stage[t] = "inc"
  /\ unused_threads' = unused_threads + 1
  /\ Goto(t, "check")
  /\ UNCHANGED <<unused_thread_queue, max_unused_threads, kill_unused_threads,
                 wakeup_thread_serial, max_idle_time, local, setter, starts, changes>>

\* A limit of -1 is a large unsigned number: no thread is superfluous then.
CheckSuperfluous(t) ==
  /\ stage[t] = "check"
  /\ Goto(t, IF local[t].max # -1 /\ unused_threads >= local[t].max
             THEN "leave" ELSE "pop")
  /\ UNCHANGED <<unused_thread_queue, atomics, local, setter, starts, changes>>

\* What the thread does with the tail of the queue.
Receive(t) ==
  LET got == Last(unused_thread_queue)
  IN  /\ unused_thread_queue' = g_queue_pop_tail(unused_thread_queue)
      /\ IF got = Marker
         THEN Goto(t, "marker") /\ UNCHANGED local
         ELSE Goto(t, "leave") /\ local' = [local EXCEPT ![t].pool = got]

Pop(t) ==
  /\ stage[t] = "pop"
  /\ IF unused_thread_queue # <<>> THEN Receive(t)
     ELSE Goto(t, "asleep") /\ UNCHANGED <<unused_thread_queue, local>>
  /\ UNCHANGED <<atomics, setter, starts, changes>>

\* The wait in the pop is over; see WaitReturns of GAsyncQueue.
UnusedPopReturns(t) ==
  /\ stage[t] \in {"woken", "expired"}
  /\ IF unused_thread_queue # <<>> THEN Receive(t)
     ELSE /\ Goto(t, IF stage[t] = "woken" THEN "asleep" ELSE "leave")
          /\ UNCHANGED <<unused_thread_queue, local>>
  /\ UNCHANGED <<atomics, setter, starts, changes>>

\* The thread has been idle for too long.
UnusedExpire(t) ==
  /\ stage[t] \in {"asleep", "woken"}
  /\ local[t].idle > 0
  /\ Goto(t, "expired")
  /\ UNCHANGED <<unused_thread_queue, atomics, local, setter, starts, changes>>

UnusedSpurious(t) ==
  /\ stage[t] = "asleep"
  /\ Goto(t, "woken")
  /\ UNCHANGED <<unused_thread_queue, atomics, local, setter, starts, changes>>

\* The marker is compared with the serial.  One that the thread knows is
\* relayed the first time and dropped the second time.
CompareSerial(t) ==
  /\ stage[t] = "marker"
  /\ IF local[t].serial # wakeup_thread_serial
     THEN /\ local' = [local EXCEPT ![t].serial = wakeup_thread_serial]
          /\ Goto(t, "kill")
     ELSE /\ Goto(t, IF local[t].relayed THEN "check" ELSE "relay")
          /\ UNCHANGED local
  /\ UNCHANGED <<unused_thread_queue, atomics, setter, starts, changes>>

\* The relayed marker wakes nobody up.
Bug_RelayWithoutSignal(t) ==
  /\ stage[t] = "relay"
  /\ unused_thread_queue' = g_queue_push_head(unused_thread_queue, Marker)
  /\ Goto(t, "check")
  /\ local' = [local EXCEPT ![t].relayed = TRUE]
  /\ UNCHANGED <<atomics, setter, starts, changes>>

RelayMarker(t) ==
  /\ stage[t] = "relay"
  /\ unused_thread_queue' = g_queue_push_head(unused_thread_queue, Marker)
  /\ IF UnusedAsleep = {} THEN Goto(t, "check")
     ELSE \E u \in UnusedAsleep : stage' = [stage EXCEPT ![t] = "check", ![u] = "woken"]
  /\ local' = [local EXCEPT ![t].relayed = TRUE]
  /\ UNCHANGED <<atomics, setter, starts, changes>>

\* g_atomic_int_add (&kill_unused_threads, -1): the thread stops if there are
\* threads to kill, else it takes the new limits over.
KillOrStay(t) ==
  /\ stage[t] = "kill"
  /\ kill_unused_threads' = kill_unused_threads - 1
  /\ Goto(t, IF kill_unused_threads > 0 THEN "leave" ELSE "limits")
  /\ UNCHANGED <<unused_thread_queue, unused_threads, max_unused_threads,
                 wakeup_thread_serial, max_idle_time, local, setter, starts, changes>>

RereadMax(t) ==
  /\ stage[t] = "limits"
  /\ local' = [local EXCEPT ![t].max = max_unused_threads]
  /\ Goto(t, "time")
  /\ UNCHANGED <<unused_thread_queue, atomics, setter, starts, changes>>

RereadIdleTime(t) ==
  /\ stage[t] = "time"
  /\ local' = [local EXCEPT ![t].idle = max_idle_time, ![t].relayed = FALSE]
  /\ Goto(t, "check")
  /\ UNCHANGED <<unused_thread_queue, atomics, setter, starts, changes>>

\* A thread that stops is not subtracted.
Bug_StoppedStaysCounted(t) ==
  /\ stage[t] = "leave"
  /\ unused_threads' = IF local[t].pool = Null THEN unused_threads ELSE unused_threads - 1
  /\ Goto(t, IF local[t].pool = Null THEN "none" ELSE "work")
  /\ local' = [local EXCEPT ![t] = NoLocal]
  /\ UNCHANGED <<unused_thread_queue, max_unused_threads, kill_unused_threads,
                 wakeup_thread_serial, max_idle_time, setter, starts, changes>>

\* The thread stops, or works for the pool it was handed.
Leave(t) ==
  /\ stage[t] = "leave"
  /\ unused_threads' = unused_threads - 1
  /\ Goto(t, IF local[t].pool = Null THEN "none" ELSE "work")
  /\ local' = [local EXCEPT ![t] = NoLocal]
  /\ UNCHANGED <<unused_thread_queue, max_unused_threads, kill_unused_threads,
                 wakeup_thread_serial, max_idle_time, setter, starts, changes>>

-----------------------------------------------------------------------------
(***************************************************************************)
(* The functions that change the limits, one call at a time.  setter.at is *)
(* the next access of the call, setter.n the number of threads to wake up, *)
(* and setter.then the limit xthread_pool_stop_unused_threads sets again.  *)
(***************************************************************************)
xthread_pool_set_max_unused_threads(max) ==
  /\ setter.at = "idle"
  /\ changes < MaxChanges
  /\ changes' = changes + 1
  /\ max_unused_threads' = max
  /\ setter' = IF max = -1 THEN setter ELSE [setter EXCEPT !.at = "excess"]
  /\ UNCHANGED <<unused_thread_queue, unused_threads, kill_unused_threads,
                 wakeup_thread_serial, max_idle_time, stage, local, starts>>

xthread_pool_stop_unused_threads ==
  /\ setter.at = "idle"
  /\ changes < MaxChanges
  /\ changes' = changes + 1
  /\ setter' = [at |-> "zero", n |-> 0, then |-> {max_unused_threads}]
  /\ UNCHANGED <<unused_thread_queue, atomics, stage, local, starts>>

xthread_pool_set_max_idle_time(interval) ==
  /\ setter.at = "idle"
  /\ changes < MaxChanges
  /\ changes' = changes + 1
  /\ max_idle_time' = interval
  /\ setter' = [setter EXCEPT !.at = "count"]
  /\ UNCHANGED <<unused_thread_queue, unused_threads, max_unused_threads,
                 kill_unused_threads, wakeup_thread_serial, stage, local, starts>>

\* A call is over, or the first of the two calls of _stop_unused_threads.
SetterDone == [at |-> IF setter.then = {} THEN "idle" ELSE "again",
               n |-> 0, then |-> setter.then]

\* The first call.
SetZero ==
  /\ setter.at = "zero"
  /\ max_unused_threads' = 0
  /\ setter' = [setter EXCEPT !.at = "excess"]
  /\ UNCHANGED <<unused_thread_queue, unused_threads, kill_unused_threads,
                 wakeup_thread_serial, max_idle_time, stage, local, starts, changes>>

\* The second call, with the limit that was read before.
SetOldLimit ==
  /\ setter.at = "again"
  /\ \E old \in setter.then :
       /\ max_unused_threads' = old
       /\ setter' = [at |-> IF old = -1 THEN "idle" ELSE "excess",
                     n |-> 0, then |-> {}]
  /\ UNCHANGED <<unused_thread_queue, unused_threads, kill_unused_threads,
                 wakeup_thread_serial, max_idle_time, stage, local, starts, changes>>

\* unused_threads is read: how many threads are there too many, or at all?
ReadUnused ==
  /\ \/ /\ setter.at = "excess"
        /\ LET excess == unused_threads - max_unused_threads
           IN  setter' = IF excess > 0 THEN [setter EXCEPT !.at = "kill", !.n = excess]
                         ELSE SetterDone
     \/ /\ setter.at = "count"
        /\ setter' = IF unused_threads > 0
                     THEN [setter EXCEPT !.at = "serial", !.n = unused_threads]
                     ELSE SetterDone
  /\ UNCHANGED <<unused_thread_queue, atomics, stage, local, starts, changes>>

SetKill ==
  /\ setter.at = "kill"
  /\ kill_unused_threads' = setter.n
  /\ setter' = [setter EXCEPT !.at = "serial"]
  /\ UNCHANGED <<unused_thread_queue, unused_threads, max_unused_threads,
                 wakeup_thread_serial, max_idle_time, stage, local, starts, changes>>

IncSerial ==
  /\ setter.at = "serial"
  /\ wakeup_thread_serial' = wakeup_thread_serial + 1
  /\ setter' = [setter EXCEPT !.at = "push"]
  /\ UNCHANGED <<unused_thread_queue, unused_threads, max_unused_threads,
                 kill_unused_threads, max_idle_time, stage, local, starts, changes>>

\* The markers jump the queue.
Bug_MarkersInFront ==
  /\ setter.at = "push"
  /\ unused_thread_queue' = unused_thread_queue \o [i \in 1 .. setter.n |-> Marker]
  /\ Signal(setter.n)
  /\ setter' = SetterDone
  /\ UNCHANGED <<atomics, local, starts, changes>>

PushMarkers ==
  /\ setter.at = "push"
  /\ unused_thread_queue' = [i \in 1 .. setter.n |-> Marker] \o unused_thread_queue
  /\ Signal(setter.n)
  /\ setter' = SetterDone
  /\ UNCHANGED <<atomics, local, starts, changes>>

-----------------------------------------------------------------------------
\* The steps of a thread inside xthread_pool_wait_for_new_pool.
UnusedStep(t) ==
  \/ ReadIdleTime(t) \/ ReadSerial(t) \/ IncUnused(t) \/ CheckSuperfluous(t)
  \/ Pop(t) \/ UnusedPopReturns(t) \/ CompareSerial(t) \/ RelayMarker(t)
  \/ KillOrStay(t) \/ RereadMax(t) \/ RereadIdleTime(t) \/ Leave(t)

SetterStep == SetZero \/ SetOldLimit \/ ReadUnused \/ SetKill \/ IncSerial \/ PushMarkers

UnusedNext ==
  \/ \E p \in Pools : xthread_pool_start_thread(p)
  \/ \E t \in Workers :
       ReadMax(t) \/ UnusedExpire(t) \/ UnusedSpurious(t) \/ UnusedStep(t)
  \/ \E max \in Limits : xthread_pool_set_max_unused_threads(max)
  \/ xthread_pool_stop_unused_threads
  \/ \E interval \in {0, 1} : xthread_pool_set_max_idle_time(interval)
  \/ SetterStep

UnusedSpec == UnusedInit /\ [][UnusedNext]_unusedvars

-----------------------------------------------------------------------------
UnusedTypeOK ==
  /\ unused_thread_queue \in Seq(Pools \cup {Marker})
  /\ unused_threads \in Nat /\ kill_unused_threads \in Int
  /\ max_unused_threads \in Limits \cup {0}
  /\ wakeup_thread_serial \in Nat
  /\ max_idle_time \in {0, 1}
  /\ stage \in [Workers -> Stage]
  /\ local \in [Workers -> Local]

\* unused_threads counts the threads in xthread_pool_wait_for_new_pool,
\* whichever way they leave it.
UnusedExact == UnusedTypeOK /\ unused_threads = Cardinality(Unused)

\* A pool in the queue has a thread: as many threads as there are entries up to
\* and including the pool are inside a pop, and none of them leaves empty
\* handed.  Markers, relayed markers and timeouts cannot take them away.  (The
\* pool has counted the thread already, and would wait for it for ever.)
PoolsHaveThreads ==
  \A i \in 1 .. Len(unused_thread_queue) :
    unused_thread_queue[i] # Marker
      => Len(unused_thread_queue) - i + 1 <= Cardinality(UnusedInPop)

\* No wakeup is lost in this queue: while a thread sleeps, every entry has a
\* thread that is awake and takes it.
EntriesAreTaken ==
  UnusedAsleep # {} => Len(unused_thread_queue) <= Cardinality(UnusedInPop \ UnusedAsleep)

\* The maximal number of unused threads is kept once all threads have come to
\* rest and nobody changes a limit (xthread_pool_set_max_unused_threads "Sets
\* the maximal number of unused threads to @max_threads", gthreadpool.c:1003).
\* The code does not keep it: a thread reads the limit before it is counted.
MaxUnusedRespected ==
  /\ setter.at = "idle" /\ unused_thread_queue = <<>>
  /\ \A t \in Workers : stage[t] \in {"none", "work", "asleep"}
  => max_unused_threads = -1 \/ Cardinality(UnusedAsleep) <= max_unused_threads
=============================================================================
