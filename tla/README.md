# Verification of the concurrent core of xpl

xpl is a fork of GLib with renamed types (`xobject_t`, `xthread_pool_push`, ...):
a portability and utility library (`glib/`), an object system (`gobject/`), a
loader for modules (`gmodule/`) and an I/O library (`gio/`). Most of it is
sequential code with good unit tests. What tests hardly reach is the part on
which all the rest runs: locks, condition variables, queues between threads,
thread pools, cancellation, main contexts, tasks, and the D-Bus connection that
uses all of them. This directory models that part in TLA+, checks it with TLC on
small instances and proves its invariants with TLAPS for all instances.

## Inventory

| Component | State | Operations | Hard behaviour | Correct when |
|---|---|---|---|---|
| Mutex and condition variable, futex variant (`glib/gthread-posix.c`) | the mutex word (0 free, 1 held, more: contended), the generation word | lock, trylock, unlock, wait, timed wait, signal, broadcast | every atomic access and system call interleaves; sleeps end by themselves | one holder; no sleeper forgotten; a signal unblocks a waiter |
| `GQueue` (`glib/gqueue.c`) | a list | push, pop, sorted insert, sort, remove | ties between equal elements | order kept |
| `GList`, the sort (`glib/glist.c`) | the nodes, their `next` and `prev` pointers | the merge sort that `g_queue_sort` calls | ties meet at every level of the merge; `prev` pointers are stale on the way | stable order; the list can be walked backwards |
| `GAsyncQueue` (`glib/gasyncqueue.c`) | list, `waitinxthreads`, mutex, condition, reference count | push (front, sorted), pop (timed, try), sort, remove, length, ref, unref; each locked and `_unlocked` | a timeout races a push; the counter decides whether a push signals; last unref | no item beside a sleeper; FIFO among equals; freed when unused |
| One `GThreadPool` (`glib/gthreadpool.c`) | task queue, `num_threads`, `max_threads`, `running`, `immediate`, `waiting`, sort function | new, push, set limits, sort, move to front, free (immediate or not, waiting or not), the thread proxy | last thread, caller and waiting caller compete for the free; creation of threads fails; threads sleep in the queue of a stopped pool | freed once and in the end; all tasks processed |
| Unused threads (`glib/gthreadpool.c`) | `unused_thread_queue` and five atomic variables | wait for a new pool, start a thread, change the limits, stop the unused threads | no lock covers the variables; pools and wakeup markers share a queue; threads time out | a pool that was promised a thread gets it |
| `GCancellable` and its source (`gio/gcancellable.c`) | `cancelled`, `cancelled_running`, `cancelled_running_waiting`, descriptor count and wakeup; per source a reference count and a handler | cancel, reset, connect, disconnect, descriptors, source new, dispatch, dispose | signal emission without the lock against connect, disconnect, reset and the disposal of a source | one emission; callbacks neither missed, repeated nor late; no dangling source |
| Main context, loop, source (`glib/gmain.c`), `GWakeup` | owner and its count, waiters, source lists, poll records, pending dispatches, wakeup; per source flags, ready time, references | acquire, release, wait, prepare, query, poll, check, dispatch, attach, destroy, unref, set ready time, loop run and quit, pending, wakeup | the mutex is released around prepare, check, callbacks and destruction; callbacks iterate again; other threads attach, destroy and quit | one owner; no wakeup slept through; sources referenced and polled exactly as long as they live |
| `GTask` (`gio/gtask.c`) | result, flags, references, the handler at the cancellable; the pool, its limit and its manager | new, return, run in thread (also waiting), return on cancel, complete in idle, cancel; pool set-up, clean-up and timer | worker, canceller and starter race to complete; tasks wait for tasks in the same pool | completed once, freed at the end, returns on cancel, always gets a thread |
| Method calls (`gio/gdbusconnection.c`) | `map_method_serial_to_task`, `last_serial`, closed; per call delivered, timeout, handler, task | send, reply, timeout, cancel, connection closed | the reply may precede the insertion; four threads end one call; a wait for an emission with the lock held | one outcome and one callback per call; map exact; no leak, no deadlock |
| D-Bus worker (`gio/gdbusprivate.c`) | write queue, `output_pending`, counters, pending flushes and closes, asynchronous operations | send, flush, close, stop; callbacks of read, write, flush, close | each callback decides what comes next while other threads queue work; failures and dropped messages | no work forgotten; a flush covers what was sent before; flush and close return |
| Bit locks (`glib/gbitlock.c`), one-time initialisation (`glib/gthread.c`) | one word; a list of pending initialisations | lock, unlock; enter, leave | hashed contention; waiters of several locks on one condition | planned |
| Objects, closures, signals (`gobject/`) | reference counts, weak and toggle references, handler lists | ref, unref, emit, connect, disconnect | resurrection, emission against disconnection | the emission as far as `GCancellable` needs it; the rest planned |

They build on each other: the asynchronous queue uses the mutex and the
condition variable, the thread pool uses two asynchronous queues (tasks of a
pool; pools for the unused threads), `GTask` uses the pool, the cancellable and
the main context, a D-Bus call is a `GTask` with a cancellable, a timeout source
and a worker thread that runs a main loop.

## Modules

| Module | Models | How state and actions correspond to the code |
|---|---|---|
| `GMutex` | futex mutex and condition variable | one action per atomic access or system call; `pc` says where in `g_mutex_lock`, its slow path, `g_cond_wait`, ... a thread is; the kernel's wait queues are the threads whose `pc` says "asleep" |
| `Monitor` | what mutex and condition variable promise | abstract: a lock, a set of waiting threads, signals that unblock; no words, generations or system calls |
| `GQueue` | list operations | pure operators on sequences, head first; the sort is given by the place of each element |
| `GList` | the merge sort behind `g_queue_sort` | a call of `xlist_sort_real` is a frame; one action per step of the search for the middle, per recursive call and per node merged. The `next` pointers are sequences of nodes, the `prev` pointers a variable of their own |
| `GAsyncQueue` | the asynchronous queue | one action per function (locked and `_unlocked` variant together, told apart by who owns the mutex); a wait is asleep → woken or expired → mutex again |
| `GThreadPool` | one pool, its threads and its owner | one action per critical section of the queue's mutex: from the lock to the unlock, the call of `func` or the wait |
| `GThreadPoolUnused` | the threads between two pools; `stage` is where each of them is | one action per atomic access, and per critical section of the global queue; the setters are as fine-grained as the threads |
| `GCancellable` | one cancellable and its sources | one action per critical section of `cancellable_mutex`, per look at a handler by the emission, per step of `xsource_unref` |
| `GMainContext` | one context, its sources, its loops | `mutex` is a variable; a function that releases it in the middle (prepare, check, callbacks, `xsource_destroy`) is several actions. Each iteration is a frame on its thread's stack, so a callback can iterate again. The source lists are an order: by `Priority`, then by `place`, the number of sources of that priority attached before; a source whose count is 0 is no longer in them (`Listed`) |
| `GTask` | tasks, their threads and the pool they share | per task the starter (`run`), the worker and the canceller (`at`); one action per section of `task->lock`, `task_pool_mutex` or the signal's lock. The pool is the sorted queue with a limit that `GThreadPool` is checked to be |
| `GDBusCalls` | calls that wait for a reply | one action per step between which another thread can run; `lock` is `connection->lock` and stays held across a wait in `xcancellable_disconnect` |
| `GDBusWorker` | the worker of one connection | calls of other threads are one section of `write_lock` each; the worker's callbacks are split where they hold no lock; the asynchronous read, write, flush and close end at any time, with success or failure |
| `MC…` | instances for TLC | values of the constants, symmetry |
| `GQueueProofs` | proofs | lemmas about the list operations, used by the next ones |
| `GMutexProofs`, `GAsyncQueueProofs`, `GThreadPoolProofs`, `GCancellableProofs`, `GMainContextProofs`, `GTaskProofs`, `GDBusProofs` | proofs | of the module they are named after (`GAsyncQueueProofs` also of `GList`, `GThreadPoolProofs` of `GThreadPoolUnused`, `GDBusProofs` of `GDBusCalls` and `GDBusWorker`): inductive invariants, one lemma per action, theorems |

What one layer shows, the next assumes. `GMutex` implements `Monitor`
(`ImplementsMonitor`, with the refinement mapping in `GMutex`: the holder is the
thread past its acquisition, the waiting threads are those that have given the
mutex up and whose sample of the generation is still current). `GAsyncQueue` and
everything above it are written against `Monitor`: a critical section is one
step, a signal wakes a waiting thread if there is one, and a wait may always end
early. The one wait without a spurious wakeup is that for `task->cond` in `GTask`:
the code tests `thread_complete` again in a loop, so that a wakeup more changes
nothing. `GAsyncQueue` and `GThreadPool` sort with `g_queue_sort`, which `GList`
is shown to compute. `GThreadPool` uses the queue operators of `GQueue` and the waits of
`GAsyncQueue`, and `GThreadPoolUnused` likewise. `GTask` uses a pool as checked in
`GThreadPool` and an emission as checked in `GCancellable` (a handler that runs
is not freed under the emission; a disconnect by `xsignal_handlers_disconnect`
does not wait for it). `GDBusCalls` uses `xcancellable_disconnect` as checked
there (it waits for the emission).

Definitions named `Bug_…` are faulty variants of the definition that follows
them, used to see that a property notices the fault; no specification refers to
them. Variables marked "history" record what a property needs and do not
influence a step.

Abstractions worth knowing:

- Times are not numbers but where `gmain.c` compares them. A deadline passes at
  any moment (`Expire`), which covers every race of a timeout with a push or a
  reply. In `GMainContext` the clock is an integer that any step may advance, and
  a context caches it as the code does (`time_is_fresh`).
- Items, tasks, messages, pools and handlers are model values; sorting keys are
  small integers. Contents of messages are left out.
- The generation word wraps at `GenSize` and the serial of a call at `Modulus`.
  The bounds exclude a full turn within one wait or one call: 2^32 signals during
  one wait lose a wakeup, and 2^32 calls meet old serials (a TODO at
  `gdbusconnection.c:1654`).
- Creating a thread succeeds or fails in one step; the helper thread that
  creates threads on platforms without scheduler settings is inside that step.
- An emission visits handlers in any order; the code uses the order of
  connection. Callbacks return and do not call `xcancellable_disconnect` or
  `xcancellable_reset` themselves, which the documentation forbids (deadlock).
- The program keeps a reference to the cancellable and one reference to each
  source, and calls `_unlocked` functions with the lock held.
- In `GMainContext` priorities are fixed, a source has at most one descriptor, and
  child sources, names and `xmain_context_push_thread_default` are left out.
  The prepare and check functions of sources do not run loops, so that
  `in_check_or_prepare` is 0 when a loop starts.
- In `GThreadPoolUnused` the functions that change the limits run one call at a
  time; each of their accesses interleaves with the threads.
- In `GDBusCalls` the connection assigns the serials. A call may also bring its own
  (`G_DBUS_SEND_MESSAGE_FLAGS_PRESERVE_SERIAL`, `gdbusconnection.c:1651`, accepted
  with a reply at line 2030); nothing keeps such a serial apart from the assigned
  ones, and the properties of the map are not claimed for it.
- In `GDBusWorker` received messages matter only as far as the read is pending,
  fails (the peer vanished, or the data is no message) or is cancelled. A write
  ends with success or failure; that it may write a part, wait for room or be
  refused because of file descriptors is inside that step.

## Runs

Bounds: three threads wherever the state space allows, since two suffice for a
waiter and a waker and the third is the one that steals, times out or interferes;
two or three items so that a queue has an inside and ties occur; two
cancellations so that a reset lies between.

| Run | Checks | Instance |
|---|---|---|
| `gmutex` | exclusion, no forgotten sleeper; the slow path makes progress; refinement of `Monitor` | 3 threads, 2 signals or broadcasts |
| `glist` | the merge sort returns the stable order, and a list that can be walked backwards | every list of at most 5 elements with 3 values, of which two compare equal |
| `gasyncqueue` | lost wakeups and the waiting counter, order of the pops, quiet when freed; items are taken while threads wait | 3 threads, 2 items, 3 pushes, 3 references |
| `gthreadpool` | thread count, freed once, all tasks processed, queued tasks served; freed in the end unless the creation of a thread failed | exclusive and shared pools, 3 threads, 3 tasks, limits -1, 0, 1 and 3, creation may fail |
| `unused` | counter of unused threads, pools have threads, entries are taken | 3 threads (symmetric), 1 pool, 2 requests, 1 change of the limits |
| `gcancellable` | one canceller, disconnect is final, called once, descriptor follows, no source misses a cancellation or dangles; disconnect and reset return | 3 threads, 1 callback, 1 source, 2 cancellations, 1 descriptor |
| `gmain` | one owner, no poll sleeps through anything, references and poll records exact, no source re-entered, a quit wakes the waiters | 2 threads, of which one iterates to depth 2 and the other runs a loop; an idle source and one with a descriptor and a ready time, at two priorities |
| `gmain_waiters` | *violated*: a waiter taken off the list gets the context | 3 threads, no sources |
| `gtask` | completed once and with a result, references exact; returns on cancel | a task and its subtask (run in a thread, synchronous or plain, cancelled at any moment), pool of 1 |
| `gtask_stuck` | *violated*: every started task completes | a task with two subtasks it waits for, pool of 1 |
| `gdbus_calls` | references and map exact, one outcome; every call returns | 2 calls with one cancellable, one with a timeout; 2 replies, 2 reports of the end, serials modulo 4 |
| `gdbus_worker` | no work forgotten, a flush covers what was sent; flush and close return | 2 messages (one may be dropped by a filter), a flushing, a closing and a stopping thread, 1 fault, socket and plain stream |

One instance of `gtask` covers nested waiting because the pool of one thread is
full with the parent alone, so the subtask needs an overflow thread. Depth 2 in
`gmain` suffices for re-entrance, which is about one frame inside another. Two
calls are what it takes for the map to hold one call while another ends. Lists of
five elements are split unevenly at two levels and leave a rest on either side of
a merge.

Deadlock checking is off where the program may simply be done: references
dropped, pool freed, bounds used up. A thread that hangs in a call there is the
subject of the liveness properties and of invariants such as `NoLostWakeup` and
`PollSeesAll`.

Fairness: a thread inside a call is scheduled again (weak fairness of its next
step), a holder of a mutex releases it, user functions return, and where the code
relies on a timeout it passes. No sleep is assumed to end by itself unless it has
a deadline, nobody is assumed to call a function, and no order of wakeups is
assumed. The mutex is not fair, so `LockProgress` says that some thread gets it;
`ItemsAreTaken` assumes that clients do not lock the queue infinitely often. A
`task_func` is not assumed to return (`CancelReturns`), except in
`StartedCompletes`, where one that waits for no task does. In `GDBusWorker` an
asynchronous write, flush or close ends, and a read ends once it is cancelled
(strong fairness: their callbacks wait for a moment at which the worker's loop is
free); a peer is never assumed to send anything. `gmain` has only safety
properties; that nobody sleeps through a wakeup is an invariant there.

## Where the code and its documentation differ

With a run of their own; `PROJECT.json` quotes the lines:

1. A release of a main context can signal the wrong waiter and leave the one it
   took off the list asleep (`gmain.c:3541`, run `gmain_waiters`).
2. Tasks that wait for subtasks can stay without a thread for ever, since the
   clean-up of an overflow thread lowers the limit and nothing arms the manager
   again (`gtask.c:1416`, run `gtask_stuck`).

Confirmed with the modules by a property that is defined in them, or by widening
a bound, and without a run of their own:

| What | Where | How TLC shows it |
|---|---|---|
| A timed pop aborts instead of returning NULL when the end time lies before the origin of the monotonic clock | `gasyncqueue.c:431` | `TimedPopReturns` of `GAsyncQueue`, with an end time of 0 or less other than -1 |
| All dummies of a free but one are passed to `item_free_func` | `gthreadpool.c:970` | `DummyNeverHanded` of `GThreadPool`, constants of `gthreadpool` |
| A task taken right after an immediate free is neither executed nor passed to `item_free_func`, as `gthreadpool.c:578` promises | `gthreadpool.c:346` | `UnexecutedAreHanded`, the same |
| A pool that holds tasks and no thread after a failed creation is never freed by a waiting free | `gthreadpool.c:934` | `EventuallyFreed` without its exemption `failed` |
| A thread that becomes unused while the maximum is lowered can stay, since it reads the limit before it is counted (`gthreadpool.c:1003` says that the function sets the maximum) | `gthreadpool.c:164` | `MaxUnusedRespected` of `GThreadPoolUnused`, constants of `unused` |
| A source dropped during an emission, after its handler ran or before the emission came to it, is never freed (`gio/tests/cancellable.c` skips the test under the address sanitizer because it "Leaks lots of GCancellableSource objects") | `gcancellable.c:730` | `ResurrectionEnds` of `GCancellable` |
| `xmain_context_pending` called in a callback queues dispatches that are dropped with their references | `gmain.c:4241` | `RefsExact` of `GMainContext` with `MayPend = 1` |
| The limit of the task pool falls below its base size | `gtask.c:1416` | `BaseSizeKept` of `GTask`, pool of 2, three independent asynchronous tasks |
| A cancellation between the test of the cancellable and the connection of the handler is not seen until `task_func` returns, also with return-on-cancel | `gtask.c:1517` | `CancelReturns` with `cancelled` of the started task in place of `thread_cancelled` |
| A write cancelled by the connection's own close is reported as a vanished peer, which ends a process with exit-on-close; `gdbusconnection.c:1437` says that a close never does | `gdbusprivate.c:1342` | `LocalCloseIsQuiet` of `GDBusWorker`, constants of `gdbus_worker` |
| A flush behind a message that was dropped or failed waits until the connection is closed | `gdbusprivate.c:1507` | `FlushReturns` without its exemption `Lost # {}` |

Other dangers the modules leave out: the product `local_max_idle_time * 1000`
overflows for idle times over 35 minutes (`gthreadpool.c:184`);
`xsource_set_priority` may free the list an iterator stands at while the mutex is
released (`gmain.c:1873`); a loop run from a prepare or check function returns
with the context owned and its mutex locked (`gmain.c:4401`); flags of a task are bit-fields of one word written by
two threads (`gtask.c:579`).

## Proofs

The theorems hold for every value of the constants that satisfies the named
assumption of the module (finite sets of threads, tasks, messages, ...; special
values that are not among them). Each proof has the same shape: an inductive
invariant, checked by TLC before it was proved; a lemma per action that the
action preserves it, with a step per part; and theorems that read the properties
off it. Two assumptions are worth knowing: fewer signals than values of the
generation word (`GMutexAssumption`) and fewer calls than serials
(`GDBusCallsAssumption`); the code has the same limits, at 2^32. One theorem has a
hypothesis of its own, `MayPend = 0` for the references of `GMainContext`: no
callback calls `xmain_context_pending`. With such a call the property is false
(see the table above), and the invariant has the inequality that remains: no
reference is missing.

Every invariant that a run checks is the statement of a theorem.

- `GMutexProofs`: types, mutual exclusion, that an unlock by the holder never
  aborts, that no sleeper is forgotten, and the refinement of `Monitor`. Mutual
  exclusion alone is not inductive: a thread that exchanges the word in the slow
  path and finds 0 must know that nobody holds the mutex, which is
  `HeldWordNonzero`, and a wait or a signal must know where it returns to
  (`ReturnOK`). The refinement adds `MonitorInv`: a sampled generation is not
  younger than the generation word, the threads a signal owes a wakeup are asleep
  on that word, and while a thread signals with the mutex held nobody else begins
  to wait, so that the system call cannot pick a latecomer. The increment of the
  generation is then the abstract signal, and the system call that follows
  unblocks threads the monitor already regards as released.
- `GQueueProofs`: lemmas for the modules above it, on where `g_queue_push_head`,
  `push_tail`, `insert_sorted`, `remove` and `pop_tail` put or take an element, and
  that the places by which `g_queue_sort` is defined are a permutation.
- `GAsyncQueueProofs`: `NoLostWakeup`, `PopOrder` and `FreedQuiescent`. The
  references are counted as a set of pairs (thread, n), so that "a thread inside
  a call holds a reference" gives that nobody is inside when the count is 0. The
  waiting threads are counted exactly, and a sleeper leaves no item without a
  woken thread. `PopOrder` is inductive once every rank lies between the smallest
  and the largest given.
  For the merge sort of `GList`, `SortsStably`, for lists of any length and every
  strict weak order (`GListAssumption`). The invariant `ListInv` is a statement
  per call: its list is in the order in which it came until it is cut, what a call
  has returned is a permutation of its half in the order of `LessOrEqual` with
  ties as they came, and what is merged comes before all that is not. That a tie
  goes to the first half is right because all nodes of the first half came before
  those of the second. The `prev` pointers are right inside what is merged and
  behind the head of each half; the head of a half may be stale, and only the call
  that merges it touches it. A lemma then shows that a permutation in that order
  is the list `g_queue_sort` defines.
- `GThreadPoolProofs`: `FreedOnce`, `AllTasksProcessed` and `QueuedTasksServed`. The
  invariant follows the phases of `xthread_pool_free`.
  The argument about tasks is a count: when a thread leaves and finds
  `length == -num_threads`, or `xthread_pool_free` does, the queue is empty and
  every other thread is in the pop, because the threads in the pop are among the
  attached ones (`LeaveStep`, `AfterWaitStep`). A limit of 0 needs a part of its
  own, `LimitOK`: the threads that leave as superfluous leave no task behind,
  since the precondition of `xthread_pool_free` made the tasks no more than the
  threads in the pop.
  For the unused threads, `UnusedExact`, `PoolsHaveThreads` and `EntriesAreTaken`
  of `GThreadPoolUnused`: the three are inductive together. A pool in the queue and the threads in the pop are counted
  against each other from the tail of the queue, so that markers pushed behind a
  pool do not matter and every pop that passes it takes an entry.
- `GCancellableProofs`: `OneCanceller`, `DisconnectIsFinal`, `SleepersKnown`,
  `FdTellsCancelled`, `CalledOnce`, `SourceTold` and `NoDanglingSource`. `Control`
  says at which labels an emitting or sleeping thread can be; `CallbackState`
  carries `DisconnectIsFinal` (a callback run by an emission keeps
  `cancelled_running` set, so no disconnect can end; one run by
  `xcancellable_connect` was never a handler, so no disconnect can name it);
  `CallsOK` says that the one emission visits every handler not yet called.
  `SourcesOK` counts, per source, the threads that hold a reference, the owner and
  the resurrection; a resurrected source is dropped only by the emission that is
  on its way to it.
- `GMainContextProofs`: `SingleOwner`, `PollSeesAll`, `RefsExact`,
  `PollRecordsExact`, `NotReentered` and `QuitWakes`, for any threads, sources,
  priorities, flags and loops and for any depth of nested iterations. They come
  from one invariant, since each needs the others:
  - `OwnerOK` counts the frames that hold the context, so that the owner is alone
    with the source list, the queue and the scan. `SleepOK` is `QuitWakes` for
    every sleeper.
  - `RefsOK` sums the holders of a source: the application, the list, a
    destruction, entries of `pending_dispatches`, frames. To know that a dispatch
    takes each reference once, `EntriesOK` says that exactly the entries up to the
    index of the innermost dispatch are cleared, also under a nested iteration
    that empties and refills the array; `NestedOK` says that such an iteration
    dispatches all it has queued; `DistinctOK` and `QueueOK` that the check queues
    a source once, since what it has queued comes before the place where it
    stands. The last needs that the places order the list (`PlaceOK`).
  - `CallsOK` ties `BLOCKED` to the one callback of a source and keeps a blocked
    source out of the queue; `PollOK` ties the poll record to both. A destruction
    that another thread has begun is counted (`DestroyOK`), because the record and
    the reference go only at its end.
  - `ScanOK` is what the scan knows: a source it has passed without finding it
    ready stays harmless (not ready, its descriptor polled, its time within the
    timeout) until the wakeup is signalled, whoever attaches, destroys, unblocks or
    sets a ready time meanwhile; `RunOK` says the same of a loop that is quit. At
    the poll both give `PollSeesAll`.

  A step moves one thread by one frame, and `Move` describes that with the change
  of every count of frames; the lemmas for kinds of steps (outside the dispatches,
  along the iterator, in the check, in the dispatch) do the parts an action leaves
  alone.
- `GTaskProofs`: `CompletedOnce` and `RefsExact`. The invariant is a statement
  per task and the count `tasks_running`; a step of one task leaves the others
  alone. `DoneOK` is the accounting behind `CompletedOnce`: the callback is owed
  once, by the actor that set `thread_complete`, by the caller that is still
  starting the task, or by an idle source.
- `GDBusProofs`, about `GDBusCalls`: `RefsExact`, `MapExact` and `OneOutcome`. References and
  returns of a call are expressed by the phase it is in; the map follows from
  `MapOK`, which also covers the time when the lock is held, and from serials
  being distinct.
- `GDBusProofs`, about `GDBusWorker`: `NoLostWork` and `FlushCovers`. `PlacesOK` says where a
  message is, `WorkOK` that work which waits has something coming, `WaitOK`
  brackets the number a flush waits for, and `BeforeOK` relates that number to
  the positions in the write queue: the i-th message of the queue will be the
  i-th to be counted.

Only model-checked: all liveness, since fairness and `ENABLED` are outside the
prover, and the two runs that expect a violation.

## Plan

Done: the modules above, in the order in which they build on each other, the
abstract monitor that `GMutex` implements, and a theorem for every invariant that
a run checks.

1. `GMainContext`: changing priorities, child sources, several descriptors.
2. `GDBusCalls`: signal subscriptions and exported objects, and on top of them
   name owning, name watching and proxies.
3. `GBitLock` and `GOnce`: shared conditions and hashed wait classes.
4. Reference counts, weak and toggle references of `GObject`; closures and the
   rest of the signal emission.

## Not modelled

- Containers (but for queues and the sort of lists), text, `GVariant`, markup, key files, regular expressions, dates,
  Unicode and the type system: sequential code over large inputs, in which no
  interleaving or failure has to be enumerated; unit tests and fuzzers serve it
  better. The Unicode tables and `valgrind.h`, the longest files, are data and
  third-party code.
- Files, sockets, streams, processes, volume monitors, resolvers, the Windows,
  kqueue and inotify back ends, pthread-based lock variants: wrappers around the
  operating system, whose behaviour is the system's.
- D-Bus authentication, the message codec, servers and proxies; settings,
  applications, actions and menus: policy on top of the parts modelled here.

These are most of the repository's lines; the modules cover the concurrent core
only, and `PROJECT.json` lists every component with its status.
