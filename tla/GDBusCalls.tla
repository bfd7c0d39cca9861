----------------------------- MODULE GDBusCalls -----------------------------
(***************************************************************************)
(* The method calls of gio/gdbusconnection.c that wait for a reply         *)
(* (xdbus_connection_send_message_with_reply): from the serial a call gets *)
(* to the callback of its task.                                            *)
(*                                                                         *)
(* Four kinds of thread decide how a call ends: the D-Bus worker (a reply  *)
(* or the end of the connection), the thread of the call's main context    *)
(* (the timeout and the idle source of a cancelled call), the caller, and  *)
(* whoever cancels the cancellable.  connection->lock is held from the     *)
(* first to the last step of each section; it stays held while             *)
(* xcancellable_disconnect waits for a running emission, so a section has  *)
(* several steps.                                                          *)
(***************************************************************************)
EXTENDS Integers, FiniteSets

CONSTANTS
  Calls,
  None,
  Timed,           \* the calls with a timeout other than G_MAXINT
  Cancellable,     \* the calls made with the application's cancellable
  Modulus,         \* 2^32, the number of values of last_serial
  MaxReplies,      \* bound: replies the peer sends
  MaxDisconnects   \* bound: times the worker reports the connection closed

ASSUME GDBusCallsAssumption ==
  /\ IsFiniteSet(Calls) /\ None \notin Calls
  /\ Timed \subseteq Calls /\ Cancellable \subseteq Calls
  /\ Modulus \in Nat \ {0}
  /\ Cardinality(Calls) < Modulus   \* last_serial does not come round
  /\ MaxReplies \in Nat /\ MaxDisconnects \in Nat

VARIABLES
  lock,                           \* holder of connection->lock
  last_serial, map, closed,       \* of the connection; map_method_serial_to_task
  emit_closed, closed_emitted,    \* idle sources of "closed", and emissions
  run,                            \* where the caller is
  serial, delivered, timeout_source, handler,   \* SendMessageData
  ref_count, outcome, returns,    \* the task, and calls of xtask_return
  cancel_idle, return_idle,       \* idle sources attached to its main context
  context, source,                \* the thread of the main context, and the
                                  \* source it dispatches
  calls, got,                     \* callbacks made, and what they were given
  worker, worker_call,            \* the worker thread, and its current call
  replies, replied, disconnects,  \* serials of replies on their way, counters
  cancelled, emitting             \* the cancellable: handlers still to call

connvars == <<last_serial, map, closed, emit_closed, closed_emitted>>
callvars == <<run, serial, delivered, timeout_source, handler>>
taskvars == <<ref_count, outcome, returns, return_idle, calls, got>>
contextvars == <<context, source>>
workervars == <<worker, worker_call, replies, replied, disconnects>>
cancelvars == <<cancelled, emitting>>
vars == <<lock, connvars, callvars, taskvars, cancel_idle, contextvars, workervars,
          cancelvars>>

Serials == 0 .. Modulus - 1

Outcomes == {"reply", "closed", "timeout", "cancelled", "encoding"}

\* Holders of the lock: a caller, a main context, or the worker.
Holders == (Calls \X {"caller", "context"}) \cup {<<None, "worker">>, <<None, "none">>}

Free == <<None, "none">>

Worker == <<None, "worker">>

TypeOK ==
  /\ lock \in Holders
  /\ last_serial \in Serials /\ map \in [Serials -> Calls \cup {None}]
  /\ closed \in BOOLEAN /\ emit_closed \in Nat /\ closed_emitted \in Nat
  /\ run \in [Calls -> {"unused", "insert", "done", "failed"}]
  /\ serial \in [Calls -> Serials]
  /\ delivered \in [Calls -> BOOLEAN] /\ timeout_source \in [Calls -> BOOLEAN]
  /\ handler \in [Calls -> BOOLEAN]
  /\ ref_count \in [Calls -> Nat] /\ returns \in [Calls -> Nat]
  /\ cancel_idle \in [Calls -> Nat] /\ return_idle \in [Calls -> Nat]
  /\ calls \in [Calls -> Nat]
  /\ outcome \in [Calls -> Outcomes \cup {"none"}]
  /\ got \in [Calls -> Outcomes \cup {"none"}]
  /\ context \in [Calls -> {"idle", "lock", "disconnect", "return"}]
  /\ source \in [Calls -> {"none", "timeout", "cancelled"}]
  /\ worker \in {"idle", "reply", "closing", "close"}
  /\ worker_call \in Calls \cup {None}
  /\ replies \subseteq Serials /\ replied \in 0 .. MaxReplies
  /\ disconnects \in 0 .. MaxDisconnects
  /\ cancelled \in BOOLEAN /\ emitting \subseteq Calls

Init ==
  /\ lock = Free
  /\ last_serial = 0 /\ map = [s \in Serials |-> None]
  /\ closed = FALSE /\ emit_closed = 0 /\ closed_emitted = 0
  /\ run = [k \in Calls |-> "unused"] /\ serial = [k \in Calls |-> 0]
  /\ delivered = [k \in Calls |-> FALSE]
  /\ timeout_source = [k \in Calls |-> FALSE] /\ handler = [k \in Calls |-> FALSE]
  /\ ref_count = [k \in Calls |-> 0] /\ outcome = [k \in Calls |-> "none"]
  /\ returns = [k \in Calls |-> 0]
  /\ cancel_idle = [k \in Calls |-> 0] /\ return_idle = [k \in Calls |-> 0]
  /\ context = [k \in Calls |-> "idle"] /\ source = [k \in Calls |-> "none"]
  /\ calls = [k \in Calls |-> 0] /\ got = [k \in Calls |-> "none"]
  /\ worker = "idle" /\ worker_call = None
  /\ replies = {} /\ replied = 0 /\ disconnects = 0
  /\ cancelled = FALSE /\ emitting = {}

-----------------------------------------------------------------------------
(***************************************************************************)
(* The task of a call.                                                     *)
(***************************************************************************)

IsCancelled(k) == k \in Cancellable /\ cancelled

\* xtask_propagate_pointer: a cancelled call hides its outcome.
Propagated(k, o) == IF IsCancelled(k) THEN "cancelled" ELSE o

\* xtask_return_* of a thread that is not in the task's main context: the idle
\* source that makes the callback holds two references.
ReturnInIdle(k, o, refs) ==
  /\ outcome' = [outcome EXCEPT ![k] = o]
  /\ returns' = [returns EXCEPT ![k] = @ + 1]
  /\ return_idle' = [return_idle EXCEPT ![k] = @ + 1]
  /\ ref_count' = [ref_count EXCEPT ![k] = @ + 2 + refs]
  /\ UNCHANGED <<calls, got>>

\* In its main context, a task that is not cancelled may return at once.
ReturnNow(k, o, refs) ==
  /\ ~IsCancelled(k)
  /\ outcome' = [outcome EXCEPT ![k] = o]
  /\ returns' = [returns EXCEPT ![k] = @ + 1]
  /\ ref_count' = [ref_count EXCEPT ![k] = @ + refs]
  /\ calls' = [calls EXCEPT ![k] = @ + 1]
  /\ got' = [got EXCEPT ![k] = Propagated(k, o)]
  /\ UNCHANGED return_idle

complete_in_idle_cb(k) ==
  /\ context[k] = "idle" /\ return_idle[k] > 0
  /\ return_idle' = [return_idle EXCEPT ![k] = @ - 1]
  /\ ref_count' = [ref_count EXCEPT ![k] = @ - 2]
  /\ calls' = [calls EXCEPT ![k] = @ + 1]
  /\ got' = [got EXCEPT ![k] = Propagated(k, outcome[k])]
  /\ UNCHANGED <<lock, connvars, callvars, outcome, returns, cancel_idle, contextvars,
                 workervars, cancelvars>>

-----------------------------------------------------------------------------
(***************************************************************************)
(* xdbus_connection_send_message_with_reply.                               *)
(***************************************************************************)

\* Why a call is not sent: the last case is a message that cannot be encoded.
SendError(k) ==
  IF IsCancelled(k) THEN "cancelled" ELSE IF closed THEN "closed" ELSE "encoding"

\* The message gets the next serial and goes to the worker.  Calls that bring
\* their own serial (G_DBUS_SEND_MESSAGE_FLAGS_PRESERVE_SERIAL) are left out:
\* nothing keeps such a serial apart from those the connection assigns.
xdbus_connection_send_message_unlocked(k) ==
  /\ last_serial' = (last_serial + 1) % Modulus
  /\ serial' = [serial EXCEPT ![k] = last_serial']

\* The lock is given up before the call is in the map.
Bug_UnlockedInsert(k) ==
  /\ run[k] = "unused" /\ lock = Free
  /\ UNCHANGED <<map, closed, emit_closed, closed_emitted, delivered, timeout_source,
                 handler, cancel_idle, contextvars, workervars, cancelvars>>
  /\ \/ /\ ReturnInIdle(k, SendError(k), 0)
        /\ run' = [run EXCEPT ![k] = "failed"]
        /\ UNCHANGED <<lock, last_serial, serial>>
     \/ /\ ~IsCancelled(k) /\ ~closed
        /\ xdbus_connection_send_message_unlocked(k)
        /\ run' = [run EXCEPT ![k] = "insert"]
        /\ ref_count' = [ref_count EXCEPT ![k] = 1]
        /\ UNCHANGED <<lock, outcome, returns, return_idle, calls, got>>

\* xdbus_connection_send_message_with_reply_unlocked, up to the message that
\* goes to the worker: the lock is held on.
xdbus_connection_send_message_with_reply(k) ==
  /\ run[k] = "unused" /\ lock = Free
  /\ UNCHANGED <<map, closed, emit_closed, closed_emitted, delivered, timeout_source,
                 handler, cancel_idle, contextvars, workervars, cancelvars>>
  /\ \/ /\ ReturnInIdle(k, SendError(k), 0)
        /\ run' = [run EXCEPT ![k] = "failed"]
        /\ UNCHANGED <<lock, last_serial, serial>>
     \/ /\ ~IsCancelled(k) /\ ~closed
        /\ xdbus_connection_send_message_unlocked(k)
        /\ run' = [run EXCEPT ![k] = "insert"]
        /\ lock' = <<k, "caller">>
        /\ ref_count' = [ref_count EXCEPT ![k] = 1]
        /\ UNCHANGED <<outcome, returns, return_idle, calls, got>>

\* The handler is connected without a look at the cancellable.
Bug_ConnectLate(k) ==
  /\ run[k] = "insert"
  /\ handler' = [handler EXCEPT ![k] = k \in Cancellable]
  /\ timeout_source' = [timeout_source EXCEPT ![k] = k \in Timed]
  /\ ref_count' = [ref_count EXCEPT ![k] =
       @ + (IF k \in Cancellable THEN 1 ELSE 0) + (IF k \in Timed THEN 1 ELSE 0)]
  /\ map' = [map EXCEPT ![serial[k]] = k]
  /\ run' = [run EXCEPT ![k] = "done"]
  /\ lock' = Free
  /\ UNCHANGED <<last_serial, closed, emit_closed, closed_emitted, serial, delivered,
                 cancel_idle, outcome, returns, return_idle, calls, got, contextvars,
                 workervars, cancelvars>>

\* xcancellable_connect calls the handler at once when the cancellable has been
\* cancelled since, and connects nothing.  The map takes over the caller's
\* reference; an entry under the same serial is lost.
InsertCall(k) ==
  LET late == IsCancelled(k)
      connected == k \in Cancellable /\ ~late IN
  /\ run[k] = "insert"
  /\ handler' = [handler EXCEPT ![k] = connected]
  /\ cancel_idle' = [cancel_idle EXCEPT ![k] = @ + IF late THEN 1 ELSE 0]
  /\ timeout_source' = [timeout_source EXCEPT ![k] = k \in Timed]
  /\ ref_count' = [ref_count EXCEPT ![k] =
       @ + (IF k \in Cancellable THEN 1 ELSE 0) + (IF k \in Timed THEN 1 ELSE 0)]
  /\ map' = [map EXCEPT ![serial[k]] = k]
  /\ run' = [run EXCEPT ![k] = "done"]
  /\ lock' = Free
  /\ UNCHANGED <<last_serial, closed, emit_closed, closed_emitted, serial, delivered,
                 outcome, returns, return_idle, calls, got, contextvars, workervars,
                 cancelvars>>

-----------------------------------------------------------------------------
(***************************************************************************)
(* send_message_with_reply_cleanup, in two steps.                          *)
(***************************************************************************)

\* The references that go when timeout_source is destroyed: a source that is
\* being dispatched keeps its own until the dispatch ends.
TimeoutRefs(k) == IF timeout_source[k] /\ source[k] # "timeout" THEN 1 ELSE 0

\* The call is delivered and its timeout destroyed.
CleanupBegins(k) ==
  /\ delivered' = [delivered EXCEPT ![k] = TRUE]
  /\ timeout_source' = [timeout_source EXCEPT ![k] = FALSE]
  /\ UNCHANGED <<run, serial, handler>>

\* xcancellable_disconnect does not wait for the emission.
Bug_DisconnectAtOnce(k) == TRUE

\* xcancellable_disconnect returns when no emission runs any more.
MayDisconnect(k) == handler[k] => emitting = {}

\* The call leaves the map, which gives up its reference.
CleanupEnds(k) ==
  /\ MayDisconnect(k)
  /\ handler' = [handler EXCEPT ![k] = FALSE]
  /\ map' = [map EXCEPT ![serial[k]] = None]
  /\ ref_count' = [ref_count EXCEPT ![k] = @ - 1 - IF handler[k] THEN 1 ELSE 0]
  /\ UNCHANGED <<last_serial, emit_closed, closed_emitted, run, serial, delivered,
                 timeout_source, cancel_idle, cancelvars>>

-----------------------------------------------------------------------------
(***************************************************************************)
(* The call's main context: its timeout, its cancelled idle source.        *)
(***************************************************************************)

\* A source is dispatched; from here on another thread may destroy it.
DispatchTimeout(k) ==
  /\ context[k] = "idle" /\ timeout_source[k]
  /\ context' = [context EXCEPT ![k] = "lock"]
  /\ source' = [source EXCEPT ![k] = "timeout"]
  /\ UNCHANGED <<lock, connvars, callvars, taskvars, cancel_idle, workervars, cancelvars>>

send_message_with_reply_cancelled_idle_cb(k) ==
  /\ context[k] = "idle" /\ cancel_idle[k] > 0
  /\ cancel_idle' = [cancel_idle EXCEPT ![k] = @ - 1]
  /\ context' = [context EXCEPT ![k] = "lock"]
  /\ source' = [source EXCEPT ![k] = "cancelled"]
  /\ UNCHANGED <<lock, connvars, callvars, taskvars, workervars, cancelvars>>

\* The source is done with: its reference goes.
DispatchEnds(k) ==
  /\ context' = [context EXCEPT ![k] = "idle"]
  /\ source' = [source EXCEPT ![k] = "none"]

\* delivered was read before the lock was taken.
Bug_StaleDelivered(k) ==
  /\ context[k] = "lock" /\ lock = Free
  /\ lock' = <<k, "context">>
  /\ context' = [context EXCEPT ![k] = "disconnect"]
  /\ CleanupBegins(k)
  /\ ref_count' = [ref_count EXCEPT ![k] = @ + 1 - TimeoutRefs(k)]
  /\ UNCHANGED <<connvars, cancel_idle, outcome, returns, return_idle, calls, got,
                 source, workervars, cancelvars>>

\* Nothing is left to do for a call that was delivered while its source waited
\* for the lock.
send_message_data_deliver_error(k) ==
  /\ context[k] = "lock" /\ lock = Free
  /\ UNCHANGED <<connvars, cancel_idle, outcome, returns, return_idle, calls, got,
                 workervars, cancelvars>>
  /\ \/ /\ delivered[k]
        /\ DispatchEnds(k)
        /\ ref_count' = [ref_count EXCEPT ![k] = @ - 1]
        /\ UNCHANGED <<lock, callvars>>
     \/ /\ ~delivered[k]
        /\ lock' = <<k, "context">>
        /\ context' = [context EXCEPT ![k] = "disconnect"]
        /\ CleanupBegins(k)
        /\ ref_count' = [ref_count EXCEPT ![k] = @ + 1 - TimeoutRefs(k)]
        /\ UNCHANGED source

ErrorDisconnects(k) ==
  /\ context[k] = "disconnect"
  /\ CleanupEnds(k)
  /\ context' = [context EXCEPT ![k] = "return"]
  /\ lock' = Free
  /\ UNCHANGED <<closed, outcome, returns, return_idle, calls, got, source, workervars>>

\* xtask_return_new_error after the lock; two references go: the one
\* taken for this call and the one of the source.
ReturnError(k) ==
  /\ context[k] = "return"
  /\ ReturnInIdle(k, source[k], -2) \/ ReturnNow(k, source[k], -2)
  /\ DispatchEnds(k)
  /\ UNCHANGED <<lock, connvars, callvars, cancel_idle, workervars, cancelvars>>

-----------------------------------------------------------------------------
(***************************************************************************)
(* The worker thread: replies and the end of the connection.               *)
(***************************************************************************)

\* The peer answers a message it was sent, once or more often, or never.
PeerReplies(k) ==
  /\ run[k] \in {"insert", "done"} /\ replied < MaxReplies
  /\ replies' = replies \cup {serial[k]}
  /\ replied' = replied + 1
  /\ UNCHANGED <<lock, connvars, callvars, taskvars, cancel_idle, contextvars, worker,
                 worker_call, disconnects, cancelvars>>

\* A filter eats the reply, or the call it answers is no longer in the map.
IgnoreReply(s) ==
  /\ replies' = replies \ {s}
  /\ UNCHANGED <<lock, callvars, taskvars, worker, worker_call>>

\* send_message_data_deliver_reply_unlocked up to the disconnect.
DeliverReply(s) ==
  LET k == map[s] IN
  /\ k # None /\ ~delivered[k]
  /\ replies' = replies \ {s}
  /\ ReturnInIdle(k, "reply", -TimeoutRefs(k))
  /\ CleanupBegins(k)
  /\ worker' = "reply" /\ worker_call' = k
  /\ lock' = Worker

on_worker_message_received(s) ==
  /\ worker = "idle" /\ s \in replies /\ lock = Free
  /\ IgnoreReply(s) \/ DeliverReply(s)
  /\ UNCHANGED <<connvars, cancel_idle, contextvars, replied, disconnects, cancelvars>>

\* Once FLAG_CLOSED is set no call enters the map.
on_worker_closed ==
  /\ worker = "idle" /\ lock = Free /\ disconnects < MaxDisconnects
  /\ disconnects' = disconnects + 1
  /\ closed' = TRUE
  /\ IF closed THEN UNCHANGED <<lock, worker>> ELSE lock' = Worker /\ worker' = "closing"
  /\ UNCHANGED <<last_serial, map, emit_closed, closed_emitted, callvars, taskvars,
                 cancel_idle, contextvars, worker_call, replies, replied, cancelvars>>

\* xhash_table_foreach_remove visits the calls of the map in any order.
cancel_method_on_close(s) ==
  LET k == map[s] IN
  /\ worker = "closing" /\ k # None /\ ~delivered[k]
  /\ ReturnInIdle(k, "closed", -TimeoutRefs(k))
  /\ CleanupBegins(k)
  /\ worker' = "close" /\ worker_call' = k
  /\ UNCHANGED <<lock, connvars, cancel_idle, contextvars, replies, replied, disconnects,
                 cancelvars>>

schedule_closed_unlocked ==
  /\ worker = "closing"
  /\ \A s \in Serials : map[s] # None => delivered[map[s]]
  /\ emit_closed' = emit_closed + 1
  /\ worker' = "idle" /\ lock' = Free
  /\ UNCHANGED <<last_serial, map, closed, closed_emitted, callvars, taskvars, cancel_idle,
                 contextvars, worker_call, replies, replied, disconnects, cancelvars>>

WorkerDisconnects ==
  /\ worker \in {"reply", "close"}
  /\ CleanupEnds(worker_call)
  /\ worker_call' = None
  /\ IF worker = "reply" THEN worker' = "idle" /\ lock' = Free
     ELSE worker' = "closing" /\ UNCHANGED lock
  /\ UNCHANGED <<closed, outcome, returns, return_idle, calls, got, contextvars,
                 replies, replied, disconnects>>

emit_closed_in_idle ==
  /\ emit_closed > 0
  /\ emit_closed' = emit_closed - 1
  /\ closed_emitted' = closed_emitted + 1
  /\ UNCHANGED <<lock, last_serial, map, closed, callvars, taskvars, cancel_idle,
                 contextvars, workervars, cancelvars>>

-----------------------------------------------------------------------------
(***************************************************************************)
(* The cancellable.                                                        *)
(***************************************************************************)

xcancellable_cancel ==
  /\ ~cancelled /\ Cancellable # {}
  /\ cancelled' = TRUE
  /\ emitting' = {k \in Calls : handler[k]}
  /\ UNCHANGED <<lock, connvars, callvars, taskvars, cancel_idle, contextvars, workervars>>

\* The handler takes no lock: it attaches an idle source and no more.
send_message_with_reply_cancelled_cb(k) ==
  /\ k \in emitting
  /\ emitting' = emitting \ {k}
  /\ cancel_idle' = [cancel_idle EXCEPT ![k] = @ + 1]
  /\ ref_count' = [ref_count EXCEPT ![k] = @ + 1]
  /\ UNCHANGED <<lock, connvars, callvars, outcome, returns, return_idle, calls, got,
                 contextvars, workervars, cancelled>>

-----------------------------------------------------------------------------

ContextNext(k) ==
  \/ DispatchTimeout(k) \/ send_message_with_reply_cancelled_idle_cb(k)
  \/ send_message_data_deliver_error(k) \/ ErrorDisconnects(k) \/ ReturnError(k)
  \/ complete_in_idle_cb(k)

WorkerNext ==
  \/ \E s \in Serials : on_worker_message_received(s) \/ cancel_method_on_close(s)
  \/ schedule_closed_unlocked \/ WorkerDisconnects

Next ==
  \/ \E k \in Calls :
       \/ xdbus_connection_send_message_with_reply(k) \/ InsertCall(k)
       \/ PeerReplies(k) \/ send_message_with_reply_cancelled_cb(k)
       \/ ContextNext(k)
  \/ WorkerNext \/ on_worker_closed \/ emit_closed_in_idle \/ xcancellable_cancel

Spec == Init /\ [][Next]_vars

\* Main contexts run, so that a timeout expires; the worker, an emission and a
\* caller inside the call go on.  The peer need not answer, the connection
\* need not close and nobody need cancel.
FairSpec ==
  /\ Spec
  /\ \A k \in Calls :
       WF_vars(InsertCall(k)) /\ WF_vars(send_message_with_reply_cancelled_cb(k))
                              /\ WF_vars(ContextNext(k))
  /\ WF_vars(WorkerNext) /\ WF_vars(emit_closed_in_idle)

-----------------------------------------------------------------------------

Count(b) == IF b THEN 1 ELSE 0

InMap(k) == \E s \in Serials : map[s] = k

\* Every reference of a call's task is accounted for: the map's (before it the
\* caller's), the handler's, one for each source attached or being dispatched,
\* two for the source of the callback, and the one deliver_error takes.  So the
\* task is freed when the last of them is gone and never before, and
\* send_message_data_free finds neither a timeout nor a handler.  The handlers
\* an emission still has to call are connected, hence hold their tasks.
RefsExact ==
  /\ TypeOK
  /\ \A k \in emitting : handler[k]
  /\ \A k \in Calls :
       ref_count[k] =
         Count(run[k] = "insert") + Count(InMap(k)) + Count(handler[k])
         + Count(timeout_source[k] \/ source[k] = "timeout")
         + Count(source[k] = "cancelled") + cancel_idle[k] + 2 * return_idle[k]
         + Count(context[k] \in {"disconnect", "return"})

\* Whenever the lock is free, map_method_serial_to_task holds exactly the calls
\* that were sent and not delivered, each under its own serial, and none once
\* the connection is closed: a reply finds its call however early it comes, and
\* no call is added behind the back of on_worker_closed.
MapExact ==
  lock = Free =>
    /\ \A k \in Calls, s \in Serials :
         map[s] = k <=> run[k] = "done" /\ ~delivered[k] /\ serial[k] = s
    /\ closed => \A s \in Serials : map[s] = None

\* A call is returned at most once and calls back at most once, whichever of
\* the reply, the timeout, the cancellation and the close come together; its
\* task is not freed before the callback; a callback that is not told
\* "cancelled" gets what the call was returned with; and "closed" is emitted at
\* most once, when no call waits any more.
OneOutcome ==
  /\ \A k \in Calls :
       /\ returns[k] <= 1 /\ calls[k] <= returns[k]
       /\ run[k] \in {"done", "failed"} /\ ref_count[k] = 0 => calls[k] = 1
       /\ calls[k] = 1 => got[k] \in {outcome[k], "cancelled"}
  /\ emit_closed + closed_emitted <= 1
  /\ closed_emitted = 1 => \A k \in Calls : run[k] = "done" => delivered[k]

\* A call with a timeout, and any call once the connection is closed or its
\* cancellable cancelled, gets its callback.
CallReturns ==
  \A k \in Calls :
    (run[k] # "unused" /\ (k \in Timed \/ closed \/ IsCancelled(k))) ~> (calls[k] = 1)

=============================================================================
