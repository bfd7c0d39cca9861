---------------------------- MODULE GDBusWorker ----------------------------
(***************************************************************************)
(* The worker of a D-Bus connection, gio/gdbusprivate.c: one thread that   *)
(* reads, writes, flushes and closes the stream for the threads that call  *)
(* _g_dbus_worker_send_message, _flush_sync, _close and _stop.             *)
(*                                                                         *)
(* Those calls are sections of write_lock, one step each.  The worker      *)
(* thread runs callbacks from its main loop; pc says where it is in one,   *)
(* at the points where it holds no lock.  The read, the write, the flush   *)
(* and the close it has begun go on in the background and end with a       *)
(* callback.  Contents and lengths of messages, received messages and the  *)
(* worker's reference count are left out.                                  *)
(***************************************************************************)
EXTENDS Integers, Sequences, FiniteSets

CONSTANTS
  Messages,      \* each is sent at most once
  Dropped,       \* the messages that a filter may drop
  Flushers,      \* threads that call _g_dbus_worker_flush_sync once
  Closers,       \* threads that call _g_dbus_worker_close once
  Stoppers,      \* the closers that call _g_dbus_worker_stop
  MaxFaults,     \* bound: failures of the transport or of the peer
  NoMessage      \* nothing is being written

ASSUME GDBusWorkerAssumption ==
  /\ IsFiniteSet(Messages) /\ NoMessage \notin Messages
  /\ Dropped \subseteq Messages
  /\ IsFiniteSet(Flushers) /\ IsFiniteSet(Closers) /\ Stoppers \subseteq Closers
  /\ MaxFaults \in Nat

VARIABLES
  socket,                          \* worker->socket is not NULL
  stopped,
  io_cancelled,                    \* worker->cancellable is cancelled
  close_expected,
  output_pending, write_queue,
  messages_written, messages_flushed,   \* write_num_messages_*
  pending_flushes, pending_closes,
  pc,                              \* the worker thread
  reading,                         \* the asynchronous read
  current,                         \* the message being written
  flushers, flush_failed, closers, \* lists a callback has taken over
  idles,                           \* continue_writing_in_idle_cb sources
  number_to_wait_for, flush,       \* of the flushing threads
  close,                           \* of the closing threads
  message,                         \* what became of each message
  before,                          \* messages sent before each flush
  disconnected,                    \* what the connection was first told
  faults

streamvars == <<socket, close_expected, reading>>
queuevars == <<write_queue, pending_flushes, pending_closes>>
countvars == <<messages_written, messages_flushed>>
listvars == <<current, flushers, flush_failed, closers>>
uservars == <<number_to_wait_for, flush, close, before>>
iovars == <<streamvars, stopped, io_cancelled, output_pending, queuevars, countvars, pc,
            listvars, idles, uservars, message, disconnected, faults>>

Outputs == {"none", "write", "flush", "close"}

IOTypeOK ==
  /\ socket \in BOOLEAN /\ stopped \in BOOLEAN /\ io_cancelled \in BOOLEAN
  /\ close_expected \in BOOLEAN /\ flush_failed \in BOOLEAN
  /\ output_pending \in Outputs
  /\ write_queue \in Seq(Messages)
  /\ messages_written \in Nat /\ messages_flushed \in Nat
  /\ pending_flushes \subseteq Flushers /\ flushers \subseteq Flushers
  /\ pending_closes \subseteq Closers /\ closers \subseteq Closers
  /\ pc \in {"loop", "continue", "filter", "failed", "flushed", "closed", "read"}
  /\ reading \in {"initial", "pending", "none"}
  /\ current \in Messages \cup {NoMessage}
  /\ idles \in Nat
  /\ number_to_wait_for \in [Flushers -> Nat]
  /\ flush \in [Flushers -> {"unused", "waiting", "ok", "error"}]
  /\ close \in [Closers -> {"unused", "stopping", "cancelled", "waiting", "done"}]
  /\ message \in [Messages -> {"unused", "queued", "writing", "written", "flushed",
                               "failed", "dropped", "discarded"}]
  /\ before \in [Flushers -> SUBSET Messages]
  /\ disconnected \in {"no", "closed", "vanished"}
  /\ faults \in 0 .. MaxFaults

\* _g_dbus_worker_new: the read is begun by an idle source.
IOInit ==
  /\ socket \in BOOLEAN
  /\ stopped = FALSE /\ io_cancelled = FALSE /\ close_expected = FALSE
  /\ output_pending = "none" /\ write_queue = <<>>
  /\ messages_written = 0 /\ messages_flushed = 0
  /\ pending_flushes = {} /\ pending_closes = {}
  /\ pc = "loop" /\ reading = "initial" /\ idles = 0
  /\ current = NoMessage /\ flushers = {} /\ flush_failed = FALSE /\ closers = {}
  /\ number_to_wait_for = [f \in Flushers |-> 0]
  /\ flush = [f \in Flushers |-> "unused"] /\ before = [f \in Flushers |-> {}]
  /\ close = [c \in Closers |-> "unused"]
  /\ message = [m \in Messages |-> "unused"]
  /\ disconnected = "no" /\ faults = 0

-----------------------------------------------------------------------------
(***************************************************************************)
(* The calls of other threads.  A connection is stopped by its finaliser,  *)
(* when nobody else uses it.                                               *)
(***************************************************************************)

\* schedule_writing_unlocked: output that is pending goes on by itself.
Schedule == idles' = IF output_pending = "none" THEN idles + 1 ELSE idles

\* The connection sends nothing once it was told that it is closed.
_g_dbus_worker_send_message(m) ==
  /\ ~stopped /\ disconnected = "no" /\ message[m] = "unused"
  /\ message' = [message EXCEPT ![m] = "queued"]
  /\ write_queue' = Append(write_queue, m)
  /\ Schedule
  /\ UNCHANGED <<streamvars, stopped, io_cancelled, output_pending, pending_flushes,
                 pending_closes, countvars, pc, listvars, uservars, disconnected, faults>>

\* The message being written is not counted.
Bug_QueueOnly == Len(write_queue)

\* The messages to wait for: those in the queue and the one being written.
PendingWrites == Len(write_queue) + IF output_pending = "write" THEN 1 ELSE 0

_g_dbus_worker_flush_sync(f) ==
  /\ ~stopped /\ flush[f] = "unused"
  /\ before' = [before EXCEPT ![f] =
       {m \in Messages : message[m] \in {"queued", "writing", "written", "flushed"}}]
  /\ IF PendingWrites > 0 \/ messages_written # messages_flushed
     THEN /\ number_to_wait_for' =
               [number_to_wait_for EXCEPT ![f] = messages_written + PendingWrites]
          /\ flush' = [flush EXCEPT ![f] = "waiting"]
          /\ pending_flushes' = pending_flushes \cup {f}
          /\ Schedule
     ELSE /\ flush' = [flush EXCEPT ![f] = "ok"]
          /\ UNCHANGED <<number_to_wait_for, pending_flushes, idles>>
  /\ UNCHANGED <<streamvars, stopped, io_cancelled, output_pending, write_queue,
                 pending_closes, countvars, pc, listvars, close, message, disconnected,
                 faults>>

\* The operations that run are not cancelled.
Bug_NotCancelled(c) ==
  /\ \/ c \notin Stoppers /\ ~stopped /\ close[c] = "unused"
     \/ close[c] = "stopping"
  /\ close' = [close EXCEPT ![c] = "cancelled"]
  /\ UNCHANGED <<streamvars, stopped, io_cancelled, output_pending, queuevars, countvars, pc,
                 listvars, idles, number_to_wait_for, flush, before, message, disconnected,
                 faults>>

\* The cancellable is cancelled before the close is asked for.  A thread that
\* stops the worker gets here, too.
_g_dbus_worker_close(c) ==
  /\ \/ c \notin Stoppers /\ ~stopped /\ close[c] = "unused"
     \/ close[c] = "stopping"
  /\ close' = [close EXCEPT ![c] = "cancelled"]
  /\ io_cancelled' = TRUE
  /\ UNCHANGED <<streamvars, stopped, output_pending, queuevars, countvars, pc, listvars,
                 idles, number_to_wait_for, flush, before, message, disconnected, faults>>

_g_dbus_worker_stop(c) ==
  /\ c \in Stoppers /\ ~stopped
  /\ \A f \in Flushers : flush[f] # "waiting"
  /\ \A d \in Closers : close[d] \in {"unused", "done"}
  /\ stopped' = TRUE
  /\ close' = [close EXCEPT ![c] = "stopping"]
  /\ UNCHANGED <<streamvars, io_cancelled, output_pending, queuevars, countvars, pc,
                 listvars, idles, number_to_wait_for, flush, before, message,
                 disconnected, faults>>

ScheduleClose(c) ==
  /\ close[c] = "cancelled"
  /\ close' = [close EXCEPT ![c] = "waiting"]
  /\ pending_closes' = pending_closes \cup {c}
  /\ Schedule
  /\ UNCHANGED <<streamvars, stopped, io_cancelled, output_pending, write_queue,
                 pending_flushes, countvars, pc, listvars, number_to_wait_for, flush,
                 before, message, disconnected, faults>>

-----------------------------------------------------------------------------
(***************************************************************************)
(* The worker thread: reading.                                             *)
(***************************************************************************)

\* A step of the worker thread that leaves the other threads alone.
Step(from, to) ==
  /\ pc = from /\ pc' = to
  /\ UNCHANGED <<socket, stopped, io_cancelled, number_to_wait_for, before>>

\* An operation of the stream may fail when it is cancelled, or by a fault.  How
\* a write goes on after a part of the message, or waits for room, is left out:
\* it ends with success or with an error.
MayFail ==
  \/ io_cancelled /\ UNCHANGED faults
  \/ faults < MaxFaults /\ faults' = faults + 1

\* The connection acts on the first report only, and on none once stopped.
EmitDisconnected(how) ==
  disconnected' = IF stopped \/ disconnected # "no" THEN disconnected ELSE how

_g_dbus_worker_do_initial_read ==
  /\ Step("loop", "loop")
  /\ reading = "initial" /\ reading' = "pending"
  /\ UNCHANGED <<close_expected, output_pending, queuevars, countvars, listvars, idles,
                 flush, close, message, disconnected, faults>>

\* Data came, and the next read is begun; or the read was cancelled or failed,
\* and no read is begun any more.  Data that is no message does not count as a
\* vanished peer.
_g_dbus_worker_do_read_cb ==
  /\ Step("loop", "read")
  /\ reading = "pending"
  /\ \/ stopped /\ reading' = "none" /\ UNCHANGED <<disconnected, faults>>
     \/ ~stopped /\ io_cancelled /\ reading' = "none"
        /\ EmitDisconnected("closed") /\ UNCHANGED faults
     \/ ~stopped /\ ~io_cancelled /\ UNCHANGED <<reading, disconnected, faults>>
     \/ /\ ~stopped /\ ~io_cancelled /\ faults < MaxFaults /\ faults' = faults + 1
        /\ reading' = "none"
        /\ EmitDisconnected("vanished") \/ EmitDisconnected("closed")
  /\ UNCHANGED <<close_expected, output_pending, queuevars, countvars, listvars, idles,
                 flush, close, message>>

\* The read callback leaves a waiting close alone.
Bug_CloseNotScheduled ==
  /\ Step("read", "loop")
  /\ UNCHANGED <<close_expected, reading, output_pending, queuevars, countvars, listvars,
                 idles, flush, close, message, disconnected, faults>>

\* The end of _g_dbus_worker_do_read_cb.
schedule_pending_close ==
  /\ Step("read", "loop")
  /\ IF pending_closes # {} THEN Schedule ELSE UNCHANGED idles
  /\ UNCHANGED <<close_expected, reading, output_pending, queuevars, countvars, listvars,
                 flush, close, message, disconnected, faults>>

-----------------------------------------------------------------------------
(***************************************************************************)
(* The worker thread: output.                                              *)
(***************************************************************************)

\* Sources of one priority are dispatched in order: the first read was first.
continue_writing_in_idle_cb ==
  /\ Step("loop", IF output_pending = "none" THEN "continue" ELSE "loop")
  /\ reading # "initial" /\ idles > 0
  /\ idles' = idles - 1
  /\ UNCHANGED <<close_expected, reading, output_pending, queuevars, countvars, listvars,
                 flush, close, message, disconnected, faults>>

\* xinput_stream_has_pending: the read of a socket does not go through the
\* stream.
InputHasPending == ~socket /\ reading = "pending"

\* A close takes precedence, but waits for the read to end.
ContinueClose ==
  /\ pending_closes # {}
  /\ IF InputHasPending THEN UNCHANGED <<close_expected, output_pending>>
     ELSE close_expected' = TRUE /\ output_pending' = "close"
  /\ pc' = "loop"
  /\ UNCHANGED <<queuevars, listvars, message>>

\* prepare_flush_unlocked
ReadyFlushes == {f \in pending_flushes : number_to_wait_for[f] = messages_written}

ContinueFlush ==
  /\ pending_closes = {} /\ ReadyFlushes # {}
  /\ flushers' = ReadyFlushes
  /\ pending_flushes' = pending_flushes \ ReadyFlushes
  /\ output_pending' = "flush"
  /\ pc' = "loop"
  /\ UNCHANGED <<close_expected, write_queue, pending_closes, current, flush_failed,
                 closers, message>>

ContinueWrite ==
  /\ pending_closes = {} /\ ReadyFlushes = {} /\ write_queue # <<>>
  /\ current' = Head(write_queue)
  /\ write_queue' = Tail(write_queue)
  /\ message' = [message EXCEPT ![Head(write_queue)] = "writing"]
  /\ output_pending' = "write"
  /\ pc' = "filter"
  /\ UNCHANGED <<close_expected, pending_flushes, pending_closes, flushers, flush_failed,
                 closers>>

ContinueNothing ==
  /\ pending_closes = {} /\ ReadyFlushes = {} /\ write_queue = <<>>
  /\ pc' = "loop"
  /\ UNCHANGED <<close_expected, output_pending, queuevars, listvars, message>>

continue_writing ==
  /\ pc = "continue"
  /\ ContinueClose \/ ContinueFlush \/ ContinueWrite \/ ContinueNothing
  /\ UNCHANGED <<socket, stopped, io_cancelled, reading, countvars, idles, uservars,
                 disconnected, faults>>

\* The filters run without a lock.  A message they drop is not counted as
\* written; any other is written in the background.  A stopped worker does not
\* call them.
about_to_be_sent ==
  \/ /\ Step("filter", "loop")
     /\ UNCHANGED <<close_expected, reading, output_pending, queuevars, countvars, listvars,
                    idles, flush, close, message, disconnected, faults>>
  \/ /\ current \in Dropped /\ ~stopped
     /\ Step("filter", "continue")
     /\ output_pending' = "none"
     /\ message' = [message EXCEPT ![current] = "dropped"]
     /\ current' = NoMessage
     /\ UNCHANGED <<close_expected, reading, queuevars, countvars, flushers, flush_failed,
                    closers, idles, flush, close, disconnected, faults>>

\* The write has ended.  If it failed the lock is given up, to tell the
\* connection, before the message is counted.
write_message_cb ==
  /\ output_pending = "write" /\ output_pending' = "none"
  /\ current' = NoMessage
  /\ \/ /\ Step("loop", "continue")
        /\ messages_written' = messages_written + 1
        /\ message' = [message EXCEPT ![current] = "written"]
        /\ UNCHANGED faults
     \/ /\ Step("loop", "failed")
        /\ MayFail
        /\ message' = [message EXCEPT ![current] = "failed"]
        /\ UNCHANGED messages_written
  /\ UNCHANGED <<close_expected, reading, queuevars, messages_flushed, flushers,
                 flush_failed, closers, idles, flush, close, disconnected>>

WriteFailed ==
  /\ Step("failed", "continue")
  /\ EmitDisconnected("vanished")
  /\ messages_written' = messages_written + 1
  /\ UNCHANGED <<close_expected, reading, output_pending, queuevars, messages_flushed,
                 listvars, idles, flush, close, message, faults>>

ostream_flush_cb ==
  /\ Step("loop", "flushed")
  /\ output_pending = "flush" /\ output_pending' = "none"
  /\ messages_flushed' = messages_written
  /\ \/ /\ flush_failed' = FALSE
        /\ message' = [m \in Messages |->
             IF message[m] = "written" THEN "flushed" ELSE message[m]]
        /\ UNCHANGED faults
     \/ flush_failed' = TRUE /\ MayFail /\ UNCHANGED message
  /\ UNCHANGED <<close_expected, reading, queuevars, messages_written, current, flushers,
                 closers, idles, flush, close, disconnected>>

\* flush_data_list_complete for the flushes of one list.
Complete(list, how) == flush' = [f \in Flushers |-> IF f \in list THEN how ELSE flush[f]]

FlushCompletes ==
  /\ Step("flushed", "continue")
  /\ Complete(flushers, IF flush_failed THEN "error" ELSE "ok")
  /\ flushers' = {}
  /\ UNCHANGED <<close_expected, reading, output_pending, queuevars, countvars, current,
                 flush_failed, closers, idles, close, message, disconnected, faults>>

\* The flushes that wait are forgotten.
Bug_FlushesForgotten ==
  /\ Step("loop", "closed")
  /\ output_pending = "close" /\ output_pending' = "none"
  /\ closers' = pending_closes /\ pending_closes' = {}
  /\ write_queue' = <<>>
  /\ message' = [m \in Messages |->
       IF message[m] = "queued" THEN "discarded" ELSE message[m]]
  /\ messages_flushed' = messages_written + Cardinality(pending_flushes)
  /\ UNCHANGED <<close_expected, reading, messages_written, pending_flushes, current,
                 flushers, flush_failed, idles, flush, close, disconnected, faults>>

\* What waits for the output goes with the stream; output_pending is reset for
\* what comes later.
iostream_close_cb ==
  /\ Step("loop", "closed")
  /\ output_pending = "close" /\ output_pending' = "none"
  /\ closers' = pending_closes /\ pending_closes' = {}
  /\ flushers' = pending_flushes /\ pending_flushes' = {}
  /\ write_queue' = <<>>
  /\ message' = [m \in Messages |->
       IF message[m] = "queued" THEN "discarded" ELSE message[m]]
  /\ messages_flushed' = messages_written + Cardinality(pending_flushes)
  /\ UNCHANGED <<close_expected, reading, messages_written, current, flush_failed, idles,
                 flush, close, disconnected, faults>>

CloseCompletes ==
  /\ Step("closed", "loop")
  /\ close' = [c \in Closers |-> IF c \in closers THEN "done" ELSE close[c]]
  /\ closers' = {}
  /\ Complete(flushers, "error")
  /\ flushers' = {}
  /\ UNCHANGED <<close_expected, reading, output_pending, queuevars, countvars, current,
                 flush_failed, idles, message, disconnected, faults>>

-----------------------------------------------------------------------------

\* The callbacks of the worker's main loop, but for those of the read.
Callbacks ==
  \/ schedule_pending_close \/ continue_writing_in_idle_cb \/ continue_writing
  \/ about_to_be_sent \/ write_message_cb \/ WriteFailed \/ ostream_flush_cb
  \/ FlushCompletes \/ iostream_close_cb \/ CloseCompletes

IONext ==
  \/ \E m \in Messages : _g_dbus_worker_send_message(m)
  \/ \E f \in Flushers : _g_dbus_worker_flush_sync(f)
  \/ \E c \in Closers :
       _g_dbus_worker_close(c) \/ _g_dbus_worker_stop(c) \/ ScheduleClose(c)
  \/ _g_dbus_worker_do_initial_read \/ _g_dbus_worker_do_read_cb
  \/ Callbacks

IOSpec == IOInit /\ [][IONext]_iovars

\* The main loop dispatches its sources in turn, operations of the stream end,
\* a read at the latest when it is cancelled, and a closing thread goes on.
\* Nobody need send, flush or close.
IOFairSpec ==
  /\ IOSpec
  /\ WF_iovars(_g_dbus_worker_do_initial_read)
  /\ SF_iovars(io_cancelled /\ _g_dbus_worker_do_read_cb)
  /\ WF_iovars(schedule_pending_close \/ continue_writing \/ about_to_be_sent
             \/ WriteFailed \/ FlushCompletes \/ CloseCompletes)
  /\ SF_iovars(continue_writing_in_idle_cb)
  /\ SF_iovars(write_message_cb) /\ SF_iovars(ostream_flush_cb)
  /\ SF_iovars(iostream_close_cb)
  /\ \A c \in Closers :
       WF_iovars((stopped /\ _g_dbus_worker_close(c)) \/ ScheduleClose(c))

-----------------------------------------------------------------------------

\* Messages that were taken from the queue and never written.
Lost == {m \in Messages : message[m] \in {"failed", "dropped"}}

\* Whatever waits for the worker thread will be seen to.  Between two
\* callbacks, a close that no read holds up, a message in the queue and a flush
\* whose messages are written have an idle source coming, or output whose
\* callback goes on with them; and unless a message was lost, the messages
\* still to be counted are exactly those a waiting flush may wait for.
NoLostWork ==
  /\ IOTypeOK
  /\ pc \in {"continue", "failed", "flushed", "closed"} => output_pending = "none"
  /\ pc = "filter" => output_pending = "write"
  /\ output_pending = "write" <=> current # NoMessage
  /\ pc = "loop" /\ output_pending = "none" /\ idles = 0 =>
       /\ pending_closes # {} => InputHasPending
       /\ pending_closes = {} => write_queue = <<>> /\ ReadyFlushes = {}
  /\ Lost = {} => \A f \in pending_flushes :
       number_to_wait_for[f] \in messages_written .. messages_written + PendingWrites

\* A flush that returns TRUE has written and flushed every message sent before
\* it, unless a filter dropped the message or the stream failed or was closed.
FlushCovers ==
  \A f \in Flushers :
    flush[f] = "ok" /\ faults = 0 /\ ~io_cancelled =>
      \A m \in before[f] : message[m] \in {"flushed", "dropped"}

\* A flush returns, unless a message was lost: then it may wait for a number
\* that the counter has passed by or never comes to.  A close lets it return
\* all the same.
FlushReturns ==
  \A f \in Flushers :
    /\ (flush[f] = "waiting") ~> (flush[f] # "waiting" \/ Lost # {})
    /\ (f \in pending_flushes /\ pending_closes # {}) ~> (flush[f] # "waiting")

\* A close completes, and the connection has been told that it is closed.
CloseReturns ==
  \A c \in Closers :
    (close[c] \in {"stopping", "cancelled"})
      ~> (close[c] = "done" /\ (disconnected # "no" \/ stopped))

\* What a connection closed by its own process is told: not that the peer
\* vanished, on which a process with exit-on-close ends (xdbus_connection_close,
\* gdbusconnection.c:1437).  The code does not keep it: write_message_cb reports
\* a write that the close has cancelled like any other failure.
LocalCloseIsQuiet == disconnected = "vanished" => faults > 0

=============================================================================
