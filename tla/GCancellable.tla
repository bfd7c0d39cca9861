---------------------------- MODULE GCancellable ----------------------------
(***************************************************************************)
(* One cancellable of gio/gcancellable.c and the event sources made from   *)
(* it.  Its fields are protected by a mutex, the "cancelled" signal is     *)
(* emitted without it, and cancelled_running tells the others meanwhile    *)
(* that callbacks may run.                                                 *)
(*                                                                         *)
(* A critical section of cancellable_mutex is one step.  An emission       *)
(* visits the handlers that were connected when it began (the order does   *)
(* not matter here); it looks at each under the lock of the signals, and   *)
(* from then on it is committed to the call, even if the handler is        *)
(* disconnected before the call takes place.  The program keeps a          *)
(* reference to the cancellable.                                           *)
(***************************************************************************)
EXTENDS Integers, FiniteSets

CONSTANTS
  Threads,     \* the threads that use the cancellable
  Callbacks,   \* the callbacks passed to xcancellable_connect, once each
  Sources,     \* the sources made by xcancellable_source_new, once each
  None,        \* the argument of a thread that has none
  MaxCancels,  \* bound: how often the cancellable becomes cancelled
  MaxFds       \* bound on fd_refcount

ASSUME GCancellableAssumption ==
  /\ IsFiniteSet(Threads) /\ IsFiniteSet(Callbacks) /\ IsFiniteSet(Sources)
  /\ Callbacks \cap Sources = {}
  /\ None \notin Callbacks \cup Sources
  /\ MaxCancels \in Nat /\ MaxFds \in Nat

VARIABLES
  cancelled, cancelled_running, cancelled_running_waiting,  \* the fields
  fd_refcount, wakeup,                                      \* of the private
  handlers,    \* the handlers connected to the signal
  pc, arg,     \* where each thread is, with which handler
  emission,    \* the handlers each thread's emission has still to visit
  emitting,    \* the threads inside xsignal_emit
  sleeping,    \* the threads asleep in g_cond_wait on cancellable_cond
  source,      \* the fields of each source
  connected,   \* history: the callbacks xcancellable_connect was called with
  gone,        \* history: the callbacks xcancellable_disconnect was done with
  calls,       \* history: the calls of each callback since the last reset
  cancels      \* history: how often the cancellable became cancelled

fields == <<cancelled, cancelled_running, cancelled_running_waiting>>
fd == <<fd_refcount, wakeup>>
history == <<connected, gone, calls, cancels>>
vars == <<fields, fd, handlers, pc, arg, emission, emitting, sleeping, source,
          history>>

Handlers == Callbacks \cup Sources

(***************************************************************************)
(* idle          not in a call                                             *)
(* cancel        past the first, unlocked test of xcancellable_cancel      *)
(* begin         before the xsignal_emit                                   *)
(* emit          in xsignal_emit, between two handlers                     *)
(* callback      committed to a callback of xcancellable_connect           *)
(* handler       committed to cancellable_source_cancelled                 *)
(* set_ready     in it, with a reference, after the mutex                  *)
(* unref         before an xsource_unref                                   *)
(* at_zero       in xsource_unref, after the count fell to 0               *)
(* dispose       before cancellable_source_dispose                         *)
(* disposed      after it                                                  *)
(* disconnect    in the loop of xcancellable_disconnect                    *)
(* reset         in the loop of xcancellable_reset                         *)
(* source_new    in xcancellable_source_new, after the xsignal_connect     *)
(***************************************************************************)
PC == {"idle", "cancel", "begin", "emit", "callback", "handler", "set_ready",
       "unref", "at_zero", "dispose", "disposed", "disconnect", "reset", "source_new"}

\* The program holds one reference ("owned") to a source, and the source a
\* handler and a reference to the cancellable until it is disposed.
Source == [state : {"absent", "live", "freed"}, owned : BOOLEAN,
           ref_count : Int, cancellable : BOOLEAN, ready : BOOLEAN,
           resurrected : BOOLEAN, told : BOOLEAN]

Init ==
  /\ cancelled = FALSE
  /\ cancelled_running = FALSE
  /\ cancelled_running_waiting = FALSE
  /\ fd_refcount = 0 /\ wakeup = "none"
  /\ handlers = {}
  /\ pc = [t \in Threads |-> "idle"]
  /\ arg = [t \in Threads |-> None]
  /\ emission = [t \in Threads |-> {}]
  /\ emitting = {}
  /\ sleeping = {}
  /\ source = [s \in Sources |->
                 [state |-> "absent", owned |-> FALSE, ref_count |-> 0,
                  cancellable |-> FALSE, ready |-> FALSE,
                  resurrected |-> FALSE, told |-> FALSE]]
  /\ connected = {} /\ gone = {}
  /\ calls = [h \in Callbacks |-> 0]
  /\ cancels = 0

Goto(t, label, h) ==
  /\ pc' = [pc EXCEPT ![t] = label]
  /\ arg' = [arg EXCEPT ![t] = h]

\* Where a thread goes on after a callback, a handler or an unref.
Return(t) == Goto(t, IF t \in emitting THEN "emit" ELSE "idle", None)

-----------------------------------------------------------------------------
\* xcancellable_cancel, to its first test, which takes no lock.
xcancellable_cancel(t) ==
  /\ pc[t] = "idle"
  /\ ~ cancelled
  /\ Goto(t, "cancel", None)
  /\ UNCHANGED <<fields, fd, handlers, emission, emitting, sleeping, source,
                 history>>

\* The test under the mutex is forgotten.
Bug_NoSecondTest(t) ==
  /\ pc[t] = "cancel"
  /\ cancels < MaxCancels
  /\ cancelled' = TRUE
  /\ cancelled_running' = TRUE
  /\ wakeup' = IF wakeup = "none" THEN "none" ELSE "signalled"
  /\ cancels' = cancels + 1
  /\ Goto(t, "begin", None)
  /\ UNCHANGED <<cancelled_running_waiting, fd_refcount, handlers, emission,
                 emitting, sleeping, source, connected, gone, calls>>

\* Its first critical section: one of several threads becomes the canceller.
BecomeCanceller(t) ==
  /\ pc[t] = "cancel"
  /\ ~ cancelled
  /\ cancels < MaxCancels
  /\ cancelled' = TRUE
  /\ cancelled_running' = TRUE
  /\ wakeup' = IF wakeup = "none" THEN "none" ELSE "signalled"
  /\ cancels' = cancels + 1
  /\ Goto(t, "begin", None)
  /\ UNCHANGED <<cancelled_running_waiting, fd_refcount, handlers, emission,
                 emitting, sleeping, source, connected, gone, calls>>

\* The others find it cancelled and return.
AlreadyCancelled(t) ==
  /\ pc[t] = "cancel"
  /\ cancelled
  /\ Goto(t, "idle", None)
  /\ UNCHANGED <<fields, fd, handlers, emission, emitting, sleeping, source,
                 history>>

\* xsignal_emit: handlers connected from now on have too high a number.
EmitBegin(t) ==
  /\ pc[t] = "begin"
  /\ emitting' = emitting \cup {t}
  /\ emission' = [emission EXCEPT ![t] = handlers]
  /\ Goto(t, "emit", None)
  /\ UNCHANGED <<fields, fd, handlers, sleeping, source, history>>

\* The next handler is called unless it was disconnected meanwhile.
EmitNext(t) ==
  /\ pc[t] = "emit"
  /\ \E h \in emission[t] :
       /\ emission' = [emission EXCEPT ![t] = @ \ {h}]
       /\ IF h \notin handlers
          THEN UNCHANGED <<pc, arg>>
          ELSE Goto(t, IF h \in Sources THEN "handler" ELSE "callback", h)
  /\ UNCHANGED <<fields, fd, handlers, emitting, sleeping, source, history>>

\* The last critical section of xcancellable_cancel.
CancelEnd(t) ==
  /\ pc[t] = "emit" /\ emission[t] = {}
  /\ emitting' = emitting \ {t}
  /\ cancelled_running' = FALSE
  /\ cancelled_running_waiting' = FALSE
  /\ sleeping' = IF cancelled_running_waiting THEN {} ELSE sleeping
  /\ Goto(t, "idle", None)
  /\ UNCHANGED <<cancelled, fd, handlers, emission, source, history>>

\* A callback given to xcancellable_connect is called and returns.
CallbackReturns(t) ==
  /\ pc[t] = "callback"
  /\ calls' = [calls EXCEPT ![arg[t]] = @ + 1]
  /\ Return(t)
  /\ UNCHANGED <<fields, fd, handlers, emission, emitting, sleeping, source,
                 connected, gone, cancels>>

-----------------------------------------------------------------------------
\* Connects without a look at "cancelled".
Bug_ConnectOnly(t, h) ==
  /\ pc[t] = "idle"
  /\ h \notin connected
  /\ connected' = connected \cup {h}
  /\ handlers' = handlers \cup {h}
  /\ UNCHANGED <<fields, fd, pc, arg, emission, emitting, sleeping, source,
                 gone, calls, cancels>>

\* xcancellable_connect: calls the callback directly, after the mutex, when it
\* comes too late for the signal.
xcancellable_connect(t, h) ==
  /\ pc[t] = "idle"
  /\ h \notin connected
  /\ connected' = connected \cup {h}
  /\ IF cancelled
     THEN Goto(t, "callback", h) /\ UNCHANGED handlers
     ELSE handlers' = handlers \cup {h} /\ UNCHANGED <<pc, arg>>
  /\ UNCHANGED <<fields, fd, emission, emitting, sleeping, source, gone, calls,
                 cancels>>

\* xcancellable_disconnect and xcancellable_reset, up to their mutex.  A
\* callback is disconnected with the id that the connect returned.
xcancellable_disconnect(t, h) ==
  /\ pc[t] = "idle"
  /\ h \in handlers
  /\ \A u \in Threads : pc[u] = "disconnect" => arg[u] # h
  /\ Goto(t, "disconnect", h)
  /\ UNCHANGED <<fields, fd, handlers, emission, emitting, sleeping, source,
                 history>>

xcancellable_reset(t) ==
  /\ pc[t] = "idle"
  /\ Goto(t, "reset", None)
  /\ UNCHANGED <<fields, fd, handlers, emission, emitting, sleeping, source,
                 history>>

\* Sleeps without leaving word for the canceller.
Bug_WaitUnannounced(t) ==
  /\ pc[t] \in {"disconnect", "reset"}
  /\ t \notin sleeping
  /\ cancelled_running
  /\ sleeping' = sleeping \cup {t}
  /\ UNCHANGED <<fields, fd, handlers, pc, arg, emission, emitting, source,
                 history>>

\* The loop of both: sleep while callbacks may run.
WaitForEmission(t) ==
  /\ pc[t] \in {"disconnect", "reset"}
  /\ t \notin sleeping
  /\ cancelled_running
  /\ cancelled_running_waiting' = TRUE
  /\ sleeping' = sleeping \cup {t}
  /\ UNCHANGED <<cancelled, cancelled_running, fd, handlers, pc, arg, emission,
                 emitting, source, history>>

\* A sleep that ends without a broadcast for this cancellable: the condition
\* variable is shared by all of them.
SpuriousWakeup(t) ==
  /\ t \in sleeping
  /\ sleeping' = sleeping \ {t}
  /\ UNCHANGED <<fields, fd, handlers, pc, arg, emission, emitting, source,
                 history>>

\* Disconnects without waiting, like xsignal_handler_disconnect.
Bug_DisconnectAtOnce(t) ==
  /\ pc[t] = "disconnect"
  /\ handlers' = handlers \ {arg[t]}
  /\ gone' = gone \cup {arg[t]}
  /\ Goto(t, "idle", None)
  /\ sleeping' = sleeping \ {t}
  /\ UNCHANGED <<fields, fd, emission, emitting, source, connected, calls,
                 cancels>>

\* The end of xcancellable_disconnect.
DisconnectEnd(t) ==
  /\ pc[t] = "disconnect"
  /\ t \notin sleeping
  /\ ~ cancelled_running
  /\ handlers' = handlers \ {arg[t]}
  /\ gone' = gone \cup {arg[t]}
  /\ Goto(t, "idle", None)
  /\ UNCHANGED <<fields, fd, emission, emitting, sleeping, source, connected,
                 calls, cancels>>

\* The end of xcancellable_reset.  A new round begins for the history.
ResetEnd(t) ==
  /\ pc[t] = "reset"
  /\ t \notin sleeping
  /\ ~ cancelled_running
  /\ cancelled' = FALSE
  /\ wakeup' = IF cancelled /\ wakeup # "none" THEN "quiet" ELSE wakeup
  /\ calls' = [h \in Callbacks |-> 0]
  /\ source' = [s \in Sources |-> [source[s] EXCEPT !.told = FALSE]]
  /\ Goto(t, "idle", None)
  /\ UNCHANGED <<cancelled_running, cancelled_running_waiting, fd_refcount,
                 handlers, emission, emitting, sleeping, connected, gone,
                 cancels>>

-----------------------------------------------------------------------------
\* A wakeup made for a cancelled cancellable is not signalled.
Bug_NewWakeupQuiet(t) ==
  /\ pc[t] = "idle"
  /\ fd_refcount < MaxFds
  /\ fd_refcount' = fd_refcount + 1
  /\ wakeup' = IF wakeup # "none" THEN wakeup ELSE "quiet"
  /\ UNCHANGED <<fields, handlers, pc, arg, emission, emitting, sleeping,
                 source, history>>

\* xcancellable_make_pollfd, which xcancellable_get_fd calls.
xcancellable_make_pollfd(t) ==
  /\ pc[t] = "idle"
  /\ fd_refcount < MaxFds
  /\ fd_refcount' = fd_refcount + 1
  /\ wakeup' = IF wakeup # "none" THEN wakeup
               ELSE IF cancelled THEN "signalled" ELSE "quiet"
  /\ UNCHANGED <<fields, handlers, pc, arg, emission, emitting, sleeping,
                 source, history>>

xcancellable_release_fd(t) ==
  /\ pc[t] = "idle"
  /\ fd_refcount > 0
  /\ fd_refcount' = fd_refcount - 1
  /\ wakeup' = IF fd_refcount = 1 THEN "none" ELSE wakeup
  /\ UNCHANGED <<fields, handlers, pc, arg, emission, emitting, sleeping,
                 source, history>>

-----------------------------------------------------------------------------
\* xcancellable_source_new connects without cancellable_mutex ...
xcancellable_source_new(t, s) ==
  /\ pc[t] = "idle"
  /\ source[s].state = "absent"
  /\ handlers' = handlers \cup {s}
  /\ source' = [source EXCEPT ![s].state = "live", ![s].owned = TRUE,
                              ![s].ref_count = 1, ![s].cancellable = TRUE]
  /\ Goto(t, "source_new", s)
  /\ UNCHANGED <<fields, fd, emission, emitting, sleeping, history>>

\* The source relies on its handler alone.
Bug_NoTestAfterConnect(t) ==
  /\ pc[t] = "source_new"
  /\ Goto(t, "idle", None)
  /\ UNCHANGED <<fields, fd, handlers, emission, emitting, sleeping, source,
                 history>>

\* ... and looks at "cancelled" afterwards.
TestAfterConnect(t) ==
  /\ pc[t] = "source_new"
  /\ source' = IF cancelled THEN [source EXCEPT ![arg[t]].ready = TRUE]
                            ELSE source
  /\ Goto(t, "idle", None)
  /\ UNCHANGED <<fields, fd, handlers, emission, emitting, sleeping, history>>

\* cancellable_source_cancelled, its critical section.
cancellable_source_cancelled(t) ==
  LET s == arg[t] IN
  /\ pc[t] = "handler"
  /\ IF source[s].resurrected
     THEN /\ source' = [source EXCEPT ![s].resurrected = FALSE]
          /\ Goto(t, "unref", s)
     ELSE /\ source' = [source EXCEPT ![s].ref_count = @ + 1]
          /\ Goto(t, "set_ready", s)
  /\ UNCHANGED <<fields, fd, handlers, emission, emitting, sleeping, history>>

\* The xsource_set_ready_time (source, 0) after it.
SetReady(t) ==
  /\ pc[t] = "set_ready"
  /\ source' = [source EXCEPT ![arg[t]].ready = TRUE]
  /\ Goto(t, "unref", arg[t])
  /\ UNCHANGED <<fields, fd, handlers, emission, emitting, sleeping, history>>

\* The main loop calls cancellable_source_dispatch of a ready source.
cancellable_source_dispatch(t, s) ==
  /\ pc[t] = "idle"
  /\ source[s].owned /\ source[s].ready
  /\ \A u \in Threads : pc[u] = "source_new" => arg[u] # s
  /\ source' = [source EXCEPT ![s].ready = FALSE, ![s].told = cancelled]
  /\ UNCHANGED <<fields, fd, handlers, pc, arg, emission, emitting, sleeping,
                 history>>

\* The program gives up its reference.
DropSource(t, s) ==
  /\ pc[t] = "idle"
  /\ source[s].owned
  /\ \A u \in Threads : pc[u] = "source_new" => arg[u] # s
  /\ source' = [source EXCEPT ![s].owned = FALSE]
  /\ Goto(t, "unref", s)
  /\ UNCHANGED <<fields, fd, handlers, emission, emitting, sleeping, history>>

\* xsource_unref, to the test of the count ...
xsource_unref(t) ==
  LET s == arg[t] IN
  /\ pc[t] = "unref"
  /\ source' = [source EXCEPT ![s].ref_count = @ - 1]
  /\ IF source[s].ref_count = 1 THEN Goto(t, "at_zero", s) ELSE Return(t)
  /\ UNCHANGED <<fields, fd, handlers, emission, emitting, sleeping, history>>

\* ... the reference for the time of the dispose function ...
HoldForDispose(t) ==
  /\ pc[t] = "at_zero"
  /\ source' = [source EXCEPT ![arg[t]].ref_count = @ + 1]
  /\ Goto(t, "dispose", arg[t])
  /\ UNCHANGED <<fields, fd, handlers, emission, emitting, sleeping, history>>

\* The source is not resurrected.
Bug_NoResurrection(t) ==
  LET s == arg[t] IN
  /\ pc[t] = "dispose"
  /\ source' = [source EXCEPT ![s].cancellable = FALSE]
  /\ handlers' = IF source[s].cancellable THEN handlers \ {s} ELSE handlers
  /\ Goto(t, "disposed", s)
  /\ UNCHANGED <<fields, fd, emission, emitting, sleeping, history>>

\* ... the function itself, which gives the source another reference when a
\* handler may be committed ...
cancellable_source_dispose(t) ==
  LET s == arg[t]
      resurrect == source[s].cancellable /\ cancelled_running IN
  /\ pc[t] = "dispose"
  /\ source' = [source EXCEPT
                  ![s].cancellable = FALSE,
                  ![s].resurrected = @ \/ resurrect,
                  ![s].ref_count = IF resurrect THEN @ + 1 ELSE @]
  /\ handlers' = IF source[s].cancellable THEN handlers \ {s} ELSE handlers
  /\ Goto(t, "disposed", s)
  /\ UNCHANGED <<fields, fd, emission, emitting, sleeping, history>>

\* ... and the second test of the count.
FreeSource(t) ==
  LET s == arg[t] IN
  /\ pc[t] = "disposed"
  /\ source' = [source EXCEPT
                  ![s].ref_count = @ - 1,
                  ![s].state = IF source[s].ref_count = 1 THEN "freed" ELSE @]
  /\ Return(t)
  /\ UNCHANGED <<fields, fd, handlers, emission, emitting, sleeping, history>>

-----------------------------------------------------------------------------
\* The steps of a call in progress.
Continue(t) ==
  \/ BecomeCanceller(t)
  \/ AlreadyCancelled(t)
  \/ EmitBegin(t)
  \/ EmitNext(t)
  \/ CallbackReturns(t)
  \/ CancelEnd(t)
  \/ WaitForEmission(t)
  \/ DisconnectEnd(t)
  \/ ResetEnd(t)
  \/ TestAfterConnect(t)
  \/ cancellable_source_cancelled(t)
  \/ SetReady(t)
  \/ xsource_unref(t)
  \/ HoldForDispose(t)
  \/ cancellable_source_dispose(t)
  \/ FreeSource(t)

\* The calls of the program.
Call(t) ==
  \/ xcancellable_cancel(t)
  \/ xcancellable_reset(t)
  \/ xcancellable_make_pollfd(t)
  \/ xcancellable_release_fd(t)
  \/ \E h \in Callbacks :
       \/ xcancellable_connect(t, h)
       \/ xcancellable_disconnect(t, h)
  \/ \E s \in Sources :
       \/ xcancellable_source_new(t, s)
       \/ cancellable_source_dispatch(t, s)
       \/ DropSource(t, s)

Next == \E t \in Threads : Continue(t) \/ Call(t) \/ SpuriousWakeup(t)

Spec == Init /\ [][Next]_vars

\* A thread inside a call goes on; a callback returns.
FairSpec == Spec /\ \A t \in Threads : WF_vars(Continue(t))

-----------------------------------------------------------------------------
TypeOK ==
  /\ cancelled \in BOOLEAN
  /\ cancelled_running \in BOOLEAN
  /\ cancelled_running_waiting \in BOOLEAN
  /\ fd_refcount \in 0 .. MaxFds
  /\ wakeup \in {"none", "quiet", "signalled"}
  /\ handlers \subseteq Handlers
  /\ pc \in [Threads -> PC]
  /\ arg \in [Threads -> Handlers \cup {None}]
  /\ emission \in [Threads -> SUBSET Handlers]
  /\ emitting \subseteq Threads
  /\ sleeping \subseteq Threads
  /\ source \in [Sources -> Source]
  /\ connected \subseteq Callbacks
  /\ gone \subseteq Callbacks
  /\ calls \in [Callbacks -> Nat]
  /\ cancels \in 0 .. MaxCancels

\* Of all threads that call xcancellable_cancel one emits, and
\* cancelled_running is TRUE exactly while it does: resets and disconnects
\* rely on it.
OneCanceller ==
  /\ \A t, u \in Threads :
       (pc[t] = "begin" \/ t \in emitting) /\ (pc[u] = "begin" \/ u \in emitting)
         => t = u
  /\ cancelled_running
       <=> \E t \in Threads : pc[t] = "begin" \/ t \in emitting
  /\ cancelled_running => cancelled

\* Once xcancellable_disconnect has returned, no thread runs the callback or
\* is committed to run it ("this call will block until the handler has
\* finished").
DisconnectIsFinal ==
  \A t \in Threads : pc[t] = "callback" => arg[t] \notin gone

\* No callback is missed and none is called twice in one cancellation,
\* whichever way connects, cancels and resets interleave.
CalledOnce ==
  /\ \A h \in Callbacks : calls[h] <= 1
  /\ cancelled /\ ~ cancelled_running
       => \A h \in handlers \cap Callbacks : calls[h] = 1

\* Whoever sleeps in xcancellable_disconnect or xcancellable_reset is waited
\* for by a canceller that knows of it.
SleepersKnown ==
  sleeping # {} => cancelled_running /\ cancelled_running_waiting

\* The file descriptor exists while somebody holds it, and polls readable
\* exactly while the cancellable is cancelled.
FdTellsCancelled ==
  /\ fd_refcount > 0 <=> wakeup # "none"
  /\ wakeup # "none" => (wakeup = "signalled" <=> cancelled)

\* When the emission is over, a complete source that is not being dropped is
\* ready or was dispatched in this cancellation: none misses it.
SourceTold ==
  cancelled /\ ~ cancelled_running =>
    \A s \in Sources :
      /\ source[s].cancellable
      /\ \A t \in Threads : pc[t] = "source_new" => arg[t] # s
      => source[s].ready \/ source[s].told

\* A thread in, or committed to, a function that is passed a source finds it
\* allocated.
NoDanglingSource ==
  \A t \in Threads :
    pc[t] \in {"handler", "set_ready", "unref", "at_zero", "dispose", "disposed"}
      => source[arg[t]].state = "live"

\* The reference taken by the dispose function is dropped by the handler,
\* "which should be guaranteed to fire because we're inside a
\* @cancelled_running block": it does not outlive the cancellation.
ResurrectionEnds ==
  ~ cancelled_running => \A s \in Sources : ~ source[s].resurrected

\* A disconnect or a reset returns.
WaitsEnd ==
  \A t \in Threads :
    pc[t] \in {"disconnect", "reset"} ~> pc[t] \notin {"disconnect", "reset"}

=============================================================================
