----------------------------- MODULE GMainContext -----------------------------
(***************************************************************************)
(* One main context of glib/gmain.c with its wakeup (glib/gwakeup.c), the  *)
(* sources attached to it and the loops run on it.                         *)
(*                                                                         *)
(* The context's mutex is a variable: a step whose guard is Unlocked is a  *)
(* critical section of its own, and a step that leaves mutex = t continues *)
(* in thread t's next step.  An iteration is a frame on the stack of its   *)
(* thread, since a callback may iterate the context again.                 *)
(*                                                                         *)
(* Sources are of three kinds: idle sources (prepare and check functions   *)
(* that run with the mutex released), sources with a file descriptor, and  *)
(* sources that only have a ready time.                                    *)
(***************************************************************************)
EXTENDS Integers, Sequences, FiniteSets

CONSTANTS
  Threads, Sources, Loops,
  None,
  Idle,         \* sources made by g_idle_source_new
  HasFd,        \* sources with a file descriptor (xsource_add_unix_fd)
  CanRecurse,   \* sources with G_SOURCE_CAN_RECURSE
  Priority,     \* the priority of each source
  Holder,       \* the thread whose code holds the application's reference
  ReadyTimes,   \* the times passed to xsource_set_ready_time, besides -1
  MaxTime,      \* bound: the clock stops here
  MaxDepth,     \* bound: frames on the stack of each thread
  Calls,        \* what each thread calls: "run", "iterate", "pending"
  MayPend       \* depth of the stack up to which xmain_context_pending is called

MaxInt == 100       \* G_MAXINT, no priority is above it

ASSUME GMainContextAssumption ==
  /\ IsFiniteSet(Threads) /\ IsFiniteSet(Sources) /\ IsFiniteSet(Loops)
  /\ None \notin Threads \cup Sources \cup Loops
  /\ Idle \subseteq Sources /\ HasFd \subseteq Sources /\ CanRecurse \subseteq Sources
  /\ Priority \in [Sources -> Int] /\ \A s \in Sources : Priority[s] <= MaxInt
  /\ Holder \in [Sources -> Threads]
  /\ ReadyTimes \subseteq 0..MaxTime
  /\ MaxTime \in Nat /\ MaxDepth \in [Threads -> Nat] /\ MayPend \in Nat
  /\ Calls \in [Threads -> SUBSET {"run", "iterate", "pending"}]

VARIABLES
  mutex,                         \* the thread inside the context's mutex
  owner, owner_count, waiters,   \* ownership, and who waits for it
  asleep,                        \* threads in g_cond_wait on context->cond
  pending_dispatches, poll_records, poll_changed,
  wakeup,                        \* whether context->wakeup is signalled
  flags, ready_time, ref_count, revents,   \* of each source
  attached,                      \* sources whose context is set
  place,                         \* of each source among those of its priority
  app_ref,                       \* sources the application holds a reference to
  is_running,                    \* of each loop
  stack,                         \* the frames of each thread, innermost last
  now, readable                  \* the world: the clock, the ready descriptors

srcvars == <<flags, ready_time, ref_count, revents, attached, place, app_ref>>
pollvars == <<poll_records, poll_changed, wakeup>>
ownvars == <<owner, owner_count, waiters, asleep>>
envvars == <<now, readable>>
vars == <<mutex, ownvars, srcvars, pollvars, pending_dispatches, is_running, stack, envvars>>

NotFresh == -1
Infinite == -1      \* a poll timeout, and the ready time of a source without one
Wake == "wake"      \* the poll record of the wakeup, of priority 0

Flag == {"ACTIVE", "READY", "BLOCKED"}

(***************************************************************************)
(* Where a frame is: in xmain_loop_run (loopStart, loopWait, loopAsleep,   *)
(* loopTest, loopRelease), in xmain_context_iterate (acquire, wait,        *)
(* asleep, and then the function it calls), in xsource_destroy             *)
(* (destroying).  A name with Next is a loop inside the mutex.             *)
(***************************************************************************)
PC == {"loopStart", "loopWait", "loopAsleep", "loopTest", "loopRelease",
       "acquire", "wait", "asleep",
       "prepare", "prepareNext", "inPrepare", "query", "poll",
       "check", "checkNext", "inCheck",
       "dispatch", "dispatchNext", "callback", "needDestroy", "release",
       "destroying"}

Frame == [pc : PC, loop : Loops \cup {None}, block : BOOLEAN, dispatch : BOOLEAN,
          source : Sources \cup {None}, i : Nat,
          n_ready : BOOLEAN, max_priority : Int, timeout : Int, time : Int,
          deadline : Int,
          fds : SUBSET (HasFd \cup {Wake}), revents : SUBSET (HasFd \cup {Wake})]

NewFrame(label) ==
  [pc |-> label, loop |-> None, block |-> TRUE, dispatch |-> TRUE, source |-> None,
   i |-> 0, n_ready |-> FALSE, max_priority |-> MaxInt, timeout |-> 0,
   time |-> NotFresh, deadline |-> 0, fds |-> {}, revents |-> {}]

\* The one type invariant of the module.
TypeOK ==
  /\ mutex \in Threads \cup {None}
  /\ owner \in Threads \cup {None} /\ owner_count \in Nat
  /\ waiters \in Seq(Threads) /\ asleep \subseteq Threads
  /\ pending_dispatches \in Seq(Sources \cup {None})
  /\ poll_records \subseteq HasFd
  /\ poll_changed \in BOOLEAN /\ wakeup \in BOOLEAN
  /\ flags \in [Sources -> SUBSET Flag] /\ ready_time \in [Sources -> Int]
  /\ ref_count \in [Sources -> Nat] /\ revents \subseteq HasFd
  /\ attached \subseteq Sources /\ place \in [Sources -> Nat] /\ app_ref \subseteq Sources
  /\ is_running \in [Loops -> BOOLEAN]
  /\ stack \in [Threads -> Seq(Frame)]
  /\ now \in Nat /\ readable \subseteq HasFd

\* A new context, and sources as xsource_new returns them.
Init ==
  /\ mutex = None
  /\ owner = None /\ owner_count = 0 /\ waiters = <<>> /\ asleep = {}
  /\ pending_dispatches = <<>>
  /\ poll_records = {}
  /\ poll_changed = TRUE /\ wakeup = TRUE
  /\ flags = [s \in Sources |-> {"ACTIVE"}]
  /\ ready_time = [s \in Sources |-> Infinite]
  /\ ref_count = [s \in Sources |-> 1]
  /\ revents = {} /\ attached = {} /\ place = [s \in Sources |-> 0] /\ app_ref = Sources
  /\ is_running = [l \in Loops |-> FALSE]
  /\ stack = [t \in Threads |-> <<>>]
  /\ now = 0 /\ readable = {}

-----------------------------------------------------------------------------
Unlocked == mutex = None

Top(t) == stack[t][Len(stack[t])]
At(t, label) == stack[t] # <<>> /\ Top(t).pc = label
SetTop(t, frame) == stack' = [stack EXCEPT ![t][Len(stack[t])] = frame]
Goto(t, label) == SetTop(t, [Top(t) EXCEPT !.pc = label])
Push(t, frame) == stack' = [stack EXCEPT ![t] = Append(@, frame)]
Pop(t) == stack' = [stack EXCEPT ![t] = SubSeq(@, 1, Len(@) - 1)]

\* A thread runs the application's code outside of the context, or in a callback.
InApplication(t) == stack[t] = <<>> \/ At(t, "callback")

\* A thread may use a source it has a reference to, its own or the one the
\* dispatch holds.
Holds(t, s) == s \in app_ref /\ Holder[s] = t
Usable(t, s) == Holds(t, s) \/ (At(t, "callback") /\ Top(t).source = s)

Active(s) == "ACTIVE" \in flags[s]
Blocked(s) == "BLOCKED" \in flags[s]
Ready(s) == "READY" \in flags[s]
Visible(s) == Active(s) /\ ~Blocked(s)
Due(s, t) == ready_time[s] # Infinite /\ ready_time[s] <= t

\* The time xmain_context_prepare and xmain_context_check compare with.
Clock(t) == IF Top(t).time = NotFresh THEN now ELSE Top(t).time

Bit(b) == IF b THEN 1 ELSE 0

\* xslist_remove, of a thread that is in the list at most once.
Without(seq, x) ==
  LET at == CHOOSE k \in DOMAIN seq : seq[k] = x
  IN  IF \A k \in DOMAIN seq : seq[k] # x THEN seq
      ELSE [k \in 1..Len(seq) - 1 |-> IF k < at THEN seq[k] ELSE seq[k + 1]]

\* xsource_unref_internal.  A source whose count becomes 0 is removed from its
\* list and freed.  It has been destroyed, so it has no callback left, and it
\* has no finalize function: the mutex stays held.
Unref(s) == ref_count' = [ref_count EXCEPT ![s] = @ - 1]

\* source_lists, concatenated: the sources that are not freed, by priority and
\* then in the order in which source_add_to_context appended them.
Listed == {s \in attached : ref_count[s] > 0}
Before(x, y) ==
  Priority[x] < Priority[y] \/ (Priority[x] = Priority[y] /\ place[x] < place[y])

\* xmain_context_add_poll_unlocked and xmain_context_remove_poll_unlocked for
\* the descriptor of s, if it has one.
AddPoll(s) ==
  IF s \in HasFd
  THEN /\ revents' = revents \ {s}
       /\ poll_records' = poll_records \cup {s}
       /\ poll_changed' = TRUE /\ wakeup' = TRUE
  ELSE UNCHANGED <<revents, poll_records, poll_changed, wakeup>>

RemovePoll(s) ==
  IF s \in HasFd
  THEN /\ poll_records' = poll_records \ {s}
       /\ poll_changed' = TRUE /\ wakeup' = TRUE
  ELSE UNCHANGED <<poll_records, poll_changed, wakeup>>

-----------------------------------------------------------------------------
(***************************************************************************)
(* Operations on sources, from any thread.                                 *)
(***************************************************************************)
\* source_add_to_context puts it behind the others of its priority.
xsource_attach(t, s) ==
  /\ InApplication(t) /\ Unlocked
  /\ Holds(t, s) /\ s \notin attached /\ Active(s)
  /\ attached' = attached \cup {s}
  /\ ref_count' = [ref_count EXCEPT ![s] = @ + 1]
  /\ place' = [place EXCEPT ![s] = Cardinality({x \in attached : Priority[x] = Priority[s]})]
  /\ poll_records' = poll_records \cup ({s} \cap HasFd)
  /\ revents' = revents \ {s}
  /\ poll_changed' = (poll_changed \/ s \in HasFd)
  /\ wakeup' = (wakeup \/ s \in HasFd \/ owner \notin {None, t})
  /\ UNCHANGED <<mutex, ownvars, flags, ready_time, app_ref,
                 pending_dispatches, is_running, stack, envvars>>

\* The first half of xsource_destroy_internal: the callback data is released
\* with the mutex unlocked.
xsource_destroy(t, s) ==
  /\ InApplication(t) /\ Unlocked
  /\ Usable(t, s) /\ Active(s)
  /\ Len(stack[t]) < MaxDepth[t]
  /\ flags' = [flags EXCEPT ![s] = @ \ {"ACTIVE"}]
  /\ IF s \in attached
     THEN Push(t, [NewFrame("destroying") EXCEPT !.source = s])
     ELSE UNCHANGED stack
  /\ UNCHANGED <<mutex, ownvars, ready_time, ref_count, revents, attached, place, app_ref,
                 pollvars, pending_dispatches, is_running, envvars>>

\* The second half: the descriptors of a source that is not blocked are no
\* longer polled, and the context's reference is dropped.
DestroyEnds(t) ==
  LET s == Top(t).source
  IN  /\ At(t, "destroying") /\ Unlocked
      /\ IF Blocked(s) THEN UNCHANGED <<poll_records, poll_changed, wakeup>>
                       ELSE RemovePoll(s)
      /\ Unref(s)
      /\ Pop(t)
      /\ UNCHANGED <<mutex, ownvars, flags, ready_time, revents, attached, place, app_ref,
                     pending_dispatches, is_running, envvars>>

\* The application drops its reference.
xsource_unref(t, s) ==
  /\ InApplication(t) /\ Unlocked
  /\ Holds(t, s)
  /\ app_ref' = app_ref \ {s}
  /\ Unref(s)
  /\ UNCHANGED <<mutex, ownvars, flags, ready_time, revents, attached, place, pollvars,
                 pending_dispatches, is_running, stack, envvars>>

\* The new time is left to the next iteration.
Bug_TimeWithoutWakeup(t, s, at) ==
  /\ InApplication(t) /\ Unlocked
  /\ Usable(t, s) /\ ready_time[s] # at
  /\ ready_time' = [ready_time EXCEPT ![s] = at]
  /\ UNCHANGED <<mutex, ownvars, flags, ref_count, revents, attached, place, app_ref,
                 pollvars, pending_dispatches, is_running, stack, envvars>>

xsource_set_ready_time(t, s, at) ==
  /\ InApplication(t) /\ Unlocked
  /\ Usable(t, s) /\ ready_time[s] # at
  /\ ready_time' = [ready_time EXCEPT ![s] = at]
  /\ wakeup' = (wakeup \/ (s \in attached /\ ~Blocked(s)))
  /\ UNCHANGED <<mutex, ownvars, flags, ref_count, revents, attached, place, app_ref,
                 poll_records, poll_changed, pending_dispatches, is_running, stack, envvars>>

\* xmain_context_wakeup takes no lock.
xmain_context_wakeup(t) ==
  /\ InApplication(t)
  /\ wakeup' = TRUE
  /\ UNCHANGED <<mutex, ownvars, srcvars, poll_records, poll_changed,
                 pending_dispatches, is_running, stack, envvars>>

-----------------------------------------------------------------------------
(***************************************************************************)
(* Ownership of the context.                                               *)
(***************************************************************************)
\* The common end of xmain_context_acquire and xmain_context_wait_internal.
MayOwn(t) == owner \in {None, t}
TakeOwnership(t) == owner' = t /\ owner_count' = owner_count + 1

\* Thread t appends itself to the waiters and sleeps on context->cond.
Sleep(t) == waiters' = Append(waiters, t) /\ asleep' = asleep \cup {t}

\* g_cond_signal wakes one of the threads that sleep, whichever it is.
Signal ==
  \/ asleep = {} /\ UNCHANGED asleep
  \/ \E w \in asleep : asleep' = asleep \ {w}

\* xmain_context_release: the last release signals the first waiter's cond.
xmain_context_release(t) ==
  /\ owner_count' = owner_count - 1
  /\ IF owner_count # 1
     THEN UNCHANGED <<owner, waiters, asleep>>
     ELSE /\ owner' = None
          /\ IF waiters = <<>>
             THEN UNCHANGED <<waiters, asleep>>
             ELSE waiters' = Tail(waiters) /\ Signal

-----------------------------------------------------------------------------
(***************************************************************************)
(* xmain_loop_run and xmain_loop_quit.                                     *)
(***************************************************************************)
CanCall(t, what) ==
  what \in Calls[t] /\ InApplication(t) /\ Unlocked /\ Len(stack[t]) < MaxDepth[t]

\* The call, with its xmain_context_acquire.
xmain_loop_run(t, l) ==
  /\ CanCall(t, "run")
  /\ LET frame(label) == [NewFrame(label) EXCEPT !.loop = l]
     IN  IF MayOwn(t)
         THEN TakeOwnership(t) /\ Push(t, frame("loopStart"))
         ELSE Push(t, frame("loopWait")) /\ UNCHANGED <<owner, owner_count>>
  /\ UNCHANGED <<mutex, waiters, asleep, srcvars, pollvars, pending_dispatches,
                 is_running, envvars>>

\* The prepare and check functions of sources do not run loops themselves, so
\* in_check_or_prepare is 0 here.
LoopStart(t) ==
  /\ At(t, "loopStart") /\ Unlocked
  /\ is_running' = [is_running EXCEPT ![Top(t).loop] = TRUE]
  /\ Goto(t, "acquire")
  /\ UNCHANGED <<mutex, ownvars, srcvars, pollvars, pending_dispatches, envvars>>

\* The first xmain_context_wait_internal of a loop whose context another thread
\* owned.
LoopWait(t) ==
  /\ At(t, "loopWait") /\ Unlocked
  /\ is_running' = [is_running EXCEPT ![Top(t).loop] = TRUE]
  /\ IF MayOwn(t)
     THEN TakeOwnership(t) /\ Goto(t, "acquire") /\ UNCHANGED <<waiters, asleep>>
     ELSE Sleep(t) /\ Goto(t, "loopAsleep") /\ UNCHANGED <<owner, owner_count>>
  /\ UNCHANGED <<mutex, srcvars, pollvars, pending_dispatches, envvars>>

\* Woken: the thread takes ownership if it can; a loop that was quit returns,
\* and one that still runs and got nothing waits again.
LoopWoken(t) ==
  LET running == is_running[Top(t).loop]
  IN  /\ At(t, "loopAsleep") /\ t \notin asleep /\ Unlocked
      /\ IF MayOwn(t)
         THEN /\ TakeOwnership(t)
              /\ waiters' = Without(waiters, t) /\ UNCHANGED asleep
              /\ Goto(t, IF running THEN "acquire" ELSE "loopRelease")
         ELSE /\ UNCHANGED <<owner, owner_count>>
              /\ IF running
                 THEN /\ waiters' = Append(Without(waiters, t), t)
                      /\ asleep' = asleep \cup {t}
                      /\ UNCHANGED stack
                 ELSE /\ waiters' = Without(waiters, t)
                      /\ UNCHANGED asleep
                      /\ Pop(t)
      /\ UNCHANGED <<mutex, srcvars, pollvars, pending_dispatches, is_running, envvars>>

LoopTest(t) ==
  /\ At(t, "loopTest") /\ Unlocked
  /\ IF is_running[Top(t).loop]
     THEN SetTop(t, [Top(t) EXCEPT !.pc = "acquire", !.block = TRUE])
     ELSE Goto(t, "loopRelease")
  /\ UNCHANGED <<mutex, ownvars, srcvars, pollvars, pending_dispatches, is_running, envvars>>

LoopRelease(t) ==
  /\ At(t, "loopRelease") /\ Unlocked
  /\ xmain_context_release(t)
  /\ Pop(t)
  /\ UNCHANGED <<mutex, srcvars, pollvars, pending_dispatches, is_running, envvars>>

\* Only the poll is woken.
Bug_QuitWithoutBroadcast(t, l) ==
  /\ InApplication(t) /\ Unlocked
  /\ is_running' = [is_running EXCEPT ![l] = FALSE]
  /\ wakeup' = TRUE
  /\ UNCHANGED <<mutex, ownvars, srcvars, poll_records, poll_changed,
                 pending_dispatches, stack, envvars>>

xmain_loop_quit(t, l) ==
  /\ InApplication(t) /\ Unlocked
  /\ is_running' = [is_running EXCEPT ![l] = FALSE]
  /\ wakeup' = TRUE
  /\ asleep' = {}
  /\ UNCHANGED <<mutex, owner, owner_count, waiters, srcvars, poll_records,
                 poll_changed, pending_dispatches, stack, envvars>>

-----------------------------------------------------------------------------
(***************************************************************************)
(* xmain_context_iterate.                                                  *)
(***************************************************************************)
xmain_context_iteration(t, may_block) ==
  /\ CanCall(t, "iterate")
  /\ Push(t, [NewFrame("acquire") EXCEPT !.block = may_block])
  /\ UNCHANGED <<mutex, ownvars, srcvars, pollvars, pending_dispatches, is_running, envvars>>

xmain_context_pending(t) ==
  /\ CanCall(t, "pending") /\ Len(stack[t]) <= MayPend
  /\ Push(t, [NewFrame("acquire") EXCEPT !.block = FALSE, !.dispatch = FALSE])
  /\ UNCHANGED <<mutex, ownvars, srcvars, pollvars, pending_dispatches, is_running, envvars>>

xmain_context_acquire(t) ==
  /\ At(t, "acquire") /\ Unlocked
  /\ IF MayOwn(t)
     THEN TakeOwnership(t) /\ Goto(t, "prepare")
     ELSE /\ UNCHANGED <<owner, owner_count>>
          /\ IF Top(t).block THEN Goto(t, "wait") ELSE Pop(t)
  /\ UNCHANGED <<mutex, waiters, asleep, srcvars, pollvars, pending_dispatches,
                 is_running, envvars>>

xmain_context_wait_internal(t) ==
  /\ At(t, "wait") /\ Unlocked
  /\ IF MayOwn(t)
     THEN TakeOwnership(t) /\ Goto(t, "prepare") /\ UNCHANGED <<waiters, asleep>>
     ELSE Sleep(t) /\ Goto(t, "asleep") /\ UNCHANGED <<owner, owner_count>>
  /\ UNCHANGED <<mutex, srcvars, pollvars, pending_dispatches, is_running, envvars>>

\* A woken thread takes the context for granted.
Bug_WokenOwns(t) ==
  /\ At(t, "asleep") /\ t \notin asleep /\ Unlocked
  /\ waiters' = Without(waiters, t)
  /\ TakeOwnership(t) /\ Goto(t, "prepare")
  /\ UNCHANGED <<mutex, asleep, srcvars, pollvars, pending_dispatches, is_running, envvars>>

\* Woken, the thread tries once more to become the owner.
Woken(t) ==
  /\ At(t, "asleep") /\ t \notin asleep /\ Unlocked
  /\ waiters' = Without(waiters, t)
  /\ IF MayOwn(t) THEN TakeOwnership(t) /\ Goto(t, "prepare")
                  ELSE Pop(t) /\ UNCHANGED <<owner, owner_count>>
  /\ UNCHANGED <<mutex, asleep, srcvars, pollvars, pending_dispatches, is_running, envvars>>

\* xsource_iter_next: the source behind the one the iterator stands at, which
\* the iterator's reference keeps in the list.
IterNext(s) ==
  LET rest == {x \in Listed : s = None \/ Before(s, x)}
  IN  IF rest = {} THEN None ELSE CHOOSE x \in rest : \A y \in rest \ {x} : Before(x, y)

\* The iterator moves from one source to the next, and may free the first.
IterMove(from, to) ==
  ref_count' = [s \in Sources |-> ref_count[s] + Bit(s = to) - Bit(s = from)]

(***************************************************************************)
(* xmain_context_prepare.                                                  *)
(***************************************************************************)
\* The references of the dropped dispatches stay.
Bug_DropsWithoutUnref(t) ==
  /\ At(t, "prepare") /\ Unlocked
  /\ mutex' = t
  /\ pending_dispatches' = <<>>
  /\ SetTop(t, [Top(t) EXCEPT !.pc = "prepareNext", !.timeout = Infinite])
  /\ UNCHANGED <<ownvars, srcvars, pollvars, is_running, envvars>>

\* The dispatches left over from an interrupted iteration are dropped.
xmain_context_prepare(t) ==
  /\ At(t, "prepare") /\ Unlocked
  /\ mutex' = t
  /\ ref_count' = [s \in Sources |-> ref_count[s] -
             Cardinality({k \in DOMAIN pending_dispatches : pending_dispatches[k] = s})]
  /\ pending_dispatches' = <<>>
  /\ SetTop(t, [Top(t) EXCEPT !.pc = "prepareNext", !.timeout = Infinite])
  /\ UNCHANGED <<ownvars, flags, ready_time, revents, attached, place, app_ref, poll_records,
                 poll_changed, wakeup, is_running, envvars>>

\* Source s is ready: a source of lower priority ends the loop.
FoundReady(t, s) ==
  [Top(t) EXCEPT !.pc = "prepareNext", !.source = s, !.timeout = 0,
                 !.n_ready = TRUE, !.max_priority = Priority[s]]

\* The clock is read once, for the first source with a ready time.
SampledTime(t, s) ==
  IF s \in Idle \/ ready_time[s] = Infinite THEN Top(t).time ELSE Clock(t)

\* The poll must end when the source becomes ready.
EarlierTimeout(timeout, s, at) ==
  IF ready_time[s] = Infinite \/ (timeout # Infinite /\ timeout <= ready_time[s] - at)
  THEN timeout ELSE ready_time[s] - at

PrepareEnds(t) ==
  LET s == IterNext(Top(t).source)
  IN  /\ At(t, "prepareNext") /\ mutex = t
      /\ \/ s = None
         \/ /\ s # None /\ Visible(s)
            /\ Top(t).n_ready /\ Priority[s] > Top(t).max_priority
      /\ IterMove(Top(t).source, None)
      /\ mutex' = None
      /\ SetTop(t, [Top(t) EXCEPT !.pc = "query", !.source = None])
      /\ UNCHANGED <<ownvars, flags, ready_time, revents, attached, place, app_ref, pollvars,
                     pending_dispatches, is_running, envvars>>

\* The next source of the list is prepared; the prepare function of an idle
\* source is called with the mutex released.
PrepareNext(t) ==
  LET s == IterNext(Top(t).source)
  IN  /\ At(t, "prepareNext") /\ mutex = t
      /\ s # None
      /\ Visible(s) /\ Top(t).n_ready => Priority[s] <= Top(t).max_priority
      /\ IterMove(Top(t).source, s)
      /\ \/ /\ ~Visible(s)
            /\ SetTop(t, [Top(t) EXCEPT !.source = s])
            /\ UNCHANGED <<mutex, flags>>
         \/ /\ Visible(s) /\ Ready(s)
            /\ SetTop(t, FoundReady(t, s))
            /\ UNCHANGED <<mutex, flags>>
         \/ /\ Visible(s) /\ ~Ready(s) /\ s \in Idle
            /\ SetTop(t, [Top(t) EXCEPT !.pc = "inPrepare", !.source = s])
            /\ mutex' = None
            /\ UNCHANGED flags
         \/ /\ Visible(s) /\ ~Ready(s) /\ s \notin Idle /\ Due(s, Clock(t))
            /\ SetTop(t, [FoundReady(t, s) EXCEPT !.time = Clock(t)])
            /\ flags' = [flags EXCEPT ![s] = @ \cup {"READY"}]
            /\ UNCHANGED mutex
         \/ /\ Visible(s) /\ ~Ready(s) /\ s \notin Idle /\ ~Due(s, Clock(t))
            /\ SetTop(t, [Top(t) EXCEPT !.source = s, !.time = SampledTime(t, s),
                                        !.timeout = EarlierTimeout(@, s, Clock(t))])
            /\ UNCHANGED <<mutex, flags>>
      /\ UNCHANGED <<ownvars, ready_time, revents, attached, place, app_ref, poll_records,
                     poll_changed, wakeup, pending_dispatches, is_running, envvars>>

\* g_idle_prepare returns TRUE.
PrepareReturns(t) ==
  LET s == Top(t).source
  IN  /\ At(t, "inPrepare") /\ Unlocked
      /\ mutex' = t
      /\ flags' = [flags EXCEPT ![s] = @ \cup {"READY"}]
      /\ SetTop(t, FoundReady(t, s))
      /\ UNCHANGED <<ownvars, ready_time, ref_count, revents, attached, place, app_ref,
                     pollvars, pending_dispatches, is_running, envvars>>

(***************************************************************************)
(* xmain_context_query, xmain_context_poll and xmain_context_check.        *)
(***************************************************************************)
\* The clock stops at MaxTime, and a later deadline with it.
xmain_context_query(t) ==
  LET block_for == IF Top(t).block THEN Top(t).timeout ELSE 0
  IN  /\ At(t, "query") /\ Unlocked
      /\ SetTop(t, [Top(t) EXCEPT
                      !.pc = "poll",
                      !.fds = {s \in poll_records : Priority[s] <= Top(t).max_priority}
                                \cup (IF 0 <= Top(t).max_priority THEN {Wake} ELSE {}),
                      !.deadline = IF block_for = Infinite THEN Infinite
                                   ELSE IF now + block_for > MaxTime THEN MaxTime
                                   ELSE now + block_for,
                      !.timeout = 0, !.block = FALSE,
                      !.time = IF Top(t).timeout # 0 THEN NotFresh ELSE @])
      /\ poll_changed' = FALSE
      /\ UNCHANGED <<mutex, ownvars, srcvars, poll_records, wakeup,
                     pending_dispatches, is_running, envvars>>

PollReady(frame) == (frame.fds \cap readable) \cup (IF wakeup THEN frame.fds \cap {Wake} ELSE {})

\* The poll ends when a descriptor is ready or its time is over.
xmain_context_poll(t) ==
  /\ At(t, "poll")
  /\ \/ PollReady(Top(t)) # {}
     \/ Top(t).deadline # Infinite /\ Top(t).deadline <= now
  /\ SetTop(t, [Top(t) EXCEPT !.pc = "check", !.revents = PollReady(Top(t)), !.deadline = 0])
  /\ UNCHANGED <<mutex, ownvars, srcvars, pollvars, pending_dispatches, is_running, envvars>>

\* Or when a signal interrupts it: no descriptor is reported.
PollInterrupted(t) ==
  /\ At(t, "poll")
  /\ SetTop(t, [Top(t) EXCEPT !.pc = "check", !.revents = {}, !.deadline = 0])
  /\ UNCHANGED <<mutex, ownvars, srcvars, pollvars, pending_dispatches, is_running, envvars>>

\* Where an iteration goes on once it has checked the sources.
CheckDone(t) ==
  SetTop(t, [Top(t) EXCEPT !.pc = IF Top(t).dispatch THEN "dispatch" ELSE "release",
                           !.dispatch = TRUE, !.source = None, !.n_ready = FALSE,
                           !.max_priority = MaxInt, !.time = NotFresh,
                           !.fds = {}, !.revents = {}])

\* The wakeup is acknowledged; a change of the polled descriptors ends the
\* check, and otherwise the result of the poll is noted for every descriptor.
xmain_context_check(t) ==
  /\ At(t, "check") /\ Unlocked
  /\ wakeup' = (wakeup /\ Wake \notin Top(t).revents)
  /\ IF poll_changed
     THEN CheckDone(t) /\ UNCHANGED <<mutex, revents>>
     ELSE /\ mutex' = t
          /\ revents' = (revents \ Top(t).fds) \cup (Top(t).revents \ {Wake})
          /\ SetTop(t, [Top(t) EXCEPT !.pc = "checkNext", !.source = None,
                                      !.n_ready = FALSE, !.fds = {}, !.revents = {}])
  /\ UNCHANGED <<ownvars, flags, ready_time, ref_count, attached, place, app_ref,
                 poll_records, poll_changed, pending_dispatches, is_running, envvars>>

CheckEnds(t) ==
  LET s == IterNext(Top(t).source)
  IN  /\ At(t, "checkNext") /\ mutex = t
      /\ \/ s = None
         \/ /\ s # None /\ Visible(s)
            /\ Top(t).n_ready /\ Priority[s] > Top(t).max_priority
      /\ IterMove(Top(t).source, None)
      /\ mutex' = None
      /\ CheckDone(t)
      /\ UNCHANGED <<ownvars, flags, ready_time, revents, attached, place, app_ref, pollvars,
                     pending_dispatches, is_running, envvars>>

\* A ready source is queued with a reference of its own.
QueueDispatch(t, s) ==
  /\ pending_dispatches' = Append(pending_dispatches, s)
  /\ SetTop(t, [Top(t) EXCEPT !.pc = "checkNext", !.source = s,
                              !.n_ready = TRUE, !.max_priority = Priority[s]])

CheckNext(t) ==
  LET s == IterNext(Top(t).source)
      ready == Ready(s) \/ (s \notin Idle /\ (s \in revents \/ Due(s, Clock(t))))
  IN  /\ At(t, "checkNext") /\ mutex = t
      /\ s # None
      /\ Visible(s) /\ Top(t).n_ready => Priority[s] <= Top(t).max_priority
      /\ \/ /\ ~Visible(s)
            /\ IterMove(Top(t).source, s)
            /\ SetTop(t, [Top(t) EXCEPT !.source = s])
            /\ UNCHANGED <<mutex, flags, pending_dispatches>>
         \/ /\ Visible(s) /\ ~Ready(s) /\ s \in Idle
            /\ IterMove(Top(t).source, s)
            /\ SetTop(t, [Top(t) EXCEPT !.pc = "inCheck", !.source = s])
            /\ mutex' = None
            /\ UNCHANGED <<flags, pending_dispatches>>
         \/ /\ Visible(s) /\ (Ready(s) \/ s \notin Idle)
            /\ IF ready
               THEN /\ flags' = [flags EXCEPT ![s] = @ \cup {"READY"}]
                    /\ QueueDispatch(t, s)
                    /\ ref_count' = [x \in Sources |-> ref_count[x] + 2 * Bit(x = s)
                                                         - Bit(x = Top(t).source)]
               ELSE /\ IterMove(Top(t).source, s)
                    /\ SetTop(t, [Top(t) EXCEPT !.source = s, !.time = SampledTime(t, s)])
                    /\ UNCHANGED <<flags, pending_dispatches>>
            /\ UNCHANGED mutex
      /\ UNCHANGED <<ownvars, ready_time, revents, attached, place, app_ref, poll_records,
                     poll_changed, wakeup, is_running, envvars>>

\* g_idle_check returns TRUE.
CheckReturns(t) ==
  LET s == Top(t).source
  IN  /\ At(t, "inCheck") /\ Unlocked
      /\ mutex' = t
      /\ flags' = [flags EXCEPT ![s] = @ \cup {"READY"}]
      /\ QueueDispatch(t, s)
      /\ ref_count' = [ref_count EXCEPT ![s] = @ + 1]
      /\ UNCHANGED <<ownvars, ready_time, revents, attached, place, app_ref, pollvars,
                     is_running, envvars>>

(***************************************************************************)
(* xmain_context_dispatch.                                                 *)
(***************************************************************************)
xmain_context_dispatch(t) ==
  /\ At(t, "dispatch") /\ Unlocked
  /\ IF pending_dispatches = <<>>
     THEN Goto(t, "release") /\ UNCHANGED mutex
     ELSE SetTop(t, [Top(t) EXCEPT !.pc = "dispatchNext", !.i = 0]) /\ mutex' = t
  /\ UNCHANGED <<ownvars, srcvars, pollvars, pending_dispatches, is_running, envvars>>

DispatchEnds(t) ==
  /\ At(t, "dispatchNext") /\ mutex = t
  /\ Top(t).i >= Len(pending_dispatches)
  /\ pending_dispatches' = <<>>
  /\ SetTop(t, [Top(t) EXCEPT !.pc = "release", !.i = 0])
  /\ mutex' = None
  /\ UNCHANGED <<ownvars, srcvars, pollvars, is_running, envvars>>

\* The source is not blocked for the time of its dispatch.
Bug_NeverBlocks(t) ==
  LET k == Top(t).i + 1
      s == pending_dispatches[k]
  IN  /\ At(t, "dispatchNext") /\ mutex = t
      /\ k <= Len(pending_dispatches)
      /\ pending_dispatches' = [pending_dispatches EXCEPT ![k] = None]
      /\ flags' = [flags EXCEPT ![s] = @ \ {"READY"}]
      /\ IF ~Active(s)
         THEN /\ SetTop(t, [Top(t) EXCEPT !.i = k])
              /\ Unref(s)
              /\ UNCHANGED mutex
         ELSE /\ SetTop(t, [Top(t) EXCEPT !.pc = "callback", !.source = s, !.i = k])
              /\ mutex' = None
              /\ UNCHANGED ref_count
      /\ UNCHANGED <<ownvars, ready_time, revents, attached, place, app_ref, pollvars,
                     is_running, envvars>>

\* The next entry of pending_dispatches: a source destroyed since it was
\* queued is only released; another one is blocked, unless it can recurse,
\* and its dispatch function is called with the mutex released.
g_main_dispatch(t) ==
  LET k == Top(t).i + 1
      s == pending_dispatches[k]
  IN  /\ At(t, "dispatchNext") /\ mutex = t
      /\ k <= Len(pending_dispatches)
      /\ pending_dispatches' = [pending_dispatches EXCEPT ![k] = None]
      /\ IF ~Active(s)
         THEN /\ flags' = [flags EXCEPT ![s] = @ \ {"READY"}]
              /\ SetTop(t, [Top(t) EXCEPT !.i = k])
              /\ Unref(s)
              /\ UNCHANGED <<mutex, poll_records, poll_changed, wakeup>>
         ELSE /\ flags' = [flags EXCEPT ![s] =
                             (@ \ {"READY"}) \cup (IF s \in CanRecurse THEN {} ELSE {"BLOCKED"})]
              /\ IF s \in CanRecurse THEN UNCHANGED <<poll_records, poll_changed, wakeup>>
                                     ELSE RemovePoll(s)
              /\ SetTop(t, [Top(t) EXCEPT !.pc = "callback", !.source = s, !.i = k])
              /\ mutex' = None
              /\ UNCHANGED ref_count
      /\ UNCHANGED <<ownvars, ready_time, revents, attached, place, app_ref,
                     is_running, envvars>>

\* A source destroyed by its own callback is unblocked too.
Bug_UnblocksDestroyed(t, need_destroy) ==
  LET s == Top(t).source
      destroy == need_destroy /\ Active(s)
  IN  /\ At(t, "callback") /\ Unlocked
      /\ flags' = [flags EXCEPT ![s] =
                     @ \ ({"BLOCKED"} \cup (IF destroy THEN {"ACTIVE"} ELSE {}))]
      /\ IF Blocked(s) THEN AddPoll(s)
                       ELSE UNCHANGED <<revents, poll_records, poll_changed, wakeup>>
      /\ IF destroy
         THEN Goto(t, "needDestroy") /\ UNCHANGED <<mutex, ref_count>>
         ELSE /\ SetTop(t, [Top(t) EXCEPT !.pc = "dispatchNext", !.source = None])
              /\ Unref(s)
              /\ mutex' = t
      /\ UNCHANGED <<ownvars, ready_time, attached, place, app_ref,
                     pending_dispatches, is_running, envvars>>

\* The dispatch function returns: the source is unblocked, and destroyed if the
\* function asked for it (need_destroy) and nobody did it meanwhile.
CallbackReturns(t, need_destroy) ==
  LET s == Top(t).source
      unblock == Blocked(s) /\ Active(s)
      destroy == need_destroy /\ Active(s)
  IN  /\ At(t, "callback") /\ Unlocked
      /\ flags' = [flags EXCEPT ![s] =
                     @ \ ((IF unblock THEN {"BLOCKED"} ELSE {})
                            \cup (IF destroy THEN {"ACTIVE"} ELSE {}))]
      /\ IF unblock THEN AddPoll(s)
                    ELSE UNCHANGED <<revents, poll_records, poll_changed, wakeup>>
      /\ IF destroy
         THEN Goto(t, "needDestroy") /\ UNCHANGED <<mutex, ref_count>>
         ELSE /\ SetTop(t, [Top(t) EXCEPT !.pc = "dispatchNext", !.source = None])
              /\ Unref(s)
              /\ mutex' = t
      /\ UNCHANGED <<ownvars, ready_time, attached, place, app_ref,
                     pending_dispatches, is_running, envvars>>

\* The second half of the xsource_destroy_internal of g_main_dispatch, and the
\* release of the dispatched source.
NeedDestroyEnds(t) ==
  LET s == Top(t).source
  IN  /\ At(t, "needDestroy") /\ Unlocked
      /\ mutex' = t
      /\ IF Blocked(s) THEN UNCHANGED <<poll_records, poll_changed, wakeup>>
                       ELSE RemovePoll(s)
      /\ ref_count' = [ref_count EXCEPT ![s] = @ - 2]
      /\ SetTop(t, [Top(t) EXCEPT !.pc = "dispatchNext", !.source = None])
      /\ UNCHANGED <<ownvars, flags, ready_time, revents, attached, place, app_ref,
                     pending_dispatches, is_running, envvars>>

\* The end of xmain_context_iterate.
IterateReleases(t) ==
  /\ At(t, "release") /\ Unlocked
  /\ xmain_context_release(t)
  /\ IF Top(t).loop # None THEN Goto(t, "loopTest") ELSE Pop(t)
  /\ UNCHANGED <<mutex, srcvars, pollvars, pending_dispatches, is_running, envvars>>

-----------------------------------------------------------------------------
(***************************************************************************)
(* The world: time passes, descriptors become readable, the callback of a  *)
(* source reads what there is, and a wait on context->cond ends by itself. *)
(***************************************************************************)
TimePasses ==
  /\ now < MaxTime
  /\ now' = now + 1
  /\ UNCHANGED <<mutex, ownvars, srcvars, pollvars, pending_dispatches, is_running, stack,
                 readable>>

\* Data that is there before the source is attached is data that arrives then,
\* and nobody looks for that of a destroyed source.
DataArrives(s) ==
  /\ s \in HasFd \ readable /\ s \in attached /\ Active(s)
  /\ readable' = readable \cup {s}
  /\ UNCHANGED <<mutex, ownvars, srcvars, pollvars, pending_dispatches, is_running, stack, now>>

ReadData(t) ==
  /\ At(t, "callback") /\ Top(t).source \in readable
  /\ readable' = readable \ {Top(t).source}
  /\ UNCHANGED <<mutex, ownvars, srcvars, pollvars, pending_dispatches, is_running, stack, now>>

SpuriousWakeup(t) ==
  /\ t \in asleep
  /\ asleep' = asleep \ {t}
  /\ UNCHANGED <<mutex, owner, owner_count, waiters, srcvars, pollvars, pending_dispatches,
                 is_running, stack, envvars>>

\* A step of the library in thread t: one that begins with the mutex, one inside
\* it, or the poll.
Library(t) ==
  \/ /\ stack[t] # <<>> /\ Unlocked
     /\ \/ DestroyEnds(t)
        \/ LoopStart(t) \/ LoopWait(t) \/ LoopWoken(t) \/ LoopTest(t) \/ LoopRelease(t)
        \/ xmain_context_acquire(t) \/ xmain_context_wait_internal(t) \/ Woken(t)
        \/ xmain_context_prepare(t) \/ PrepareReturns(t)
        \/ xmain_context_query(t) \/ xmain_context_check(t) \/ CheckReturns(t)
        \/ xmain_context_dispatch(t) \/ NeedDestroyEnds(t) \/ IterateReleases(t)
  \/ /\ mutex = t
     /\ \/ PrepareEnds(t) \/ PrepareNext(t) \/ CheckEnds(t) \/ CheckNext(t)
        \/ DispatchEnds(t) \/ g_main_dispatch(t)
  \/ xmain_context_poll(t)

\* A step the application chooses.
Application(t) ==
  /\ InApplication(t)
  /\ \/ \E s \in Sources : xsource_attach(t, s) \/ xsource_destroy(t, s) \/ xsource_unref(t, s)
     \/ \E s \in Sources \ Idle, at \in {Infinite} \cup ReadyTimes :
          xsource_set_ready_time(t, s, at)
     \/ xmain_context_wakeup(t)
     \/ \E l \in Loops : xmain_loop_run(t, l) \/ xmain_loop_quit(t, l)
     \/ \E may_block \in BOOLEAN : xmain_context_iteration(t, may_block)
     \/ xmain_context_pending(t)
     \/ ReadData(t)

Next ==
  \/ \E t \in Threads : \/ Library(t) \/ Application(t)
                        \/ PollInterrupted(t) \/ SpuriousWakeup(t)
                        \/ \E need_destroy \in BOOLEAN : CallbackReturns(t, need_destroy)
  \/ TimePasses
  \/ \E s \in HasFd : DataArrives(s)

Spec == Init /\ [][Next]_vars

-----------------------------------------------------------------------------
\* The frames of all threads, as pairs of a thread and a depth.
Frames == UNION {{<<t, d>> : d \in 1..Len(stack[t])} : t \in Threads}
FrameAt(f) == stack[f[1]][f[2]]

\* Frames inside xmain_context_iterate with the ownership taken.
Iterating == {"prepare", "prepareNext", "inPrepare", "query", "poll", "check", "checkNext",
              "inCheck", "dispatch", "dispatchNext", "callback", "needDestroy", "release"}

\* Two threads never prepare, poll, check or dispatch the context at the same
\* time, however acquisitions nest, fail, wait and are handed over: the
\* ownership taken and given back in xmain_context_acquire,
\* xmain_context_wait_internal and xmain_context_release is counted exactly.
SingleOwner ==
  /\ TypeOK
  /\ \A f \in Frames : FrameAt(f).pc \in Iterating => f[1] = owner
  /\ owner_count =
       Cardinality({f \in Frames : FrameAt(f).pc \in Iterating})
         + Cardinality({f \in Frames : FrameAt(f).loop # None
                          /\ FrameAt(f).pc \notin {"loopWait", "loopAsleep"}})

\* A thread that blocks in poll has not missed anything: unless it has been
\* woken, no ready source exists, it polls every descriptor, its timeout is
\* finite if a source waits for a time, and its loop has not been quit
\* (the wakeups of xsource_attach, xsource_set_ready_time, xmain_loop_quit and
\* of the poll records, against the acknowledgement in xmain_context_check).
PollSeesAll ==
  \A t \in Threads :
    LET frame == Top(t)
    IN  At(t, "poll") /\ frame.deadline \notin 0..now /\ ~(wakeup /\ Wake \in frame.fds)
        => /\ frame.loop # None => is_running[frame.loop]
           /\ \A s \in attached :
                Visible(s) => /\ s \notin Idle
                              /\ ~Ready(s)
                              /\ s \in HasFd => s \in frame.fds
                              /\ ready_time[s] # Infinite => frame.deadline # Infinite

\* The window in which a source is destroyed but the context still has its
\* reference and its descriptors.
BeingDestroyed(s) ==
  \E f \in Frames : FrameAt(f).source = s /\ FrameAt(f).pc \in {"destroying", "needDestroy"}

\* Every reference to a source is accounted for: the application's, the
\* context's, one for each entry of pending_dispatches, one for a dispatch or
\* an iterator.  So a source is freed when the last of them goes, not before
\* and not never (xsource_unref_internal, g_main_dispatch, xsource_iter_next).
RefsExact ==
  \A s \in Sources :
    ref_count[s] =
      Bit(s \in app_ref)
      + Bit(s \in attached /\ (Active(s) \/ BeingDestroyed(s)))
      + Cardinality({k \in DOMAIN pending_dispatches : pending_dispatches[k] = s})
      + Cardinality({f \in Frames : FrameAt(f).source = s /\ FrameAt(f).pc # "destroying"})

\* A descriptor is polled exactly while its source is attached, not destroyed
\* and not blocked by a dispatch, so that no poll record outlives its source
\* (xsource_attach, xsource_destroy_internal, block_source, unblock_source).
PollRecordsExact ==
  poll_records = {s \in attached \cap HasFd : ~Blocked(s) /\ (Active(s) \/ BeingDestroyed(s))}

\* A source that cannot recurse is not dispatched again before its callback
\* returned, in this thread or another, nor left blocked when it is not
\* dispatched (block_source and unblock_source in g_main_dispatch).
NotReentered ==
  \A s \in attached \ CanRecurse :
    LET calls == {f \in Frames : FrameAt(f).source = s /\ FrameAt(f).pc = "callback"}
    IN  /\ Cardinality(calls) <= 1
        /\ Active(s) => (Blocked(s) <=> calls # {})

\* A thread that waits for the context is not forgotten: while nobody owns the
\* context, some thread is on its way to own it, or nobody sleeps
\* (the signal of xmain_context_release, the waiters it takes from the list).
WaitersServed ==
  owner = None => \/ asleep = {}
                  \/ \E t \in Threads \ asleep : At(t, "asleep") \/ At(t, "loopAsleep")

\* A loop that sleeps for the ownership of its context has not been quit
\* (xmain_loop_quit broadcasts context->cond).
QuitWakes ==
  \A t \in asleep : At(t, "loopAsleep") => is_running[Top(t).loop]
=============================================================================
