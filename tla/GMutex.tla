------------------------------- MODULE GMutex -------------------------------
(***************************************************************************)
(* The native (futex) implementation of xmutex_t and xcond_t in            *)
(* glib/gthread-posix.c.  One mutex and one condition variable are shared  *)
(* by Threads.  Every access to one of the two words and every futex       *)
(* system call is one step, so the model has all the interleavings of the  *)
(* lock, unlock, wait, signal and broadcast paths.                         *)
(*                                                                         *)
(* The kernel's futex is external: FUTEX_WAIT compares and sleeps          *)
(* atomically, FUTEX_WAKE wakes sleepers of its choice, and a sleep may    *)
(* also end by itself (a signal, or the timeout of g_cond_wait_until).     *)
(* The set of sleepers on a word is the set of threads whose pc says so.   *)
(***************************************************************************)
EXTENDS Naturals, FiniteSets

CONSTANTS
  Threads,      \* the threads that use the mutex and the condition variable
  GenSize,      \* number of values of the generation word cond->i[0] (2^32)
  MaxSignals    \* bound: how many signals and broadcasts are issued

ASSUME GMutexAssumption ==
  /\ IsFiniteSet(Threads)
  /\ GenSize \in Nat \ {0}
  /\ MaxSignals \in Nat
  /\ MaxSignals < GenSize     \* the generation word does not come round

VARIABLES
  mutex,     \* mutex->i[0]: 0 free, 1 held, > 1 held and contended
  cond,      \* cond->i[0]: the generation counter
  pc,        \* where each thread is in the code
  after,     \* where it continues when the call it makes returns
  sampled,   \* the local variable "sampled" of g_cond_wait
  owed       \* history: the waiters a running signal or broadcast owes a wakeup

vars == <<mutex, cond, pc, after, sampled, owed>>

(***************************************************************************)
(* Program points.                                                         *)
(*   idle     outside            crit     holds the mutex                  *)
(*   slow     in the loop of g_mutex_lock_slowpath, before the exchange    *)
(*   fwait    before FUTEX_WAIT on the mutex word                          *)
(*   msleep   asleep on the mutex word                                     *)
(*   mwake    in g_mutex_unlock_slowpath, before FUTEX_WAKE                *)
(*   cunlock  in g_cond_wait, generation sampled, mutex still held         *)
(*   cfwait   before FUTEX_WAIT on the generation word                     *)
(*   csleep   asleep on the generation word                                *)
(*   relock   before the g_mutex_lock that ends g_cond_wait                *)
(*   csignal, cbroadcast  generation incremented, before FUTEX_WAKE        *)
(*   aborted  g_abort: the mutex unlocked was not locked                   *)
(***************************************************************************)
PC == {"idle", "crit", "slow", "fwait", "msleep", "mwake", "cunlock",
       "cfwait", "csleep", "relock", "csignal", "cbroadcast", "aborted"}

\* The thread holds the mutex.
Holds(t) ==
  \/ pc[t] \in {"crit", "cunlock"}
  \/ pc[t] \in {"csignal", "cbroadcast"} /\ after[t] = "crit"

\* The thread is in g_cond_wait, has released the mutex and is asleep or on its
\* way to sleep, and nothing has told it yet to wake up again.
GoesToSleep(p, a) == p = "cfwait" \/ (p = "mwake" /\ a = "cfwait")

Blocked(t) ==
  \/ pc[t] = "csleep"
  \/ GoesToSleep(pc[t], after[t]) /\ sampled[t] = cond

Waiters == {t \in Threads : Blocked(t)}

Init ==
  /\ mutex = 0
  /\ cond = 0
  /\ pc = [t \in Threads |-> "idle"]
  /\ after = [t \in Threads |-> "idle"]
  /\ sampled = [t \in Threads |-> 0]
  /\ owed = [t \in Threads |-> {}]

Goto(t, label) == pc' = [pc EXCEPT ![t] = label]

-----------------------------------------------------------------------------
(***************************************************************************)
(* A definition named Bug_... is the definition it precedes with a mistake *)
(* in it.  No specification uses it: it shows which property would notice. *)
(***************************************************************************)

\* g_mutex_lock: the increment, and the fast path.
g_mutex_lock(t) ==
  /\ pc[t] \in {"idle", "relock"}
  /\ mutex' = mutex + 1
  /\ Goto(t, IF mutex = 0 THEN "crit" ELSE "slow")
  /\ UNCHANGED <<cond, after, sampled, owed>>

\* The exchange takes a word of 1 (held, not contended) for a free mutex.
Bug_ExchangeTakesHeld(t) ==
  /\ pc[t] = "slow"
  /\ mutex' = 2
  /\ Goto(t, IF mutex \in {0, 1} THEN "crit" ELSE "fwait")
  /\ UNCHANGED <<cond, after, sampled, owed>>

\* The slow path stores 1, so the holder is not told that others wait.
Bug_ExchangeWithOne(t) ==
  /\ pc[t] = "slow"
  /\ mutex' = 1
  /\ Goto(t, IF mutex = 0 THEN "crit" ELSE "fwait")
  /\ UNCHANGED <<cond, after, sampled, owed>>

\* One round of the loop of the slow path: exchange the word with 2.
g_mutex_lock_slowpath(t) ==
  /\ pc[t] = "slow"
  /\ mutex' = 2
  /\ Goto(t, IF mutex = 0 THEN "crit" ELSE "fwait")
  /\ UNCHANGED <<cond, after, sampled, owed>>

\* FUTEX_WAIT (2) on the mutex word in the slow path.
FutexWaitMutex(t) ==
  /\ pc[t] = "fwait"
  /\ Goto(t, IF mutex = 2 THEN "msleep" ELSE "slow")
  /\ UNCHANGED <<mutex, cond, after, sampled, owed>>

\* g_mutex_trylock when it succeeds (a failed one changes nothing).
g_mutex_trylock(t) ==
  /\ pc[t] = "idle"
  /\ mutex = 0
  /\ mutex' = 1
  /\ Goto(t, "crit")
  /\ UNCHANGED <<cond, after, sampled, owed>>

\* The unlock never calls its slow path.
Bug_UnlockNeverWakes(t) ==
  /\ pc[t] \in {"crit", "cunlock"}
  /\ mutex' = 0
  /\ Goto(t, IF pc[t] = "crit" THEN "idle" ELSE "cfwait")
  /\ UNCHANGED <<cond, after, sampled, owed>>

\* g_mutex_unlock, called by the holder or by g_cond_wait.
g_mutex_unlock(t) ==
  /\ pc[t] \in {"crit", "cunlock"}
  /\ LET next == IF pc[t] = "crit" THEN "idle" ELSE "cfwait"
     IN  /\ mutex' = 0
         /\ Goto(t, IF mutex = 1 THEN next
                    ELSE IF mutex = 0 THEN "aborted" ELSE "mwake")
         /\ after' = [after EXCEPT ![t] = next]
  /\ UNCHANGED <<cond, sampled, owed>>

\* FUTEX_WAKE (1) on the mutex word in the slow path of the unlock.
g_mutex_unlock_slowpath(t) ==
  /\ pc[t] = "mwake"
  /\ \/ /\ \E u \in Threads :
             /\ pc[u] = "msleep"
             /\ pc' = [pc EXCEPT ![u] = "slow", ![t] = after[t]]
     \/ /\ \A u \in Threads : pc[u] # "msleep"
        /\ Goto(t, after[t])
  /\ UNCHANGED <<mutex, cond, after, sampled, owed>>

-----------------------------------------------------------------------------
(***************************************************************************)
(* owed[s] is kept for the property ImplementsMonitor only.  When s bumps    *)
(* the generation it owes a wakeup to the waiters of that moment: to all   *)
(* of them for a broadcast, to any one of them for a signal.  FUTEX_WAKE   *)
(* may instead pick a thread that began to wait between the increment and  *)
(* the system call; that settles a signal given without the mutex, and     *)
(* cannot happen to one given with it.                                     *)
(***************************************************************************)
Settled(s, W) ==
  /\ pc[s] = "csignal"
  /\ IF after[s] = "crit" THEN owed[s] \cap W # {} ELSE W # {}

Woken(W) ==
  [s \in Threads |-> IF Settled(s, W) THEN {} ELSE owed[s] \ W]

\* g_cond_wait and g_cond_wait_until up to the call of g_mutex_unlock.
g_cond_wait(t) ==
  /\ pc[t] = "crit"
  /\ sampled' = [sampled EXCEPT ![t] = cond]
  /\ Goto(t, "cunlock")
  /\ UNCHANGED <<mutex, cond, after, owed>>

\* FUTEX_WAIT (sampled) on the generation word.
FutexWaitCond(t) ==
  /\ pc[t] = "cfwait"
  /\ Goto(t, IF cond = sampled[t] THEN "csleep" ELSE "relock")
  /\ UNCHANGED <<mutex, cond, after, sampled, owed>>

\* The signal makes the system call only and leaves the generation alone.
Bug_SignalWithoutBump(t, kind) ==
  /\ pc[t] \in {"idle", "crit"}
  /\ cond < MaxSignals
  /\ Goto(t, kind)
  /\ after' = [after EXCEPT ![t] = pc[t]]
  /\ UNCHANGED <<mutex, cond, sampled>>

\* The increment that begins g_cond_signal ("csignal") or g_cond_broadcast
\* ("cbroadcast"); the caller may or may not hold the mutex.
BumpGeneration(t, kind) ==
  /\ pc[t] \in {"idle", "crit"}
  /\ cond < MaxSignals
  /\ cond' = (cond + 1) % GenSize
  /\ Goto(t, kind)
  /\ after' = [after EXCEPT ![t] = pc[t]]
  /\ UNCHANGED <<mutex, sampled>>

g_cond_signal(t) ==
  /\ BumpGeneration(t, "csignal")
  /\ owed' = [owed EXCEPT ![t] =
                IF \A w \in Waiters : Blocked(w)' THEN Waiters ELSE {}]

g_cond_broadcast(t) ==
  /\ BumpGeneration(t, "cbroadcast")
  /\ owed' = [owed EXCEPT ![t] = {w \in Waiters : Blocked(w)'}]

\* FUTEX_WAKE (1) on the generation word, which ends g_cond_signal.
SignalWake(t) ==
  /\ pc[t] = "csignal"
  /\ \/ \E u \in Threads :
          /\ pc[u] = "csleep"
          /\ pc' = [pc EXCEPT ![u] = "relock", ![t] = after[t]]
          /\ owed' = Woken({u})
     \/ /\ \A u \in Threads : pc[u] # "csleep"
        /\ Goto(t, after[t])
        /\ UNCHANGED owed
  /\ UNCHANGED <<mutex, cond, after, sampled>>

\* FUTEX_WAKE (INT_MAX) on the generation word, which ends g_cond_broadcast.
BroadcastWake(t) ==
  /\ pc[t] = "cbroadcast"
  /\ LET sleepers == {u \in Threads : pc[u] = "csleep"}
     IN  /\ pc' = [u \in Threads |->
                     IF u = t THEN after[t]
                     ELSE IF u \in sleepers THEN "relock" ELSE pc[u]]
         /\ owed' = Woken(sleepers)
  /\ UNCHANGED <<mutex, cond, after, sampled>>

\* A sleep that ends without a wake: EINTR, or the timeout of a timed wait.
SleepEnds(t) ==
  /\ \/ /\ pc[t] = "msleep"
        /\ Goto(t, "slow")
        /\ UNCHANGED owed
     \/ /\ pc[t] = "csleep"
        /\ Goto(t, "relock")
        /\ owed' = Woken({t})
  /\ UNCHANGED <<mutex, cond, after, sampled>>

-----------------------------------------------------------------------------
\* The steps of a call in progress.
Continue(t) ==
  \/ pc[t] = "relock" /\ g_mutex_lock(t)
  \/ g_mutex_lock_slowpath(t)
  \/ FutexWaitMutex(t)
  \/ pc[t] = "cunlock" /\ g_mutex_unlock(t)
  \/ g_mutex_unlock_slowpath(t)
  \/ FutexWaitCond(t)
  \/ SignalWake(t)
  \/ BroadcastWake(t)

\* The calls a thread is free to make.
Call(t) ==
  \/ pc[t] = "idle" /\ g_mutex_lock(t)
  \/ g_mutex_trylock(t)
  \/ pc[t] = "crit" /\ g_mutex_unlock(t)
  \/ g_cond_wait(t)
  \/ g_cond_signal(t)
  \/ g_cond_broadcast(t)

Next == \E t \in Threads : Call(t) \/ Continue(t) \/ SleepEnds(t)

(***************************************************************************)
(* A thread inside a call is scheduled again and again, and a thread that  *)
(* holds the mutex releases it some day.  Nothing makes a thread start a   *)
(* call, and nothing makes a sleep end by itself.                          *)
(***************************************************************************)
Fairness ==
  \A t \in Threads :
    /\ WF_vars(Continue(t))
    /\ WF_vars(pc[t] = "crit" /\ g_mutex_unlock(t))

Spec == Init /\ [][Next]_vars

FairSpec == Spec /\ Fairness

-----------------------------------------------------------------------------
TypeOK ==
  /\ mutex \in Nat
  /\ cond \in 0 .. MaxSignals
  /\ pc \in [Threads -> PC]
  /\ after \in [Threads -> {"idle", "crit", "cfwait"}]
  /\ sampled \in [Threads -> 0 .. MaxSignals]
  /\ owed \in [Threads -> SUBSET Threads]

\* At most one thread is between a lock and the unlock that ends it, whatever
\* mixture of fast paths, slow paths, trylocks and condition waits they used.
MutualExclusion ==
  \A t, u \in Threads : Holds(t) /\ Holds(u) => t = u

\* The check in g_mutex_unlock_slowpath for a mutex that was not locked never
\* fires: a held mutex has a non-zero word even while others exchange it.
HeldWordNonzero ==
  /\ (\E t \in Threads : Holds(t)) => mutex # 0
  /\ \A t \in Threads : pc[t] # "aborted"

\* A thread sleeping on the mutex is not forgotten.  Either the word tells the
\* holder to wake somebody (> 1), or somebody is about to wake a sleeper, or
\* somebody awake is about to put the 2 back.
NoForgottenSleeper ==
  (\E t \in Threads : pc[t] = "msleep") =>
    \/ mutex > 1
    \/ \E u \in Threads : pc[u] \in {"mwake", "slow"}
    \/ mutex # 2 /\ \E u \in Threads : pc[u] = "fwait"

\* The monitor the two words stand for.
Calling ==
  [t \in Threads |-> CASE pc[t] = "csignal" -> "signal"
                       [] pc[t] = "cbroadcast" -> "broadcast"
                       [] OTHER -> "none"]

AsMonitor == INSTANCE Monitor WITH
  holding <- {t \in Threads : Holds(t)}, waiting <- Waiters, calls <- Calling, owes <- owed

\* The two words and the futex calls implement a lock and a condition variable:
\* one holder, an atomic release and wait, and "if threads are waiting for cond,
\* at least one of them is unblocked" by g_cond_signal, all of them by
\* g_cond_broadcast, even those that have released the mutex and are not asleep.
ImplementsMonitor == AsMonitor!Spec

\* While a thread is in the slow path of g_mutex_lock, some thread gets the
\* mutex (no thread in particular: the mutex is not fair).
LockProgress ==
  (\E t \in Threads : pc[t] \in {"slow", "fwait", "msleep"})
    ~> (\E t \in Threads : pc[t] = "crit")

=============================================================================
