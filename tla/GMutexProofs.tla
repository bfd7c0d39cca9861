---------------------------- MODULE GMutexProofs ----------------------------
(***************************************************************************)
(* Proofs about GMutex, for every set of threads and every number of       *)
(* signals: types, mutual exclusion, and that no thread asleep on the      *)
(* mutex is forgotten.                                                     *)
(***************************************************************************)
EXTENDS GMutex, TLAPS

\* Where a call continues: an unlock never continues in a critical section,
\* a signal goes back to where it was called.
ReturnOK ==
  \A t \in Threads :
    /\ pc[t] = "mwake" => after[t] \in {"idle", "cfwait"}
    /\ pc[t] \in {"csignal", "cbroadcast"} => after[t] \in {"idle", "crit"}

\* The inductive invariant behind mutual exclusion.
LockInv == TypeOK /\ ReturnOK /\ MutualExclusion /\ HeldWordNonzero

-----------------------------------------------------------------------------
\* The generation word does not come round within the bound on signals.
LEMMA BumpInRange ==
  ASSUME NEW c \in 0 .. MaxSignals, c < MaxSignals
  PROVE  (c + 1) % GenSize \in 0 .. MaxSignals
<1>1. c + 1 \in 0 .. (GenSize - 1)
  BY GMutexAssumption
<1>2. (c + 1) % GenSize = c + 1
  BY <1>1, GMutexAssumption
<1> QED
  BY <1>1, <1>2, GMutexAssumption

\* What is still owed after some sleepers woke is a set of threads each.
LEMMA WokenType ==
  ASSUME owed \in [Threads -> SUBSET Threads], NEW W
  PROVE  Woken(W) \in [Threads -> SUBSET Threads]
BY DEF Woken

\* Every thread stays at a known point of the code and every word in its range.
THEOREM TypeCorrect == Spec => []TypeOK
<1>1. Init => TypeOK
  BY GMutexAssumption DEF Init, TypeOK, PC
<1>2. TypeOK /\ [Next]_vars => TypeOK'
  <2> SUFFICES ASSUME TypeOK, [Next]_vars PROVE TypeOK'
    OBVIOUS
  <2> USE DEF TypeOK, PC, Goto
  <2>1. ASSUME NEW t \in Threads, g_mutex_lock(t) PROVE TypeOK'
    BY <2>1 DEF g_mutex_lock
  <2>2. ASSUME NEW t \in Threads, g_mutex_lock_slowpath(t) PROVE TypeOK'
    BY <2>2 DEF g_mutex_lock_slowpath
  <2>3. ASSUME NEW t \in Threads, FutexWaitMutex(t) PROVE TypeOK'
    BY <2>3 DEF FutexWaitMutex
  <2>4. ASSUME NEW t \in Threads, g_mutex_unlock(t) PROVE TypeOK'
    BY <2>4 DEF g_mutex_unlock
  <2>5. ASSUME NEW t \in Threads, g_mutex_unlock_slowpath(t) PROVE TypeOK'
    BY <2>5 DEF g_mutex_unlock_slowpath
  <2>6. ASSUME NEW t \in Threads, FutexWaitCond(t) PROVE TypeOK'
    BY <2>6 DEF FutexWaitCond
  <2>7. ASSUME NEW t \in Threads, SignalWake(t) PROVE TypeOK'
    <3>1. CASE \E u \in Threads : pc' = [pc EXCEPT ![u] = "relock",
                                                 ![t] = after[t]]
                                 /\ owed' = Woken({u})
      <4>1. PICK u \in Threads : pc' = [pc EXCEPT ![u] = "relock",
                                                 ![t] = after[t]]
                                 /\ owed' = Woken({u})
        BY <3>1
      <4>2. owed' \in [Threads -> SUBSET Threads]
        BY <4>1, WokenType
      <4>3. pc' \in [Threads -> PC]
        BY <4>1
      <4> QED
        BY <2>7, <4>2, <4>3 DEF SignalWake
    <3>2. CASE Goto(t, after[t]) /\ UNCHANGED owed
      BY <2>7, <3>2 DEF SignalWake
    <3> QED
      BY <2>7, <3>1, <3>2 DEF SignalWake
  <2>8. ASSUME NEW t \in Threads, BroadcastWake(t) PROVE TypeOK'
    <3>1. owed' \in [Threads -> SUBSET Threads]
      BY <2>8, WokenType DEF BroadcastWake
    <3> QED
      BY <2>8, <3>1 DEF BroadcastWake
  <2>9. ASSUME NEW t \in Threads, g_mutex_trylock(t) PROVE TypeOK'
    BY <2>9 DEF g_mutex_trylock
  <2>10. ASSUME NEW t \in Threads, g_cond_wait(t) PROVE TypeOK'
    BY <2>10 DEF g_cond_wait
  <2>11. ASSUME NEW t \in Threads, NEW kind \in {"csignal", "cbroadcast"},
                BumpGeneration(t, kind), owed' \in [Threads -> SUBSET Threads]
         PROVE  TypeOK'
    <3>1. cond' \in 0 .. MaxSignals
      BY <2>11, BumpInRange DEF BumpGeneration
    <3> QED
      BY <2>11, <3>1 DEF BumpGeneration
  <2>12. ASSUME NEW t \in Threads, g_cond_signal(t) PROVE TypeOK'
    <3>1. Waiters \subseteq Threads
      BY DEF Waiters
    <3>2. owed' \in [Threads -> SUBSET Threads]
      BY <2>12, <3>1 DEF g_cond_signal
    <3> QED
      BY <2>11, <2>12, <3>2 DEF g_cond_signal
  <2>13. ASSUME NEW t \in Threads, g_cond_broadcast(t) PROVE TypeOK'
    <3>1. {w \in Waiters : Blocked(w)'} \subseteq Threads
      BY DEF Waiters
    <3>2. owed' \in [Threads -> SUBSET Threads]
      BY <2>13, <3>1 DEF g_cond_broadcast
    <3> QED
      BY <2>11, <2>13, <3>2 DEF g_cond_broadcast
  <2>14. ASSUME NEW t \in Threads, SleepEnds(t) PROVE TypeOK'
    <3>1. owed' \in [Threads -> SUBSET Threads]
      BY <2>14, WokenType DEF SleepEnds
    <3> QED
      BY <2>14, <3>1 DEF SleepEnds
  <2>15. CASE UNCHANGED vars
    BY <2>15 DEF vars
  <2> QED
    BY <2>1, <2>2, <2>3, <2>4, <2>5, <2>6, <2>7, <2>8, <2>9, <2>10, <2>12,
       <2>13, <2>14, <2>15 DEF Next, Call, Continue
<1> QED
  BY <1>1, <1>2, PTL DEF Spec

-----------------------------------------------------------------------------
(***************************************************************************)
(* MutualExclusion is not inductive by itself: that a thread finds the     *)
(* word 0 must mean that nobody holds the mutex (HeldWordNonzero), and     *)
(* that a call returns into a critical section must mean that it was made  *)
(* from one (ReturnOK).                                                    *)
(***************************************************************************)
LEMMA LockInvInit == Init => LockInv
<1> SUFFICES ASSUME Init PROVE LockInv
  OBVIOUS
<1>1. TypeOK
  BY GMutexAssumption DEF Init, TypeOK, PC
<1>2. \A t \in Threads : ~ Holds(t)
  BY DEF Init, Holds
<1> QED
  BY <1>1, <1>2 DEF LockInv, ReturnOK, MutualExclusion, HeldWordNonzero, Init

LEMMA LockInvStep == LockInv /\ TypeOK' /\ [Next]_vars => LockInv'
<1> SUFFICES ASSUME LockInv, TypeOK', [Next]_vars
             PROVE  (ReturnOK /\ MutualExclusion /\ HeldWordNonzero)'
  BY DEF LockInv
<1> USE DEF LockInv, ReturnOK, MutualExclusion, HeldWordNonzero, Holds,
            TypeOK, PC, Goto
<1>1. ASSUME NEW t \in Threads, g_mutex_lock(t)
      PROVE  (ReturnOK /\ MutualExclusion /\ HeldWordNonzero)'
  BY <1>1 DEF g_mutex_lock
<1>2. ASSUME NEW t \in Threads, g_mutex_lock_slowpath(t)
      PROVE  (ReturnOK /\ MutualExclusion /\ HeldWordNonzero)'
  BY <1>2 DEF g_mutex_lock_slowpath
<1>3. ASSUME NEW t \in Threads, FutexWaitMutex(t)
      PROVE  (ReturnOK /\ MutualExclusion /\ HeldWordNonzero)'
  BY <1>3 DEF FutexWaitMutex
<1>4. ASSUME NEW t \in Threads, g_mutex_unlock(t)
      PROVE  (ReturnOK /\ MutualExclusion /\ HeldWordNonzero)'
  BY <1>4 DEF g_mutex_unlock
<1>5. ASSUME NEW t \in Threads, g_mutex_unlock_slowpath(t)
      PROVE  (ReturnOK /\ MutualExclusion /\ HeldWordNonzero)'
  BY <1>5 DEF g_mutex_unlock_slowpath
<1>6. ASSUME NEW t \in Threads, FutexWaitCond(t)
      PROVE  (ReturnOK /\ MutualExclusion /\ HeldWordNonzero)'
  BY <1>6 DEF FutexWaitCond
<1>7. ASSUME NEW t \in Threads, SignalWake(t)
      PROVE  (ReturnOK /\ MutualExclusion /\ HeldWordNonzero)'
  <2>1. ASSUME NEW u \in Threads, pc[u] = "csleep",
               pc' = [pc EXCEPT ![u] = "relock", ![t] = after[t]]
        PROVE  (ReturnOK /\ MutualExclusion /\ HeldWordNonzero)'
    <3>1. /\ pc[t] = "csignal" /\ u # t
          /\ UNCHANGED <<mutex, after>>
      BY <1>7, <2>1 DEF SignalWake
    <3>2. \A v \in Threads : Holds(v)' => Holds(v)
      BY <2>1, <3>1
    <3> QED
      BY <2>1, <3>1, <3>2
  <2>2. CASE Goto(t, after[t])
    BY <1>7, <2>2 DEF SignalWake
  <2> QED
    BY <1>7, <2>1, <2>2 DEF SignalWake
<1>8. ASSUME NEW t \in Threads, BroadcastWake(t)
      PROVE  (ReturnOK /\ MutualExclusion /\ HeldWordNonzero)'
  BY <1>8 DEF BroadcastWake
<1>9. ASSUME NEW t \in Threads, g_mutex_trylock(t)
      PROVE  (ReturnOK /\ MutualExclusion /\ HeldWordNonzero)'
  BY <1>9 DEF g_mutex_trylock
<1>10. ASSUME NEW t \in Threads, g_cond_wait(t)
       PROVE  (ReturnOK /\ MutualExclusion /\ HeldWordNonzero)'
  BY <1>10 DEF g_cond_wait
<1>11. ASSUME NEW t \in Threads, NEW kind \in {"csignal", "cbroadcast"},
              BumpGeneration(t, kind)
       PROVE  (ReturnOK /\ MutualExclusion /\ HeldWordNonzero)'
  BY <1>11 DEF BumpGeneration
<1>12. ASSUME NEW t \in Threads, SleepEnds(t)
       PROVE  (ReturnOK /\ MutualExclusion /\ HeldWordNonzero)'
  BY <1>12 DEF SleepEnds
<1>13. CASE UNCHANGED vars
  BY <1>13 DEF vars
<1> QED
  BY <1>1, <1>2, <1>3, <1>4, <1>5, <1>6, <1>7, <1>8, <1>9, <1>10, <1>11,
     <1>12, <1>13 DEF Next, Call, Continue, g_cond_signal, g_cond_broadcast

LEMMA LockInvariant == Spec => []LockInv
<1>1. LockInv /\ TypeOK' /\ [Next]_vars => LockInv'
  BY LockInvStep
<1> QED
  BY <1>1, LockInvInit, TypeCorrect, PTL DEF Spec

\* The mutex excludes: no two threads are between a lock and its unlock.
THEOREM Exclusion == Spec => []MutualExclusion
BY LockInvariant, PTL DEF LockInv

\* A held mutex has a non-zero word, so that the abort in
\* g_mutex_unlock_slowpath is never reached by a thread that holds it.
THEOREM NeverAborts == Spec => []HeldWordNonzero
BY LockInvariant, PTL DEF LockInv

-----------------------------------------------------------------------------
(***************************************************************************)
(* NoForgottenSleeper is inductive relative to the types.  The step to see *)
(* is the unlock of a word 1: it wakes nobody, and it need not, because    *)
(* with a sleeper around a word of 1 means that some thread is in the      *)
(* slow path and awake.                                                    *)
(***************************************************************************)
LEMMA SleeperStep ==
  TypeOK /\ TypeOK' /\ NoForgottenSleeper /\ [Next]_vars => NoForgottenSleeper'
<1> SUFFICES ASSUME TypeOK, TypeOK', NoForgottenSleeper, [Next]_vars
             PROVE  NoForgottenSleeper'
  OBVIOUS
<1> USE DEF NoForgottenSleeper, TypeOK, PC, Goto
<1>1. ASSUME NEW t \in Threads, g_mutex_lock(t) PROVE NoForgottenSleeper'
  BY <1>1 DEF g_mutex_lock
<1>2. ASSUME NEW t \in Threads, g_mutex_lock_slowpath(t)
      PROVE  NoForgottenSleeper'
  BY <1>2 DEF g_mutex_lock_slowpath
<1>3. ASSUME NEW t \in Threads, FutexWaitMutex(t) PROVE NoForgottenSleeper'
  BY <1>3 DEF FutexWaitMutex
<1>4. ASSUME NEW t \in Threads, g_mutex_unlock(t) PROVE NoForgottenSleeper'
  BY <1>4 DEF g_mutex_unlock
<1>5. ASSUME NEW t \in Threads, g_mutex_unlock_slowpath(t)
      PROVE  NoForgottenSleeper'
  BY <1>5 DEF g_mutex_unlock_slowpath
<1>6. ASSUME NEW t \in Threads, FutexWaitCond(t) PROVE NoForgottenSleeper'
  BY <1>6 DEF FutexWaitCond
<1>7. ASSUME NEW t \in Threads, SignalWake(t) PROVE NoForgottenSleeper'
  BY <1>7 DEF SignalWake
<1>8. ASSUME NEW t \in Threads, BroadcastWake(t) PROVE NoForgottenSleeper'
  BY <1>8 DEF BroadcastWake
<1>9. ASSUME NEW t \in Threads, g_mutex_trylock(t) PROVE NoForgottenSleeper'
  BY <1>9 DEF g_mutex_trylock
<1>10. ASSUME NEW t \in Threads, g_cond_wait(t) PROVE NoForgottenSleeper'
  BY <1>10 DEF g_cond_wait
<1>11. ASSUME NEW t \in Threads, NEW kind \in {"csignal", "cbroadcast"},
              BumpGeneration(t, kind)
       PROVE  NoForgottenSleeper'
  BY <1>11 DEF BumpGeneration
<1>12. ASSUME NEW t \in Threads, SleepEnds(t) PROVE NoForgottenSleeper'
  BY <1>12 DEF SleepEnds
<1>13. CASE UNCHANGED vars
  BY <1>13 DEF vars
<1> QED
  BY <1>1, <1>2, <1>3, <1>4, <1>5, <1>6, <1>7, <1>8, <1>9, <1>10, <1>11,
     <1>12, <1>13 DEF Next, Call, Continue, g_cond_signal, g_cond_broadcast

\* No thread asleep on the mutex is forgotten.
THEOREM SleepersRemembered == Spec => []NoForgottenSleeper
<1>1. Init => NoForgottenSleeper
  BY DEF Init, NoForgottenSleeper
<1>2. TypeOK /\ TypeOK' /\ NoForgottenSleeper /\ [Next]_vars
        => NoForgottenSleeper'
  BY SleeperStep
<1> QED
  BY <1>1, <1>2, TypeCorrect, PTL DEF Spec

-----------------------------------------------------------------------------
(***************************************************************************)
(* The refinement of Monitor.  The step of a call that returns must find   *)
(* nothing owed, so the invariant follows the threads a signal owes a      *)
(* wakeup: they are asleep on the generation word (nobody is owed a wakeup *)
(* that FUTEX_WAKE could not give), and while a thread signals with the    *)
(* mutex held nobody else begins to wait, so that FUTEX_WAKE cannot pick a *)
(* latecomer.  Samples are not younger than the generation, hence an       *)
(* increment never makes a thread wait again.                              *)
(***************************************************************************)
SampledPast == \A t \in Threads : sampled[t] <= cond

OwedAsleep == \A t, u \in Threads : u \in owed[t] => pc[u] = "csleep"

NoLatecomer ==
  \A t \in Threads :
    pc[t] = "csignal" /\ after[t] = "crit" => owed[t] = {} \/ Waiters \subseteq owed[t]

MonitorInv == SampledPast /\ OwedAsleep /\ NoLatecomer

\* The increment, with the range of the generation word known.
LEMMA BumpIsIncrement ==
  ASSUME TypeOK, NEW t \in Threads, NEW kind, BumpGeneration(t, kind)
  PROVE  cond' = cond + 1 /\ cond \in Nat
<1>1. cond + 1 \in 0 .. (GenSize - 1)
  BY GMutexAssumption DEF TypeOK, BumpGeneration
<1> QED
  BY <1>1, GMutexAssumption DEF BumpGeneration, TypeOK

\* After the increment exactly the threads asleep on the generation word are
\* blocked; those on their way there will find a new generation.
LEMMA BumpBlocks ==
  ASSUME TypeOK, SampledPast, NEW t \in Threads, NEW kind \in {"csignal", "cbroadcast"},
         BumpGeneration(t, kind)
  PROVE  /\ \A u \in Threads : Blocked(u)' <=> pc[u] = "csleep"
         /\ \A u \in Threads : pc[u] = "csleep" => Blocked(u)
         /\ Waiters' = {u \in Threads : pc[u] = "csleep"}
         /\ Waiters' \subseteq Waiters
         /\ ~ Blocked(t)
<1>1. cond' = cond + 1 /\ cond \in Nat
  BY BumpIsIncrement
<1>2. /\ pc[t] \in {"idle", "crit"} /\ pc' = [pc EXCEPT ![t] = kind]
      /\ sampled' = sampled /\ after' = [after EXCEPT ![t] = pc[t]]
  BY DEF BumpGeneration, Goto
<1>3. ASSUME NEW u \in Threads PROVE Blocked(u)' <=> pc[u] = "csleep"
  <2>1. sampled[u] # cond + 1
    BY <1>1 DEF SampledPast, TypeOK
  <2>2. CASE u = t
    BY <1>2, <2>2 DEF Blocked, GoesToSleep, TypeOK
  <2>3. CASE u # t
    BY <1>1, <1>2, <2>1, <2>3 DEF Blocked, GoesToSleep, TypeOK
  <2> QED
    BY <2>2, <2>3
<1>4. \A u \in Threads : pc[u] = "csleep" => Blocked(u)
  BY DEF Blocked
<1>5. Waiters' = {u \in Threads : pc[u] = "csleep"}
  BY <1>3 DEF Waiters
<1>6. ~ Blocked(t)
  BY <1>2 DEF Blocked, GoesToSleep
<1> QED
  BY <1>3, <1>4, <1>5, <1>6 DEF Waiters

\* What the two ways to begin a signal owe.
LEMMA SignalOwes ==
  ASSUME TypeOK, SampledPast, NEW t \in Threads, g_cond_signal(t)
  PROVE  owed' = [owed EXCEPT ![t] = IF Waiters \ Waiters' # {} THEN {} ELSE Waiters']
<1>1. BumpGeneration(t, "csignal")
  BY DEF g_cond_signal
<1>2. /\ \A u \in Threads : Blocked(u)' <=> pc[u] = "csleep"
      /\ Waiters' = {u \in Threads : pc[u] = "csleep"}
      /\ Waiters' \subseteq Waiters
  BY <1>1, BumpBlocks
<1>3. CASE \A w \in Waiters : Blocked(w)'
  <2>1. Waiters' = Waiters
    BY <1>2, <1>3 DEF Waiters
  <2> QED
    BY <1>3, <2>1 DEF g_cond_signal
<1>4. CASE ~ \A w \in Waiters : Blocked(w)'
  <2>1. Waiters \ Waiters' # {}
    BY <1>2, <1>4 DEF Waiters
  <2> QED
    BY <1>4, <2>1 DEF g_cond_signal
<1> QED
  BY <1>3, <1>4

LEMMA BroadcastOwes ==
  ASSUME TypeOK, SampledPast, NEW t \in Threads, g_cond_broadcast(t)
  PROVE  owed' = [owed EXCEPT ![t] = Waiters']
<1>1. BumpGeneration(t, "cbroadcast")
  BY DEF g_cond_broadcast
<1>2. /\ \A u \in Threads : Blocked(u)' <=> pc[u] = "csleep"
      /\ Waiters' = {u \in Threads : pc[u] = "csleep"}
      /\ Waiters' \subseteq Waiters
  BY <1>1, BumpBlocks
<1>3. {w \in Waiters : Blocked(w)'} = Waiters'
  BY <1>2 DEF Waiters
<1> QED
  BY <1>3 DEF g_cond_broadcast

\* The threads a wake takes out of their sleep are the ones that stop waiting.
LEMMA WakeUnblocks ==
  ASSUME TypeOK, ReturnOK, UNCHANGED <<cond, after, sampled>>,
         NEW W \in SUBSET Threads, \A u \in W : pc[u] = "csleep" /\ pc'[u] = "relock",
         \A u \in Threads \ W :
           \/ pc'[u] = pc[u]
           \/ pc[u] \in {"csignal", "cbroadcast"} /\ pc'[u] = after[u]
  PROVE  Waiters' = Waiters \ W
<1>1. ASSUME NEW u \in W PROVE u \in Threads /\ ~ Blocked(u)'
  BY <1>1 DEF Blocked, GoesToSleep
<1>2. ASSUME NEW u \in Threads \ W PROVE Blocked(u)' <=> Blocked(u)
  <2>1. CASE pc'[u] = pc[u]
    BY <2>1 DEF Blocked, GoesToSleep
  <2>2. CASE pc[u] \in {"csignal", "cbroadcast"} /\ pc'[u] = after[u]
    BY <2>2 DEF Blocked, GoesToSleep, ReturnOK
  <2> QED
    BY <2>1, <2>2
<1> QED
  BY <1>1, <1>2 DEF Waiters

\* A step that changes neither the generation nor anybody's wait.
LEMMA SameWaiters ==
  ASSUME UNCHANGED cond,
         \A u \in Threads :
           Blocked(u)' <=> Blocked(u)
  PROVE  Waiters' = Waiters
BY DEF Waiters

LEMMA MonitorInvStep ==
  LockInv /\ LockInv' /\ MonitorInv /\ [Next]_vars => MonitorInv'
<1> SUFFICES ASSUME LockInv, LockInv', MonitorInv, [Next]_vars
             PROVE  MonitorInv'
  OBVIOUS
<1> USE DEF LockInv
<1>1. SampledPast'
  <2>1. ASSUME NEW t \in Threads, g_cond_signal(t) \/ g_cond_broadcast(t)
        PROVE  SampledPast'
    <3>1. PICK kind : BumpGeneration(t, kind)
      BY <2>1 DEF g_cond_signal, g_cond_broadcast
    <3>2. cond' = cond + 1 /\ cond \in Nat /\ sampled' = sampled
      BY <3>1, BumpIsIncrement DEF BumpGeneration
    <3> QED
      BY <3>2 DEF MonitorInv, SampledPast, TypeOK
  <2>2. ASSUME NEW t \in Threads, g_cond_wait(t) PROVE SampledPast'
    BY <2>2 DEF g_cond_wait, MonitorInv, SampledPast, TypeOK
  <2>3. CASE UNCHANGED <<cond, sampled>>
    BY <2>3 DEF MonitorInv, SampledPast
  <2> QED
    BY <2>1, <2>2, <2>3 DEF Next, Call, Continue, vars, g_mutex_lock,
       g_mutex_lock_slowpath, FutexWaitMutex, g_mutex_unlock, g_mutex_unlock_slowpath,
       FutexWaitCond, SignalWake, BroadcastWake, g_mutex_trylock, SleepEnds
<1>2. OwedAsleep'
  <2> USE DEF MonitorInv, OwedAsleep, TypeOK, Goto
  <2>1. ASSUME NEW t \in Threads, g_mutex_lock(t) PROVE OwedAsleep'
    BY <2>1 DEF g_mutex_lock
  <2>2. ASSUME NEW t \in Threads, g_mutex_lock_slowpath(t) PROVE OwedAsleep'
    BY <2>2 DEF g_mutex_lock_slowpath
  <2>3. ASSUME NEW t \in Threads, FutexWaitMutex(t) PROVE OwedAsleep'
    BY <2>3 DEF FutexWaitMutex
  <2>4. ASSUME NEW t \in Threads, g_mutex_unlock(t) PROVE OwedAsleep'
    BY <2>4 DEF g_mutex_unlock
  <2>5. ASSUME NEW t \in Threads, g_mutex_unlock_slowpath(t) PROVE OwedAsleep'
    BY <2>5 DEF g_mutex_unlock_slowpath
  <2>6. ASSUME NEW t \in Threads, FutexWaitCond(t) PROVE OwedAsleep'
    BY <2>6 DEF FutexWaitCond
  <2>7. ASSUME NEW t \in Threads, SignalWake(t) PROVE OwedAsleep'
    <3>1. ASSUME NEW u \in Threads, pc[u] = "csleep",
                 pc' = [pc EXCEPT ![u] = "relock", ![t] = after[t]],
                 owed' = Woken({u})
          PROVE  OwedAsleep'
      BY <2>7, <3>1 DEF SignalWake, Woken
    <3>2. CASE Goto(t, after[t]) /\ UNCHANGED owed
      BY <2>7, <3>2 DEF SignalWake
    <3> QED
      BY <2>7, <3>1, <3>2 DEF SignalWake
  <2>8. ASSUME NEW t \in Threads, BroadcastWake(t) PROVE OwedAsleep'
    BY <2>8 DEF BroadcastWake, Woken
  <2>9. ASSUME NEW t \in Threads, g_mutex_trylock(t) PROVE OwedAsleep'
    BY <2>9 DEF g_mutex_trylock
  <2>10. ASSUME NEW t \in Threads, g_cond_wait(t) PROVE OwedAsleep'
    BY <2>10 DEF g_cond_wait
  <2>11. ASSUME NEW t \in Threads, NEW kind \in {"csignal", "cbroadcast"},
                BumpGeneration(t, kind),
                \A u \in Threads : owed'[u] = owed[u] \/ owed'[u] \subseteq Waiters'
         PROVE  OwedAsleep'
    <3>1. Waiters' = {u \in Threads : pc[u] = "csleep"}
      BY <2>11, BumpBlocks
    <3> QED
      BY <2>11, <3>1 DEF BumpGeneration
  <2>12. ASSUME NEW t \in Threads, g_cond_signal(t) PROVE OwedAsleep'
    <3>1. owed' = [owed EXCEPT ![t] = IF Waiters \ Waiters' # {} THEN {} ELSE Waiters']
      BY <2>12, SignalOwes
    <3> QED
      BY <2>11, <2>12, <3>1 DEF g_cond_signal
  <2>13. ASSUME NEW t \in Threads, g_cond_broadcast(t) PROVE OwedAsleep'
    <3>1. owed' = [owed EXCEPT ![t] = Waiters']
      BY <2>13, BroadcastOwes
    <3> QED
      BY <2>11, <2>13, <3>1 DEF g_cond_broadcast
  <2>14. ASSUME NEW t \in Threads, SleepEnds(t) PROVE OwedAsleep'
    BY <2>14 DEF SleepEnds, Woken
  <2>15. CASE UNCHANGED vars
    BY <2>15 DEF vars
  <2> QED
    BY <2>1, <2>2, <2>3, <2>4, <2>5, <2>6, <2>7, <2>8, <2>9, <2>10, <2>12, <2>13,
       <2>14, <2>15 DEF Next, Call, Continue
<1>3. NoLatecomer'
  <2> SUFFICES ASSUME NEW s \in Threads, pc'[s] = "csignal", after'[s] = "crit"
               PROVE  owed'[s] = {} \/ Waiters' \subseteq owed'[s]
    BY DEF NoLatecomer
  <2> USE DEF TypeOK, Goto
  <2>1. ASSUME NEW t \in Threads, g_cond_signal(t)
        PROVE  owed'[s] = {} \/ Waiters' \subseteq owed'[s]
    <3>1. owed' = [owed EXCEPT ![t] = IF Waiters \ Waiters' # {} THEN {} ELSE Waiters']
      BY <2>1, SignalOwes DEF MonitorInv
    <3>2. CASE s = t
      BY <3>1, <3>2
    <3>3. CASE s # t
      <4>1. pc[s] = "csignal" /\ after[s] = "crit"
        BY <2>1, <3>3 DEF g_cond_signal, BumpGeneration
      <4>2. Waiters' \subseteq Waiters
        BY <2>1, BumpBlocks DEF g_cond_signal, MonitorInv
      <4> QED
        BY <3>1, <3>3, <4>1, <4>2 DEF MonitorInv, NoLatecomer
    <3> QED
      BY <3>2, <3>3
  <2>2. ASSUME NEW t \in Threads, g_cond_broadcast(t)
        PROVE  owed'[s] = {} \/ Waiters' \subseteq owed'[s]
    <3>1. owed' = [owed EXCEPT ![t] = Waiters']
      BY <2>2, BroadcastOwes DEF MonitorInv
    <3>2. s # t /\ pc[s] = "csignal" /\ after[s] = "crit"
      BY <2>2 DEF g_cond_broadcast, BumpGeneration
    <3>3. Waiters' \subseteq Waiters
      BY <2>2, BumpBlocks DEF g_cond_broadcast, MonitorInv
    <3> QED
      BY <3>1, <3>2, <3>3 DEF MonitorInv, NoLatecomer
  <2>3. ASSUME NEW t \in Threads, g_mutex_unlock(t)
        PROVE  owed'[s] = {} \/ Waiters' \subseteq owed'[s]
    <3>1. s # t /\ Holds(s) /\ Holds(t)
      BY <2>3 DEF g_mutex_unlock, Holds
    <3> QED
      BY <3>1 DEF MutualExclusion
  <2>4. ASSUME NEW W \in SUBSET Threads, Waiters' = Waiters \ W, owed' = Woken(W),
               pc[s] = "csignal", after[s] = "crit"
        PROVE  owed'[s] = {} \/ Waiters' \subseteq owed'[s]
    <3>1. owed'[s] = {} \/ owed'[s] = owed[s] \ W
      BY <2>4 DEF Woken
    <3>2. owed[s] = {} \/ Waiters \subseteq owed[s]
      BY <2>4 DEF MonitorInv, NoLatecomer
    <3> QED
      BY <2>4, <3>1, <3>2
  <2>5. ASSUME NEW t \in Threads, SignalWake(t)
        PROVE  owed'[s] = {} \/ Waiters' \subseteq owed'[s]
    <3>1. pc[s] = "csignal" /\ after[s] = "crit"
      BY <2>5 DEF SignalWake, ReturnOK
    <3>2. ASSUME NEW u \in Threads, pc[u] = "csleep",
                 pc' = [pc EXCEPT ![u] = "relock", ![t] = after[t]],
                 owed' = Woken({u})
          PROVE  owed'[s] = {} \/ Waiters' \subseteq owed'[s]
      <4>1. Waiters' = Waiters \ {u}
        <5>1. /\ \A v \in {u} : pc[v] = "csleep" /\ pc'[v] = "relock"
              /\ \A v \in Threads \ {u} :
                   \/ pc'[v] = pc[v]
                   \/ pc[v] \in {"csignal", "cbroadcast"} /\ pc'[v] = after[v]
              /\ UNCHANGED <<cond, after, sampled>>
          BY <2>5, <3>2 DEF SignalWake
        <5> QED
          BY <5>1, WakeUnblocks
      <4> QED
        BY <2>4, <3>1, <3>2, <4>1
    <3>3. CASE Goto(t, after[t]) /\ UNCHANGED owed
      <4>1. Waiters' = Waiters \ {}
        <5>1. /\ \A v \in Threads \ {} :
                   \/ pc'[v] = pc[v]
                   \/ pc[v] \in {"csignal", "cbroadcast"} /\ pc'[v] = after[v]
              /\ UNCHANGED <<cond, after, sampled>>
          BY <2>5, <3>3 DEF SignalWake
        <5> QED
          BY <5>1, WakeUnblocks
      <4> QED
        BY <3>1, <3>3, <4>1 DEF MonitorInv, NoLatecomer
    <3> QED
      BY <2>5, <3>2, <3>3 DEF SignalWake
  <2>6. ASSUME NEW t \in Threads, BroadcastWake(t)
        PROVE  owed'[s] = {} \/ Waiters' \subseteq owed'[s]
    <3> DEFINE W == {u \in Threads : pc[u] = "csleep"}
    <3>1. pc[s] = "csignal" /\ after[s] = "crit"
      BY <2>6 DEF BroadcastWake, ReturnOK
    <3>2. Waiters' = Waiters \ W
      <4>1. /\ \A v \in W : pc[v] = "csleep" /\ pc'[v] = "relock"
            /\ \A v \in Threads \ W :
                 \/ pc'[v] = pc[v]
                 \/ pc[v] \in {"csignal", "cbroadcast"} /\ pc'[v] = after[v]
            /\ UNCHANGED <<cond, after, sampled>>
        BY <2>6 DEF BroadcastWake
      <4> QED
        BY <4>1, WakeUnblocks
    <3>3. owed' = Woken(W)
      BY <2>6 DEF BroadcastWake
    <3> QED
      BY <2>4, <3>1, <3>2, <3>3
  <2>7. ASSUME NEW t \in Threads, SleepEnds(t)
        PROVE  owed'[s] = {} \/ Waiters' \subseteq owed'[s]
    <3>1. pc[s] = "csignal" /\ after[s] = "crit"
      BY <2>7 DEF SleepEnds
    <3>2. CASE pc[t] = "csleep"
      <4>1. Waiters' = Waiters \ {t}
        <5>1. /\ \A v \in {t} : pc[v] = "csleep" /\ pc'[v] = "relock"
              /\ \A v \in Threads \ {t} : pc'[v] = pc[v]
              /\ UNCHANGED <<cond, after, sampled>>
          BY <2>7, <3>2 DEF SleepEnds
        <5> QED
          BY <5>1, WakeUnblocks
      <4> QED
        BY <2>4, <2>7, <3>1, <3>2, <4>1 DEF SleepEnds
    <3>3. CASE pc[t] = "msleep"
      <4>1. /\ UNCHANGED <<cond, owed>>
            /\ \A u \in Threads : Blocked(u)' <=> Blocked(u)
        BY <2>7, <3>3 DEF SleepEnds, Blocked, GoesToSleep
      <4>2. Waiters' = Waiters
        BY <4>1, SameWaiters
      <4> QED
        BY <3>1, <4>1, <4>2 DEF MonitorInv, NoLatecomer
    <3> QED
      BY <2>7, <3>2, <3>3 DEF SleepEnds
  <2>8. ASSUME UNCHANGED <<cond, owed>>, pc[s] = "csignal", after[s] = "crit",
               \A u \in Threads : Blocked(u)' <=> Blocked(u)
        PROVE  owed'[s] = {} \/ Waiters' \subseteq owed'[s]
    <3>1. Waiters' = Waiters
      BY <2>8, SameWaiters
    <3> QED
      BY <2>8, <3>1 DEF MonitorInv, NoLatecomer
  <2>9. ASSUME NEW t \in Threads, g_mutex_lock(t)
        PROVE  owed'[s] = {} \/ Waiters' \subseteq owed'[s]
    BY <2>8, <2>9 DEF g_mutex_lock, Blocked, GoesToSleep
  <2>10. ASSUME NEW t \in Threads, g_mutex_lock_slowpath(t)
         PROVE  owed'[s] = {} \/ Waiters' \subseteq owed'[s]
    BY <2>8, <2>10 DEF g_mutex_lock_slowpath, Blocked, GoesToSleep
  <2>11. ASSUME NEW t \in Threads, FutexWaitMutex(t)
         PROVE  owed'[s] = {} \/ Waiters' \subseteq owed'[s]
    BY <2>8, <2>11 DEF FutexWaitMutex, Blocked, GoesToSleep
  <2>12. ASSUME NEW t \in Threads, g_mutex_unlock_slowpath(t)
         PROVE  owed'[s] = {} \/ Waiters' \subseteq owed'[s]
    BY <2>8, <2>12 DEF g_mutex_unlock_slowpath, Blocked, GoesToSleep, ReturnOK
  <2>13. ASSUME NEW t \in Threads, FutexWaitCond(t)
         PROVE  owed'[s] = {} \/ Waiters' \subseteq owed'[s]
    BY <2>8, <2>13 DEF FutexWaitCond, Blocked, GoesToSleep
  <2>14. ASSUME NEW t \in Threads, g_mutex_trylock(t)
         PROVE  owed'[s] = {} \/ Waiters' \subseteq owed'[s]
    BY <2>8, <2>14 DEF g_mutex_trylock, Blocked, GoesToSleep
  <2>15. ASSUME NEW t \in Threads, g_cond_wait(t)
         PROVE  owed'[s] = {} \/ Waiters' \subseteq owed'[s]
    BY <2>8, <2>15 DEF g_cond_wait, Blocked, GoesToSleep
  <2>16. CASE UNCHANGED vars
    BY <2>8, <2>16 DEF vars, Blocked, GoesToSleep
  <2> QED
    BY <2>1, <2>2, <2>3, <2>5, <2>6, <2>7, <2>9, <2>10, <2>11, <2>12, <2>13, <2>14,
       <2>15, <2>16 DEF Next, Call, Continue
<1> QED
  BY <1>1, <1>2, <1>3 DEF MonitorInv

LEMMA MonitorInvariant == Spec => []MonitorInv
<1>1. Init => MonitorInv
  <2> SUFFICES ASSUME Init PROVE MonitorInv
    OBVIOUS
  <2>1. SampledPast /\ OwedAsleep
    BY DEF Init, SampledPast, OwedAsleep
  <2>2. NoLatecomer
    BY DEF Init, NoLatecomer
  <2> QED
    BY <2>1, <2>2 DEF MonitorInv
<1>2. LockInv /\ LockInv' /\ MonitorInv /\ [Next]_vars => MonitorInv'
  BY MonitorInvStep
<1> QED
  BY <1>1, <1>2, LockInvariant, PTL DEF Spec

-----------------------------------------------------------------------------
\* Steps of the words that the monitor does not see.
LEMMA Unseen ==
  ASSUME UNCHANGED <<cond, owed>>,
         \A u \in Threads : /\ Blocked(u)' <=> Blocked(u)
                            /\ Holds(u)' <=> Holds(u)
                            /\ Calling'[u] = Calling[u]
  PROVE  UNCHANGED AsMonitor!vars
<1>1. Waiters' = Waiters
  BY SameWaiters
<1>2. {t \in Threads : Holds(t)}' = {t \in Threads : Holds(t)}
  OBVIOUS
<1>3. Calling' = Calling
  BY DEF Calling
<1> QED
  BY <1>1, <1>2, <1>3 DEF AsMonitor!vars

\* A thread that finds the word 0 takes the lock of the monitor.
LEMMA TakesLock ==
  ASSUME LockInv, mutex = 0, UNCHANGED <<cond, owed, after, sampled>>,
         NEW t \in Threads, pc[t] \in {"idle", "relock", "slow"},
         pc' = [pc EXCEPT ![t] = "crit"]
  PROVE  AsMonitor!Lock(t)
<1>1. \A u \in Threads : ~ Holds(u)
  BY DEF LockInv, HeldWordNonzero
<1>2. \A u \in Threads : Holds(u)' <=> u = t
  BY <1>1 DEF Holds, LockInv, TypeOK
<1>3. \A u \in Threads : Blocked(u)' <=> Blocked(u)
  BY DEF Blocked, GoesToSleep, LockInv, TypeOK
<1>4. Waiters' = Waiters
  BY <1>3, SameWaiters
<1>5. Calling' = Calling /\ Calling[t] = "none"
  BY DEF Calling, LockInv, TypeOK
<1>6. t \notin Waiters
  BY DEF Waiters, Blocked, GoesToSleep
<1>7. {u \in Threads : Holds(u)} = {} /\ {u \in Threads : Holds(u)}' = {t}
  BY <1>1, <1>2
<1> QED
  BY <1>4, <1>5, <1>6, <1>7 DEF AsMonitor!Lock

\* An unlock gives the lock up; the one that g_cond_wait makes begins the wait
\* in the same step, unless a signal has come since the generation was sampled.
LEMMA GivesLock ==
  ASSUME LockInv, LockInv', NEW t \in Threads, g_mutex_unlock(t)
  PROVE  AsMonitor!Unlock(t) \/ AsMonitor!Wait(t)
<1> USE DEF LockInv
<1>1. mutex # 0
  BY DEF g_mutex_unlock, HeldWordNonzero, Holds
<1>2. /\ pc[t] \in {"crit", "cunlock"} /\ UNCHANGED <<cond, sampled, owed>>
      /\ after' = [after EXCEPT ![t] = IF pc[t] = "crit" THEN "idle" ELSE "cfwait"]
      /\ \E l \in {"mwake", after'[t]} : pc' = [pc EXCEPT ![t] = l]
  BY <1>1 DEF g_mutex_unlock, Goto, TypeOK
<1>3. {u \in Threads : Holds(u)} = {t}
  BY <1>2 DEF Holds, MutualExclusion
<1>4. {u \in Threads : Holds(u)}' = {}
  BY <1>2, <1>3 DEF Holds, TypeOK
<1>5. Calling' = Calling /\ Calling[t] = "none"
  BY <1>2 DEF Calling, TypeOK
<1>6. \A u \in Threads \ {t} : Blocked(u)' <=> Blocked(u)
  BY <1>2 DEF Blocked, GoesToSleep, TypeOK
<1>7. ~ Blocked(t)
  BY <1>2 DEF Blocked, GoesToSleep
<1>8. CASE Blocked(t)'
  <2>1. Waiters' = Waiters \cup {t}
    BY <1>6, <1>8 DEF Waiters
  <2> QED
    BY <1>2, <1>3, <1>4, <1>5, <2>1 DEF AsMonitor!Wait
<1>9. CASE ~ Blocked(t)'
  <2>1. Waiters' = Waiters
    BY <1>6, <1>7, <1>9 DEF Waiters
  <2> QED
    BY <1>2, <1>3, <1>4, <1>5, <2>1 DEF AsMonitor!Unlock
<1> QED
  BY <1>8, <1>9

\* Woken is what the monitor says of threads that are unblocked.
LEMMA WokenUnblocks ==
  ASSUME LockInv, NEW W, Waiters' = Waiters \ W, owed' = Woken(W)
  PROVE  AsMonitor!Unblock(W)
<1>1. \A s \in Threads : Settled(s, W) <=>
        /\ Calling[s] = "signal"
        /\ IF s \in {u \in Threads : Holds(u)} THEN owed[s] \cap W # {} ELSE W # {}
  BY DEF Settled, Calling, Holds
<1>2. owed' = [s \in Threads |->
                 IF /\ Calling[s] = "signal"
                    /\ IF s \in {u \in Threads : Holds(u)} THEN owed[s] \cap W # {}
                                                           ELSE W # {}
                 THEN {} ELSE owed[s] \ W]
  BY <1>1 DEF Woken
<1> QED
  BY <1>2 DEF AsMonitor!Unblock

\* The increment begins the call, and unblocks those on their way to sleep.
LEMMA BumpBegins ==
  ASSUME LockInv, MonitorInv, NEW t \in Threads, g_cond_signal(t) \/ g_cond_broadcast(t)
  PROVE  \E kind \in {"signal", "broadcast"} : AsMonitor!Begin(t, kind)
<1> USE DEF LockInv, MonitorInv
<1> DEFINE label == IF g_cond_signal(t) THEN "csignal" ELSE "cbroadcast"
           kind == IF g_cond_signal(t) THEN "signal" ELSE "broadcast"
           gone == Waiters \ Waiters'
<1>1. BumpGeneration(t, label) /\ label \in {"csignal", "cbroadcast"}
  BY DEF g_cond_signal, g_cond_broadcast
<1>2. Waiters' \subseteq Waiters /\ ~ Blocked(t)
  BY <1>1, BumpBlocks
<1>3. owed' = [owed EXCEPT ![t] = IF kind = "signal" /\ gone # {} THEN {}
                                  ELSE Waiters \ gone]
  <2>1. Waiters \ gone = Waiters'
    BY <1>2
  <2>2. CASE g_cond_signal(t)
    BY <2>1, <2>2, SignalOwes
  <2>3. CASE ~ g_cond_signal(t)
    BY <2>1, <2>3, BroadcastOwes
  <2> QED
    BY <2>2, <2>3
<1>4. /\ pc[t] \in {"idle", "crit"} /\ pc' = [pc EXCEPT ![t] = label]
      /\ after' = [after EXCEPT ![t] = pc[t]]
  BY <1>1 DEF BumpGeneration, Goto
<1>5. {u \in Threads : Holds(u)}' = {u \in Threads : Holds(u)}
  BY <1>1, <1>4 DEF Holds, TypeOK
<1>6. Calling[t] = "none" /\ Calling' = [Calling EXCEPT ![t] = kind]
  BY <1>4 DEF Calling, TypeOK
<1>7. t \notin Waiters /\ gone \in SUBSET Waiters /\ Waiters' = Waiters \ gone
  BY <1>2 DEF Waiters
<1>8. kind \in {"signal", "broadcast"}
  OBVIOUS
<1>9. AsMonitor!Begin(t, kind)
  BY <1>3, <1>5, <1>6, <1>7 DEF AsMonitor!Begin
<1> QED
  BY <1>8, <1>9

\* FUTEX_WAKE ends the call; nobody is owed anything then.
LEMMA WakeReturns ==
  ASSUME LockInv, MonitorInv, NEW t \in Threads, SignalWake(t) \/ BroadcastWake(t)
  PROVE  AsMonitor!Return(t)
<1> USE DEF LockInv, MonitorInv, TypeOK
<1>1. pc[t] \in {"csignal", "cbroadcast"} /\ UNCHANGED <<cond, after, sampled>>
  BY DEF SignalWake, BroadcastWake
<1>2. ASSUME NEW W \in SUBSET Threads, \A u \in W : pc[u] = "csleep" /\ pc'[u] = "relock",
             \A u \in Threads \ (W \cup {t}) : pc'[u] = pc[u],
             pc'[t] = after[t], pc' \in [Threads -> PC], owed' = Woken(W), owed'[t] = {}
      PROVE  AsMonitor!Return(t)
  <2>1. t \notin W
    BY <1>1, <1>2
  <2>2. Waiters' = Waiters \ W
    <3>1. \A u \in Threads \ W :
            \/ pc'[u] = pc[u]
            \/ pc[u] \in {"csignal", "cbroadcast"} /\ pc'[u] = after[u]
      BY <1>1, <1>2
    <3> QED
      BY <1>1, <1>2, <3>1, WakeUnblocks
  <2>3. AsMonitor!Unblock(W)
    BY <1>2, <2>2, WokenUnblocks
  <2>4. W \in SUBSET Waiters
    BY <1>2 DEF Waiters, Blocked
  <2>5. {u \in Threads : Holds(u)}' = {u \in Threads : Holds(u)}
    BY <1>1, <1>2, <2>1 DEF Holds, ReturnOK
  <2>6. Calling[t] # "none" /\ Calling' = [Calling EXCEPT ![t] = "none"]
    BY <1>1, <1>2, <2>1 DEF Calling, ReturnOK
  <2> QED
    BY <1>2, <2>3, <2>4, <2>5, <2>6 DEF AsMonitor!Return
<1>3. CASE SignalWake(t)
  <2>1. ASSUME NEW u \in Threads, pc[u] = "csleep",
               pc' = [pc EXCEPT ![u] = "relock", ![t] = after[t]], owed' = Woken({u})
        PROVE  AsMonitor!Return(t)
    <3>1. pc[t] = "csignal" /\ u # t
      BY <1>3, <2>1 DEF SignalWake
    <3>2. u \in Waiters
      BY <2>1 DEF Waiters, Blocked
    <3>3. owed[t] = {} \/ after[t] # "crit" \/ u \in owed[t]
      BY <3>1, <3>2 DEF NoLatecomer
    <3>4. owed'[t] = {}
      BY <2>1, <3>1, <3>3 DEF Woken, Settled
    <3>5. pc' \in [Threads -> PC]
      BY <2>1 DEF PC
    <3>6. /\ {u} \in SUBSET Threads /\ \A v \in {u} : pc[v] = "csleep" /\ pc'[v] = "relock"
          /\ \A v \in Threads \ ({u} \cup {t}) : pc'[v] = pc[v]
          /\ pc'[t] = after[t]
      BY <2>1, <3>1
    <3> HIDE DEF LockInv, MonitorInv, TypeOK
    <3> QED
      BY <1>2, <2>1, <3>4, <3>5, <3>6
  <2>2. ASSUME \A u \in Threads : pc[u] # "csleep", Goto(t, after[t]), UNCHANGED owed
        PROVE  AsMonitor!Return(t)
    <3>1. owed[t] = {}
      BY <2>2 DEF OwedAsleep
    <3>2. Woken({}) = owed
      BY DEF Woken, Settled
    <3>3. pc' = [pc EXCEPT ![t] = after[t]] /\ pc' \in [Threads -> PC]
      BY <2>2 DEF Goto, PC
    <3> QED
      BY <1>2, <2>2, <3>1, <3>2, <3>3
  <2> QED
    BY <1>3, <2>1, <2>2 DEF SignalWake
<1>4. CASE BroadcastWake(t)
  <2> DEFINE W == {u \in Threads : pc[u] = "csleep"}
  <2>1. owed' = Woken(W)
    BY <1>4 DEF BroadcastWake
  <2>2. owed[t] \subseteq W
    BY DEF OwedAsleep
  <2>3. owed'[t] = {}
    BY <2>1, <2>2 DEF Woken
  <2>4. pc' \in [Threads -> PC]
    BY <1>4 DEF BroadcastWake, PC
  <2> QED
    BY <1>2, <1>4, <2>1, <2>3, <2>4 DEF BroadcastWake
<1> QED
  BY <1>3, <1>4

LEMMA MonitorStep ==
  LockInv /\ LockInv' /\ MonitorInv /\ [Next]_vars => [AsMonitor!Next]_(AsMonitor!vars)
<1> SUFFICES ASSUME LockInv, LockInv', MonitorInv, [Next]_vars
             PROVE  AsMonitor!Next \/ UNCHANGED AsMonitor!vars
  OBVIOUS
<1> USE DEF LockInv, TypeOK, Goto
<1>1. ASSUME NEW t \in Threads, g_mutex_lock(t)
      PROVE  AsMonitor!Next \/ UNCHANGED AsMonitor!vars
  <2>1. CASE mutex = 0
    BY <1>1, <2>1, TakesLock DEF g_mutex_lock, AsMonitor!Next
  <2>2. CASE mutex # 0
    BY <1>1, <2>2, Unseen DEF g_mutex_lock, Blocked, GoesToSleep, Holds, Calling
  <2> QED
    BY <2>1, <2>2
<1>2. ASSUME NEW t \in Threads, g_mutex_lock_slowpath(t)
      PROVE  AsMonitor!Next \/ UNCHANGED AsMonitor!vars
  <2>1. CASE mutex = 0
    BY <1>2, <2>1, TakesLock DEF g_mutex_lock_slowpath, AsMonitor!Next
  <2>2. CASE mutex # 0
    BY <1>2, <2>2, Unseen DEF g_mutex_lock_slowpath, Blocked, GoesToSleep, Holds, Calling
  <2> QED
    BY <2>1, <2>2
<1>3. ASSUME NEW t \in Threads, FutexWaitMutex(t)
      PROVE  AsMonitor!Next \/ UNCHANGED AsMonitor!vars
  BY <1>3, Unseen DEF FutexWaitMutex, Blocked, GoesToSleep, Holds, Calling
<1>4. ASSUME NEW t \in Threads, g_mutex_unlock(t)
      PROVE  AsMonitor!Next \/ UNCHANGED AsMonitor!vars
  BY <1>4, GivesLock DEF AsMonitor!Next
<1>5. ASSUME NEW t \in Threads, g_mutex_unlock_slowpath(t)
      PROVE  AsMonitor!Next \/ UNCHANGED AsMonitor!vars
  BY <1>5, Unseen DEF g_mutex_unlock_slowpath, Blocked, GoesToSleep, Holds, Calling,
     ReturnOK
<1>6. ASSUME NEW t \in Threads, FutexWaitCond(t)
      PROVE  AsMonitor!Next \/ UNCHANGED AsMonitor!vars
  BY <1>6, Unseen DEF FutexWaitCond, Blocked, GoesToSleep, Holds, Calling
<1>7. ASSUME NEW t \in Threads, SignalWake(t) \/ BroadcastWake(t)
      PROVE  AsMonitor!Next \/ UNCHANGED AsMonitor!vars
  BY <1>7, WakeReturns DEF AsMonitor!Next
<1>8. ASSUME NEW t \in Threads, g_mutex_trylock(t)
      PROVE  AsMonitor!Next \/ UNCHANGED AsMonitor!vars
  BY <1>8, TakesLock DEF g_mutex_trylock, AsMonitor!Next
<1>9. ASSUME NEW t \in Threads, g_cond_wait(t)
      PROVE  AsMonitor!Next \/ UNCHANGED AsMonitor!vars
  BY <1>9, Unseen DEF g_cond_wait, Blocked, GoesToSleep, Holds, Calling
<1>10. ASSUME NEW t \in Threads, g_cond_signal(t) \/ g_cond_broadcast(t)
       PROVE  AsMonitor!Next \/ UNCHANGED AsMonitor!vars
  BY <1>10, BumpBegins DEF AsMonitor!Next
<1>11. ASSUME NEW t \in Threads, SleepEnds(t)
       PROVE  AsMonitor!Next \/ UNCHANGED AsMonitor!vars
  <2>1. CASE pc[t] = "msleep"
    BY <1>11, <2>1, Unseen DEF SleepEnds, Blocked, GoesToSleep, Holds, Calling
  <2>2. CASE pc[t] = "csleep"
    <3>1. /\ pc' = [pc EXCEPT ![t] = "relock"] /\ owed' = Woken({t})
          /\ UNCHANGED <<cond, after, sampled>>
      BY <1>11, <2>2 DEF SleepEnds
    <3>2. /\ \A v \in {t} : pc[v] = "csleep" /\ pc'[v] = "relock"
          /\ \A v \in Threads \ {t} : pc'[v] = pc[v]
      BY <2>2, <3>1
    <3>3. Waiters' = Waiters \ {t}
      BY <3>1, <3>2, WakeUnblocks
    <3>4. AsMonitor!Unblock({t})
      BY <3>1, <3>3, WokenUnblocks
    <3>5. t \in Waiters
      BY <2>2 DEF Waiters, Blocked
    <3>6. {u \in Threads : Holds(u)}' = {u \in Threads : Holds(u)}
      BY <2>2, <3>1 DEF Holds
    <3>7. Calling' = Calling
      BY <2>2, <3>1 DEF Calling
    <3>8. AsMonitor!WaitEnds(t)
      BY <3>4, <3>5, <3>6, <3>7 DEF AsMonitor!WaitEnds
    <3> QED
      BY <3>8 DEF AsMonitor!Next
  <2> QED
    BY <1>11, <2>1, <2>2 DEF SleepEnds
<1>12. CASE UNCHANGED vars
  BY <1>12, Unseen DEF vars, Blocked, GoesToSleep, Holds, Calling
<1> QED
  BY <1>1, <1>2, <1>3, <1>4, <1>5, <1>6, <1>7, <1>8, <1>9, <1>10, <1>11, <1>12
     DEF Next, Call, Continue

\* The futex mutex and condition variable implement the monitor: whatever holds
\* of locks, atomic waits and signals that unblock a waiting thread holds of
\* g_mutex_lock, g_cond_wait, g_cond_signal and g_cond_broadcast.
THEOREM Refinement == Spec => ImplementsMonitor
<1>1. Init => AsMonitor!Init
  <2> SUFFICES ASSUME Init PROVE AsMonitor!Init
    OBVIOUS
  <2>1. \A t \in Threads : ~ Holds(t) /\ ~ Blocked(t)
    BY DEF Init, Holds, Blocked, GoesToSleep
  <2>2. Calling = [t \in Threads |-> "none"]
    BY DEF Init, Calling
  <2> QED
    BY <2>1, <2>2 DEF AsMonitor!Init, Waiters, Init
<1>2. LockInv /\ LockInv' /\ MonitorInv /\ [Next]_vars => [AsMonitor!Next]_(AsMonitor!vars)
  BY MonitorStep
<1> QED
  BY <1>1, <1>2, LockInvariant, MonitorInvariant, PTL
     DEF Spec, ImplementsMonitor, AsMonitor!Spec
=============================================================================
