------------------------------- MODULE Monitor -------------------------------
(***************************************************************************)
(* What xmutex_t and xcond_t promise together, without words, generations  *)
(* or system calls: a lock that one thread holds, a wait that gives the    *)
(* lock up and begins to wait in one step, and signals that unblock one,   *)
(* or every, thread that waited when they were given.                      *)
(*                                                                         *)
(* A wait may also end by itself (a timed wait, a spurious wakeup).        *)
(***************************************************************************)
EXTENDS FiniteSets

CONSTANT Threads

VARIABLES
  holding,   \* the thread that holds the lock, as a set
  waiting,   \* the threads that wait
  calls,     \* the signal or broadcast each thread is making
  owes       \* the threads of which that call has to unblock one, or all

vars == <<holding, waiting, calls, owes>>

Init ==
  /\ holding = {}
  /\ waiting = {}
  /\ calls = [t \in Threads |-> "none"]
  /\ owes = [t \in Threads |-> {}]

Lock(t) ==
  /\ holding = {} /\ t \notin waiting /\ calls[t] = "none"
  /\ holding' = {t}
  /\ UNCHANGED <<waiting, calls, owes>>

Unlock(t) ==
  /\ holding = {t} /\ calls[t] = "none"
  /\ holding' = {}
  /\ UNCHANGED <<waiting, calls, owes>>

\* The lock is given up and the wait begins at once: no signal falls between.
Wait(t) ==
  /\ holding = {t} /\ calls[t] = "none"
  /\ holding' = {}
  /\ waiting' = waiting \cup {t}
  /\ UNCHANGED <<calls, owes>>

\* The threads of unblocked go on.  A signal given with the lock held must
\* unblock a thread that waited then; one given without it may do with a
\* thread that came later.
Unblock(unblocked) ==
  /\ waiting' = waiting \ unblocked
  /\ owes' = [t \in Threads |->
                IF calls[t] = "signal"
                   /\ (IF t \in holding THEN owes[t] \cap unblocked # {}
                                        ELSE unblocked # {})
                THEN {} ELSE owes[t] \ unblocked]

WaitEnds(t) ==
  /\ t \in waiting
  /\ Unblock({t})
  /\ UNCHANGED <<holding, calls>>

\* A signal or a broadcast begins; some threads it unblocks at once.
Begin(t, kind) ==
  /\ calls[t] = "none" /\ t \notin waiting
  /\ calls' = [calls EXCEPT ![t] = kind]
  /\ \E unblocked \in SUBSET waiting :
       /\ waiting' = waiting \ unblocked
       /\ owes' = [owes EXCEPT ![t] = IF kind = "signal" /\ unblocked # {}
                                      THEN {} ELSE waiting \ unblocked]
  /\ UNCHANGED holding

\* It returns when nothing is owed any more.
Return(t) ==
  /\ calls[t] # "none"
  /\ calls' = [calls EXCEPT ![t] = "none"]
  /\ \E unblocked \in SUBSET waiting : Unblock(unblocked)
  /\ owes'[t] = {}
  /\ UNCHANGED holding

Next ==
  \E t \in Threads :
    \/ Lock(t) \/ Unlock(t) \/ Wait(t) \/ WaitEnds(t) \/ Return(t)
    \/ \E kind \in {"signal", "broadcast"} : Begin(t, kind)

Spec == Init /\ [][Next]_vars

=============================================================================
