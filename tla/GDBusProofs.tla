----------------------------- MODULE GDBusProofs -----------------------------
(***************************************************************************)
(* Safety of the two parts of a D-Bus connection.                          *)
(*                                                                         *)
(* GDBusCalls, for every finite set of calls, with and without timeouts    *)
(* and cancellables, and for every number of replies and closes: the       *)
(* references of the tasks, the map of the calls that wait and the outcome *)
(* of each call.  last_serial is assumed not to come round.                *)
(*                                                                         *)
(* GDBusWorker, for every set of messages, flushers and closers: the       *)
(* inductive invariant says where each message is, what the worker thread  *)
(* has begun, that work which waits has something coming to do it, and     *)
(* what the counters messages_written and messages_flushed mean to a flush *)
(* that waits.                                                             *)
(***************************************************************************)
EXTENDS GDBusCalls, GDBusWorker, FiniteSetTheorems, SequenceTheorems, TLAPS

-----------------------------------------------------------------------------
(***************************************************************************)
(* The calls: GDBusCalls.                                                  *)
(***************************************************************************)
\* A thread is inside send_message_with_reply_cleanup for the call.
Cleaning(k) ==
  context[k] = "disconnect" \/ (worker \in {"reply", "close"} /\ worker_call = k)

\* The call is in the map: sent, and not delivered or still being cleaned up.
Waits(k) == run[k] = "done" /\ (~delivered[k] \/ Cleaning(k))

\* The thread of the main context has delivered the call and not returned it.
Erring(k) == context[k] \in {"disconnect", "return"}

\* Who holds the lock is inside a section of it, and the other way round.
LockOK ==
  /\ \A k \in Calls : lock = <<k, "caller">> <=> run[k] = "insert"
  /\ \A k \in Calls : lock = <<k, "context">> <=> context[k] = "disconnect"
  /\ lock = Worker <=> worker # "idle"
  /\ worker \in {"reply", "close"} => worker_call \in Calls

\* The call has its serial.
Sent(k) == run[k] \in {"insert", "done"}

\* The calls that are still to be made.
Unused == {k \in Calls : run[k] = "unused"}

\* Serials are given in order, and there are enough of them for all calls: two
\* calls that are under way never have the same one.
SerialsOK ==
  /\ last_serial + Cardinality(Unused) < Modulus
  /\ \A k \in Calls : Sent(k) => serial[k] <= last_serial
  /\ \A j, k \in Calls : Sent(j) /\ Sent(k) /\ serial[j] = serial[k] => j = k

\* The map has exactly the calls that wait for a reply.
MapOK ==
  \A k \in Calls, s \in Serials : map[s] = k <=> Waits(k) /\ serial[k] = s

\* How far a call may have come in each phase of its life.
PhaseAt(k) ==
  /\ run[k] # "done" => /\ ~delivered[k] /\ ~timeout_source[k] /\ ~handler[k]
                        /\ cancel_idle[k] = 0 /\ context[k] = "idle"
  /\ source[k] = "none" <=> context[k] = "idle"
  /\ delivered[k] => ~timeout_source[k]
  /\ Cleaning(k) \/ Erring(k) => delivered[k]
  /\ handler[k] => Waits(k)
  /\ k \in emitting => handler[k]
  /\ context[k] = "disconnect" => ~(worker \in {"reply", "close"} /\ worker_call = k)

\* RefsExact for one call, in terms of the phase of the call and not of the map.
RefsAt(k) ==
  ref_count[k] =
    Count(run[k] = "insert") + Count(Waits(k)) + Count(handler[k])
    + Count(timeout_source[k] \/ source[k] = "timeout")
    + Count(source[k] = "cancelled") + cancel_idle[k] + 2 * return_idle[k]
    + Count(Erring(k))

\* A call is returned when it is delivered, by the main context a little later.
ReturnsAt(k) ==
  /\ returns[k] = Count(run[k] = "failed" \/ (delivered[k] /\ ~Erring(k)))
  /\ calls[k] + return_idle[k] = returns[k]
  /\ calls[k] = 1 => got[k] \in {outcome[k], "cancelled"}

\* What holds of every call.
CallOK(k) == PhaseAt(k) /\ RefsAt(k) /\ ReturnsAt(k)

\* The end of the connection, and the one emission of "closed".
ClosedOK ==
  /\ worker \in {"closing", "close"} => closed
  /\ emit_closed + closed_emitted =
       Count(closed /\ worker \notin {"closing", "close"})
  /\ closed => \A k \in Calls : run[k] # "insert"
  /\ closed /\ worker \notin {"closing", "close"} =>
       \A k \in Calls : run[k] = "done" => delivered[k]

\* The inductive invariant.
CallInv ==
  /\ TypeOK /\ LockOK /\ SerialsOK /\ MapOK /\ ClosedOK
  /\ \A k \in Calls : CallOK(k)

\* A step that leaves the call alone.
Untouched(k) ==
  /\ run'[k] = run[k] /\ delivered'[k] = delivered[k] /\ handler'[k] = handler[k]
  /\ timeout_source'[k] = timeout_source[k] /\ cancel_idle'[k] = cancel_idle[k]
  /\ context'[k] = context[k] /\ source'[k] = source[k]
  /\ ref_count'[k] = ref_count[k] /\ return_idle'[k] = return_idle[k]
  /\ returns'[k] = returns[k] /\ calls'[k] = calls[k]
  /\ got'[k] = got[k] /\ outcome'[k] = outcome[k]
  /\ k \in emitting' => k \in emitting
  /\ Cleaning(k)' <=> Cleaning(k)
  /\ (worker' \in {"reply", "close"} /\ worker_call' = k)
       => (worker \in {"reply", "close"} /\ worker_call = k)

\* Such a step preserves what is said of the call.
LEMMA OtherCalls ==
  ASSUME NEW k \in Calls, CallOK(k), Untouched(k)
  PROVE  CallOK(k)'
<1>1. Waits(k)' <=> Waits(k)
  BY DEF Untouched, Waits
<1>2. Erring(k)' <=> Erring(k)
  BY DEF Untouched, Erring
<1>3. PhaseAt(k)'
  BY <1>1, <1>2 DEF Untouched, CallOK, PhaseAt
<1>4. RefsAt(k)'
  BY <1>1, <1>2 DEF Untouched, CallOK, RefsAt, Count
<1>5. ReturnsAt(k)'
  BY <1>2 DEF Untouched, CallOK, ReturnsAt
<1> QED BY <1>3, <1>4, <1>5 DEF CallOK

\* A step that gives no serial.
LEMMA SameSerials ==
  ASSUME TypeOK, SerialsOK, last_serial' = last_serial, serial' = serial,
         \A k \in Calls :
             (Sent(k)' => Sent(k)) /\ (run'[k] = "unused" <=> run[k] = "unused")
  PROVE  SerialsOK'
<1>1. Unused' = Unused
  BY DEF Unused
<1> QED BY <1>1 DEF SerialsOK

\* A step that leaves the map alone.
LEMMA SameMap ==
  ASSUME MapOK, map' = map, serial' = serial, \A k \in Calls : Waits(k)' <=> Waits(k)
  PROVE  MapOK'
BY DEF MapOK

\* A call leaves the map.
LEMMA MapWithout ==
  ASSUME CallInv, NEW k \in Calls, Waits(k), ~Waits(k)', serial' = serial,
         map' = [map EXCEPT ![serial[k]] = None],
         \A j \in Calls : j # k => (Waits(j)' <=> Waits(j))
  PROVE  MapOK'
<1>1. MapOK /\ map \in [Serials -> Calls \cup {None}] /\ serial[k] \in Serials
  BY DEF CallInv, TypeOK, Waits
<1>2. map[serial[k]] = k /\ None \notin Calls
  BY <1>1, GDBusCallsAssumption DEF MapOK
<1>3. \A s \in Serials : map'[s] = IF s = serial[k] THEN None ELSE map[s]
  BY <1>1
<1> QED BY <1>1, <1>2, <1>3 DEF MapOK

\* The end of xdbus_connection_send_message_with_reply_unlocked: the call enters
\* the map with its sources and handlers.
LEMMA InsertStep ==
  ASSUME CallInv, NEW k \in Calls, InsertCall(k)
  PROVE  CallInv'
<1>1. Waits(k)' /\ ~Waits(k) /\ ~Erring(k) /\ ~Erring(k)'
  BY DEF CallInv, InsertCall, contextvars, TypeOK, CallOK, PhaseAt, Waits, Erring
<1>2. PhaseAt(k)'
  BY <1>1
     DEF CallInv, InsertCall, contextvars, workervars, cancelvars, TypeOK, CallOK,
         PhaseAt, Cleaning
<1>3. RefsAt(k)'
  <2>1. /\ ~timeout_source[k] /\ source[k] = "none" /\ cancel_idle[k] = 0
        /\ ~handler[k] /\ run[k] = "insert"
    BY DEF CallInv, CallOK, PhaseAt, InsertCall
  <2>2. /\ ref_count[k] = 1 + 2 * return_idle[k]
    BY <1>1, <2>1 DEF CallInv, TypeOK, CallOK, RefsAt, Count
  <2>3. /\ run'[k] = "done" /\ source'[k] = source[k] /\ (timeout_source'[k]
               <=> k \in Timed)
        /\ return_idle'[k] = return_idle[k]
    BY DEF CallInv, TypeOK, InsertCall, contextvars
  <2>4. /\ k \in Cancellable => (handler'[k] <=> ~cancelled)
        /\ k \notin Cancellable => ~handler'[k]
    BY DEF CallInv, TypeOK, InsertCall, IsCancelled
  <2>5. cancel_idle'[k] = IF k \in Cancellable /\ cancelled THEN 1 ELSE 0
    BY <2>1 DEF CallInv, TypeOK, InsertCall, IsCancelled
  <2>6. ref_count'[k] = ref_count[k] + (IF k \in Cancellable THEN 1
            ELSE 0) + (IF k \in Timed THEN 1 ELSE 0)
    BY DEF CallInv, TypeOK, InsertCall
  <2>7. CASE k \in Cancellable /\ cancelled
    BY <1>1, <2>1, <2>2, <2>3, <2>4, <2>5, <2>6, <2>7
       DEF CallInv, TypeOK, RefsAt, Count
  <2>8. CASE ~(k \in Cancellable /\ cancelled)
    BY <1>1, <2>1, <2>2, <2>3, <2>4, <2>5, <2>6, <2>8
       DEF CallInv, TypeOK, RefsAt, Count
  <2> QED BY <2>7, <2>8
<1>4. ReturnsAt(k)'
  BY <1>1 DEF CallInv, InsertCall, CallOK, ReturnsAt
<1>5. \A j \in Calls \ {k} : Untouched(j)
  BY DEF InsertCall, contextvars, workervars, cancelvars, Untouched, Cleaning
<1>6. ref_count'[k] \in Nat
  BY DEF CallInv, InsertCall, TypeOK
<1>7. ref_count' \in [Calls -> Nat]
  BY DEF CallInv, InsertCall, TypeOK
<1>8. TypeOK'
  BY DEF CallInv, InsertCall, contextvars, workervars, cancelvars, TypeOK, Holders,
     Free
<1>9. LockOK'
  BY DEF CallInv, InsertCall, contextvars, workervars, TypeOK, LockOK, Free, Worker
<1>10. SerialsOK'
  BY SameSerials DEF CallInv, InsertCall, Sent
<1>11. \A j \in Calls : j # k => (Waits(j)' <=> Waits(j))
  BY <1>5 DEF Untouched, Waits
<1>12. MapOK'
  <2>1. \A j \in Calls : Waits(j) /\ j # k => serial[j] # serial[k]
    BY DEF CallInv, SerialsOK, Sent, Waits, InsertCall
  <2>2. serial' = serial /\ map' = [map EXCEPT ![serial[k]] = k]
            /\ map \in [Serials -> Calls \cup {None}] /\ serial[k] \in Serials
    BY DEF CallInv, TypeOK, InsertCall
  <2> QED BY <1>1, <1>11, <2>1, <2>2 DEF CallInv, MapOK
<1>13. ClosedOK'
  BY DEF CallInv, InsertCall, workervars, ClosedOK
<1> QED BY <1>2, <1>3, <1>4, <1>5, <1>8, <1>9, <1>10, <1>12, <1>13, OtherCalls DEF
           CallInv, CallOK

\* The peer answers.
LEMMA PeerStep ==
  ASSUME CallInv, NEW k \in Calls, PeerReplies(k)
  PROVE  CallInv'
<1>1. (Waits(k)' <=> Waits(k)) /\ (Erring(k)' <=> Erring(k))
  BY DEF PeerReplies, callvars, contextvars, Waits, Cleaning, Erring
<1>2. PhaseAt(k)'
  BY <1>1
     DEF CallInv, PeerReplies, callvars, contextvars, cancelvars, CallOK, PhaseAt,
         Cleaning
<1>3. RefsAt(k)'
  BY <1>1 DEF CallInv, PeerReplies, callvars, taskvars, contextvars, CallOK, RefsAt,
     Count
<1>4. ReturnsAt(k)'
  BY <1>1 DEF CallInv, PeerReplies, callvars, taskvars, CallOK, ReturnsAt
<1>5. \A j \in Calls \ {k} : Untouched(j)
  BY DEF PeerReplies, callvars, taskvars, contextvars, cancelvars, Untouched, Cleaning
<1>6. ref_count'[k] \in Nat
  BY DEF CallInv, PeerReplies, taskvars, TypeOK
<1>7. ref_count' \in [Calls -> Nat]
  BY DEF CallInv, PeerReplies, taskvars, TypeOK
<1>8. TypeOK'
  BY GDBusCallsAssumption DEF CallInv, PeerReplies, connvars, callvars, taskvars,
     contextvars, cancelvars, TypeOK
<1>9. LockOK'
  BY DEF CallInv, PeerReplies, callvars, contextvars, LockOK
<1>10. SerialsOK'
  BY SameSerials DEF CallInv, PeerReplies, connvars, callvars, Sent
<1>11. \A j \in Calls : j # k => (Waits(j)' <=> Waits(j))
  BY <1>5 DEF Untouched, Waits
<1>12. MapOK'
  BY <1>1, <1>11, SameMap DEF CallInv, PeerReplies, connvars, callvars
<1>13. ClosedOK'
  BY DEF CallInv, PeerReplies, connvars, callvars, ClosedOK
<1> QED BY <1>2, <1>3, <1>4, <1>5, <1>8, <1>9, <1>10, <1>12, <1>13, OtherCalls DEF
           CallInv, CallOK

\* The cancellable calls its handler, which queues an idle source.
LEMMA CancelledStep ==
  ASSUME CallInv, NEW k \in Calls, send_message_with_reply_cancelled_cb(k)
  PROVE  CallInv'
<1>1. (Waits(k)' <=> Waits(k)) /\ (Erring(k)' <=> Erring(k))
  BY DEF send_message_with_reply_cancelled_cb, callvars, contextvars, workervars,
     Waits, Cleaning, Erring
<1>2. PhaseAt(k)'
  BY <1>1 DEF CallInv, send_message_with_reply_cancelled_cb, callvars, contextvars,
     workervars, CallOK, PhaseAt, Cleaning
<1>3. RefsAt(k)'
  BY <1>1, GDBusCallsAssumption
     DEF CallInv, send_message_with_reply_cancelled_cb, connvars, callvars, taskvars,
         contextvars, workervars, cancelvars, TypeOK, CallOK, RefsAt, PhaseAt, Count,
         TimeoutRefs
<1>4. ReturnsAt(k)'
  BY <1>1
     DEF CallInv, send_message_with_reply_cancelled_cb, callvars, CallOK, ReturnsAt
<1>5. \A j \in Calls \ {k} : Untouched(j)
  BY DEF send_message_with_reply_cancelled_cb, callvars, contextvars, workervars,
     Untouched, Cleaning
<1>6. ref_count'[k] \in Nat
  BY DEF CallInv, send_message_with_reply_cancelled_cb, TypeOK
<1>7. ref_count' \in [Calls -> Nat]
  BY DEF CallInv, send_message_with_reply_cancelled_cb, TypeOK
<1>8. TypeOK'
  BY DEF CallInv, send_message_with_reply_cancelled_cb, connvars, callvars,
     contextvars, workervars, cancelvars, TypeOK
<1>9. LockOK'
  BY DEF CallInv, send_message_with_reply_cancelled_cb, callvars, contextvars,
     workervars, LockOK, Holders
<1>10. SerialsOK'
  BY SameSerials
     DEF CallInv, send_message_with_reply_cancelled_cb, connvars, callvars, Sent
<1>11. \A j \in Calls : j # k => (Waits(j)' <=> Waits(j))
  BY <1>5 DEF Untouched, Waits
<1>12. MapOK'
  BY <1>1, <1>11, SameMap DEF CallInv, send_message_with_reply_cancelled_cb, connvars,
     callvars
<1>13. ClosedOK'
  BY DEF CallInv, send_message_with_reply_cancelled_cb, connvars, callvars,
     workervars, ClosedOK
<1> QED BY <1>2, <1>3, <1>4, <1>5, <1>8, <1>9, <1>10, <1>12, <1>13, OtherCalls DEF
           CallInv, CallOK

\* The time of the call is over.
LEMMA TimeoutStep ==
  ASSUME CallInv, NEW k \in Calls, DispatchTimeout(k)
  PROVE  CallInv'
<1>1. (Waits(k)' <=> Waits(k)) /\ (Erring(k)' <=> Erring(k))
  BY GDBusCallsAssumption
     DEF CallInv, DispatchTimeout, connvars, callvars, contextvars, workervars,
         CallOK, PhaseAt, Waits, Erring
<1>2. PhaseAt(k)'
  BY <1>1 DEF CallInv, DispatchTimeout, callvars, workervars, cancelvars, TypeOK,
     CallOK, PhaseAt, Cleaning
<1>3. RefsAt(k)'
  BY <1>1, GDBusCallsAssumption DEF CallInv, DispatchTimeout, connvars, callvars,
     taskvars, contextvars, workervars, cancelvars, TypeOK, CallOK, RefsAt, PhaseAt,
     Count, TimeoutRefs
<1>4. ReturnsAt(k)'
  BY <1>1 DEF CallInv, DispatchTimeout, callvars, taskvars, CallOK, ReturnsAt
<1>5. \A j \in Calls \ {k} : Untouched(j)
  BY DEF DispatchTimeout, callvars, taskvars, workervars, cancelvars, Untouched,
     Cleaning
<1>6. ref_count'[k] \in Nat
  BY DEF CallInv, DispatchTimeout, taskvars, TypeOK
<1>7. ref_count' \in [Calls -> Nat]
  BY DEF CallInv, DispatchTimeout, taskvars, TypeOK
<1>8. TypeOK'
  BY DEF CallInv, DispatchTimeout, connvars, callvars, taskvars, workervars,
     cancelvars, TypeOK
<1>9. LockOK'
  BY DEF CallInv, DispatchTimeout, callvars, workervars, LockOK
<1>10. SerialsOK'
  BY SameSerials DEF CallInv, DispatchTimeout, connvars, callvars, Sent
<1>11. \A j \in Calls : j # k => (Waits(j)' <=> Waits(j))
  BY <1>5 DEF Untouched, Waits
<1>12. MapOK'
  BY <1>1, <1>11, SameMap DEF CallInv, DispatchTimeout, connvars, callvars
<1>13. ClosedOK'
  BY <1>2, <1>5, GDBusCallsAssumption
     DEF CallInv, DispatchTimeout, connvars, callvars, taskvars, contextvars,
         workervars, cancelvars, TypeOK, ClosedOK, LockOK, CallOK, PhaseAt, MapOK,
         Waits, Cleaning, Count, Free, Worker, Holders, Serials, MayDisconnect
<1> QED BY <1>2, <1>3, <1>4, <1>5, <1>8, <1>9, <1>10, <1>12, <1>13, OtherCalls DEF
           CallInv, CallOK

\* The idle source of the cancellation.
LEMMA CancelledIdleStep ==
  ASSUME CallInv, NEW k \in Calls, send_message_with_reply_cancelled_idle_cb(k)
  PROVE  CallInv'
<1>1. (Waits(k)' <=> Waits(k)) /\ (Erring(k)' <=> Erring(k))
  BY DEF send_message_with_reply_cancelled_idle_cb, callvars, workervars, Waits,
     Cleaning, Erring, Free
<1>2. PhaseAt(k)'
  BY <1>1
     DEF CallInv, send_message_with_reply_cancelled_idle_cb, callvars, workervars,
         cancelvars, TypeOK, CallOK, PhaseAt, Cleaning, Free, MayDisconnect
<1>3. RefsAt(k)'
  BY <1>1 DEF CallInv, send_message_with_reply_cancelled_idle_cb, callvars, taskvars,
     TypeOK, CallOK, RefsAt, PhaseAt, Count
<1>4. ReturnsAt(k)'
  BY <1>1 DEF CallInv, send_message_with_reply_cancelled_idle_cb, callvars, taskvars,
     cancelvars, TypeOK, CallOK, ReturnsAt
<1>5. \A j \in Calls \ {k} : Untouched(j)
  BY DEF send_message_with_reply_cancelled_idle_cb, callvars, taskvars, workervars,
     cancelvars, Untouched, Cleaning, Worker
<1>6. ref_count'[k] \in Nat
  BY DEF CallInv, send_message_with_reply_cancelled_idle_cb, taskvars, TypeOK, RefsAt
<1>7. ref_count' \in [Calls -> Nat]
  BY DEF CallInv, send_message_with_reply_cancelled_idle_cb, connvars, taskvars,
     TypeOK
<1>8. TypeOK'
  BY DEF CallInv, send_message_with_reply_cancelled_idle_cb, connvars, callvars,
     taskvars, contextvars, workervars, cancelvars, TypeOK
<1>9. LockOK'
  BY DEF CallInv, send_message_with_reply_cancelled_idle_cb, callvars, contextvars,
     workervars, LockOK
<1>10. SerialsOK'
  BY SameSerials DEF CallInv, send_message_with_reply_cancelled_idle_cb, connvars,
     callvars, Sent
<1>11. \A j \in Calls : j # k => (Waits(j)' <=> Waits(j))
  BY <1>5 DEF Untouched, Waits
<1>12. MapOK'
  BY <1>1, <1>11, SameMap DEF CallInv, send_message_with_reply_cancelled_idle_cb,
     connvars, callvars
<1>13. ClosedOK'
  BY DEF CallInv, send_message_with_reply_cancelled_idle_cb, connvars, callvars,
     workervars, ClosedOK
<1> QED BY <1>2, <1>3, <1>4, <1>5, <1>8, <1>9, <1>10, <1>12, <1>13, OtherCalls DEF
           CallInv, CallOK

\* A source that finds the call delivered.
LEMMA TooLateStep ==
  ASSUME CallInv, NEW k \in Calls, send_message_data_deliver_error(k), delivered[k]
  PROVE  CallInv'
<1>1. (Waits(k)' <=> Waits(k)) /\ (Erring(k)' <=> Erring(k))
  BY DEF CallInv, send_message_data_deliver_error, DispatchEnds, callvars, workervars,
     cancelvars, TypeOK, Waits, Cleaning, Erring
<1>2. PhaseAt(k)'
  BY <1>1 DEF CallInv, send_message_data_deliver_error, DispatchEnds, callvars,
     cancelvars, TypeOK, CallOK, PhaseAt
<1>3. RefsAt(k)'
  <2>1. /\ DispatchEnds(k) /\ ref_count' = [ref_count EXCEPT ![k] = @ - 1]
        /\ UNCHANGED <<callvars, cancel_idle, return_idle>> /\ context[k] = "lock"
    BY DEF send_message_data_deliver_error
  <2>2. /\ source \in [Calls -> {"none", "timeout", "cancelled"}]
        /\ ref_count \in [Calls -> Int] /\ cancel_idle[k] \in Int /\ return_idle[k] \in Int
    BY DEF CallInv, TypeOK
  <2>3. /\ source[k] \in {"timeout", "cancelled"} /\ ~timeout_source[k] /\ RefsAt(k)
        /\ run'[k] = run[k] /\ handler'[k] = handler[k] /\ ~timeout_source'[k]
    BY <2>1, <2>2 DEF CallInv, CallOK, PhaseAt, callvars
  <2>4. /\ source'[k] = "none" /\ ref_count'[k] = ref_count[k] - 1
        /\ cancel_idle'[k] = cancel_idle[k] /\ return_idle'[k] = return_idle[k]
    BY <2>1, <2>2 DEF DispatchEnds
  <2> QED BY <1>1, <2>2, <2>3, <2>4 DEF RefsAt, Count
<1>4. ReturnsAt(k)'
  BY <1>1 DEF CallInv, send_message_data_deliver_error, callvars, CallOK, ReturnsAt
<1>5. \A j \in Calls \ {k} : Untouched(j)
  BY DEF CallInv, send_message_data_deliver_error, DispatchEnds, callvars, workervars,
     cancelvars, TypeOK, Untouched, Cleaning
<1>6. ref_count'[k] \in Nat
  BY <1>3 DEF CallInv, send_message_data_deliver_error, TypeOK, RefsAt, Count
<1>7. ref_count' \in [Calls -> Nat]
  BY <1>6 DEF CallInv, send_message_data_deliver_error, TypeOK
<1>8. TypeOK'
  BY <1>7 DEF CallInv, send_message_data_deliver_error, DispatchEnds, connvars,
     callvars, workervars, cancelvars, TypeOK
<1>9. LockOK'
  BY DEF CallInv, send_message_data_deliver_error, DispatchEnds, callvars, workervars,
     TypeOK, LockOK
<1>10. SerialsOK'
  BY SameSerials
     DEF CallInv, send_message_data_deliver_error, connvars, callvars, Sent
<1>11. \A j \in Calls : j # k => (Waits(j)' <=> Waits(j))
  BY <1>5 DEF Untouched, Waits
<1>12. MapOK'
  BY <1>1, <1>11, SameMap DEF CallInv, send_message_data_deliver_error, connvars,
     callvars
<1>13. ClosedOK'
  BY DEF CallInv, send_message_data_deliver_error, connvars, callvars, workervars,
     ClosedOK
<1> QED BY <1>2, <1>3, <1>4, <1>5, <1>8, <1>9, <1>10, <1>12, <1>13, OtherCalls DEF
           CallInv, CallOK

\* A source that delivers an error: it removes the call from the map.
LEMMA ErrorStep ==
  ASSUME CallInv, NEW k \in Calls, send_message_data_deliver_error(k), ~delivered[k]
  PROVE  CallInv'
<1>1. Waits(k)' /\ Waits(k) /\ ~Erring(k) /\ Erring(k)'
  BY DEF CallInv, send_message_data_deliver_error, CleanupBegins, TypeOK, CallOK,
     PhaseAt, Waits, Cleaning, Erring
<1>2. PhaseAt(k)'
  BY <1>1 DEF CallInv, send_message_data_deliver_error, CleanupBegins, workervars,
     cancelvars, TypeOK, CallOK, PhaseAt, Cleaning
<1>3. RefsAt(k)'
  BY <1>1, SMTT(20) DEF CallInv, send_message_data_deliver_error,
     CleanupBegins, connvars, callvars, taskvars, contextvars, workervars, cancelvars,
     TypeOK, CallOK, RefsAt, PhaseAt, Count, TimeoutRefs
<1>4. ReturnsAt(k)'
  BY <1>1
     DEF CallInv, send_message_data_deliver_error, CleanupBegins, CallOK, ReturnsAt
<1>5. \A j \in Calls \ {k} : Untouched(j)
  BY DEF CallInv, send_message_data_deliver_error, CleanupBegins, workervars,
     cancelvars, TypeOK, Untouched, Cleaning
<1>6. ref_count'[k] \in Nat
  BY <1>3 DEF CallInv, send_message_data_deliver_error, TypeOK, RefsAt, Count
<1>7. ref_count' \in [Calls -> Nat]
  BY <1>6 DEF CallInv, send_message_data_deliver_error, TypeOK
<1>8. TypeOK'
  <2>1. lock' \in Holders
    BY DEF send_message_data_deliver_error, Holders
  <2> QED BY <1>7, <2>1 DEF CallInv, TypeOK, send_message_data_deliver_error,
             CleanupBegins, connvars, workervars, cancelvars
<1>9. LockOK'
  BY DEF CallInv, send_message_data_deliver_error, CleanupBegins, workervars, TypeOK,
     LockOK, Free, Worker
<1>10. SerialsOK'
  BY SameSerials
     DEF CallInv, send_message_data_deliver_error, CleanupBegins, connvars, Sent
<1>11. \A j \in Calls : j # k => (Waits(j)' <=> Waits(j))
  BY <1>5 DEF Untouched, Waits
<1>12. MapOK'
  BY <1>1, <1>11, SameMap DEF CallInv, send_message_data_deliver_error, CleanupBegins,
     connvars
<1>13. ClosedOK'
  BY DEF CallInv, send_message_data_deliver_error, CleanupBegins, connvars,
     workervars, TypeOK, ClosedOK
<1> QED BY <1>2, <1>3, <1>4, <1>5, <1>8, <1>9, <1>10, <1>12, <1>13, OtherCalls DEF
           CallInv, CallOK

\* The clean-up after it.
LEMMA ErrorDisconnectsStep ==
  ASSUME CallInv, NEW k \in Calls, ErrorDisconnects(k)
  PROVE  CallInv'
<1>1. ~Waits(k)' /\ Waits(k) /\ Erring(k) /\ Erring(k)'
  BY DEF CallInv, ErrorDisconnects, CleanupEnds, workervars, TypeOK, CallOK, PhaseAt,
     Waits, Cleaning, Erring
<1>2. PhaseAt(k)'
  BY <1>1 DEF CallInv, ErrorDisconnects, CleanupEnds, cancelvars, TypeOK, CallOK,
     PhaseAt, MayDisconnect
<1>3. RefsAt(k)'
  BY <1>1 DEF CallInv, ErrorDisconnects, CleanupEnds, TypeOK, CallOK, RefsAt, Count
<1>4. ReturnsAt(k)'
  BY <1>1 DEF CallInv, ErrorDisconnects, CleanupEnds, CallOK, ReturnsAt
<1>5. \A j \in Calls \ {k} : Untouched(j)
  BY DEF ErrorDisconnects, CleanupEnds, workervars, cancelvars, Untouched, Cleaning
<1>6. ref_count'[k] \in Nat
  BY <1>3 DEF CallInv, ErrorDisconnects, CleanupEnds, TypeOK, RefsAt, Count
<1>7. ref_count' \in [Calls -> Nat]
  BY <1>6 DEF CallInv, ErrorDisconnects, CleanupEnds, TypeOK
<1>8. TypeOK'
  BY <1>7 DEF CallInv, ErrorDisconnects, CleanupEnds, workervars, cancelvars, TypeOK,
     Holders, Free
<1>9. LockOK'
  BY DEF CallInv, ErrorDisconnects, CleanupEnds, workervars, TypeOK, LockOK, Free,
     Worker
<1>10. SerialsOK'
  BY SameSerials DEF CallInv, ErrorDisconnects, CleanupEnds, Sent
<1>11. \A j \in Calls : j # k => (Waits(j)' <=> Waits(j))
  BY <1>5 DEF Untouched, Waits
<1>12. MapOK'
  BY <1>1, <1>11, MapWithout DEF ErrorDisconnects, CleanupEnds
<1>13. ClosedOK'
  BY DEF CallInv, ErrorDisconnects, CleanupEnds, workervars, ClosedOK
<1> QED BY <1>2, <1>3, <1>4, <1>5, <1>8, <1>9, <1>10, <1>12, <1>13, OtherCalls DEF
           CallInv, CallOK

\* The task is returned through an idle source.
LEMMA ReturnInIdleStep ==
  ASSUME CallInv, NEW k \in Calls, ReturnError(k), ReturnInIdle(k, source[k], -2)
  PROVE  CallInv'
<1>1. (Waits(k)' <=> Waits(k)) /\ Erring(k) /\ ~Erring(k)'
  BY DEF CallInv, ReturnError, DispatchEnds, callvars, workervars, TypeOK, Waits,
     Cleaning, Erring
<1>2. PhaseAt(k)'
  BY <1>1
     DEF CallInv, ReturnError, DispatchEnds, callvars, cancelvars, TypeOK, CallOK,
         PhaseAt
<1>3. RefsAt(k)'
  <2>1. /\ ref_count'[k] = ref_count[k] /\ return_idle'[k] = return_idle[k] + 1
        /\ cancel_idle'[k] = cancel_idle[k] 
    BY DEF CallInv, TypeOK, ReturnError, ReturnInIdle
  <2>2. /\ run'[k] = run[k] /\ handler'[k] = handler[k] /\ ~timeout_source'[k]
        /\ ~timeout_source[k] /\ source[k] \in {"timeout", "cancelled"}
        /\ source'[k] = "none"
    BY <1>1 DEF CallInv, TypeOK, CallOK, PhaseAt, ReturnError, DispatchEnds, callvars
  <2>3. /\ RefsAt(k) /\ ref_count[k] \in Nat
        /\ return_idle[k] \in Nat /\ cancel_idle[k] \in Nat
    BY DEF CallInv, TypeOK, CallOK
  <2> QED BY <1>1, <2>1, <2>2, <2>3 DEF RefsAt, Count
<1>4. ReturnsAt(k)'
  BY <1>1 DEF CallInv, ReturnError, ReturnInIdle, callvars, TypeOK, CallOK, ReturnsAt,
     PhaseAt, Count
<1>5. \A j \in Calls \ {k} : Untouched(j)
  BY DEF ReturnError, ReturnInIdle, DispatchEnds, callvars, workervars, cancelvars,
     Untouched, Cleaning
<1>6. ref_count'[k] \in Nat
  BY DEF CallInv, ReturnInIdle, TypeOK
<1>7. ref_count' \in [Calls -> Nat]
  BY DEF CallInv, ReturnInIdle, TypeOK
<1>8. TypeOK'
  BY DEF CallInv, ReturnError, ReturnInIdle, DispatchEnds, connvars, callvars,
     workervars, cancelvars, TypeOK, Outcomes
<1>9. LockOK'
  BY DEF CallInv, ReturnError, DispatchEnds, callvars, workervars, LockOK
<1>10. SerialsOK'
  BY SameSerials DEF CallInv, ReturnError, connvars, callvars, Sent
<1>11. \A j \in Calls : j # k => (Waits(j)' <=> Waits(j))
  BY <1>5 DEF Untouched, Waits
<1>12. MapOK'
  BY <1>1, <1>11, SameMap DEF CallInv, ReturnError, connvars, callvars
<1>13. ClosedOK'
  BY DEF CallInv, ReturnError, connvars, callvars, workervars, ClosedOK
<1> QED BY <1>2, <1>3, <1>4, <1>5, <1>8, <1>9, <1>10, <1>12, <1>13, OtherCalls DEF
           CallInv, CallOK

\* The task is returned at once, from its own main context.
LEMMA ReturnNowStep ==
  ASSUME CallInv, NEW k \in Calls, ReturnError(k), ReturnNow(k, source[k], -2)
  PROVE  CallInv'
<1>1. (Waits(k)' <=> Waits(k)) /\ Erring(k) /\ ~Erring(k)'
  BY DEF CallInv, ReturnError, DispatchEnds, callvars, workervars, TypeOK, Waits,
     Cleaning, Erring
<1>2. PhaseAt(k)'
  BY <1>1
     DEF CallInv, ReturnError, DispatchEnds, callvars, cancelvars, TypeOK, CallOK,
         PhaseAt
<1>3. RefsAt(k)'
  <2>1. /\ ref_count'[k] = ref_count[k] - 2 /\ return_idle'[k] = return_idle[k]
        /\ cancel_idle'[k] = cancel_idle[k] 
    BY DEF CallInv, TypeOK, ReturnError, ReturnNow
  <2>2. /\ run'[k] = run[k] /\ handler'[k] = handler[k] /\ ~timeout_source'[k]
        /\ ~timeout_source[k] /\ source[k] \in {"timeout", "cancelled"}
        /\ source'[k] = "none"
    BY <1>1 DEF CallInv, TypeOK, CallOK, PhaseAt, ReturnError, DispatchEnds, callvars
  <2> QED BY <1>1, <2>1, <2>2 DEF CallInv, TypeOK, CallOK, RefsAt, Count
<1>4. ReturnsAt(k)'
  BY <1>1 DEF CallInv, ReturnError, ReturnNow, callvars, TypeOK, CallOK, ReturnsAt,
     PhaseAt, Count, Propagated
<1>5. \A j \in Calls \ {k} : Untouched(j)
  BY DEF ReturnError, ReturnNow, DispatchEnds, callvars, workervars, cancelvars,
     Untouched, Cleaning
<1>6. ref_count'[k] \in Nat
  BY <1>3 DEF CallInv, ReturnError, ReturnNow, TypeOK, RefsAt, Count
<1>7. ref_count' \in [Calls -> Nat]
  BY <1>6 DEF CallInv, ReturnNow, TypeOK
<1>8. TypeOK'
  BY <1>7 DEF CallInv, ReturnError, ReturnNow, DispatchEnds, connvars, callvars,
     workervars, cancelvars, TypeOK, Outcomes, Propagated
<1>9. LockOK'
  BY DEF CallInv, ReturnError, DispatchEnds, callvars, workervars, LockOK
<1>10. SerialsOK'
  BY SameSerials DEF CallInv, ReturnError, connvars, callvars, Sent
<1>11. \A j \in Calls : j # k => (Waits(j)' <=> Waits(j))
  BY <1>5 DEF Untouched, Waits
<1>12. MapOK'
  BY <1>1, <1>11, SameMap DEF CallInv, ReturnError, connvars, callvars
<1>13. ClosedOK'
  BY DEF CallInv, ReturnError, connvars, callvars, workervars, ClosedOK
<1> QED BY <1>2, <1>3, <1>4, <1>5, <1>8, <1>9, <1>10, <1>12, <1>13, OtherCalls DEF
           CallInv, CallOK

\* The idle source of the task calls the callback.
LEMMA CompleteStep ==
  ASSUME CallInv, NEW k \in Calls, complete_in_idle_cb(k)
  PROVE  CallInv'
<1>1. (Waits(k)' <=> Waits(k)) /\ (Erring(k)' <=> Erring(k))
  BY DEF complete_in_idle_cb, callvars, contextvars, workervars, Waits, Cleaning,
     Erring
<1>2. PhaseAt(k)'
  BY <1>1 DEF CallInv, complete_in_idle_cb, callvars, contextvars, workervars,
     cancelvars, CallOK, PhaseAt, Cleaning
<1>3. RefsAt(k)'
  BY <1>1 DEF CallInv, complete_in_idle_cb, callvars, contextvars, TypeOK, CallOK,
     RefsAt, Count
<1>4. ReturnsAt(k)'
  BY <1>1 DEF CallInv, complete_in_idle_cb, callvars, TypeOK, CallOK, ReturnsAt,
     Propagated
<1>5. \A j \in Calls \ {k} : Untouched(j)
  BY DEF complete_in_idle_cb, callvars, contextvars, workervars, cancelvars,
     Untouched, Cleaning
<1>6. ref_count'[k] \in Nat
  BY <1>3 DEF CallInv, complete_in_idle_cb, TypeOK, RefsAt, Count
<1>7. ref_count' \in [Calls -> Nat]
  BY <1>6 DEF CallInv, complete_in_idle_cb, TypeOK
<1>8. TypeOK'
  BY <1>7
     DEF CallInv, complete_in_idle_cb, connvars, callvars, contextvars, workervars,
         cancelvars, TypeOK, Outcomes, Propagated
<1>9. LockOK'
  BY DEF CallInv, complete_in_idle_cb, callvars, contextvars, workervars, LockOK
<1>10. SerialsOK'
  BY SameSerials DEF CallInv, complete_in_idle_cb, connvars, callvars, Sent
<1>11. \A j \in Calls : j # k => (Waits(j)' <=> Waits(j))
  BY <1>5 DEF Untouched, Waits
<1>12. MapOK'
  BY <1>1, <1>11, SameMap DEF CallInv, complete_in_idle_cb, connvars, callvars
<1>13. ClosedOK'
  BY DEF CallInv, complete_in_idle_cb, connvars, callvars, workervars, ClosedOK
<1> QED BY <1>2, <1>3, <1>4, <1>5, <1>8, <1>9, <1>10, <1>12, <1>13, OtherCalls DEF
           CallInv, CallOK

\* The clean-up after a reply.
LEMMA ReplyDisconnectsStep ==
  ASSUME CallInv, WorkerDisconnects, worker = "reply"
  PROVE  CallInv'
<1>1. PICK k \in Calls : worker_call = k /\ map[serial[k]] = k
  BY DEF CallInv, TypeOK, LockOK, MapOK, CallOK, PhaseAt, Waits, Cleaning
<1>2. ~Waits(k)' /\ Waits(k) /\ (Erring(k)' <=> Erring(k))
  BY <1>1 DEF CallInv, WorkerDisconnects, CleanupEnds, contextvars, CallOK, PhaseAt,
     Waits, Cleaning, Erring
<1>3. PhaseAt(k)'
  BY <1>1
     DEF CallInv, WorkerDisconnects, CleanupEnds, contextvars, cancelvars, TypeOK,
         CallOK, PhaseAt, Cleaning, MayDisconnect
<1>4. RefsAt(k)'
  <2>1. /\ ref_count'[k] = ref_count[k] - 1 - Count(handler[k])
        /\ return_idle'[k] = return_idle[k] /\ cancel_idle'[k] = cancel_idle[k] 
    BY <1>1 DEF CallInv, TypeOK, WorkerDisconnects, CleanupEnds, Count
  <2>2. /\ run'[k] = run[k] /\ ~handler'[k] /\ timeout_source'[k] = timeout_source[k]
        /\ source'[k] = source[k]
    BY <1>1 DEF CallInv, TypeOK, WorkerDisconnects, CleanupEnds, contextvars
  <2> QED BY <1>2, <2>1, <2>2 DEF CallInv, TypeOK, CallOK, RefsAt, Count
<1>5. ReturnsAt(k)'
  BY <1>2 DEF CallInv, WorkerDisconnects, CleanupEnds, CallOK, ReturnsAt
<1>6. \A j \in Calls \ {k} : Untouched(j)
  BY <1>1 DEF WorkerDisconnects, CleanupEnds, contextvars, cancelvars, Untouched,
     Cleaning
<1>7. ref_count'[k] \in Nat
  BY <1>4 DEF CallInv, WorkerDisconnects, CleanupEnds, TypeOK, RefsAt, Count
<1>8. ref_count' \in [Calls -> Nat]
  BY <1>1, <1>7 DEF CallInv, WorkerDisconnects, CleanupEnds, TypeOK
<1>9. TypeOK'
  BY <1>8
     DEF CallInv, WorkerDisconnects, CleanupEnds, contextvars, cancelvars, TypeOK,
         Holders, Free
<1>10. LockOK'
  BY DEF CallInv, WorkerDisconnects, CleanupEnds, contextvars, LockOK, Free, Worker
<1>11. SerialsOK'
  BY SameSerials DEF CallInv, WorkerDisconnects, CleanupEnds, Sent
<1>12. \A j \in Calls : j # k => (Waits(j)' <=> Waits(j))
  BY <1>6 DEF Untouched, Waits
<1>13. MapOK'
  BY <1>1, <1>2, <1>12, MapWithout DEF WorkerDisconnects, CleanupEnds
<1>14. ClosedOK'
  BY DEF CallInv, WorkerDisconnects, CleanupEnds, ClosedOK
<1> QED BY <1>3, <1>4, <1>5, <1>6, <1>9, <1>10, <1>11, <1>13, <1>14, OtherCalls DEF
           CallInv, CallOK

\* The clean-up after the end of the connection.
LEMMA CloseDisconnectsStep ==
  ASSUME CallInv, WorkerDisconnects, worker = "close"
  PROVE  CallInv'
<1>1. PICK k \in Calls : worker_call = k /\ map[serial[k]] = k
  BY DEF CallInv, TypeOK, LockOK, MapOK, CallOK, PhaseAt, Waits, Cleaning
<1>2. ~Waits(k)' /\ Waits(k) /\ (Erring(k)' <=> Erring(k))
  BY <1>1 DEF CallInv, WorkerDisconnects, CleanupEnds, contextvars, CallOK, PhaseAt,
     Waits, Cleaning, Erring
<1>3. PhaseAt(k)'
  BY <1>1
     DEF CallInv, WorkerDisconnects, CleanupEnds, contextvars, cancelvars, TypeOK,
         CallOK, PhaseAt, Cleaning, MayDisconnect
<1>4. RefsAt(k)'
  <2>1. /\ ref_count'[k] = ref_count[k] - 1 - Count(handler[k])
        /\ return_idle'[k] = return_idle[k] /\ cancel_idle'[k] = cancel_idle[k] 
    BY <1>1 DEF CallInv, TypeOK, WorkerDisconnects, CleanupEnds, Count
  <2>2. /\ run'[k] = run[k] /\ ~handler'[k] /\ timeout_source'[k] = timeout_source[k]
        /\ source'[k] = source[k]
    BY <1>1 DEF CallInv, TypeOK, WorkerDisconnects, CleanupEnds, contextvars
  <2> QED BY <1>2, <2>1, <2>2 DEF CallInv, TypeOK, CallOK, RefsAt, Count
<1>5. ReturnsAt(k)'
  BY <1>2 DEF CallInv, WorkerDisconnects, CleanupEnds, CallOK, ReturnsAt
<1>6. \A j \in Calls \ {k} : Untouched(j)
  BY <1>1 DEF WorkerDisconnects, CleanupEnds, contextvars, cancelvars, Untouched,
     Cleaning
<1>7. ref_count'[k] \in Nat
  BY <1>4 DEF CallInv, WorkerDisconnects, CleanupEnds, TypeOK, RefsAt, Count
<1>8. ref_count' \in [Calls -> Nat]
  BY <1>1, <1>7 DEF CallInv, WorkerDisconnects, CleanupEnds, TypeOK
<1>9. TypeOK'
  BY <1>8 DEF CallInv, WorkerDisconnects, CleanupEnds, contextvars, cancelvars, TypeOK
<1>10. LockOK'
  BY DEF CallInv, WorkerDisconnects, CleanupEnds, contextvars, LockOK
<1>11. SerialsOK'
  BY SameSerials DEF CallInv, WorkerDisconnects, CleanupEnds, Sent
<1>12. \A j \in Calls : j # k => (Waits(j)' <=> Waits(j))
  BY <1>6 DEF Untouched, Waits
<1>13. MapOK'
  BY <1>1, <1>2, <1>12, MapWithout DEF WorkerDisconnects, CleanupEnds
<1>14. ClosedOK'
  BY DEF CallInv, WorkerDisconnects, CleanupEnds, ClosedOK
<1> QED BY <1>3, <1>4, <1>5, <1>6, <1>9, <1>10, <1>11, <1>13, <1>14, OtherCalls DEF
           CallInv, CallOK

\* The worker delivers a call, with a reply or with an error.
LEMMA WorkerDelivers ==
  ASSUME CallInv, NEW k \in Calls, NEW o \in {"reply", "closed"},
         Waits(k), ~delivered[k], ReturnInIdle(k, o, -TimeoutRefs(k)), CleanupBegins(k),
         worker \in {"idle", "closing"}, worker' \in {"reply", "close"},
         worker_call' = k,
         UNCHANGED <<connvars, cancel_idle, contextvars, cancelvars>>
  PROVE  /\ \A j \in Calls : CallOK(j)'
         /\ (ref_count' \in [Calls -> Nat]) /\ MapOK' /\ SerialsOK'
<1>1. run[k] = "done" /\ Waits(k)' /\ ~Erring(k) /\ ~Erring(k)'
  BY DEF CallInv, CallOK, PhaseAt, Waits, Cleaning, Erring, CleanupBegins, contextvars
<1>2. \A j \in Calls \ {k} : Untouched(j)
  BY DEF Untouched, Cleaning, ReturnInIdle, CleanupBegins, contextvars, cancelvars
<1>3. PhaseAt(k)'
  BY <1>1 DEF CallInv, TypeOK, CallOK, PhaseAt, Erring, CleanupBegins, contextvars,
     cancelvars
<1>4. RefsAt(k)'
  <2>1. /\ RefsAt(k) /\ Waits(k) /\ ref_count[k] \in Nat /\ cancel_idle[k] \in Nat
        /\ return_idle[k] \in Nat
    BY DEF CallInv, CallOK, TypeOK
  <2>2. /\ ref_count'[k] = ref_count[k] + 2 - TimeoutRefs(k)
        /\ return_idle'[k] = return_idle[k] + 1 /\ cancel_idle'[k] = cancel_idle[k] 
    BY DEF CallInv, TypeOK, ReturnInIdle, TimeoutRefs
  <2>3. /\ run'[k] = run[k] /\ handler'[k] = handler[k] /\ ~timeout_source'[k]
        /\ source'[k] = source[k]
    BY DEF CallInv, TypeOK, CleanupBegins, contextvars
  <2>4. CASE timeout_source[k] /\ source[k] # "timeout"
    BY <1>1, <2>1, <2>2, <2>3, <2>4 DEF RefsAt, Count, TimeoutRefs
  <2>5. CASE source[k] = "timeout"
    BY <1>1, <2>1, <2>2, <2>3, <2>5 DEF RefsAt, Count, TimeoutRefs
  <2>6. CASE ~timeout_source[k] /\ source[k] # "timeout"
    BY <1>1, <2>1, <2>2, <2>3, <2>6 DEF RefsAt, Count, TimeoutRefs
  <2> QED BY <2>4, <2>6, <2>5
<1>5. ReturnsAt(k)'
  <2>1. returns[k] = 0 /\ calls[k] = 0
    BY DEF CallInv, TypeOK, CallOK, ReturnsAt, Waits, Count
  <2> QED BY <1>1 DEF CallInv, TypeOK, CallOK, ReturnsAt, ReturnInIdle, CleanupBegins,
             Count
<1>6. \A j \in Calls : CallOK(j)'
  BY <1>2, <1>3, <1>4, <1>5, OtherCalls DEF CallInv, CallOK
<1>7. ref_count' \in [Calls -> Nat]
  <2>1. /\ ref_count[k] \in Nat /\ cancel_idle[k] \in Nat /\ return_idle[k] \in Nat
    BY DEF CallInv, TypeOK
  <2>2. RefsAt(k)
    BY DEF CallInv, CallOK
  <2>3. ref_count[k] >= 1
    BY <2>1, <2>2 DEF RefsAt, Count
  <2> QED BY DEF CallInv, TypeOK, ReturnInIdle, TimeoutRefs
<1>8. \A j \in Calls : Waits(j)' <=> Waits(j)
  BY <1>1, <1>2 DEF Untouched, Waits
<1>9. MapOK'
  BY <1>8, SameMap DEF CallInv, connvars, CleanupBegins
<1>10. SerialsOK'
  BY SameSerials DEF CallInv, connvars, CleanupBegins, Sent
<1> QED BY <1>6, <1>7, <1>9, <1>10

\* The worker goes through the map when the connection is closed.
LEMMA ClosesStep ==
  ASSUME CallInv, NEW s \in Serials, cancel_method_on_close(s)
  PROVE  CallInv'
<1>1. PICK k \in Calls : k = map[s] /\ worker_call' = k
  BY DEF CallInv, TypeOK, cancel_method_on_close
<1>2. Waits(k) /\ ~delivered[k]
  BY <1>1 DEF CallInv, MapOK, cancel_method_on_close
<1>3. ReturnInIdle(k, "closed", -TimeoutRefs(k)) /\ CleanupBegins(k)
  BY <1>1 DEF cancel_method_on_close
<1>4. /\ \A j \in Calls : CallOK(j)'
      /\ (ref_count' \in [Calls -> Nat]) /\ MapOK' /\ SerialsOK'
  BY <1>1, <1>2, WorkerDelivers DEF cancel_method_on_close
<1>5. TypeOK'
  BY <1>4 DEF CallInv, TypeOK, Outcomes, ReturnInIdle, CleanupBegins,
     cancel_method_on_close, connvars, contextvars, cancelvars
<1>6. LockOK'
  BY <1>1 DEF CallInv, LockOK, CleanupBegins, cancel_method_on_close, contextvars
<1>7. ClosedOK'
  BY DEF CallInv, ClosedOK, CleanupBegins, cancel_method_on_close, connvars
<1> QED BY <1>4, <1>5, <1>6, <1>7 DEF CallInv

\* The worker finds the call of a reply in the map.
LEMMA DeliversStep ==
  ASSUME CallInv, NEW s \in Serials, on_worker_message_received(s), DeliverReply(s)
  PROVE  CallInv'
<1>1. PICK k \in Calls : k = map[s] /\ worker_call' = k
  BY DEF CallInv, TypeOK, DeliverReply
<1>2. Waits(k) /\ ~delivered[k]
  BY <1>1 DEF CallInv, MapOK, DeliverReply
<1>3. ReturnInIdle(k, "reply", -TimeoutRefs(k)) /\ CleanupBegins(k)
  BY <1>1 DEF DeliverReply
<1>4. /\ \A j \in Calls : CallOK(j)'
      /\ (ref_count' \in [Calls -> Nat]) /\ MapOK' /\ SerialsOK'
  BY <1>1, <1>2, WorkerDelivers DEF on_worker_message_received, DeliverReply
<1>5. TypeOK'
  <2>1. lock' \in Holders /\ worker' = "reply" /\ replies' \subseteq Serials
    BY DEF CallInv, TypeOK, DeliverReply, Holders, Worker
  <2> QED BY <1>1, <1>3, <1>4, <2>1 DEF CallInv, TypeOK, Outcomes, ReturnInIdle,
             CleanupBegins, on_worker_message_received, connvars, contextvars,
             cancelvars
<1>6. LockOK'
  BY <1>1
     DEF CallInv, LockOK, CleanupBegins, DeliverReply, on_worker_message_received,
         contextvars, Free, Worker
<1>7. ClosedOK'
  BY DEF CallInv, ClosedOK, CleanupBegins, DeliverReply, on_worker_message_received,
     connvars
<1> QED BY <1>4, <1>5, <1>6, <1>7 DEF CallInv

\* The send fails: the call is returned without having been in the map.
LEMMA SendFails ==
  ASSUME CallInv, NEW k \in Calls, run[k] = "unused",
         ReturnInIdle(k, SendError(k), 0),
         run' = [run EXCEPT ![k] = "failed"],
         UNCHANGED <<lock, connvars, serial, delivered, timeout_source, handler,
                     cancel_idle, contextvars, workervars, cancelvars>>
  PROVE  CallInv'
<1>1. ~Waits(k) /\ ~Waits(k)' /\ ~Erring(k) /\ ~Erring(k)'
  BY DEF CallInv, CallOK, PhaseAt, Waits, Erring, contextvars
<1>2. \A j \in Calls \ {k} : Untouched(j)
  BY DEF Untouched, Cleaning, ReturnInIdle, contextvars, workervars, cancelvars
<1>3. PhaseAt(k)'
  BY <1>1 DEF CallInv, CallOK, PhaseAt, Cleaning, contextvars, workervars, cancelvars
<1>4. RefsAt(k)'
  BY <1>1 DEF CallInv, TypeOK, CallOK, RefsAt, Count, ReturnInIdle, contextvars
<1>5. ReturnsAt(k)'
  <2>1. returns[k] = 0 /\ calls[k] = 0 /\ return_idle[k] = 0
    BY DEF CallInv, TypeOK, CallOK, ReturnsAt, PhaseAt, Count
  <2> QED BY <2>1 DEF CallInv, TypeOK, ReturnsAt, ReturnInIdle, Count
<1>6. TypeOK'
  <2>1. SendError(k) \in Outcomes
    BY DEF SendError, Outcomes
  <2> QED
    BY <2>1
       DEF CallInv, TypeOK, ReturnInIdle, connvars, contextvars, workervars,
           cancelvars
<1>7. LockOK'
  BY DEF CallInv, LockOK, contextvars, workervars
<1>8. SerialsOK'
  <2>1. IsFiniteSet(Unused) /\ k \in Unused
    BY GDBusCallsAssumption, FS_Subset DEF Unused
  <2>2. Unused' = Unused \ {k}
    BY DEF CallInv, TypeOK, Unused
  <2>3. Cardinality(Unused') = Cardinality(Unused) - 1 /\ Cardinality(Unused) \in Nat
    BY <2>1, <2>2, FS_RemoveElement, FS_CardinalityType
  <2>4. last_serial + Cardinality(Unused') < Modulus
    BY <2>3, GDBusCallsAssumption DEF CallInv, TypeOK, SerialsOK, Serials
  <2>5. \A j \in Calls : Sent(j)' => Sent(j)
    BY DEF Sent
  <2> QED BY <2>4, <2>5 DEF CallInv, SerialsOK, connvars
<1>9. MapOK'
  <2>1. \A j \in Calls : Waits(j)' <=> Waits(j)
    BY <1>2 DEF Untouched, Waits
  <2> QED BY <2>1, SameMap DEF CallInv, connvars
<1>10. ClosedOK'
  BY DEF CallInv, ClosedOK, connvars, workervars
<1> QED BY <1>2, <1>3, <1>4, <1>5, <1>6, <1>7, <1>8, <1>9, <1>10, OtherCalls DEF
           CallInv, CallOK

\* The send succeeds and takes the next serial.
LEMMA Sends ==
  ASSUME CallInv, NEW k \in Calls, run[k] = "unused", lock = Free, ~closed,
         xdbus_connection_send_message_unlocked(k),
         run' = [run EXCEPT ![k] = "insert"], lock' = <<k, "caller">>,
         ref_count' = [ref_count EXCEPT ![k] = 1],
         UNCHANGED <<map, closed, emit_closed, closed_emitted, delivered, timeout_source,
                     handler, cancel_idle, outcome, returns, return_idle, calls, got,
                     contextvars, workervars, cancelvars>>
  PROVE  CallInv'
<1>1. ~Waits(k) /\ ~Waits(k)' /\ ~Erring(k) /\ ~Erring(k)'
  BY DEF CallInv, CallOK, PhaseAt, Waits, Erring, contextvars
<1>2. \A j \in Calls \ {k} : Untouched(j)
  BY DEF Untouched, Cleaning, contextvars, workervars, cancelvars
<1>3. PhaseAt(k)'
  BY <1>1 DEF CallInv, CallOK, PhaseAt, Cleaning, contextvars, workervars, cancelvars
<1>4. RefsAt(k)' /\ ReturnsAt(k)'
  <2>1. returns[k] = 0 /\ calls[k] = 0 /\ return_idle[k] = 0
    BY DEF CallInv, TypeOK, CallOK, ReturnsAt, PhaseAt, Count
  <2>2. /\ ~handler[k] /\ ~timeout_source[k] /\ source[k] = "none"
        /\ cancel_idle[k] = 0
    BY DEF CallInv, CallOK, PhaseAt
  <2>3. ref_count'[k] = 1 /\ run'[k] = "insert" /\ source' = source
    BY DEF CallInv, TypeOK, contextvars
  <2>4. RefsAt(k)'
    BY <1>1, <2>1, <2>2, <2>3 DEF RefsAt, Count
  <2>5. ReturnsAt(k)'
    BY <1>1 DEF CallInv, CallOK, ReturnsAt
  <2> QED BY <2>4, <2>5
<1>5. last_serial + Cardinality(Unused) < Modulus /\ last_serial \in Nat
  BY DEF CallInv, TypeOK, SerialsOK, Serials
<1>6. IsFiniteSet(Unused) /\ k \in Unused
  BY GDBusCallsAssumption, FS_Subset DEF Unused
<1>7. Unused' = Unused \ {k}
  BY DEF CallInv, TypeOK, Unused
<1>8. Cardinality(Unused') = Cardinality(Unused) - 1 /\ Cardinality(Unused) \in Nat
  BY <1>6, <1>7, FS_RemoveElement, FS_CardinalityType
<1>9. Cardinality(Unused) > 0
  BY <1>6, <1>8, FS_EmptySet
<1>10. last_serial' = last_serial + 1 /\ last_serial' \in Serials
  <2>1. last_serial + 1 < Modulus
    BY <1>5, <1>8, <1>9, GDBusCallsAssumption
  <2> QED BY <1>5, <2>1, GDBusCallsAssumption DEF
             xdbus_connection_send_message_unlocked, Serials
<1>11. serial' = [serial EXCEPT ![k] = last_serial']
  BY DEF xdbus_connection_send_message_unlocked
<1>12. TypeOK'
  <2>1. lock' \in Holders
    BY DEF Holders
  <2> QED
    BY <1>10, <1>11, <2>1 DEF CallInv, TypeOK, contextvars, workervars, cancelvars
<1>13. LockOK'
  BY DEF CallInv, TypeOK, LockOK, Free, Worker, contextvars, workervars
<1>14. SerialsOK'
  <2>1. last_serial' + Cardinality(Unused') < Modulus
    BY <1>5, <1>8, <1>10
  <2>2. \A j \in Calls : j # k => (Sent(j)' <=> Sent(j)) /\ serial'[j] = serial[j]
    BY <1>11 DEF Sent
  <2>3. serial'[k] = last_serial + 1
    BY <1>10, <1>11 DEF CallInv, TypeOK
  <2>4. \A j \in Calls : j # k /\ Sent(j) => serial[j] <= last_serial
    BY DEF CallInv, SerialsOK
  <2>5. \A j \in Calls : serial[j] \in Int
    BY DEF CallInv, TypeOK, Serials
  <2>6. \A j \in Calls : Sent(j)' => serial'[j] <= last_serial'
    BY <1>5, <1>10, <2>2, <2>3, <2>4, <2>5
  <2>7. \A i, j \in Calls : Sent(i)' /\ Sent(j)' /\ serial'[i] = serial'[j] => i = j
    BY <1>5, <2>2, <2>3 DEF CallInv, SerialsOK
  <2> QED BY <2>1, <2>6, <2>7 DEF SerialsOK
<1>15. MapOK'
  <2>1. \A j \in Calls : j # k => (Waits(j)' <=> Waits(j)) /\ serial'[j] = serial[j]
    BY <1>2, <1>11 DEF Untouched, Waits
  <2> QED BY <1>1, <2>1 DEF CallInv, MapOK
<1>16. ClosedOK'
  BY DEF CallInv, ClosedOK, workervars
<1> QED
  BY <1>2, <1>3, <1>4, <1>12, <1>13, <1>14, <1>15, <1>16, OtherCalls
     DEF CallInv, CallOK

\* A step that touches no call and no serial.
LEMMA NoCallTouched ==
  ASSUME CallInv,
         UNCHANGED <<map, last_serial, callvars, taskvars, cancel_idle, contextvars>>,
         \A k \in Calls : k \in emitting' => handler[k],
         worker' = worker \/ {worker, worker'} \subseteq {"idle", "closing"},
         worker_call' = worker_call
  PROVE  (\A k \in Calls : CallOK(k)') /\ SerialsOK' /\ MapOK'
<1>1. \A k \in Calls : /\ Cleaning(k)' <=> Cleaning(k)
                       /\ (worker' \in {"reply", "close"} /\ worker_call' = k)
                            => (worker \in {"reply", "close"} /\ worker_call = k)
  BY DEF Cleaning, contextvars
<1>2. \A k \in Calls : (Waits(k)' <=> Waits(k)) /\ (Erring(k)' <=> Erring(k))
  BY <1>1 DEF Waits, Erring, callvars, contextvars
<1>3. \A k \in Calls : PhaseAt(k)'
  BY <1>1, <1>2 DEF CallInv, CallOK, PhaseAt, callvars, contextvars
<1>4. \A k \in Calls : RefsAt(k)'
  BY <1>2 DEF CallInv, CallOK, RefsAt, Count, callvars, taskvars, contextvars
<1>5. \A k \in Calls : ReturnsAt(k)'
  BY <1>2 DEF CallInv, CallOK, ReturnsAt, callvars, taskvars
<1>6. SerialsOK'
  BY SameSerials DEF CallInv, Sent, callvars
<1>7. MapOK'
  BY <1>2, SameMap DEF CallInv, callvars
<1> QED BY <1>3, <1>4, <1>5, <1>6, <1>7 DEF CallOK

\* A reply that nobody waits for.
LEMMA IgnoresStep ==
  ASSUME CallInv, NEW s \in Serials, on_worker_message_received(s), IgnoreReply(s)
  PROVE  CallInv'
<1>1. (\A k \in Calls : CallOK(k)') /\ SerialsOK' /\ MapOK'
  <2>1. \A k \in Calls : k \in emitting' => handler[k]
    BY DEF CallInv, CallOK, PhaseAt, on_worker_message_received, cancelvars
  <2> QED BY <2>1, NoCallTouched DEF on_worker_message_received, IgnoreReply, connvars
<1>2. TypeOK'
  BY DEF CallInv, TypeOK, on_worker_message_received, IgnoreReply, connvars, callvars,
     taskvars, contextvars, cancelvars
<1>3. LockOK'
  BY DEF CallInv, LockOK, on_worker_message_received, IgnoreReply, callvars,
     contextvars
<1>4. ClosedOK'
  BY DEF CallInv, ClosedOK, on_worker_message_received, IgnoreReply, connvars,
     callvars
<1> QED BY <1>1, <1>2, <1>3, <1>4 DEF CallInv

\* The worker finds the connection closed.
LEMMA WorkerClosesStep ==
  ASSUME CallInv, on_worker_closed
  PROVE  CallInv'
<1>1. (\A k \in Calls : CallOK(k)') /\ SerialsOK' /\ MapOK'
  <2>1. \A k \in Calls : k \in emitting' => handler[k]
    BY DEF CallInv, CallOK, PhaseAt, on_worker_closed, cancelvars
  <2> QED BY <2>1, NoCallTouched DEF on_worker_closed
<1>2. TypeOK'
  BY GDBusCallsAssumption DEF CallInv, TypeOK, Holders, Worker, on_worker_closed,
     callvars, taskvars, contextvars, cancelvars
<1>3. LockOK'
  BY DEF CallInv, LockOK, Free, Worker, on_worker_closed, callvars, contextvars
<1>4. ClosedOK'
  BY DEF CallInv, LockOK, ClosedOK, Free, on_worker_closed, callvars
<1> QED BY <1>1, <1>2, <1>3, <1>4 DEF CallInv

\* The emission of "closed" is scheduled.
LEMMA SchedulesStep ==
  ASSUME CallInv, schedule_closed_unlocked
  PROVE  CallInv'
<1>1. (\A k \in Calls : CallOK(k)') /\ SerialsOK' /\ MapOK'
  <2>1. \A k \in Calls : k \in emitting' => handler[k]
    BY DEF CallInv, CallOK, PhaseAt, schedule_closed_unlocked, cancelvars
  <2> QED BY <2>1, NoCallTouched DEF schedule_closed_unlocked
<1>2. TypeOK'
  BY DEF CallInv, TypeOK, Holders, Free, schedule_closed_unlocked, callvars, taskvars,
     contextvars, cancelvars
<1>3. LockOK'
  BY DEF CallInv, LockOK, Free, Worker, schedule_closed_unlocked, callvars,
     contextvars
<1>4. ClosedOK'
  BY GDBusCallsAssumption DEF CallInv, TypeOK, ClosedOK, MapOK, Waits, Count,
     schedule_closed_unlocked, callvars
<1> QED BY <1>1, <1>2, <1>3, <1>4 DEF CallInv

\* "closed" is emitted.
LEMMA EmitsStep ==
  ASSUME CallInv, emit_closed_in_idle
  PROVE  CallInv'
<1>1. (\A k \in Calls : CallOK(k)') /\ SerialsOK' /\ MapOK'
  <2>1. \A k \in Calls : k \in emitting' => handler[k]
    BY DEF CallInv, CallOK, PhaseAt, emit_closed_in_idle, cancelvars
  <2> QED BY <2>1, NoCallTouched DEF emit_closed_in_idle, workervars
<1>2. TypeOK'
  BY DEF CallInv, TypeOK, emit_closed_in_idle, callvars, taskvars, contextvars,
     workervars, cancelvars
<1>3. LockOK'
  BY DEF CallInv, LockOK, emit_closed_in_idle, callvars, contextvars, workervars
<1>4. ClosedOK'
  BY DEF CallInv, TypeOK, ClosedOK, emit_closed_in_idle, callvars, workervars
<1> QED BY <1>1, <1>2, <1>3, <1>4 DEF CallInv

\* The cancellable becomes cancelled.
LEMMA CancelsStep ==
  ASSUME CallInv, xcancellable_cancel
  PROVE  CallInv'
<1>1. (\A k \in Calls : CallOK(k)') /\ SerialsOK' /\ MapOK'
  <2>1. \A k \in Calls : k \in emitting' => handler[k]
    BY DEF xcancellable_cancel
  <2> QED BY NoCallTouched DEF xcancellable_cancel, connvars, workervars
<1>2. TypeOK'
  BY DEF CallInv, TypeOK, xcancellable_cancel, connvars, callvars, taskvars,
     contextvars, workervars
<1>3. LockOK'
  BY DEF CallInv, LockOK, xcancellable_cancel, callvars, contextvars, workervars
<1>4. ClosedOK'
  BY DEF CallInv, ClosedOK, xcancellable_cancel, connvars, callvars, workervars
<1> QED BY <1>1, <1>2, <1>3, <1>4 DEF CallInv

\* A step that changes nothing.
LEMMA StutterStep ==
  ASSUME CallInv, UNCHANGED vars
  PROVE  CallInv'
<1>1. (\A k \in Calls : CallOK(k)') /\ SerialsOK' /\ MapOK'
  <2>1. \A k \in Calls : k \in emitting' => handler[k]
    BY DEF CallInv, CallOK, PhaseAt, vars, cancelvars
  <2> QED BY <2>1, NoCallTouched DEF vars, connvars, workervars
<1>2. TypeOK'
  BY DEF CallInv, TypeOK, vars, connvars, callvars, taskvars, contextvars, workervars,
     cancelvars
<1>3. LockOK'
  BY DEF CallInv, LockOK, vars, callvars, contextvars, workervars
<1>4. ClosedOK'
  BY DEF CallInv, ClosedOK, vars, connvars, callvars, workervars
<1> QED BY <1>1, <1>2, <1>3, <1>4 DEF CallInv

\* Every step of a sender preserves the invariant.
LEMMA SendStep ==
  ASSUME CallInv, NEW k \in Calls, xdbus_connection_send_message_with_reply(k)
  PROVE  CallInv'
<1>1. CASE ReturnInIdle(k, SendError(k), 0) /\ run' = [run EXCEPT ![k] = "failed"]
           /\ UNCHANGED <<lock, last_serial, serial>>
  BY <1>1, SendFails DEF xdbus_connection_send_message_with_reply, connvars
<1>2. CASE ~(ReturnInIdle(k, SendError(k), 0) /\ run' = [run EXCEPT ![k] = "failed"]
           /\ UNCHANGED <<lock, last_serial, serial>>)
  BY <1>2, Sends DEF xdbus_connection_send_message_with_reply
<1> QED BY <1>1, <1>2

\* Every step of the main contexts does.
LEMMA ContextStep ==
  ASSUME CallInv, NEW k \in Calls, ContextNext(k)
  PROVE  CallInv'
<1>1. CASE send_message_data_deliver_error(k)
  BY <1>1, TooLateStep, ErrorStep
<1>2. CASE ReturnError(k)
  BY <1>2, ReturnInIdleStep, ReturnNowStep DEF ReturnError
<1> QED BY <1>1, <1>2, TimeoutStep, CancelledIdleStep, ErrorDisconnectsStep,
           CompleteStep DEF ContextNext

\* Every step of the worker does.
LEMMA WorkerStep ==
  ASSUME CallInv, WorkerNext
  PROVE  CallInv'
<1>1. ASSUME NEW s \in Serials, on_worker_message_received(s)
      PROVE  CallInv'
  BY <1>1, IgnoresStep, DeliversStep DEF on_worker_message_received
<1>2. CASE WorkerDisconnects
  BY <1>2, ReplyDisconnectsStep, CloseDisconnectsStep DEF WorkerDisconnects
<1> QED BY <1>1, <1>2, ClosesStep, SchedulesStep DEF WorkerNext

\* The invariant holds throughout every behaviour.
LEMMA CallInvariant == Spec => []CallInv
<1>1. Init => CallInv
  <2> SUFFICES ASSUME Init PROVE CallInv
    OBVIOUS
  <2>1. TypeOK
    <3>1. 0 \in Serials
      BY GDBusCallsAssumption DEF Serials
    <3>2. replied \in 0 .. MaxReplies /\ disconnects \in 0 .. MaxDisconnects
      BY GDBusCallsAssumption DEF Init
    <3>3. lock \in Holders
      BY DEF Init, Holders, Free
    <3> QED BY <3>1, <3>2, <3>3 DEF Init, TypeOK
  <2>2. LockOK
    BY DEF Init, LockOK, Free, Worker
  <2>3. SerialsOK
    <3>1. Unused = Calls
      BY DEF Init, Unused
    <3>2. 0 + Cardinality(Calls) < Modulus
      BY GDBusCallsAssumption, FS_CardinalityType
    <3> QED BY <3>1, <3>2 DEF Init, SerialsOK, Sent
  <2>4. MapOK
    BY GDBusCallsAssumption DEF Init, MapOK, Waits
  <2>5. ClosedOK
    BY DEF Init, ClosedOK, Count
  <2>6. ASSUME NEW k \in Calls PROVE CallOK(k)
    BY DEF Init, CallOK, PhaseAt, RefsAt, ReturnsAt, Waits, Cleaning, Erring, Count
  <2> QED BY <2>1, <2>2, <2>3, <2>4, <2>5, <2>6 DEF CallInv
<1>2. CallInv /\ [Next]_vars => CallInv'
  BY SendStep, InsertStep, PeerStep, CancelledStep, ContextStep, WorkerStep,
     WorkerClosesStep, EmitsStep, CancelsStep, StutterStep DEF Next
<1> QED BY <1>1, <1>2, PTL DEF Spec

\* The reference count of the task of a call is the number of its holders (the
\* map, the handler, the sources, the callback that is due and the thread that
\* delivers an error), whichever way reply, timeout, cancellation and close race.
THEOREM References == Spec => []RefsExact
<1>1. CallInv => RefsExact
  <2> SUFFICES ASSUME CallInv PROVE RefsExact
    OBVIOUS
  <2>1. \A k \in Calls : InMap(k) <=> Waits(k)
    BY DEF CallInv, TypeOK, MapOK, InMap
  <2>2. \A k \in emitting : handler[k]
    BY DEF CallInv, TypeOK, CallOK, PhaseAt
  <2>3. ASSUME NEW k \in Calls
        PROVE  ref_count[k] =
         Count(run[k] = "insert") + Count(InMap(k)) + Count(handler[k])
         + Count(timeout_source[k] \/ source[k] = "timeout")
         + Count(source[k] = "cancelled") + cancel_idle[k] + 2 * return_idle[k]
         + Count(context[k] \in {"disconnect", "return"})
    BY <2>1 DEF CallInv, CallOK, RefsAt, Erring, Count
  <2> QED BY <2>2, <2>3 DEF CallInv, RefsExact
<1> QED BY <1>1, CallInvariant, PTL

\* Whenever the lock is free, map_method_serial_to_task has exactly the calls
\* that wait, each under its own serial, and after a close none is left behind.
THEOREM TheMap == Spec => []MapExact
<1>1. CallInv => MapExact
  <2> SUFFICES ASSUME CallInv, lock = Free PROVE
    /\ \A k \in Calls, s \in Serials :
         map[s] = k <=> run[k] = "done" /\ ~delivered[k] /\ serial[k] = s
    /\ closed => \A s \in Serials : map[s] = None
    BY DEF MapExact
  <2>1. worker = "idle" /\ \A k \in Calls : ~Cleaning(k)
    BY DEF CallInv, LockOK, Free, Worker, Cleaning
  <2>2. \A k \in Calls, s \in Serials :
         map[s] = k <=> run[k] = "done" /\ ~delivered[k] /\ serial[k] = s
    BY <2>1 DEF CallInv, MapOK, Waits
  <2>3. closed => \A s \in Serials : map[s] = None
    BY <2>1, <2>2 DEF CallInv, TypeOK, ClosedOK
  <2> QED BY <2>2, <2>3
<1> QED BY <1>1, CallInvariant, PTL

\* Every call is returned at most once and its callback gets what it was
\* returned with, or learns of the cancellation; "closed" is emitted at most
\* once, when no call waits any more.
THEOREM Outcome == Spec => []OneOutcome
<1>1. CallInv => OneOutcome
  <2> SUFFICES ASSUME CallInv PROVE OneOutcome
    OBVIOUS
  <2>1. ASSUME NEW k \in Calls
        PROVE  /\ returns[k] <= 1 /\ calls[k] <= returns[k]
               /\ calls[k] = 1 => got[k] \in {outcome[k], "cancelled"}
    BY DEF CallInv, TypeOK, CallOK, ReturnsAt, Count
  <2>2. ASSUME NEW k \in Calls, run[k] \in {"done", "failed"}, ref_count[k] = 0
        PROVE  calls[k] = 1
    <3>1. RefsAt(k) /\ cancel_idle[k] \in Nat /\ return_idle[k] \in Nat
      BY DEF CallInv, CallOK, TypeOK
    <3>2. return_idle[k] = 0
      BY <2>2, <3>1 DEF RefsAt, Count
    <3>3. ~Waits(k)
      BY <2>2, <3>1 DEF RefsAt, Count
    <3>4. ~Erring(k)
      BY <2>2, <3>1 DEF RefsAt, Count
    <3> QED BY <2>2, <3>2, <3>3, <3>4 DEF CallInv, TypeOK, CallOK, ReturnsAt, Waits,
               Count
  <2>3. emit_closed + closed_emitted <= 1
    BY DEF CallInv, ClosedOK, Count
  <2>4. closed_emitted = 1 => \A k \in Calls : run[k] = "done" => delivered[k]
    BY DEF CallInv, TypeOK, ClosedOK, Count
  <2> QED BY <2>1, <2>2, <2>3, <2>4 DEF OneOutcome
<1> QED BY <1>1, CallInvariant, PTL

-----------------------------------------------------------------------------
(***************************************************************************)
(* The worker thread: GDBusWorker.                                         *)
(***************************************************************************)
\* The messages of the queue and the one being written are there once, and
\* nowhere else is a message that is queued or being written.
PlacesOK ==
  /\ output_pending = "write" <=> current # NoMessage
  /\ \A m \in Messages : message[m] = "writing" <=> current = m
  /\ \A i \in 1 .. Len(write_queue) : message[write_queue[i]] = "queued"
  /\ \A i, j \in 1 .. Len(write_queue) : write_queue[i] = write_queue[j] => i = j
  /\ \A m \in Messages : message[m] = "queued" =>
       \E i \in 1 .. Len(write_queue) : write_queue[i] = m

\* Where the worker thread is, and what it has begun.
ThreadOK ==
  /\ pc \in {"continue", "failed", "flushed", "closed"} => output_pending = "none"
  /\ pc = "filter" => output_pending = "write"
  /\ pc = "failed" => Lost # {}

\* Outside continue_writing, whatever waits has an idle source coming or output
\* that is pending.
WorkOK ==
  output_pending = "none" /\ idles = 0 =>
    /\ pc \in {"loop", "closed"} /\ pending_closes # {} => InputHasPending
    /\ pc \in {"loop", "closed", "read"} /\ pending_closes = {} =>
         write_queue = <<>> /\ ReadyFlushes = {}

\* A flush that is in a list waits, and is in one list only.
WaitingOK ==
  /\ \A f \in pending_flushes \cup flushers : flush[f] = "waiting"
  /\ pending_flushes \cap flushers = {}

\* The counters that a waiting flush compares.
Writing == IF output_pending = "write" THEN 1 ELSE 0

\* As long as no message was lost, a flush that waits is for a count that has not
\* been reached and will be, once what is queued is written.
WaitOK ==
  Lost = {} => \A f \in pending_flushes :
    /\ messages_written + Writing <= number_to_wait_for[f]
    /\ number_to_wait_for[f] <= messages_written + PendingWrites

\* Nothing has failed, and nobody closes.
Clean == faults = 0 /\ ~io_cancelled

\* What cannot be seen then; and messages_flushed falls behind as soon as a
\* message is written.
CleanOK ==
  Clean =>
    /\ \A m \in Messages : message[m] \notin {"failed", "discarded"}
    /\ pending_closes = {} /\ output_pending # "close"
    /\ \A c \in Closers : close[c] # "cancelled"
    /\ messages_flushed <= messages_written
    /\ \A m \in Messages : message[m] = "written" => messages_flushed # messages_written
    /\ pc \notin {"failed", "closed"}
    /\ pc = "flushed" => ~flush_failed

\* The messages sent before a flush that are not written yet are counted by it.
BeforeOK ==
  \A f \in Flushers :
    /\ \A m \in before[f] : message[m] # "unused"
    /\ Clean /\ f \in pending_flushes =>
         /\ \A i \in 1 .. Len(write_queue) : write_queue[i] \in before[f] =>
              messages_written + Writing + i <= number_to_wait_for[f]
         /\ current \in before[f] => messages_written + 1 <= number_to_wait_for[f]

\* What the flush in progress covers, and has covered when it returns.
FlushersOK ==
  Clean =>
    \A f \in Flushers :
      /\ f \in flushers /\ output_pending = "flush" =>
           \A m \in before[f] : message[m] \in {"written", "flushed", "dropped"}
      /\ f \in flushers /\ pc = "flushed" =>
           \A m \in before[f] : message[m] \in {"flushed", "dropped"}

\* The inductive invariant.
WorkerInv ==
  /\ IOTypeOK /\ PlacesOK /\ ThreadOK /\ WorkOK /\ WaitOK /\ CleanOK /\ BeforeOK
  /\ FlushersOK /\ FlushCovers /\ WaitingOK

\* _g_dbus_worker_send_message.
LEMMA WorkerSendStep ==
  ASSUME WorkerInv, NEW m \in Messages, _g_dbus_worker_send_message(m)
  PROVE  WorkerInv'
<1>1. IOTypeOK'
  BY DEF WorkerInv, IOTypeOK, _g_dbus_worker_send_message, Schedule, streamvars,
     countvars, listvars, uservars
<1>2. PlacesOK'
  BY DEF WorkerInv, PlacesOK, IOTypeOK, _g_dbus_worker_send_message, listvars
<1>3. ThreadOK'
  BY DEF WorkerInv, ThreadOK, Lost, _g_dbus_worker_send_message
<1>4. WorkOK'
  BY DEF WorkerInv, WorkOK, IOTypeOK, _g_dbus_worker_send_message, Schedule
<1>5. WaitOK'
  BY DEF WorkerInv, WaitOK, IOTypeOK, Lost, Writing, PendingWrites,
     _g_dbus_worker_send_message, countvars, uservars
<1>6. CleanOK'
  BY DEF WorkerInv, CleanOK, Clean, _g_dbus_worker_send_message, countvars, listvars,
     uservars
<1>7. BeforeOK'
  BY DEF WorkerInv, BeforeOK, Clean, Writing, _g_dbus_worker_send_message, countvars,
     listvars, uservars
<1>8. FlushersOK'
  BY DEF WorkerInv, FlushersOK, Clean, _g_dbus_worker_send_message, listvars, uservars
<1>9. FlushCovers'
  BY DEF WorkerInv, FlushCovers, _g_dbus_worker_send_message, uservars
<1>10. WaitingOK'
  BY DEF WorkerInv, WaitingOK, _g_dbus_worker_send_message, listvars, uservars
<1> QED BY <1>1, <1>2, <1>3, <1>4, <1>5, <1>6, <1>7, <1>8, <1>9, <1>10 DEF WorkerInv

\* _g_dbus_worker_flush_sync: the flush waits for the messages that are queued or
\* being written, or for those written and not flushed.
LEMMA FlushStep ==
  ASSUME WorkerInv, NEW f \in Flushers, _g_dbus_worker_flush_sync(f)
  PROVE  WorkerInv'
<1>1. PendingWrites \in Nat /\ Len(write_queue) \in Nat
  BY DEF PendingWrites
<1>2. /\ UNCHANGED <<streamvars, stopped, io_cancelled, output_pending, write_queue,
                     pending_closes, countvars, pc, listvars, close, message,
                     disconnected, faults>>
      /\ flush[f] = "unused"
      /\ before' = [before EXCEPT ![f] =
           {m \in Messages : message[m] \in {"queued", "writing", "written", "flushed"}}]
  BY DEF _g_dbus_worker_flush_sync
<1>3. \/ /\ number_to_wait_for' =
               [number_to_wait_for EXCEPT ![f] = messages_written + PendingWrites]
         /\ flush' = [flush EXCEPT ![f] = "waiting"]
         /\ pending_flushes' = pending_flushes \cup {f}
         /\ idles' = IF output_pending = "none" THEN idles + 1 ELSE idles
      \/ /\ PendingWrites = 0 /\ messages_written = messages_flushed
         /\ flush' = [flush EXCEPT ![f] = "ok"]
         /\ UNCHANGED <<number_to_wait_for, pending_flushes, idles>>
  BY <1>1 DEF _g_dbus_worker_flush_sync, Schedule
<1>4. IOTypeOK'
  <2>1. before' \in [Flushers -> SUBSET Messages]
    BY <1>2 DEF WorkerInv, IOTypeOK
  <2>2. number_to_wait_for' \in [Flushers -> Nat]
    BY <1>1, <1>3 DEF WorkerInv, IOTypeOK
  <2>3. flush' \in [Flushers -> {"unused", "waiting", "ok", "error"}]
    BY <1>3 DEF WorkerInv, IOTypeOK
  <2>4. idles' \in Nat /\ pending_flushes' \subseteq Flushers
    BY <1>3 DEF WorkerInv, IOTypeOK
  <2> QED
    BY <1>2, <2>1, <2>2, <2>3, <2>4
       DEF WorkerInv, IOTypeOK, streamvars, countvars, listvars
<1>5. PlacesOK'
  BY DEF WorkerInv, PlacesOK, _g_dbus_worker_flush_sync, listvars
<1>6. ThreadOK'
  BY DEF WorkerInv, ThreadOK, Lost, _g_dbus_worker_flush_sync
<1>7. WorkOK'
  BY DEF WorkerInv, WorkOK, IOTypeOK, InputHasPending, ReadyFlushes,
     _g_dbus_worker_flush_sync, Schedule, streamvars, countvars
<1>8. WaitOK'
  BY DEF WorkerInv, WaitOK, IOTypeOK, Lost, Writing, PendingWrites,
     _g_dbus_worker_flush_sync, countvars
<1>9. CleanOK'
  BY DEF WorkerInv, CleanOK, Clean, _g_dbus_worker_flush_sync, countvars, listvars
<1>10. BeforeOK'
  <2> SUFFICES ASSUME NEW g \in Flushers
               PROVE  /\ \A m \in before'[g] : message'[m] # "unused"
                      /\ Clean' /\ g \in pending_flushes' =>
                           /\ \A i \in 1 .. Len(write_queue') :
                                  write_queue'[i] \in before'[g] =>
                                messages_written' + Writing' + i <= number_to_wait_for'[g]
                           /\ current' \in before'[g] =>
                                messages_written' + 1 <= number_to_wait_for'[g]
    BY DEF BeforeOK
  <2>1. /\ UNCHANGED <<message, write_queue, messages_written, current,
                       output_pending, faults, io_cancelled>>
        /\ (Writing' = Writing) /\ (Clean' <=> Clean)
    BY <1>2 DEF countvars, listvars, Writing, Clean
  <2>2. CASE g # f
    <3>1. /\ before'[g] = before[g] /\ number_to_wait_for'[g] = number_to_wait_for[g]
          /\ g \in pending_flushes' <=> g \in pending_flushes
      BY <1>2, <1>3, <2>2 DEF WorkerInv, IOTypeOK
    <3> QED BY <2>1, <3>1 DEF WorkerInv, BeforeOK
  <2>3. CASE g = f
    <3>1. \A m \in before'[g] : message'[m] # "unused"
      BY <1>2, <2>3 DEF WorkerInv, IOTypeOK
    <3>2. f \notin pending_flushes
      BY <1>2 DEF WorkerInv, WaitingOK
    <3>3. g \in pending_flushes'
              => number_to_wait_for'[g] = messages_written + PendingWrites
      BY <1>3, <2>3, <3>2 DEF WorkerInv, IOTypeOK
    <3>4. PendingWrites = Len(write_queue) + Writing /\ Writing \in {0, 1}
              /\ messages_written \in Nat
      BY DEF PendingWrites, Writing, WorkerInv, IOTypeOK
    <3>5. current \in before'[g] => Writing = 1
      BY <1>2, GDBusWorkerAssumption DEF Writing, WorkerInv, PlacesOK, IOTypeOK
    <3> QED BY <2>1, <3>1, <3>3, <3>4, <3>5
  <2> QED BY <2>2, <2>3
<1>11. FlushersOK'
  <2>1. \A g \in Flushers : g # f => before'[g] = before[g]
    BY <1>2
  <2>2. f \notin flushers
    BY <1>2 DEF WorkerInv, WaitingOK
  <2> QED BY <1>2, <2>2 DEF WorkerInv, FlushersOK, Clean, listvars
<1>12. FlushCovers'
  <2>1. \A g \in Flushers : g # f => before'[g] = before[g] /\ flush'[g] = flush[g]
    BY <1>2, <1>3 DEF WorkerInv, IOTypeOK
  <2>2. UNCHANGED <<message, faults, io_cancelled>>
    BY <1>2
  <2>3. ASSUME flush'[f] = "ok", Clean, NEW m \in before'[f]
        PROVE  message[m] \in {"flushed", "dropped"}
    <3>1. PendingWrites = 0 /\ messages_written = messages_flushed
      BY <1>3, <2>3 DEF WorkerInv, IOTypeOK
    <3>2. Len(write_queue) = 0 /\ output_pending # "write"
      BY <3>1 DEF PendingWrites
    <3>3. m \in Messages /\ message[m] \in {"queued", "writing", "written", "flushed"}
      BY <1>2 DEF WorkerInv, IOTypeOK
    <3>4. message[m] \notin {"queued", "writing"}
      BY <3>2, <3>3, GDBusWorkerAssumption DEF WorkerInv, PlacesOK
    <3>5. message[m] # "written"
      BY <2>3, <3>1, <3>3 DEF WorkerInv, CleanOK
    <3> QED BY <3>3, <3>4, <3>5
  <2> QED BY <2>1, <2>2, <2>3 DEF WorkerInv, FlushCovers, Clean
<1>13. WaitingOK'
  BY DEF WorkerInv, WaitingOK, IOTypeOK, _g_dbus_worker_flush_sync, listvars
<1> QED
  BY <1>4, <1>5, <1>6, <1>7, <1>8, <1>9, <1>10, <1>11, <1>12, <1>13 DEF WorkerInv

\* _g_dbus_worker_close.
LEMMA CloseStep ==
  ASSUME WorkerInv, NEW c \in Closers, _g_dbus_worker_close(c)
  PROVE  WorkerInv'
<1>1. IOTypeOK'
  BY DEF WorkerInv, IOTypeOK, _g_dbus_worker_close, streamvars, queuevars,
     countvars, listvars
<1>2. PlacesOK'
  BY DEF WorkerInv, PlacesOK, _g_dbus_worker_close, queuevars, listvars
<1>3. ThreadOK'
  BY DEF WorkerInv, ThreadOK, Lost, _g_dbus_worker_close
<1>4. WorkOK'
  BY DEF WorkerInv, WorkOK, InputHasPending, ReadyFlushes, _g_dbus_worker_close,
     streamvars, queuevars, countvars
<1>5. WaitOK'
  BY DEF WorkerInv, WaitOK, Lost, Writing, PendingWrites, _g_dbus_worker_close,
     queuevars, countvars
<1>6. CleanOK'
  BY DEF CleanOK, Clean, _g_dbus_worker_close
<1>7. BeforeOK'
  BY DEF WorkerInv, BeforeOK, Clean, _g_dbus_worker_close
<1>8. FlushersOK'
  BY DEF FlushersOK, Clean, _g_dbus_worker_close
<1>9. FlushCovers'
  BY DEF FlushCovers, _g_dbus_worker_close
<1>10. WaitingOK'
  BY DEF WorkerInv, WaitingOK, _g_dbus_worker_close, queuevars, listvars
<1> QED BY <1>1, <1>2, <1>3, <1>4, <1>5, <1>6, <1>7, <1>8, <1>9, <1>10 DEF WorkerInv

\* _g_dbus_worker_stop.
LEMMA StopStep ==
  ASSUME WorkerInv, NEW c \in Closers, _g_dbus_worker_stop(c)
  PROVE  WorkerInv'
<1>1. IOTypeOK'
  BY DEF WorkerInv, IOTypeOK, _g_dbus_worker_stop, streamvars, queuevars,
     countvars, listvars
<1>2. PlacesOK'
  BY DEF WorkerInv, PlacesOK, _g_dbus_worker_stop, queuevars, countvars, listvars
<1>3. ThreadOK'
  BY DEF WorkerInv, ThreadOK, Lost, _g_dbus_worker_stop
<1>4. WorkOK'
  BY DEF WorkerInv, WorkOK, InputHasPending, ReadyFlushes, _g_dbus_worker_stop,
     streamvars, queuevars, countvars
<1>5. WaitOK'
  BY DEF WorkerInv, WaitOK, Lost, Writing, PendingWrites, _g_dbus_worker_stop,
     queuevars, countvars
<1>6. CleanOK'
  BY DEF WorkerInv, IOTypeOK, CleanOK, Clean, _g_dbus_worker_stop, queuevars,
     countvars, listvars
<1>7. BeforeOK'
  BY GDBusWorkerAssumption
     DEF WorkerInv, BeforeOK, IOTypeOK, PlacesOK, CleanOK, Clean, Writing,
         _g_dbus_worker_stop, streamvars, queuevars, countvars, listvars
<1>8. FlushersOK'
  BY DEF WorkerInv, FlushersOK, CleanOK, Clean, _g_dbus_worker_stop, countvars, listvars
<1>9. FlushCovers'
  BY DEF WorkerInv, FlushCovers, _g_dbus_worker_stop
<1>10. WaitingOK'
  BY DEF WorkerInv, WaitingOK, _g_dbus_worker_stop, queuevars, listvars
<1> QED BY <1>1, <1>2, <1>3, <1>4, <1>5, <1>6, <1>7, <1>8, <1>9, <1>10 DEF WorkerInv

\* The close is put into the list of the worker.
LEMMA ScheduleCloseStep ==
  ASSUME WorkerInv, NEW c \in Closers, ScheduleClose(c)
  PROVE  WorkerInv'
<1>1. IOTypeOK'
  BY DEF WorkerInv, IOTypeOK, ScheduleClose, Schedule, streamvars, countvars,
     listvars
<1>2. PlacesOK'
  BY DEF WorkerInv, PlacesOK, ScheduleClose, listvars
<1>3. ThreadOK'
  BY DEF WorkerInv, ThreadOK, Lost, ScheduleClose
<1>4. WorkOK'
  BY DEF WorkerInv, WorkOK, IOTypeOK, ScheduleClose, Schedule
<1>5. WaitOK'
  BY DEF WorkerInv, WaitOK, Lost, Writing, PendingWrites, ScheduleClose, countvars
<1>6. CleanOK'
  BY DEF WorkerInv, CleanOK, Clean, ScheduleClose
<1>7. BeforeOK'
  BY GDBusWorkerAssumption
     DEF WorkerInv, BeforeOK, IOTypeOK, PlacesOK, CleanOK, Clean, Writing,
         ScheduleClose, Schedule, streamvars, queuevars, countvars, listvars, uservars
<1>8. FlushersOK'
  BY DEF WorkerInv, FlushersOK, CleanOK, Clean, ScheduleClose
<1>9. FlushCovers'
  BY DEF WorkerInv, FlushCovers, ScheduleClose
<1>10. WaitingOK'
  BY DEF WorkerInv, WaitingOK, ScheduleClose, listvars
<1> QED BY <1>1, <1>2, <1>3, <1>4, <1>5, <1>6, <1>7, <1>8, <1>9, <1>10 DEF WorkerInv

\* _g_dbus_worker_do_initial_read.
LEMMA InitialReadStep ==
  ASSUME WorkerInv, _g_dbus_worker_do_initial_read
  PROVE  WorkerInv'
<1>1. IOTypeOK'
  BY DEF WorkerInv, IOTypeOK, _g_dbus_worker_do_initial_read, Step, queuevars,
     countvars, listvars
<1>2. PlacesOK'
  BY DEF WorkerInv, PlacesOK, _g_dbus_worker_do_initial_read, queuevars, listvars
<1>3. ThreadOK'
  BY DEF ThreadOK, _g_dbus_worker_do_initial_read, Step, uservars
<1>4. WorkOK'
  BY DEF WorkerInv, WorkOK, InputHasPending, ReadyFlushes,
     _g_dbus_worker_do_initial_read, Step, queuevars, countvars, uservars
<1>5. WaitOK'
  BY DEF WorkerInv, WaitOK, Lost, Writing, PendingWrites,
     _g_dbus_worker_do_initial_read, Step, queuevars, countvars, listvars
<1>6. CleanOK'
  BY DEF WorkerInv, CleanOK, Clean, _g_dbus_worker_do_initial_read, Step, queuevars,
     countvars, listvars
<1>7. BeforeOK'
  BY DEF WorkerInv, BeforeOK, Clean, Writing, _g_dbus_worker_do_initial_read, Step,
     streamvars, queuevars, countvars, listvars, uservars
<1>8. FlushersOK'
  BY DEF WorkerInv, FlushersOK, Clean, _g_dbus_worker_do_initial_read, Step, listvars
<1>9. FlushCovers'
  BY DEF WorkerInv, FlushCovers, _g_dbus_worker_do_initial_read, Step
<1>10. WaitingOK'
  BY DEF WorkerInv, WaitingOK, ReadyFlushes, _g_dbus_worker_do_initial_read,
     queuevars, countvars, listvars
<1> QED BY <1>1, <1>2, <1>3, <1>4, <1>5, <1>6, <1>7, <1>8, <1>9, <1>10 DEF WorkerInv

\* _g_dbus_worker_do_read_cb.
LEMMA ReadStep ==
  ASSUME WorkerInv, _g_dbus_worker_do_read_cb
  PROVE  WorkerInv'
<1>1. IOTypeOK'
  BY GDBusWorkerAssumption
     DEF WorkerInv, IOTypeOK, Outputs, _g_dbus_worker_do_read_cb, Step,
         EmitDisconnected, queuevars, countvars, listvars
<1>2. PlacesOK'
  BY GDBusWorkerAssumption DEF WorkerInv, PlacesOK, _g_dbus_worker_do_read_cb,
     EmitDisconnected, queuevars, countvars, listvars
<1>3. ThreadOK'
  BY DEF ThreadOK, _g_dbus_worker_do_read_cb, Step
<1>4. WorkOK'
  BY GDBusWorkerAssumption DEF WorkerInv, WorkOK, ReadyFlushes,
     _g_dbus_worker_do_read_cb, Step, queuevars, countvars
<1>5. WaitOK'
  BY DEF WorkerInv, WaitOK, Lost, Writing, PendingWrites, _g_dbus_worker_do_read_cb,
     Step, queuevars, countvars
<1>6. CleanOK'
  BY DEF WorkerInv, CleanOK, IOTypeOK, ThreadOK, Clean, _g_dbus_worker_do_read_cb,
     Step, queuevars, countvars
<1>7. BeforeOK'
  BY DEF WorkerInv, BeforeOK, IOTypeOK, PlacesOK, CleanOK, Clean, Writing,
     _g_dbus_worker_do_read_cb, Step, queuevars, countvars, listvars
<1>8. FlushersOK'
  BY DEF WorkerInv, FlushersOK, IOTypeOK, Clean, _g_dbus_worker_do_read_cb, Step,
     listvars
<1>9. FlushCovers'
  BY DEF WorkerInv, FlushCovers, IOTypeOK, _g_dbus_worker_do_read_cb, Step
<1>10. WaitingOK'
  BY DEF WorkerInv, WaitingOK, _g_dbus_worker_do_read_cb, queuevars, listvars
<1> QED BY <1>1, <1>2, <1>3, <1>4, <1>5, <1>6, <1>7, <1>8, <1>9, <1>10 DEF WorkerInv

\* schedule_pending_close, when the read is over.
LEMMA SchedulePendingCloseStep ==
  ASSUME WorkerInv, schedule_pending_close
  PROVE  WorkerInv'
<1>1. IOTypeOK'
  BY DEF WorkerInv, IOTypeOK, schedule_pending_close, Step, Schedule, queuevars,
     countvars, listvars
<1>2. PlacesOK'
  BY DEF WorkerInv, PlacesOK, schedule_pending_close, queuevars, listvars
<1>3. ThreadOK'
  BY DEF ThreadOK, schedule_pending_close, Step
<1>4. WorkOK'
  BY DEF WorkerInv, WorkOK, IOTypeOK, ReadyFlushes, schedule_pending_close, Step,
     Schedule, queuevars, countvars
<1>5. WaitOK'
  BY DEF WorkerInv, WaitOK, Lost, Writing, PendingWrites, schedule_pending_close,
     Step, queuevars, countvars
<1>6. CleanOK'
  BY DEF WorkerInv, CleanOK, Clean, schedule_pending_close, Step, queuevars, countvars
<1>7. BeforeOK'
  BY DEF WorkerInv, BeforeOK, Clean, Writing, schedule_pending_close, Step, queuevars,
     countvars, listvars
<1>8. FlushersOK'
  BY DEF WorkerInv, FlushersOK, Clean, schedule_pending_close, Step, listvars
<1>9. FlushCovers'
  BY DEF WorkerInv, FlushCovers, schedule_pending_close, Step
<1>10. WaitingOK'
  BY DEF WorkerInv, WaitingOK, schedule_pending_close, queuevars, listvars
<1> QED BY <1>1, <1>2, <1>3, <1>4, <1>5, <1>6, <1>7, <1>8, <1>9, <1>10 DEF WorkerInv

\* continue_writing_in_idle_cb.
LEMMA IdleStep ==
  ASSUME WorkerInv, continue_writing_in_idle_cb
  PROVE  WorkerInv'
<1>1. IOTypeOK'
  BY DEF WorkerInv, IOTypeOK, continue_writing_in_idle_cb, Step, queuevars,
     countvars, listvars
<1>2. PlacesOK'
  BY DEF WorkerInv, PlacesOK, continue_writing_in_idle_cb, queuevars, listvars
<1>3. ThreadOK'
  BY DEF ThreadOK, continue_writing_in_idle_cb, Step
<1>4. WorkOK'
  BY DEF WorkOK, continue_writing_in_idle_cb, Step
<1>5. WaitOK'
  BY DEF WorkerInv, WaitOK, Lost, Writing, PendingWrites, continue_writing_in_idle_cb,
     Step, queuevars, countvars
<1>6. CleanOK'
  BY DEF WorkerInv, CleanOK, Clean, continue_writing_in_idle_cb, Step, queuevars,
     countvars
<1>7. BeforeOK'
  BY DEF WorkerInv, BeforeOK, Clean, Writing, continue_writing_in_idle_cb, Step,
     queuevars, countvars, listvars
<1>8. FlushersOK'
  BY DEF WorkerInv, FlushersOK, Clean, continue_writing_in_idle_cb, Step, listvars
<1>9. FlushCovers'
  BY DEF WorkerInv, FlushCovers, continue_writing_in_idle_cb, Step
<1>10. WaitingOK'
  BY DEF WorkerInv, WaitingOK, continue_writing_in_idle_cb, queuevars, listvars
<1> QED BY <1>1, <1>2, <1>3, <1>4, <1>5, <1>6, <1>7, <1>8, <1>9, <1>10 DEF WorkerInv

\* continue_writing begins to close the stream,
LEMMA ContinueCloseStep ==
  ASSUME WorkerInv, continue_writing, ContinueClose
  PROVE  WorkerInv'
<1>1. IOTypeOK'
  <2>1. output_pending' \in Outputs /\ close_expected' \in BOOLEAN /\ pc' = "loop"
    BY DEF WorkerInv, IOTypeOK, Outputs, ContinueClose
  <2> QED
    BY <2>1
       DEF WorkerInv, IOTypeOK, continue_writing, ContinueClose, queuevars,
           countvars, listvars, uservars
<1>2. PlacesOK'
  <2>1. output_pending = "none" /\ output_pending' # "write"
    BY DEF WorkerInv, ThreadOK, continue_writing, ContinueClose
  <2>2. UNCHANGED <<message, current, write_queue>>
    BY DEF ContinueClose, queuevars, listvars
  <2> QED BY <2>1, <2>2 DEF WorkerInv, PlacesOK
<1>3. ThreadOK'
  BY DEF ThreadOK, ContinueClose
<1>4. WorkOK'
  BY DEF WorkOK, InputHasPending, continue_writing, ContinueClose, queuevars
<1>5. WaitOK'
  BY DEF WorkerInv, WaitOK, ThreadOK, Lost, Writing, PendingWrites, continue_writing,
     ContinueClose, queuevars, countvars, uservars
<1>6. CleanOK'
  BY DEF WorkerInv, CleanOK, Clean, continue_writing, ContinueClose
<1>7. BeforeOK'
  BY DEF WorkerInv, BeforeOK, CleanOK, Clean, continue_writing, ContinueClose,
     uservars
<1>8. FlushersOK'
  BY DEF WorkerInv, FlushersOK, CleanOK, Clean, continue_writing, ContinueClose
<1>9. FlushCovers'
  BY DEF WorkerInv, FlushCovers, CleanOK, Clean, continue_writing, ContinueClose
<1>10. WaitingOK'
  BY DEF WorkerInv, WaitingOK, continue_writing, ContinueClose, queuevars, listvars,
     uservars
<1> QED BY <1>1, <1>2, <1>3, <1>4, <1>5, <1>6, <1>7, <1>8, <1>9, <1>10 DEF WorkerInv

\* or to flush it, for the flushes that have waited long enough,
LEMMA ContinueFlushStep ==
  ASSUME WorkerInv, continue_writing, ContinueFlush
  PROVE  WorkerInv'
<1>1. IOTypeOK'
  <2>1. ReadyFlushes \subseteq Flushers /\ pending_flushes' \subseteq Flushers
    BY DEF WorkerInv, IOTypeOK, ReadyFlushes, ContinueFlush
  <2>2. output_pending' \in Outputs /\ pc' = "loop" /\ flushers' \subseteq Flushers
    BY <2>1 DEF ContinueFlush, Outputs
  <2> QED
    BY <2>2
       DEF WorkerInv, IOTypeOK, continue_writing, ContinueFlush, countvars,
           uservars
<1>2. PlacesOK'
  <2>1. output_pending = "none" /\ output_pending' # "write"
    BY DEF WorkerInv, ThreadOK, continue_writing, ContinueFlush
  <2>2. UNCHANGED <<message, current, write_queue>>
    BY DEF ContinueFlush
  <2> QED BY <2>1, <2>2 DEF WorkerInv, PlacesOK
<1>3. ThreadOK'
  BY DEF ThreadOK, ContinueFlush
<1>4. WorkOK'
  BY DEF WorkOK, ContinueFlush
<1>5. WaitOK'
  BY DEF WorkerInv, WaitOK, ThreadOK, Lost, Writing, PendingWrites, continue_writing,
     ContinueFlush, countvars, uservars
<1>6. CleanOK'
  BY DEF WorkerInv, CleanOK, Clean, continue_writing, ContinueFlush, countvars,
     uservars
<1>7. BeforeOK'
  BY DEF WorkerInv, BeforeOK, IOTypeOK, Clean, Writing, continue_writing,
     ContinueFlush, countvars, uservars
<1>8. FlushersOK'
  <2> SUFFICES ASSUME Clean, NEW f \in ReadyFlushes, NEW m \in before[f]
               PROVE  message[m] \in {"written", "flushed", "dropped"}
    BY DEF FlushersOK, Clean, continue_writing, ContinueFlush, uservars
  <2>1. /\ f \in pending_flushes /\ f \in Flushers /\ m \in Messages
        /\ number_to_wait_for[f] = messages_written
        /\ messages_written \in Nat /\ Len(write_queue) \in Nat
    BY DEF WorkerInv, IOTypeOK, ReadyFlushes
  <2>2. output_pending = "none" /\ Writing = 0
    BY DEF WorkerInv, ThreadOK, continue_writing, Writing
  <2>3. \A i \in 1 .. Len(write_queue) : write_queue[i] # m
    BY <2>1, <2>2 DEF WorkerInv, BeforeOK
  <2>4. message[m] \notin {"queued", "writing"}
    BY <2>1, <2>2, <2>3, GDBusWorkerAssumption DEF WorkerInv, PlacesOK
  <2>5. message[m] \notin {"unused", "failed", "discarded"}
    BY <2>1 DEF WorkerInv, BeforeOK, CleanOK
  <2> QED BY <2>1, <2>4, <2>5 DEF WorkerInv, IOTypeOK
<1>9. FlushCovers'
  BY DEF WorkerInv, FlushCovers, continue_writing, ContinueFlush, uservars
<1>10. WaitingOK'
  BY DEF WorkerInv, WaitingOK, ReadyFlushes, continue_writing, ContinueFlush, uservars
<1> QED BY <1>1, <1>2, <1>3, <1>4, <1>5, <1>6, <1>7, <1>8, <1>9, <1>10 DEF WorkerInv

\* or to write the next message: its place in the queue becomes its number,
LEMMA ContinueWriteStep ==
  ASSUME WorkerInv, continue_writing, ContinueWrite
  PROVE  WorkerInv'
<1>1. /\ write_queue \in Seq(Messages) /\ write_queue # <<>>
      /\ output_pending = "none"
      /\ message' = [message EXCEPT ![Head(write_queue)] = "writing"]
      /\ output_pending' = "write"
      /\ current' = Head(write_queue) /\ write_queue' = Tail(write_queue)
  BY DEF WorkerInv, IOTypeOK, ThreadOK, continue_writing, ContinueWrite
<1>2. /\ Len(write_queue) \in Nat \ {0} /\ Len(write_queue') = Len(write_queue) - 1
      /\ \A i \in 1 .. Len(write_queue') : write_queue'[i] = write_queue[i + 1]
      /\ Head(write_queue) = write_queue[1] /\ Head(write_queue) \in Messages
  BY <1>1
<1>3. IOTypeOK'
  BY DEF WorkerInv, IOTypeOK, Outputs, continue_writing, ContinueWrite, countvars,
     uservars
<1>4. PlacesOK'
  <2>1. /\ current' # NoMessage /\ current' \in Messages
        /\ message \in [Messages -> {"unused", "queued", "writing", "written", "flushed",
                                    "failed", "dropped", "discarded"}]
    BY <1>1, GDBusWorkerAssumption DEF WorkerInv, IOTypeOK
  <2>2. \A m \in Messages : message'[m] = IF m = current' THEN "writing" ELSE message[m]
    BY <1>1, <2>1
  <2>3. \A m \in Messages : message[m] # "writing"
    BY <1>1, GDBusWorkerAssumption DEF WorkerInv, PlacesOK
  <2>4. current' = write_queue[1]
    BY <1>1
  <2>5. \A i \in 1 .. Len(write_queue') :
           /\ write_queue'[i] \in Messages /\ write_queue'[i] # current'
           /\ message[write_queue'[i]] = "queued"
    <3> SUFFICES ASSUME NEW i \in 1 .. Len(write_queue')
                 PROVE  /\ write_queue'[i] \in Messages /\ write_queue'[i] # current'
                        /\ message[write_queue'[i]] = "queued"
      OBVIOUS
    <3>1. i + 1 \in 1 .. Len(write_queue) /\ 1 \in 1 .. Len(write_queue) /\ i + 1 # 1
      BY <1>2
    <3>2. write_queue[i + 1] \in Messages
      BY <1>1
    <3>3. message[write_queue[i + 1]] = "queued" /\ write_queue[i + 1] # write_queue[1]
      BY <3>1 DEF WorkerInv, PlacesOK
    <3> QED BY <1>2, <2>4, <3>2, <3>3
  <2>6. \A i, j \in 1 .. Len(write_queue') : write_queue'[i] = write_queue'[j] => i = j
    <3> SUFFICES ASSUME NEW i \in 1 .. Len(write_queue'),
                        NEW j \in 1 .. Len(write_queue'),
                        write_queue'[i] = write_queue'[j]
                 PROVE  i = j
      OBVIOUS
    <3>1. i + 1 \in 1 .. Len(write_queue) /\ j + 1 \in 1 .. Len(write_queue)
      BY <1>2
    <3>2. write_queue[i + 1] = write_queue[j + 1]
      BY <1>2
    <3>3. i + 1 = j + 1
      BY <3>1, <3>2 DEF WorkerInv, PlacesOK
    <3> QED BY <3>3
  <2>7. ASSUME NEW m \in Messages, message'[m] = "queued"
        PROVE  \E i \in 1 .. Len(write_queue') : write_queue'[i] = m
    <3>1. m # current' /\ message[m] = "queued"
      BY <2>2, <2>7
    <3>2. PICK i \in 1 .. Len(write_queue) : write_queue[i] = m
      BY <3>1 DEF WorkerInv, PlacesOK
    <3>3. i # 1
      BY <2>4, <3>1, <3>2
    <3>4. i - 1 \in 1 .. Len(write_queue') /\ (i - 1) + 1 = i
      BY <1>2, <3>3
    <3>5. write_queue'[i - 1] = m
      BY <1>2, <3>2, <3>4
    <3> QED BY <3>4, <3>5
  <2> QED BY <1>1, <2>1, <2>3, <2>5, <2>6, <2>7 DEF PlacesOK
<1>5. ThreadOK'
  BY DEF ThreadOK, ContinueWrite
<1>6. WorkOK'
  BY DEF WorkOK, ContinueWrite
<1>7. WaitOK'
  <2> SUFFICES ASSUME Lost' = {}, NEW f \in pending_flushes
               PROVE  /\ messages_written + 1 <= number_to_wait_for[f]
                      /\ number_to_wait_for[f] <= messages_written + Len(write_queue)
    BY DEF WaitOK, Writing, PendingWrites, continue_writing, ContinueWrite, countvars,
       uservars
  <2>1. Lost = {}
    <3>1. message[Head(write_queue)] = "queued"
      BY <1>2 DEF WorkerInv, PlacesOK
    <3> QED BY <1>1, <3>1 DEF Lost
  <2>2. f \in Flushers /\ number_to_wait_for[f] \in Nat /\ messages_written \in Nat
    BY DEF WorkerInv, IOTypeOK
  <2>3. messages_written <= number_to_wait_for[f]
    BY <2>1, <2>2 DEF WorkerInv, WaitOK, Writing
  <2>4. number_to_wait_for[f] <= messages_written + Len(write_queue)
    BY <1>1, <2>1 DEF WorkerInv, WaitOK, PendingWrites
  <2>5. number_to_wait_for[f] # messages_written
    BY DEF ContinueWrite, ReadyFlushes
  <2> QED BY <2>2, <2>3, <2>4, <2>5
<1>8. CleanOK'
  BY DEF WorkerInv, CleanOK, Clean, continue_writing, ContinueWrite, countvars,
     uservars
<1>9. BeforeOK'
  <2> SUFFICES ASSUME NEW f \in Flushers
               PROVE  /\ \A m \in before'[f] : message'[m] # "unused"
                      /\ Clean' /\ f \in pending_flushes' =>
                           /\ \A i \in 1 .. Len(write_queue') :
                                write_queue'[i] \in before'[f] =>
                                  messages_written' + Writing' + i <= number_to_wait_for'[f]
                           /\ current' \in before'[f] =>
                                messages_written' + 1 <= number_to_wait_for'[f]
    BY DEF BeforeOK
  <2>1. /\ UNCHANGED <<before, number_to_wait_for, messages_written, pending_flushes>>
        /\ Clean' => Clean
    BY DEF continue_writing, ContinueWrite, uservars, countvars, Clean
  <2>2. /\ messages_written \in Nat /\ number_to_wait_for[f] \in Nat /\ Writing = 0 /\ Writing' = 1
        /\ before[f] \subseteq Messages
    BY <1>1 DEF WorkerInv, IOTypeOK, Writing
  <2>3. \A m \in before[f] : message'[m] # "unused"
    BY <1>1, <1>2, <2>2 DEF WorkerInv, IOTypeOK, BeforeOK
  <2>4. ASSUME Clean, f \in pending_flushes, NEW j \in 1 .. Len(write_queue),
               write_queue[j] \in before[f]
        PROVE  messages_written + j <= number_to_wait_for[f]
    <3>1. messages_written + 0 + j <= number_to_wait_for[f]
      BY <2>2, <2>4 DEF WorkerInv, BeforeOK
    <3> QED BY <2>2, <3>1
  <2>5. ASSUME Clean, f \in pending_flushes, NEW i \in 1 .. Len(write_queue'),
               write_queue'[i] \in before[f]
        PROVE  messages_written + 1 + i <= number_to_wait_for[f]
    <3>1. i + 1 \in 1 .. Len(write_queue) /\ write_queue[i + 1] \in before[f]
      BY <1>2, <2>5
    <3>2. messages_written + (i + 1) <= number_to_wait_for[f]
      BY <2>4, <2>5, <3>1
    <3> QED BY <1>2, <2>2, <3>2
  <2>6. ASSUME Clean, f \in pending_flushes, current' \in before[f]
        PROVE  messages_written + 1 <= number_to_wait_for[f]
    <3>1. 1 \in 1 .. Len(write_queue) /\ write_queue[1] \in before[f]
      BY <1>1, <1>2, <2>6
    <3> QED BY <2>4, <2>6, <3>1
  <2> QED BY <2>1, <2>2, <2>3, <2>5, <2>6
<1>10. FlushersOK'
  BY DEF FlushersOK, ContinueWrite
<1>11. FlushCovers'
  BY DEF WorkerInv, FlushCovers, PlacesOK, continue_writing, ContinueWrite, uservars
<1>12. WaitingOK'
  BY DEF WorkerInv, WaitingOK, continue_writing, ContinueWrite, uservars
<1> QED BY <1>3, <1>4, <1>5, <1>6, <1>7, <1>8, <1>9, <1>10, <1>11, <1>12 DEF WorkerInv

\* or finds nothing to do.
LEMMA ContinueNothingStep ==
  ASSUME WorkerInv, continue_writing, ContinueNothing
  PROVE  WorkerInv'
<1>1. IOTypeOK'
  BY DEF WorkerInv, IOTypeOK, continue_writing, ContinueNothing, queuevars,
     countvars, listvars, uservars
<1>2. PlacesOK'
  BY DEF WorkerInv, PlacesOK, ContinueNothing, queuevars, listvars
<1>3. ThreadOK'
  BY DEF ThreadOK, ContinueNothing
<1>4. WorkOK'
  BY DEF WorkOK, ReadyFlushes, continue_writing, ContinueNothing, queuevars,
     countvars, uservars
<1>5. WaitOK'
  BY DEF WorkerInv, WaitOK, Lost, Writing, PendingWrites, continue_writing,
     ContinueNothing, queuevars, countvars, uservars
<1>6. CleanOK'
  BY DEF WorkerInv, CleanOK, Clean, continue_writing, ContinueNothing, queuevars,
     countvars, uservars
<1>7. BeforeOK'
  BY DEF WorkerInv, BeforeOK, Clean, continue_writing, ContinueNothing, queuevars,
     countvars, listvars, uservars
<1>8. FlushersOK'
  BY DEF WorkerInv, FlushersOK, Clean, continue_writing, ContinueNothing, listvars,
     uservars
<1>9. FlushCovers'
  BY DEF WorkerInv, FlushCovers, continue_writing, ContinueNothing, uservars
<1>10. WaitingOK'
  BY DEF WorkerInv, WaitingOK, continue_writing, ContinueNothing, queuevars, listvars,
     uservars
<1> QED BY <1>1, <1>2, <1>3, <1>4, <1>5, <1>6, <1>7, <1>8, <1>9, <1>10 DEF WorkerInv

\* The filters let the message through or drop it.
LEMMA FilterStep ==
  ASSUME WorkerInv, about_to_be_sent
  PROVE  WorkerInv'
<1>1. IOTypeOK'
  BY DEF WorkerInv, IOTypeOK, Outputs, about_to_be_sent, Step, queuevars,
     countvars, listvars
<1>2. PlacesOK'
  <2>1. CASE UNCHANGED <<message, current, write_queue, output_pending>>
    BY <2>1 DEF WorkerInv, PlacesOK
  <2>2. CASE /\ output_pending' = "none" /\ current' = NoMessage /\ pc = "filter"
             /\ message' = [message EXCEPT ![current] = "dropped"]
             /\ write_queue' = write_queue
    <3>1. current \in Messages /\ message[current] = "writing"
      BY <2>2 DEF WorkerInv, IOTypeOK, ThreadOK, PlacesOK
    <3>2. \A m \in Messages : message'[m] = IF m = current THEN "dropped" ELSE message[m]
      BY <2>2 DEF WorkerInv, IOTypeOK
    <3>3. \A i \in 1 .. Len(write_queue) :
              write_queue[i] \in Messages /\ write_queue[i] # current
      BY DEF WorkerInv, IOTypeOK, PlacesOK
    <3> QED BY <2>2, <3>1, <3>2, GDBusWorkerAssumption DEF WorkerInv, PlacesOK
  <2> QED BY <2>1, <2>2 DEF about_to_be_sent, Step, queuevars, listvars
<1>3. ThreadOK'
  BY DEF ThreadOK, about_to_be_sent, Step
<1>4. WorkOK'
  BY DEF WorkerInv, WorkOK, ThreadOK, about_to_be_sent, Step
<1>5. WaitOK'
  BY GDBusWorkerAssumption
     DEF WorkerInv, WaitOK, IOTypeOK, Lost, Writing, PendingWrites,
         about_to_be_sent, Step, queuevars, countvars
<1>6. CleanOK'
  BY DEF WorkerInv, CleanOK, IOTypeOK, Clean, about_to_be_sent, Step, queuevars,
     countvars
<1>7. BeforeOK'
  BY GDBusWorkerAssumption DEF WorkerInv, BeforeOK, IOTypeOK, Clean, Writing,
     about_to_be_sent, Step, queuevars, countvars, listvars
<1>8. FlushersOK'
  BY DEF WorkerInv, FlushersOK, Clean, about_to_be_sent, Step, listvars
<1>9. FlushCovers'
  BY DEF WorkerInv, FlushCovers, IOTypeOK, about_to_be_sent, Step
<1>10. WaitingOK'
  BY DEF WorkerInv, WaitingOK, about_to_be_sent, queuevars, listvars
<1> QED BY <1>1, <1>2, <1>3, <1>4, <1>5, <1>6, <1>7, <1>8, <1>9, <1>10 DEF WorkerInv

\* write_message_cb: the message counts as written.
LEMMA WrittenStep ==
  ASSUME WorkerInv, write_message_cb
  PROVE  WorkerInv'
<1>1. /\ output_pending = "write" /\ current \in Messages
      /\ message[current] = "writing"
      /\ output_pending' = "none" /\ current' = NoMessage
      /\ write_queue' = write_queue
  BY DEF WorkerInv, IOTypeOK, PlacesOK, write_message_cb, queuevars
<1>2. PICK v \in {"written", "failed"} : message' = [message EXCEPT ![current] = v]
  BY DEF write_message_cb
<1>3. IOTypeOK'
  <2>1. message' \in [Messages -> {"unused", "queued", "writing", "written", "flushed",
                                   "failed", "dropped", "discarded"}]
    BY <1>1, <1>2 DEF WorkerInv, IOTypeOK
  <2>2. faults' \in 0 .. MaxFaults
    BY GDBusWorkerAssumption DEF WorkerInv, IOTypeOK, write_message_cb, MayFail
  <2>3. messages_written' \in Nat /\ pc' \in {"continue", "failed"}
    BY DEF WorkerInv, IOTypeOK, write_message_cb, Step
  <2>4. UNCHANGED <<socket, stopped, io_cancelled, number_to_wait_for, before, close_expected,
                    reading, queuevars, messages_flushed, flushers, flush_failed, closers,
                    idles, flush, close, disconnected>>
    BY DEF write_message_cb, Step
  <2> QED
    BY <1>1, <2>1, <2>2, <2>3, <2>4 DEF WorkerInv, IOTypeOK, Outputs, queuevars
<1>4. PlacesOK'
  <2>1. \A m \in Messages : message'[m] = IF m = current THEN v ELSE message[m]
    BY <1>2 DEF WorkerInv, IOTypeOK
  <2>2. \A i \in 1 .. Len(write_queue) :
            write_queue[i] \in Messages /\ write_queue[i] # current
    BY DEF WorkerInv, IOTypeOK, PlacesOK
  <2> QED BY <1>1, <2>1, <2>2, GDBusWorkerAssumption DEF WorkerInv, PlacesOK
<1>5. ThreadOK'
  BY DEF WorkerInv, ThreadOK, IOTypeOK, PlacesOK, Lost, write_message_cb, Step
<1>6. WorkOK'
  BY DEF WorkOK, write_message_cb, Step
<1>7. WaitOK'
  BY DEF WorkerInv, WaitOK, IOTypeOK, PlacesOK, Lost, Writing, PendingWrites,
     write_message_cb, Step, queuevars
<1>8. CleanOK'
  BY DEF WorkerInv, CleanOK, IOTypeOK, Clean, write_message_cb, Step, MayFail,
     queuevars
<1>9. BeforeOK'
  BY GDBusWorkerAssumption DEF WorkerInv, BeforeOK, IOTypeOK, Clean, Writing,
     write_message_cb, Step, MayFail, queuevars
<1>10. FlushersOK'
  BY DEF FlushersOK, write_message_cb, Step
<1>11. FlushCovers'
  BY DEF WorkerInv, FlushCovers, IOTypeOK, PlacesOK, write_message_cb, Step,
     MayFail
<1>12. WaitingOK'
  BY DEF WorkerInv, WaitingOK, write_message_cb, queuevars
<1> QED BY <1>3, <1>4, <1>5, <1>6, <1>7, <1>8, <1>9, <1>10, <1>11, <1>12 DEF WorkerInv

\* The write failed.
LEMMA WriteFailedStep ==
  ASSUME WorkerInv, WriteFailed
  PROVE  WorkerInv'
<1>1. IOTypeOK'
  BY DEF WorkerInv, IOTypeOK, WriteFailed, Step, EmitDisconnected, queuevars,
     listvars
<1>2. PlacesOK'
  BY DEF WorkerInv, PlacesOK, WriteFailed, queuevars, listvars
<1>3. ThreadOK'
  BY DEF WorkerInv, ThreadOK, WriteFailed, Step
<1>4. WorkOK'
  BY DEF WorkOK, WriteFailed, Step
<1>5. WaitOK'
  BY DEF WorkerInv, WaitOK, ThreadOK, Lost, WriteFailed, Step
<1>6. CleanOK'
  BY DEF WorkerInv, CleanOK, Clean, WriteFailed, Step
<1>7. BeforeOK'
  BY DEF WorkerInv, BeforeOK, CleanOK, Clean, WriteFailed, Step
<1>8. FlushersOK'
  BY DEF WorkerInv, FlushersOK, CleanOK, Clean, WriteFailed, Step
<1>9. FlushCovers'
  BY DEF WorkerInv, FlushCovers, WriteFailed, Step
<1>10. WaitingOK'
  BY DEF WorkerInv, WaitingOK, WriteFailed, queuevars, listvars
<1> QED BY <1>1, <1>2, <1>3, <1>4, <1>5, <1>6, <1>7, <1>8, <1>9, <1>10 DEF WorkerInv

\* ostream_flush_cb: all that was written counts as flushed.
LEMMA FlushedStep ==
  ASSUME WorkerInv, ostream_flush_cb
  PROVE  WorkerInv'
<1>1. /\ output_pending = "flush" /\ output_pending' = "none" /\ pc' = "flushed"
      /\ UNCHANGED <<current, write_queue>>
      /\ \/ message' = [m \in Messages |-> IF message[m] = "written" THEN "flushed"
                ELSE message[m]]
         \/ message' = message
  BY DEF ostream_flush_cb, Step, queuevars
<1>2. IOTypeOK'
  <2>1. message' \in [Messages -> {"unused", "queued", "writing", "written", "flushed",
                                   "failed", "dropped", "discarded"}]
    BY <1>1 DEF WorkerInv, IOTypeOK
  <2>2. faults' \in 0 .. MaxFaults
    BY GDBusWorkerAssumption DEF WorkerInv, IOTypeOK, ostream_flush_cb, MayFail
  <2>3. messages_flushed' \in Nat /\ flush_failed' \in BOOLEAN
    BY Zenon DEF WorkerInv, IOTypeOK, ostream_flush_cb
  <2>4. UNCHANGED <<socket, stopped, io_cancelled, number_to_wait_for, before, close_expected,
                    reading, queuevars, messages_written, current, flushers, closers,
                    idles, flush, close, disconnected>>
    BY DEF ostream_flush_cb, Step
  <2> QED BY <1>1, <2>2, <2>3, <2>4 DEF WorkerInv, IOTypeOK, Outputs, queuevars
<1>3. PlacesOK'
  <2>1. \A m \in Messages : /\ message'[m] = "writing" <=> message[m] = "writing"
                            /\ message'[m] = "queued" <=> message[m] = "queued"
    BY <1>1
  <2>2. \A i \in 1 .. Len(write_queue) : write_queue[i] \in Messages
    BY DEF WorkerInv, IOTypeOK
  <2> QED BY <1>1, <2>2 DEF WorkerInv, PlacesOK
<1>4. ThreadOK'
  BY DEF ThreadOK, ostream_flush_cb, Step
<1>5. WorkOK'
  BY DEF WorkOK, ostream_flush_cb, Step
<1>6. WaitOK'
  BY DEF WorkerInv, WaitOK, Lost, Writing, PendingWrites, ostream_flush_cb, Step,
     queuevars
<1>7. CleanOK'
  BY DEF WorkerInv, CleanOK, IOTypeOK, Clean, ostream_flush_cb, Step, MayFail,
     queuevars
<1>8. BeforeOK'
  BY DEF WorkerInv, BeforeOK, IOTypeOK, Clean, Writing, ostream_flush_cb, Step,
     MayFail, queuevars
<1>9. FlushersOK'
  BY DEF WorkerInv, FlushersOK, IOTypeOK, Clean, ostream_flush_cb, Step, MayFail
<1>10. FlushCovers'
  BY DEF WorkerInv, FlushCovers, IOTypeOK, ostream_flush_cb, Step, MayFail
<1>11. WaitingOK'
  BY DEF WorkerInv, WaitingOK, ostream_flush_cb, queuevars
<1> QED BY <1>2, <1>3, <1>4, <1>5, <1>6, <1>7, <1>8, <1>9, <1>10, <1>11 DEF WorkerInv

\* The flushers learn of it.
LEMMA FlushCompletesStep ==
  ASSUME WorkerInv, FlushCompletes
  PROVE  WorkerInv'
<1>1. IOTypeOK'
  BY DEF WorkerInv, IOTypeOK, FlushCompletes, Step, Complete, queuevars, countvars
<1>2. PlacesOK'
  BY DEF WorkerInv, PlacesOK, FlushCompletes, queuevars
<1>3. ThreadOK'
  BY DEF WorkerInv, ThreadOK, FlushCompletes, Step
<1>4. WorkOK'
  BY DEF WorkOK, FlushCompletes, Step
<1>5. WaitOK'
  BY DEF WorkerInv, WaitOK, Lost, Writing, PendingWrites, FlushCompletes, Step,
     queuevars, countvars
<1>6. CleanOK'
  BY DEF WorkerInv, CleanOK, Clean, FlushCompletes, Step, queuevars, countvars
<1>7. BeforeOK'
  BY DEF WorkerInv, BeforeOK, Clean, Writing, FlushCompletes, Step, queuevars,
     countvars
<1>8. FlushersOK'
  BY DEF FlushersOK, FlushCompletes
<1>9. FlushCovers'
  BY DEF WorkerInv, FlushCovers, FlushersOK, Clean, FlushCompletes, Step, Complete
<1>10. WaitingOK'
  BY DEF WorkerInv, WaitingOK, IOTypeOK, FlushCompletes, Complete, queuevars
<1> QED BY <1>1, <1>2, <1>3, <1>4, <1>5, <1>6, <1>7, <1>8, <1>9, <1>10 DEF WorkerInv

\* iostream_close_cb.
LEMMA ClosedStep ==
  ASSUME WorkerInv, iostream_close_cb
  PROVE  WorkerInv'
<1>1. IOTypeOK'
  <2>1. message' \in [Messages -> {"unused", "queued", "writing", "written", "flushed",
                                   "failed", "dropped", "discarded"}]
    BY DEF WorkerInv, IOTypeOK, iostream_close_cb
  <2>2. messages_flushed' \in Nat
    <3>1. Cardinality(pending_flushes) \in Nat
      BY FS_Subset, FS_CardinalityType, GDBusWorkerAssumption
         DEF WorkerInv, IOTypeOK
    <3> QED BY <3>1 DEF WorkerInv, IOTypeOK, iostream_close_cb
  <2>3. write_queue' \in Seq(Messages) /\ output_pending' \in Outputs /\ pc' = "closed"
        /\ pending_closes' \subseteq Closers /\ closers' \subseteq Closers
        /\ pending_flushes' \subseteq Flushers /\ flushers' \subseteq Flushers
    BY DEF WorkerInv, IOTypeOK, iostream_close_cb, Step, Outputs
  <2>4. UNCHANGED <<socket, stopped, io_cancelled, number_to_wait_for, before, close_expected,
                    reading, messages_written, current, flush_failed, idles, flush, close,
                    disconnected, faults>>
    BY DEF iostream_close_cb, Step
  <2> QED BY <2>1, <2>2, <2>3, <2>4 DEF WorkerInv, IOTypeOK
<1>2. PlacesOK'
  BY DEF WorkerInv, PlacesOK, iostream_close_cb
<1>3. ThreadOK'
  BY DEF ThreadOK, iostream_close_cb, Step
<1>4. WorkOK'
  BY DEF WorkOK, ReadyFlushes, iostream_close_cb
<1>5. WaitOK'
  BY DEF WaitOK, iostream_close_cb
<1>6. CleanOK'
  BY DEF WorkerInv, CleanOK, Clean, iostream_close_cb, Step
<1>7. BeforeOK'
  BY DEF WorkerInv, BeforeOK, IOTypeOK, iostream_close_cb, Step
<1>8. FlushersOK'
  BY DEF FlushersOK, iostream_close_cb, Step
<1>9. FlushCovers'
  BY DEF WorkerInv, FlushCovers, IOTypeOK, iostream_close_cb, Step
<1>10. WaitingOK'
  BY DEF WorkerInv, WaitingOK, iostream_close_cb
<1> QED BY <1>1, <1>2, <1>3, <1>4, <1>5, <1>6, <1>7, <1>8, <1>9, <1>10 DEF WorkerInv

\* The closers, and the flushes that waited, learn of it.
LEMMA CloseCompletesStep ==
  ASSUME WorkerInv, CloseCompletes
  PROVE  WorkerInv'
<1>1. IOTypeOK'
  BY DEF WorkerInv, IOTypeOK, CloseCompletes, Step, Complete, queuevars, countvars
<1>2. PlacesOK'
  BY DEF WorkerInv, PlacesOK, CloseCompletes, queuevars
<1>3. ThreadOK'
  BY DEF ThreadOK, CloseCompletes, Step
<1>4. WorkOK'
  BY DEF WorkerInv, WorkOK, InputHasPending, ReadyFlushes, CloseCompletes, Step,
     queuevars, countvars
<1>5. WaitOK'
  BY DEF WorkerInv, WaitOK, Lost, Writing, PendingWrites, CloseCompletes, Step,
     queuevars, countvars
<1>6. CleanOK'
  BY DEF WorkerInv, CleanOK, Clean, CloseCompletes, Step
<1>7. BeforeOK'
  BY DEF WorkerInv, BeforeOK, CleanOK, Clean, CloseCompletes, Step
<1>8. FlushersOK'
  BY DEF FlushersOK, CloseCompletes
<1>9. FlushCovers'
  BY DEF WorkerInv, FlushCovers, CloseCompletes, Step, Complete
<1>10. WaitingOK'
  BY DEF WorkerInv, WaitingOK, IOTypeOK, CloseCompletes, Complete, queuevars
<1> QED BY <1>1, <1>2, <1>3, <1>4, <1>5, <1>6, <1>7, <1>8, <1>9, <1>10 DEF WorkerInv

\* A step that changes nothing.
LEMMA WorkerStutterStep ==
  ASSUME WorkerInv, UNCHANGED iovars
  PROVE  WorkerInv'
<1>1. IOTypeOK'
  BY DEF WorkerInv, IOTypeOK, iovars, streamvars, queuevars, countvars,
     listvars, uservars
<1>2. PlacesOK'
  BY DEF WorkerInv, PlacesOK, iovars, queuevars, listvars
<1>3. ThreadOK'
  BY DEF WorkerInv, ThreadOK, Lost, iovars
<1>4. WorkOK'
  BY DEF WorkerInv, WorkOK, InputHasPending, ReadyFlushes, iovars, streamvars,
     queuevars, countvars, uservars
<1>5. WaitOK'
  BY DEF WorkerInv, WaitOK, Lost, Writing, PendingWrites, iovars, queuevars,
     countvars, uservars
<1>6. CleanOK'
  BY DEF WorkerInv, CleanOK, Clean, iovars, queuevars, countvars, listvars,
     uservars
<1>7. BeforeOK'
  BY DEF WorkerInv, BeforeOK, Clean, Writing, iovars, streamvars, queuevars,
     countvars, listvars, uservars
<1>8. FlushersOK'
  BY DEF WorkerInv, FlushersOK, Clean, iovars, listvars, uservars
<1>9. FlushCovers'
  BY DEF WorkerInv, FlushCovers, iovars, uservars
<1>10. WaitingOK'
  BY DEF WorkerInv, WaitingOK, iovars, queuevars, listvars, uservars
<1> QED BY <1>1, <1>2, <1>3, <1>4, <1>5, <1>6, <1>7, <1>8, <1>9, <1>10 DEF WorkerInv

\* Nothing is sent at first.
LEMMA InitWorker == IOInit => WorkerInv
<1> SUFFICES ASSUME IOInit PROVE WorkerInv
  OBVIOUS
<1>1. IOTypeOK
  <2>1. socket \in BOOLEAN /\ stopped \in BOOLEAN /\ io_cancelled \in BOOLEAN
        /\ close_expected \in BOOLEAN /\ flush_failed \in BOOLEAN
    BY Zenon DEF IOInit
  <2>2. write_queue \in Seq(Messages) /\ faults \in 0 .. MaxFaults
    BY GDBusWorkerAssumption DEF IOInit
  <2> QED BY <2>1, <2>2 DEF IOInit, IOTypeOK, Outputs
<1>2. Len(write_queue) = 0
  BY DEF IOInit
<1>3. PlacesOK /\ ThreadOK
  BY GDBusWorkerAssumption DEF IOInit, PlacesOK, ThreadOK
<1>4. WorkOK /\ WaitOK
  BY DEF IOInit, WorkOK, WaitOK, ReadyFlushes
<1>5. CleanOK
  BY DEF IOInit, CleanOK
<1>6. BeforeOK /\ FlushersOK /\ FlushCovers /\ WaitingOK
  BY DEF IOInit, BeforeOK, FlushersOK, FlushCovers, WaitingOK
<1> QED BY <1>1, <1>3, <1>4, <1>5, <1>6 DEF WorkerInv

\* Every step preserves the invariant.
LEMMA NextWorker == WorkerInv /\ [IONext]_iovars => WorkerInv'
BY WorkerSendStep, FlushStep, CloseStep, StopStep, ScheduleCloseStep, InitialReadStep,
   ReadStep, SchedulePendingCloseStep, IdleStep, ContinueCloseStep, ContinueFlushStep,
   ContinueWriteStep, ContinueNothingStep, FilterStep, WrittenStep, WriteFailedStep,
   FlushedStep, FlushCompletesStep, ClosedStep, CloseCompletesStep, WorkerStutterStep
   DEF IONext, Callbacks, continue_writing

\* The invariant holds throughout every behaviour.
LEMMA WorkerInvariant == IOSpec => []WorkerInv
BY InitWorker, NextWorker, PTL DEF IOSpec

\* A message in the write queue, a flush or a close never waits for nothing:
\* whenever the worker thread is in its main loop, output is pending, an idle
\* source will call continue_writing, or a close waits for a read that is
\* pending.  So schedule_writing_unlocked and the callbacks, which look at
\* output_pending before they do anything, never leave work behind.
THEOREM Progress == IOSpec => []NoLostWork
<1>1. WorkerInv => NoLostWork
  BY DEF WorkerInv, NoLostWork, PlacesOK, ThreadOK, WorkOK, WaitOK, Writing,
     IOTypeOK
<1> QED BY <1>1, WorkerInvariant, PTL

\* When _g_dbus_worker_flush_sync returns TRUE and nothing failed, every message
\* sent before it was called was written and then flushed (or dropped by a
\* filter), although other threads go on sending.
THEOREM Flushes == IOSpec => []FlushCovers
<1>1. WorkerInv => FlushCovers
  BY DEF WorkerInv
<1> QED BY <1>1, WorkerInvariant, PTL

=============================================================================
