-------------------------- MODULE GCancellableProofs --------------------------
(***************************************************************************)
(* Safety of GCancellable for every set of threads, callbacks and sources. *)
(* The inductive invariant adds to the properties where a thread can be    *)
(* while it emits, sleeps or is in a call, and which callbacks its         *)
(* argument can be.  Two more invariants rest on it: CallsOK follows the   *)
(* callbacks through the emission, SourcesOK counts the references to the  *)
(* sources.                                                                *)
(***************************************************************************)
EXTENDS GCancellable, FiniteSetTheorems, TLAPS

SourceLabels == {"handler", "set_ready", "unref", "at_zero", "dispose",
                 "disposed", "source_new"}

\* Control: the labels of a thread that emits, that sleeps, and of the
\* argument of a call.
Control ==
  /\ \A t \in Threads :
       /\ pc[t] = "emit" => t \in emitting
       /\ t \in emitting =>
            pc[t] \in {"emit", "callback", "handler", "set_ready", "unref",
                       "at_zero", "dispose", "disposed"}
       /\ t \in sleeping => pc[t] \in {"disconnect", "reset"}
       /\ pc[t] \in {"callback", "disconnect"} => arg[t] \in Callbacks
       /\ pc[t] \in SourceLabels => arg[t] \in Sources

\* Callbacks: what is disconnected was connected and stays away, a callback
\* that is being disconnected is connected still, and one that is called
\* directly never was.
CallbackState ==
  /\ handlers \cap Callbacks \subseteq connected
  /\ gone \subseteq connected
  /\ gone \cap handlers = {}
  /\ \A t \in Threads :
       /\ pc[t] = "disconnect" => arg[t] \in handlers
       /\ pc[t] = "callback" /\ t \notin emitting =>
            arg[t] \in connected /\ arg[t] \notin handlers
  /\ \A t, u \in Threads :
       pc[t] = "disconnect" /\ pc[u] = "disconnect" /\ arg[t] = arg[u] => t = u

IInv ==
  /\ TypeOK
  /\ Control
  /\ OneCanceller
  /\ CallbackState
  /\ DisconnectIsFinal
  /\ SleepersKnown
  /\ FdTellsCancelled

-----------------------------------------------------------------------------
\* A source is a source still after the updates of xcancellable_source_new and
\* of cancellable_source_dispose.
LEMMA MadeSource ==
  ASSUME NEW r \in Source, NEW x \in {"absent", "live", "freed"},
         NEW b \in BOOLEAN, NEW c \in BOOLEAN, NEW n \in Int
  PROVE  [r EXCEPT !.state = x, !.owned = b, !.ref_count = n,
                   !.cancellable = c] \in Source
BY DEF Source

LEMMA DisposedSource ==
  ASSUME NEW r \in Source, NEW c \in BOOLEAN, NEW n \in Int
  PROVE  [r EXCEPT !.cancellable = FALSE, !.resurrected = c, !.ref_count = n]
           \in Source
BY DEF Source

\* The fields of a source.
LEMMA FieldTypes ==
  ASSUME NEW r \in Source
  PROVE  /\ r.ref_count \in Int
         /\ r.state \in {"absent", "live", "freed"}
         /\ r.cancellable \in BOOLEAN
         /\ r.resurrected \in BOOLEAN
BY DEF Source

\* A table of sources with one entry replaced.
LEMMA SourceEntry ==
  ASSUME source \in [Sources -> Source], NEW s \in Sources, NEW r \in Source
  PROVE  [source EXCEPT ![s] = r] \in [Sources -> Source]
OBVIOUS

\* The initial state satisfies the invariant.
LEMMA InitIInv == Init => IInv
<1> SUFFICES ASSUME Init PROVE IInv
  OBVIOUS
<1>1. source \in [Sources -> Source]
  BY DEF Init, Source
<1>2. TypeOK
  <2>1. pc \in [Threads -> PC] /\ arg \in [Threads -> Handlers \cup {None}]
    BY DEF Init, PC
  <2>2. emission \in [Threads -> SUBSET Handlers]
    BY DEF Init
  <2>3. /\ calls \in [Callbacks -> Nat]
        /\ cancels \in 0 .. MaxCancels
        /\ fd_refcount \in 0 .. MaxFds
    BY GCancellableAssumption DEF Init
  <2> QED
    BY <1>1, <2>1, <2>2, <2>3 DEF Init, TypeOK
<1>3. Control /\ CallbackState /\ DisconnectIsFinal
  BY DEF Init, Control, SourceLabels, CallbackState, DisconnectIsFinal
<1>4. OneCanceller
  BY DEF Init, OneCanceller
<1>5. SleepersKnown /\ FdTellsCancelled
  BY DEF Init, SleepersKnown, FdTellsCancelled
<1> QED
  BY <1>2, <1>3, <1>4, <1>5 DEF IInv

\* Every step preserves it.
LEMMA NextIInv == IInv /\ [Next]_vars => IInv'
<1> SUFFICES ASSUME IInv, [Next]_vars PROVE IInv'
  OBVIOUS
<1> USE GCancellableAssumption DEF IInv, Handlers

<1>1. ASSUME NEW t \in Threads, BecomeCanceller(t) PROVE IInv'
  <2>1. TypeOK'
    BY <1>1 DEF BecomeCanceller, Goto, TypeOK, PC
  <2>2. Control'
    BY <1>1 DEF BecomeCanceller, Goto, Control, SourceLabels
  <2>3. OneCanceller'
    BY <1>1
       DEF BecomeCanceller, Goto, fields, fd, history, OneCanceller, Control, TypeOK
  <2>4. CallbackState'
    BY <1>1 DEF BecomeCanceller, Goto, CallbackState
  <2>5. DisconnectIsFinal'
    BY <1>1 DEF BecomeCanceller, Goto, DisconnectIsFinal
  <2>6. SleepersKnown'
    BY <1>1 DEF BecomeCanceller, SleepersKnown
  <2>7. FdTellsCancelled'
    BY <1>1 DEF BecomeCanceller, FdTellsCancelled
  <2> QED
    BY <2>1, <2>2, <2>3, <2>4, <2>5, <2>6, <2>7
<1>2. ASSUME NEW t \in Threads, AlreadyCancelled(t) PROVE IInv'
  <2>1. TypeOK'
    BY <1>2 DEF AlreadyCancelled, Goto, fields, fd, history, TypeOK, PC
  <2>2. Control'
    BY <1>2 DEF AlreadyCancelled, Goto, Control, SourceLabels
  <2>3. OneCanceller'
    BY <1>2 DEF AlreadyCancelled, Goto, fields, OneCanceller
  <2>4. CallbackState'
    BY <1>2 DEF AlreadyCancelled, Goto, history, CallbackState
  <2>5. DisconnectIsFinal'
    BY <1>2 DEF AlreadyCancelled, Goto, history, DisconnectIsFinal
  <2>6. SleepersKnown'
    BY <1>2 DEF AlreadyCancelled, fields, SleepersKnown
  <2>7. FdTellsCancelled'
    BY <1>2 DEF AlreadyCancelled, fields, fd, FdTellsCancelled
  <2> QED
    BY <2>1, <2>2, <2>3, <2>4, <2>5, <2>6, <2>7
<1>3. ASSUME NEW t \in Threads, EmitBegin(t) PROVE IInv'
  <2>1. TypeOK'
    BY <1>3 DEF EmitBegin, Goto, fields, fd, history, TypeOK, PC
  <2>2. Control'
    BY <1>3 DEF EmitBegin, Goto, Control, SourceLabels, TypeOK
  <2>3. OneCanceller'
    BY <1>3 DEF EmitBegin, Goto, fields, OneCanceller
  <2>4. CallbackState'
    BY <1>3 DEF EmitBegin, Goto, history, CallbackState
  <2>5. DisconnectIsFinal'
    BY <1>3 DEF EmitBegin, Goto, history, DisconnectIsFinal
  <2>6. SleepersKnown'
    BY <1>3 DEF EmitBegin, fields, SleepersKnown
  <2>7. FdTellsCancelled'
    BY <1>3 DEF EmitBegin, fields, fd, FdTellsCancelled
  <2> QED
    BY <2>1, <2>2, <2>3, <2>4, <2>5, <2>6, <2>7
<1>4. ASSUME NEW t \in Threads, EmitNext(t) PROVE IInv'
  <2>1. TypeOK'
    BY <1>4 DEF EmitNext, Goto, fields, fd, history, TypeOK, PC
  <2>2. Control'
    BY <1>4 DEF EmitNext, Goto, Control, SourceLabels, TypeOK
  <2>3. OneCanceller'
    BY <1>4 DEF EmitNext, Goto, fields, fd, history, OneCanceller, Control, TypeOK
  <2>4. CallbackState'
    BY <1>4
       DEF EmitNext, Goto, fields, fd, history, CallbackState, Control, OneCanceller,
           TypeOK
  <2>5. DisconnectIsFinal'
    BY <1>4
       DEF EmitNext, Goto, fields, fd, history, DisconnectIsFinal, CallbackState,
           Control, OneCanceller, TypeOK
  <2>6. SleepersKnown'
    BY <1>4 DEF EmitNext, fields, SleepersKnown
  <2>7. FdTellsCancelled'
    BY <1>4 DEF EmitNext, fields, fd, FdTellsCancelled
  <2> QED
    BY <2>1, <2>2, <2>3, <2>4, <2>5, <2>6, <2>7
<1>5. ASSUME NEW t \in Threads, CallbackReturns(t) PROVE IInv'
  <2>1. TypeOK'
    BY <1>5 DEF CallbackReturns, Return, Goto, fields, fd, TypeOK, PC, Control
  <2>2. Control'
    BY <1>5 DEF CallbackReturns, Return, Goto, Control, SourceLabels, TypeOK
  <2>3. OneCanceller'
    BY <1>5 DEF CallbackReturns, Return, Goto, fields, OneCanceller
  <2>4. CallbackState'
    BY <1>5
       DEF CallbackReturns, Return, Goto, fields, fd, history, CallbackState,
           Control, OneCanceller, TypeOK
  <2>5. DisconnectIsFinal'
    BY <1>5
       DEF CallbackReturns, Return, Goto, fields, fd, history, DisconnectIsFinal,
           CallbackState, Control, OneCanceller, TypeOK
  <2>6. SleepersKnown'
    BY <1>5 DEF CallbackReturns, fields, SleepersKnown
  <2>7. FdTellsCancelled'
    BY <1>5 DEF CallbackReturns, fields, fd, FdTellsCancelled
  <2> QED
    BY <2>1, <2>2, <2>3, <2>4, <2>5, <2>6, <2>7
<1>6. ASSUME NEW t \in Threads, CancelEnd(t) PROVE IInv'
  <2>1. TypeOK'
    BY <1>6 DEF CancelEnd, Goto, fd, history, TypeOK, PC
  <2>2. Control'
    BY <1>6 DEF CancelEnd, Goto, Control, SourceLabels, TypeOK
  <2>3. OneCanceller'
    BY <1>6 DEF CancelEnd, Goto, OneCanceller, Control
  <2>4. CallbackState'
    BY <1>6 DEF CancelEnd, Goto, history, CallbackState
  <2>5. DisconnectIsFinal'
    BY <1>6 DEF CancelEnd, Goto, history, DisconnectIsFinal
  <2>6. SleepersKnown'
    BY <1>6 DEF CancelEnd, SleepersKnown
  <2>7. FdTellsCancelled'
    BY <1>6 DEF CancelEnd, fd, FdTellsCancelled
  <2> QED
    BY <2>1, <2>2, <2>3, <2>4, <2>5, <2>6, <2>7
<1>7. ASSUME NEW t \in Threads, WaitForEmission(t) PROVE IInv'
  <2>1. TypeOK'
    BY <1>7 DEF WaitForEmission, fd, history, TypeOK
  <2>2. Control'
    BY <1>7 DEF WaitForEmission, Control
  <2>3. OneCanceller'
    BY <1>7 DEF WaitForEmission, OneCanceller
  <2>4. CallbackState'
    BY <1>7 DEF WaitForEmission, history, CallbackState
  <2>5. DisconnectIsFinal'
    BY <1>7 DEF WaitForEmission, history, DisconnectIsFinal
  <2>6. SleepersKnown'
    BY <1>7 DEF WaitForEmission, SleepersKnown
  <2>7. FdTellsCancelled'
    BY <1>7 DEF WaitForEmission, fd, FdTellsCancelled
  <2> QED
    BY <2>1, <2>2, <2>3, <2>4, <2>5, <2>6, <2>7
<1>8. ASSUME NEW t \in Threads, DisconnectEnd(t) PROVE IInv'
  <2>1. TypeOK'
    BY <1>8 DEF DisconnectEnd, Goto, fields, fd, TypeOK, PC, Control
  <2>2. Control'
    BY <1>8 DEF DisconnectEnd, Goto, Control, SourceLabels, TypeOK
  <2>3. OneCanceller'
    BY <1>8 DEF DisconnectEnd, Goto, fields, OneCanceller
  <2>4. CallbackState'
    BY <1>8
       DEF DisconnectEnd, Goto, fields, fd, history, CallbackState, Control,
           OneCanceller, TypeOK
  <2>5. DisconnectIsFinal'
    BY <1>8 DEF DisconnectEnd, Goto, DisconnectIsFinal, CallbackState, OneCanceller
  <2>6. SleepersKnown'
    BY <1>8 DEF DisconnectEnd, SleepersKnown
  <2>7. FdTellsCancelled'
    BY <1>8 DEF DisconnectEnd, fields, fd, FdTellsCancelled
  <2> QED
    BY <2>1, <2>2, <2>3, <2>4, <2>5, <2>6, <2>7
<1>9. ASSUME NEW t \in Threads, ResetEnd(t) PROVE IInv'
  <2>1. TypeOK'
    <3>1. source' \in [Sources -> Source]
      <4>1. ASSUME NEW s \in Sources
            PROVE  [source[s] EXCEPT !.told = FALSE] \in Source
        <5>1. source[s] \in Source
          BY DEF TypeOK
        <5> QED
          BY <5>1 DEF Source
      <4> QED
        BY <1>9, <4>1 DEF ResetEnd
    <3> QED
      BY <1>9, <3>1 DEF ResetEnd, Goto, TypeOK, PC
  <2>2. Control'
    BY <1>9 DEF ResetEnd, Goto, Control, SourceLabels
  <2>3. OneCanceller'
    BY <1>9 DEF ResetEnd, Goto, OneCanceller
  <2>4. CallbackState'
    BY <1>9 DEF ResetEnd, Goto, CallbackState
  <2>5. DisconnectIsFinal'
    BY <1>9 DEF ResetEnd, Goto, DisconnectIsFinal
  <2>6. SleepersKnown'
    BY <1>9 DEF ResetEnd, SleepersKnown
  <2>7. FdTellsCancelled'
    BY <1>9 DEF ResetEnd, FdTellsCancelled
  <2> QED
    BY <2>1, <2>2, <2>3, <2>4, <2>5, <2>6, <2>7
<1>10. ASSUME NEW t \in Threads, TestAfterConnect(t) PROVE IInv'
  <2>1. TypeOK'
    <3>1. source' \in [Sources -> Source]
      <4>1. arg[t] \in Sources
        BY <1>10 DEF TestAfterConnect, Control, SourceLabels
      <4> DEFINE r == [source[arg[t]] EXCEPT !.ready = TRUE]
      <4>2. source[arg[t]] \in Source
        BY <4>1 DEF TypeOK
      <4>3. r \in Source
        BY <4>2 DEF Source
      <4>4. source' = source \/ source' = [source EXCEPT ![arg[t]] = r]
        BY <4>1, <1>10 DEF TestAfterConnect
      <4> HIDE DEF r
      <4> QED
        BY <4>1, <4>3, <4>4, SourceEntry DEF TypeOK
    <3> QED
      BY <1>10, <3>1 DEF TestAfterConnect, Goto, fields, fd, history, TypeOK, PC
  <2>2. Control'
    BY <1>10 DEF TestAfterConnect, Goto, Control, SourceLabels, TypeOK
  <2>3. OneCanceller'
    BY <1>10 DEF TestAfterConnect, Goto, fields, OneCanceller
  <2>4. CallbackState'
    BY <1>10 DEF TestAfterConnect, Goto, history, CallbackState
  <2>5. DisconnectIsFinal'
    BY <1>10 DEF TestAfterConnect, Goto, history, DisconnectIsFinal
  <2>6. SleepersKnown'
    BY <1>10 DEF TestAfterConnect, fields, SleepersKnown
  <2>7. FdTellsCancelled'
    BY <1>10 DEF TestAfterConnect, fields, fd, FdTellsCancelled
  <2> QED
    BY <2>1, <2>2, <2>3, <2>4, <2>5, <2>6, <2>7
<1>11. ASSUME NEW t \in Threads, cancellable_source_cancelled(t) PROVE IInv'
  <2>1. TypeOK'
    <3>1. source' \in [Sources -> Source]
      <4>1. arg[t] \in Sources
        BY <1>11 DEF cancellable_source_cancelled, Control, SourceLabels
      <4> DEFINE r == source[arg[t]]
                 r1 == [r EXCEPT !.resurrected = FALSE]
                 r2 == [r EXCEPT !.ref_count = r.ref_count + 1]
      <4>2. r1 \in Source /\ r2 \in Source
        <5>1. r \in Source
          BY <4>1 DEF TypeOK
        <5>2. r1 \in Source
          BY <5>1 DEF Source
        <5>3. r2 \in Source
          BY <5>1 DEF Source
        <5> QED
          BY <5>2, <5>3
      <4>3. \/ source' = [source EXCEPT ![arg[t]] = r1]
            \/ source' = [source EXCEPT ![arg[t]] = r2]
        BY <4>1, <1>11 DEF cancellable_source_cancelled
      <4> HIDE DEF r1, r2
      <4> QED
        BY <4>1, <4>2, <4>3, SourceEntry DEF TypeOK
    <3> QED
      BY <1>11, <3>1
         DEF cancellable_source_cancelled, Goto, fields, fd, history, TypeOK, PC
  <2>2. Control'
    BY <1>11 DEF cancellable_source_cancelled, Goto, Control, SourceLabels, TypeOK
  <2>3. OneCanceller'
    BY <1>11
       DEF cancellable_source_cancelled, Goto, fields, fd, history, OneCanceller,
           Control, TypeOK
  <2>4. CallbackState'
    BY <1>11
       DEF cancellable_source_cancelled, Goto, fields, fd, history, CallbackState,
           Control, OneCanceller, TypeOK
  <2>5. DisconnectIsFinal'
    BY <1>11
       DEF cancellable_source_cancelled, Goto, fields, fd, history,
           DisconnectIsFinal, CallbackState, Control, OneCanceller, TypeOK
  <2>6. SleepersKnown'
    BY <1>11 DEF cancellable_source_cancelled, fields, SleepersKnown
  <2>7. FdTellsCancelled'
    BY <1>11 DEF cancellable_source_cancelled, fields, fd, FdTellsCancelled
  <2> QED
    BY <2>1, <2>2, <2>3, <2>4, <2>5, <2>6, <2>7
<1>12. ASSUME NEW t \in Threads, SetReady(t) PROVE IInv'
  <2>1. TypeOK'
    <3>1. source' \in [Sources -> Source]
      <4>1. arg[t] \in Sources
        BY <1>12 DEF SetReady, Control, SourceLabels
      <4>2. source[arg[t]] \in Source
        BY <4>1, <1>12 DEF TypeOK
      <4>3. source' = [source EXCEPT ![arg[t]] = [source[arg[t]] EXCEPT !.ready = TRUE]]
        BY <4>1, <4>2, <1>12 DEF SetReady
      <4>4. [source[arg[t]] EXCEPT !.ready = TRUE] \in Source
        BY <4>2 DEF TypeOK, Source
      <4> QED
        BY <4>1, <4>3, <4>4, SourceEntry DEF TypeOK
    <3> QED
      BY <1>12, <3>1 DEF SetReady, Goto, fields, fd, history, TypeOK, PC
  <2>2. Control'
    BY <1>12 DEF SetReady, Goto, Control, SourceLabels
  <2>3. OneCanceller'
    BY <1>12 DEF SetReady, Goto, fields, OneCanceller
  <2>4. CallbackState'
    BY <1>12 DEF SetReady, Goto, history, CallbackState
  <2>5. DisconnectIsFinal'
    BY <1>12 DEF SetReady, Goto, history, DisconnectIsFinal
  <2>6. SleepersKnown'
    BY <1>12 DEF SetReady, fields, SleepersKnown
  <2>7. FdTellsCancelled'
    BY <1>12 DEF SetReady, fields, fd, FdTellsCancelled
  <2> QED
    BY <2>1, <2>2, <2>3, <2>4, <2>5, <2>6, <2>7
<1>13. ASSUME NEW t \in Threads, xsource_unref(t) PROVE IInv'
  <2>1. TypeOK'
    BY <1>13, SMTT(20)
       DEF xsource_unref, Goto, Return, fields, fd, history, TypeOK, PC, Source,
           Control, SourceLabels
  <2>2. Control'
    BY <1>13 DEF xsource_unref, Goto, Return, Control, SourceLabels, TypeOK
  <2>3. OneCanceller'
    BY <1>13
       DEF xsource_unref, Goto, Return, fields, fd, history, OneCanceller, Control,
           TypeOK
  <2>4. CallbackState'
    BY <1>13
       DEF xsource_unref, Goto, Return, fields, fd, history, CallbackState, Control,
           OneCanceller, TypeOK
  <2>5. DisconnectIsFinal'
    BY <1>13
       DEF xsource_unref, Goto, Return, fields, fd, history, DisconnectIsFinal,
           CallbackState, Control, OneCanceller, TypeOK
  <2>6. SleepersKnown'
    BY <1>13 DEF xsource_unref, fields, SleepersKnown
  <2>7. FdTellsCancelled'
    BY <1>13 DEF xsource_unref, fields, fd, FdTellsCancelled
  <2> QED
    BY <2>1, <2>2, <2>3, <2>4, <2>5, <2>6, <2>7
<1>14. ASSUME NEW t \in Threads, HoldForDispose(t) PROVE IInv'
  <2>1. TypeOK'
    BY <1>14
       DEF HoldForDispose, Goto, fields, fd, history, TypeOK, PC, Source, Control,
           SourceLabels
  <2>2. Control'
    BY <1>14 DEF HoldForDispose, Goto, Control, SourceLabels
  <2>3. OneCanceller'
    BY <1>14 DEF HoldForDispose, Goto, fields, OneCanceller
  <2>4. CallbackState'
    BY <1>14 DEF HoldForDispose, Goto, history, CallbackState
  <2>5. DisconnectIsFinal'
    BY <1>14 DEF HoldForDispose, Goto, history, DisconnectIsFinal
  <2>6. SleepersKnown'
    BY <1>14 DEF HoldForDispose, fields, SleepersKnown
  <2>7. FdTellsCancelled'
    BY <1>14 DEF HoldForDispose, fields, fd, FdTellsCancelled
  <2> QED
    BY <2>1, <2>2, <2>3, <2>4, <2>5, <2>6, <2>7
<1>15. ASSUME NEW t \in Threads, cancellable_source_dispose(t) PROVE IInv'
  <2>1. TypeOK'
    <3>1. source' \in [Sources -> Source]
      <4>1. arg[t] \in Sources
        BY <1>15 DEF cancellable_source_dispose, Control, SourceLabels
      <4> DEFINE r == source[arg[t]]
                 d == r.cancellable /\ cancelled_running
                 c == r.resurrected \/ d
                 n == IF d THEN r.ref_count + 1 ELSE r.ref_count
                 rr == [r EXCEPT !.cancellable = FALSE, !.resurrected = c,
                                 !.ref_count = n]
      <4>2. source' = [source EXCEPT ![arg[t]] = rr]
        BY <4>1, <1>15 DEF cancellable_source_dispose
      <4>3. r \in Source
        BY <4>1 DEF TypeOK
      <4>4. c \in BOOLEAN
        OBVIOUS
      <4>5. n \in Int
        BY <4>3, FieldTypes
      <4> HIDE DEF c, n
      <4>6. rr \in Source
        BY <4>3, <4>4, <4>5, DisposedSource
      <4> HIDE DEF rr
      <4> QED
        BY <4>1, <4>2, <4>6, SourceEntry DEF TypeOK
    <3> QED
      BY <1>15, <3>1
         DEF cancellable_source_dispose, Goto, fields, fd, history, TypeOK, PC
  <2>2. Control'
    BY <1>15 DEF cancellable_source_dispose, Goto, Control, SourceLabels
  <2>3. OneCanceller'
    BY <1>15 DEF cancellable_source_dispose, Goto, fields, OneCanceller
  <2>4. CallbackState'
    <3>1. handlers' = handlers \ {arg[t]} \/ handlers' = handlers
      BY <1>15 DEF cancellable_source_dispose
    <3>2. arg[t] \in Sources
      BY <1>15 DEF cancellable_source_dispose, Control, SourceLabels
    <3>3. /\ pc' = [pc EXCEPT ![t] = "disposed"]
          /\ arg' = [arg EXCEPT ![t] = arg[t]]
          /\ UNCHANGED <<emitting, connected, gone>>
      BY <1>15 DEF cancellable_source_dispose, Goto, fields, history
    <3> QED
      BY <3>1, <3>2, <3>3 DEF CallbackState, Control, TypeOK
  <2>5. DisconnectIsFinal'
    BY <1>15 DEF cancellable_source_dispose, Goto, history, DisconnectIsFinal
  <2>6. SleepersKnown'
    BY <1>15 DEF cancellable_source_dispose, fields, SleepersKnown
  <2>7. FdTellsCancelled'
    BY <1>15 DEF cancellable_source_dispose, fields, fd, FdTellsCancelled
  <2> QED
    BY <2>1, <2>2, <2>3, <2>4, <2>5, <2>6, <2>7
<1>16. ASSUME NEW t \in Threads, FreeSource(t) PROVE IInv'
  <2>1. TypeOK'
    BY <1>16
       DEF FreeSource, Return, Goto, fields, fd, history, TypeOK, PC, Source,
           Control, SourceLabels
  <2>2. Control'
    BY <1>16 DEF FreeSource, Return, Goto, Control, SourceLabels, TypeOK
  <2>3. OneCanceller'
    BY <1>16 DEF FreeSource, Return, Goto, fields, OneCanceller
  <2>4. CallbackState'
    BY <1>16 DEF FreeSource, Return, Goto, history, CallbackState
  <2>5. DisconnectIsFinal'
    BY <1>16 DEF FreeSource, Return, Goto, history, DisconnectIsFinal
  <2>6. SleepersKnown'
    BY <1>16 DEF FreeSource, fields, SleepersKnown
  <2>7. FdTellsCancelled'
    BY <1>16 DEF FreeSource, fields, fd, FdTellsCancelled
  <2> QED
    BY <2>1, <2>2, <2>3, <2>4, <2>5, <2>6, <2>7
<1>17. ASSUME NEW t \in Threads, xcancellable_cancel(t) PROVE IInv'
  <2>1. TypeOK'
    BY <1>17 DEF xcancellable_cancel, Goto, fields, fd, history, TypeOK, PC
  <2>2. Control'
    BY <1>17 DEF xcancellable_cancel, Goto, Control, SourceLabels
  <2>3. OneCanceller'
    BY <1>17 DEF xcancellable_cancel, Goto, fields, OneCanceller
  <2>4. CallbackState'
    BY <1>17 DEF xcancellable_cancel, Goto, history, CallbackState
  <2>5. DisconnectIsFinal'
    BY <1>17 DEF xcancellable_cancel, Goto, history, DisconnectIsFinal
  <2>6. SleepersKnown'
    BY <1>17 DEF xcancellable_cancel, fields, SleepersKnown
  <2>7. FdTellsCancelled'
    BY <1>17 DEF xcancellable_cancel, fields, fd, FdTellsCancelled
  <2> QED
    BY <2>1, <2>2, <2>3, <2>4, <2>5, <2>6, <2>7
<1>18. ASSUME NEW t \in Threads, xcancellable_reset(t) PROVE IInv'
  <2>1. TypeOK'
    BY <1>18 DEF xcancellable_reset, Goto, fields, fd, history, TypeOK, PC
  <2>2. Control'
    BY <1>18 DEF xcancellable_reset, Goto, Control, SourceLabels
  <2>3. OneCanceller'
    BY <1>18 DEF xcancellable_reset, Goto, fields, OneCanceller
  <2>4. CallbackState'
    BY <1>18 DEF xcancellable_reset, Goto, history, CallbackState
  <2>5. DisconnectIsFinal'
    BY <1>18 DEF xcancellable_reset, Goto, history, DisconnectIsFinal
  <2>6. SleepersKnown'
    BY <1>18 DEF xcancellable_reset, fields, SleepersKnown
  <2>7. FdTellsCancelled'
    BY <1>18 DEF xcancellable_reset, fields, fd, FdTellsCancelled
  <2> QED
    BY <2>1, <2>2, <2>3, <2>4, <2>5, <2>6, <2>7
<1>19. ASSUME NEW t \in Threads, xcancellable_make_pollfd(t) PROVE IInv'
  <2>1. TypeOK'
    BY <1>19 DEF xcancellable_make_pollfd, fields, history, TypeOK
  <2>2. Control'
    BY <1>19 DEF xcancellable_make_pollfd, Control
  <2>3. OneCanceller'
    BY <1>19 DEF xcancellable_make_pollfd, fields, OneCanceller
  <2>4. CallbackState'
    BY <1>19 DEF xcancellable_make_pollfd, history, CallbackState
  <2>5. DisconnectIsFinal'
    BY <1>19 DEF xcancellable_make_pollfd, history, DisconnectIsFinal
  <2>6. SleepersKnown'
    BY <1>19 DEF xcancellable_make_pollfd, fields, SleepersKnown
  <2>7. FdTellsCancelled'
    BY <1>19 DEF xcancellable_make_pollfd, fields, FdTellsCancelled, TypeOK
  <2> QED
    BY <2>1, <2>2, <2>3, <2>4, <2>5, <2>6, <2>7
<1>20. ASSUME NEW t \in Threads, xcancellable_release_fd(t) PROVE IInv'
  <2>1. TypeOK'
    BY <1>20 DEF xcancellable_release_fd, fields, history, TypeOK
  <2>2. Control'
    BY <1>20 DEF xcancellable_release_fd, Control
  <2>3. OneCanceller'
    BY <1>20 DEF xcancellable_release_fd, fields, OneCanceller
  <2>4. CallbackState'
    BY <1>20 DEF xcancellable_release_fd, history, CallbackState
  <2>5. DisconnectIsFinal'
    BY <1>20 DEF xcancellable_release_fd, history, DisconnectIsFinal
  <2>6. SleepersKnown'
    BY <1>20 DEF xcancellable_release_fd, fields, SleepersKnown
  <2>7. FdTellsCancelled'
    BY <1>20 DEF xcancellable_release_fd, fields, FdTellsCancelled, TypeOK
  <2> QED
    BY <2>1, <2>2, <2>3, <2>4, <2>5, <2>6, <2>7
<1>21. ASSUME NEW t \in Threads, NEW h \in Callbacks, xcancellable_connect(t, h)
       PROVE  IInv'
  <2>1. TypeOK'
    BY <1>21 DEF xcancellable_connect, Goto, fields, fd, TypeOK, PC
  <2>2. Control'
    BY <1>21 DEF xcancellable_connect, Goto, Control, SourceLabels, TypeOK
  <2>3. OneCanceller'
    BY <1>21
       DEF xcancellable_connect, Goto, fields, fd, history, OneCanceller, Control,
           TypeOK
  <2>4. CallbackState'
    BY <1>21
       DEF xcancellable_connect, Goto, fields, fd, history, CallbackState, Control,
           OneCanceller, TypeOK
  <2>5. DisconnectIsFinal'
    BY <1>21
       DEF xcancellable_connect, Goto, fields, fd, history, DisconnectIsFinal,
           CallbackState, Control, OneCanceller, TypeOK
  <2>6. SleepersKnown'
    BY <1>21 DEF xcancellable_connect, fields, SleepersKnown
  <2>7. FdTellsCancelled'
    BY <1>21 DEF xcancellable_connect, fields, fd, FdTellsCancelled
  <2> QED
    BY <2>1, <2>2, <2>3, <2>4, <2>5, <2>6, <2>7
<1>22. ASSUME NEW t \in Threads, NEW h \in Callbacks, xcancellable_disconnect(t, h)
       PROVE  IInv'
  <2>1. TypeOK'
    BY <1>22 DEF xcancellable_disconnect, Goto, fields, fd, history, TypeOK, PC
  <2>2. Control'
    BY <1>22 DEF xcancellable_disconnect, Goto, Control, SourceLabels, TypeOK
  <2>3. OneCanceller'
    BY <1>22 DEF xcancellable_disconnect, Goto, fields, OneCanceller
  <2>4. CallbackState'
    BY <1>22
       DEF xcancellable_disconnect, Goto, fields, fd, history, CallbackState,
           Control, OneCanceller, TypeOK
  <2>5. DisconnectIsFinal'
    BY <1>22 DEF xcancellable_disconnect, Goto, history, DisconnectIsFinal
  <2>6. SleepersKnown'
    BY <1>22 DEF xcancellable_disconnect, fields, SleepersKnown
  <2>7. FdTellsCancelled'
    BY <1>22 DEF xcancellable_disconnect, fields, fd, FdTellsCancelled
  <2> QED
    BY <2>1, <2>2, <2>3, <2>4, <2>5, <2>6, <2>7
<1>23. ASSUME NEW t \in Threads, NEW s \in Sources, xcancellable_source_new(t, s)
       PROVE  IInv'
  <2>1. TypeOK'
    <3>1. source' \in [Sources -> Source]
      <4>2. source[s] \in Source
        BY <1>23 DEF TypeOK
      <4>3. source' = [source EXCEPT ![s] = [source[s] EXCEPT !.state =
                "live", !.owned = TRUE,
                           !.ref_count = 1, !.cancellable = TRUE]]
        BY <4>2, <1>23 DEF xcancellable_source_new
      <4>4. [source[s] EXCEPT !.state = "live", !.owned = TRUE,
                           !.ref_count = 1, !.cancellable = TRUE] \in Source
        <5>1. /\ "live" \in {"absent", "live", "freed"}
              /\ TRUE \in BOOLEAN /\ 1 \in Int
          OBVIOUS
        <5> QED
          BY <4>2, <5>1, MadeSource, Zenon
      <4> QED
        BY <4>3, <4>4, SourceEntry DEF TypeOK
    <3> QED
      BY <1>23, <3>1
         DEF xcancellable_source_new, Goto, fields, fd, history, TypeOK, PC
  <2>2. Control'
    BY <1>23 DEF xcancellable_source_new, Goto, Control, TypeOK
  <2>3. OneCanceller'
    BY <1>23 DEF xcancellable_source_new, Goto, fields, OneCanceller
  <2>4. CallbackState'
    BY <1>23
       DEF xcancellable_source_new, Goto, fields, fd, history, CallbackState,
           Control, OneCanceller, TypeOK
  <2>5. DisconnectIsFinal'
    BY <1>23 DEF xcancellable_source_new, Goto, history, DisconnectIsFinal
  <2>6. SleepersKnown'
    BY <1>23 DEF xcancellable_source_new, fields, SleepersKnown
  <2>7. FdTellsCancelled'
    BY <1>23 DEF xcancellable_source_new, fields, fd, FdTellsCancelled
  <2> QED
    BY <2>1, <2>2, <2>3, <2>4, <2>5, <2>6, <2>7
<1>24. ASSUME NEW t \in Threads, NEW s \in Sources, cancellable_source_dispatch(t, s)
       PROVE  IInv'
  <2>1. TypeOK'
    <3>1. source' \in [Sources -> Source]
      <4>2. source[s] \in Source
        BY <1>24 DEF TypeOK
      <4>3. source' = [source EXCEPT ![s] = [source[s] EXCEPT !.ready =
                FALSE, !.told = cancelled]]
        BY <4>2, <1>24 DEF cancellable_source_dispatch
      <4>4. [source[s] EXCEPT !.ready = FALSE, !.told = cancelled] \in Source
        BY <4>2 DEF TypeOK, Source
      <4> QED
        BY <4>3, <4>4, SourceEntry DEF TypeOK
    <3> QED
      BY <1>24, <3>1 DEF cancellable_source_dispatch, fields, fd, history, TypeOK
  <2>2. Control'
    BY <1>24 DEF cancellable_source_dispatch, Control
  <2>3. OneCanceller'
    BY <1>24 DEF cancellable_source_dispatch, fields, OneCanceller
  <2>4. CallbackState'
    BY <1>24 DEF cancellable_source_dispatch, history, CallbackState
  <2>5. DisconnectIsFinal'
    BY <1>24 DEF cancellable_source_dispatch, history, DisconnectIsFinal
  <2>6. SleepersKnown'
    BY <1>24 DEF cancellable_source_dispatch, fields, SleepersKnown
  <2>7. FdTellsCancelled'
    BY <1>24 DEF cancellable_source_dispatch, fields, fd, FdTellsCancelled
  <2> QED
    BY <2>1, <2>2, <2>3, <2>4, <2>5, <2>6, <2>7
<1>25. ASSUME NEW t \in Threads, NEW s \in Sources, DropSource(t, s) PROVE IInv'
  <2>1. TypeOK'
    <3>1. source' \in [Sources -> Source]
      <4>2. source[s] \in Source
        BY <1>25 DEF TypeOK
      <4>3. source' = [source EXCEPT ![s] = [source[s] EXCEPT !.owned = FALSE]]
        BY <4>2, <1>25 DEF DropSource
      <4>4. [source[s] EXCEPT !.owned = FALSE] \in Source
        BY <4>2 DEF TypeOK, Source
      <4> QED
        BY <4>3, <4>4, SourceEntry DEF TypeOK
    <3> QED
      BY <1>25, <3>1 DEF DropSource, Goto, fields, fd, history, TypeOK, PC
  <2>2. Control'
    BY <1>25 DEF DropSource, Goto, Control, TypeOK
  <2>3. OneCanceller'
    BY <1>25 DEF DropSource, Goto, fields, OneCanceller
  <2>4. CallbackState'
    BY <1>25 DEF DropSource, Goto, history, CallbackState
  <2>5. DisconnectIsFinal'
    BY <1>25 DEF DropSource, Goto, history, DisconnectIsFinal
  <2>6. SleepersKnown'
    BY <1>25 DEF DropSource, fields, SleepersKnown
  <2>7. FdTellsCancelled'
    BY <1>25 DEF DropSource, fields, fd, FdTellsCancelled
  <2> QED
    BY <2>1, <2>2, <2>3, <2>4, <2>5, <2>6, <2>7
<1>26. ASSUME NEW t \in Threads, SpuriousWakeup(t) PROVE IInv'
  <2>1. TypeOK'
    BY <1>26 DEF SpuriousWakeup, fields, fd, history, TypeOK
  <2>2. Control'
    BY <1>26 DEF SpuriousWakeup, Control
  <2>3. OneCanceller'
    BY <1>26 DEF SpuriousWakeup, fields, OneCanceller
  <2>4. CallbackState'
    BY <1>26 DEF SpuriousWakeup, history, CallbackState
  <2>5. DisconnectIsFinal'
    BY <1>26 DEF SpuriousWakeup, history, DisconnectIsFinal
  <2>6. SleepersKnown'
    BY <1>26 DEF SpuriousWakeup, fields, SleepersKnown
  <2>7. FdTellsCancelled'
    BY <1>26 DEF SpuriousWakeup, fields, fd, FdTellsCancelled
  <2> QED
    BY <2>1, <2>2, <2>3, <2>4, <2>5, <2>6, <2>7
<1>27. ASSUME UNCHANGED vars PROVE IInv'
  BY <1>27 DEF vars, fields, fd, history, TypeOK, Control, OneCanceller,
     CallbackState, DisconnectIsFinal, SleepersKnown, FdTellsCancelled
<1> QED
  BY <1>1, <1>2, <1>3, <1>4, <1>5, <1>6, <1>7, <1>8, <1>9, <1>10, <1>11, <1>12,
     <1>13, <1>14, <1>15, <1>16, <1>17, <1>18, <1>19, <1>20, <1>21, <1>22, <1>23,
     <1>24, <1>25, <1>26, <1>27
     DEF Next, Continue, Call

\* The invariant holds throughout every behaviour.
LEMMA Invariance == Spec => []IInv
BY InitIInv, NextIInv, PTL DEF Spec

\* Every thread stays at a known point of the code, with arguments of the right
\* kind, and every field in its range.
THEOREM TypeCorrect == Spec => []TypeOK
BY Invariance, PTL DEF IInv

\* xcancellable_cancel elects one canceller, and cancelled_running is TRUE
\* exactly while it emits, however many threads cancel and reset.
THEOREM Election == Spec => []OneCanceller
BY Invariance, PTL DEF IInv

\* A callback never runs once xcancellable_disconnect has returned.
THEOREM Disconnection == Spec => []DisconnectIsFinal
BY Invariance, PTL DEF IInv

\* A thread asleep in xcancellable_disconnect or xcancellable_reset is waited
\* for by a canceller that will broadcast.
THEOREM NoForgottenWait == Spec => []SleepersKnown
BY Invariance, PTL DEF IInv

\* The poll descriptor is readable exactly while the cancellable is cancelled.
THEOREM DescriptorFollows == Spec => []FdTellsCancelled
BY Invariance, PTL DEF IInv

-----------------------------------------------------------------------------
\* Callbacks and the emission: the emission visits every callback that was
\* connected when the cancellable became cancelled, and none of them has been
\* called in this cancellation before its turn.
CallsOK ==
  /\ \A h \in Callbacks :
       /\ calls[h] \in {0, 1}
       /\ h \notin connected => calls[h] = 0
       /\ h \in handlers /\ ~ cancelled => calls[h] = 0
       /\ h \in handlers /\ cancelled /\ ~ cancelled_running => calls[h] = 1
  /\ \A t \in Threads :
       /\ pc[t] = "begin" => \A h \in handlers \cap Callbacks : calls[h] = 0
       /\ pc[t] = "callback" => calls[arg[t]] = 0
       /\ t \in emitting /\ pc[t] = "callback" =>
            arg[t] \in handlers /\ arg[t] \notin emission[t]
       /\ t \in emitting =>
            /\ \A h \in emission[t] \cap Callbacks : h \in handlers /\ calls[h] = 0
            /\ \A h \in handlers \cap Callbacks :
                 h \in emission[t] \/ (pc[t] = "callback" /\ arg[t] = h) \/ calls[h] = 1
  /\ \A t, u \in Threads :
       pc[t] = "callback" /\ pc[u] = "callback" /\ arg[t] = arg[u] => t = u


\* A step that neither calls a callback nor moves the emission.
LEMMA CallsFrame ==
  ASSUME CallsOK,
         UNCHANGED <<cancelled, cancelled_running, emission, emitting, calls,
                     connected>>,
         handlers' \cap Callbacks = handlers \cap Callbacks,
         \A t \in Threads :
           /\ pc'[t] = "begin" <=> pc[t] = "begin"
           /\ pc'[t] = "callback" <=> pc[t] = "callback"
           /\ pc[t] = "callback" => arg[t] \in Callbacks /\ arg'[t] = arg[t]
  PROVE  CallsOK'
<1>1. \A h \in Callbacks : h \in handlers' <=> h \in handlers
  OBVIOUS
<1> QED BY <1>1 DEF CallsOK

\* Every step preserves what is said of the calls.
LEMMA NextCalls == IInv /\ CallsOK /\ [Next]_vars => CallsOK'
<1> SUFFICES ASSUME IInv, CallsOK, [Next]_vars PROVE CallsOK'
  OBVIOUS
<1>0. /\ TypeOK /\ Control /\ OneCanceller /\ CallbackState
      /\ \A t \in Threads : pc[t] = "callback" => arg[t] \in Callbacks
      /\ Callbacks \cap Sources = {}
  BY GCancellableAssumption DEF IInv, Control
<1>1. ASSUME NEW t \in Threads, BecomeCanceller(t) PROVE CallsOK'
  BY <1>0, <1>1 DEF BecomeCanceller, Goto, CallsOK, OneCanceller, TypeOK
<1>2. ASSUME NEW t \in Threads, EmitBegin(t) PROVE CallsOK'
  BY <1>0, <1>2 DEF EmitBegin, Goto, fields, history, CallsOK, OneCanceller, TypeOK
<1>3. ASSUME NEW t \in Threads, EmitNext(t) PROVE CallsOK'
  <2>1. PICK h \in emission[t] :
          /\ emission' = [emission EXCEPT ![t] = @ \ {h}]
          /\ IF h \notin handlers
             THEN UNCHANGED <<pc, arg>>
             ELSE Goto(t, IF h \in Sources THEN "handler" ELSE "callback", h)
    BY <1>3 DEF EmitNext
  <2>2. /\ pc[t] = "emit" /\ t \in emitting
        /\ UNCHANGED <<cancelled, cancelled_running, emitting, calls, connected,
                       handlers>>
    BY <1>0, <1>3 DEF EmitNext, fields, history, Control
  <2>3. \A u \in Threads :
          emission'[u] = IF u = t THEN emission[t] \ {h} ELSE emission[u]
    BY <1>0, <2>1 DEF TypeOK
  <2>4. CASE h \notin handlers
    <3>1. UNCHANGED <<pc, arg>> /\ h \notin Callbacks
      BY <2>1, <2>2, <2>4 DEF CallsOK
    <3> QED BY <2>2, <2>3, <3>1 DEF CallsOK
  <2>5. CASE h \in handlers /\ h \in Sources
    <3>1. /\ \A u \in Threads : pc'[u] = IF u = t THEN "handler" ELSE pc[u]
          /\ \A u \in Threads \ {t} : arg'[u] = arg[u]
      BY <1>0, <2>1, <2>5 DEF Goto, TypeOK
    <3>2. h \notin Callbacks
      BY <1>0, <2>5
    <3> QED BY <2>2, <2>3, <3>1, <3>2 DEF CallsOK
  <2>6. CASE h \in handlers /\ h \notin Sources
    <3>1. /\ \A u \in Threads : pc'[u] = IF u = t THEN "callback" ELSE pc[u]
          /\ \A u \in Threads : arg'[u] = IF u = t THEN h ELSE arg[u]
      BY <1>0, <2>1, <2>6 DEF Goto, TypeOK
    <3>2. h \in Callbacks /\ calls[h] = 0
      BY <1>0, <2>1, <2>2, <2>6 DEF TypeOK, Handlers, CallsOK
    <3>3. \A u \in Threads : u # t => u \notin emitting
      BY <1>0, <2>2 DEF OneCanceller
    <3>4. \A u \in Threads : u # t /\ pc[u] = "callback" => arg[u] # h
      BY <1>0, <2>6, <3>3 DEF CallbackState
    <3> QED BY <2>2, <2>3, <3>1, <3>2, <3>3, <3>4 DEF CallsOK
  <2> QED BY <2>4, <2>5, <2>6
<1>4. ASSUME NEW t \in Threads, CancelEnd(t) PROVE CallsOK'
  BY <1>0, <1>4 DEF CancelEnd, Goto, history, CallsOK, OneCanceller, Control, TypeOK
<1>5. ASSUME NEW t \in Threads, CallbackReturns(t) PROVE CallsOK'
  BY <1>0, <1>5
     DEF CallbackReturns, Return, Goto, fields, CallsOK, OneCanceller, CallbackState,
         Control, TypeOK
<1>6. ASSUME NEW t \in Threads, NEW h \in Callbacks, xcancellable_connect(t, h)
      PROVE  CallsOK'
  BY <1>0, <1>6
     DEF xcancellable_connect, Goto, fields, CallsOK, OneCanceller, CallbackState,
         Control, TypeOK
<1>7. ASSUME NEW t \in Threads, DisconnectEnd(t) PROVE CallsOK'
  BY <1>0, <1>7
     DEF DisconnectEnd, Goto, fields, CallsOK, OneCanceller, CallbackState, Control,
         TypeOK
<1>8. ASSUME NEW t \in Threads, ResetEnd(t) PROVE CallsOK'
  BY <1>0, <1>8 DEF ResetEnd, Goto, CallsOK, OneCanceller, Control, TypeOK
<1>9. ASSUME NEW t \in Threads,
             \/ AlreadyCancelled(t) \/ TestAfterConnect(t)
             \/ cancellable_source_cancelled(t)
             \/ SetReady(t) \/ HoldForDispose(t) \/ xcancellable_cancel(t)
             \/ xcancellable_reset(t)
             \/ \E h \in Callbacks : xcancellable_disconnect(t, h)
             \/ \E s \in Sources : DropSource(t, s)
      PROVE  CallsOK'
  <2>1. PICK label \in PC, h \in Handlers \cup {None} :
          /\ Goto(t, label, h)
          /\ {pc[t], label} \cap {"begin", "callback"} = {}
    BY <1>0, <1>9
       DEF AlreadyCancelled, TestAfterConnect, cancellable_source_cancelled, SetReady,
           HoldForDispose, xcancellable_cancel, xcancellable_reset,
           xcancellable_disconnect, DropSource, PC, TypeOK, Handlers
  <2>2. UNCHANGED <<cancelled, cancelled_running, emission, emitting, calls,
                    connected, handlers>>
    BY <1>9
       DEF AlreadyCancelled, TestAfterConnect, cancellable_source_cancelled, SetReady,
           HoldForDispose, xcancellable_cancel, xcancellable_reset,
           xcancellable_disconnect, DropSource, fields, history
  <2> QED BY <1>0, <2>1, <2>2, CallsFrame DEF Goto, TypeOK
<1>10. ASSUME NEW t \in Threads, xsource_unref(t) \/ FreeSource(t)
       PROVE  CallsOK'
  BY <1>0, <1>10, CallsFrame
     DEF xsource_unref, FreeSource, Return, Goto, fields, history, TypeOK
<1>11. ASSUME NEW t \in Threads, cancellable_source_dispose(t)
       PROVE  CallsOK'
  <2>1. arg[t] \notin Callbacks
    BY <1>0, <1>11 DEF cancellable_source_dispose, Control, SourceLabels
  <2>2. handlers' \cap Callbacks = handlers \cap Callbacks
    BY <1>11, <2>1 DEF cancellable_source_dispose
  <2> QED
    BY <1>0, <1>11, <2>2, CallsFrame
       DEF cancellable_source_dispose, Goto, fields, history, TypeOK
<1>12. ASSUME NEW t \in Threads, NEW s \in Sources, xcancellable_source_new(t, s)
       PROVE  CallsOK'
  <2>1. handlers' \cap Callbacks = handlers \cap Callbacks
    BY <1>0, <1>12 DEF xcancellable_source_new
  <2> QED
    BY <1>0, <1>12, <2>1, CallsFrame
       DEF xcancellable_source_new, Goto, fields, history, TypeOK
<1>13. CASE \/ UNCHANGED vars
            \/ \E t \in Threads :
                 \/ WaitForEmission(t) \/ SpuriousWakeup(t)
                 \/ xcancellable_make_pollfd(t) \/ xcancellable_release_fd(t)
                 \/ \E s \in Sources : cancellable_source_dispatch(t, s)
  BY <1>0, <1>13, CallsFrame
     DEF vars, WaitForEmission, SpuriousWakeup, xcancellable_make_pollfd,
         xcancellable_release_fd, cancellable_source_dispatch, fields, history
<1> QED
  BY <1>1, <1>2, <1>3, <1>4, <1>5, <1>6, <1>7, <1>8, <1>9, <1>10, <1>11, <1>12, <1>13
     DEF Next, Continue, Call


\* A cancellation has reached the source, or reaches it through the emission, or
\* xcancellable_source_new has still to look.
Reached(s) ==
  \/ source[s].ready \/ source[s].told
  \/ \E t \in Threads :
       \/ pc[t] = "begin"
       \/ t \in emitting /\ s \in emission[t]
       \/ pc[t] \in {"handler", "set_ready", "source_new"} /\ arg[t] = s

\* The handler is connected as long as the source has its cancellable.
ToldAt(s) ==
  /\ source[s].cancellable <=> s \in handlers
  /\ source[s].cancellable => ~ source[s].resurrected
  /\ source[s].cancellable /\ cancelled => Reached(s)

\* The threads that hold a reference to a source.
HoldersOf(s) ==
  {t \in Threads :
     pc[t] \in {"set_ready", "unref", "dispose", "disposed"} /\ arg[t] = s}

\* The threads that found the count at zero and are about to dispose or free
\* the source.
Dropping(t, s) == pc[t] \in {"at_zero", "dispose", "disposed"} /\ arg[t] = s

\* How much a condition counts.
Count(b) == IF b THEN 1 ELSE 0

\* The reference count is the number of references.
Counted(s) ==
  source[s].ref_count =
    Count(source[s].owned) + Count(source[s].resurrected)
      + Cardinality(HoldersOf(s))

\* A source that is not allocated has no reference, and no thread is at it.
Unallocated(s) ==
  source[s].state # "live" =>
    /\ ~ source[s].owned /\ ~ source[s].resurrected /\ ~ source[s].cancellable
    /\ \A t \in Threads : pc[t] \in SourceLabels => arg[t] # s

\* Where the threads at the source can be.
Visits(s) ==
  \A t \in Threads :
    /\ pc[t] \in {"handler", "set_ready"} /\ arg[t] = s => t \in emitting
    /\ pc[t] = "handler" /\ arg[t] = s =>
         source[s].cancellable \/ source[s].resurrected
    /\ pc[t] = "disposed" /\ arg[t] = s => ~ source[s].cancellable
    /\ pc[t] = "source_new" /\ arg[t] = s => source[s].owned
    /\ Dropping(t, s) => ~ source[s].owned

\* Two threads drop one source only while one of them emits and the other's
\* dispose function resurrects it, or has; and a thread that found the count at
\* zero meets another one at the source only if that one came with the emission.
Drops(s) ==
  \A t, u \in Threads :
    /\ t # u /\ Dropping(t, s) /\ Dropping(u, s) =>
         /\ t \in emitting \/ u \in emitting
         /\ source[s].cancellable \/ source[s].resurrected
    /\ pc[t] = "at_zero" /\ arg[t] = s /\ arg[u] = s =>
         /\ pc[u] \in {"set_ready", "unref"} =>
              source[s].resurrected \/ (source[s].cancellable /\ u \in emitting)
         /\ pc[u] = "handler" => source[s].cancellable

\* All of it.
SourceOK(s) == ToldAt(s) /\ Counted(s) /\ Unallocated(s) /\ Visits(s) /\ Drops(s)

SourcesOK == \A s \in Sources : SourceOK(s)

\* A step that leaves the references of a source alone.
Apart(s) ==
  /\ source'[s].state = source[s].state
  /\ source'[s].owned <=> source[s].owned
  /\ source'[s].ref_count = source[s].ref_count
  /\ source'[s].cancellable <=> source[s].cancellable
  /\ source'[s].resurrected <=> source[s].resurrected
  /\ \A u \in Threads :
       /\ pc'[u] \in SourceLabels /\ arg'[u] = s
            <=> pc[u] \in SourceLabels /\ arg[u] = s
       /\ pc[u] \in SourceLabels /\ arg[u] = s =>
            pc'[u] = pc[u] /\ (u \in emitting' <=> u \in emitting)

\* Such a step preserves what is said of the references.
LEMMA RefsFrame ==
  ASSUME NEW s \in Sources, SourceOK(s), Apart(s)
  PROVE  Counted(s)' /\ Unallocated(s)' /\ Visits(s)' /\ Drops(s)'
<1>1. HoldersOf(s)' = HoldersOf(s)
  BY DEF HoldersOf, Apart, SourceLabels
<1>2. Counted(s)'
  BY <1>1 DEF Apart, SourceOK, Counted, Count
<1>3. Unallocated(s)'
  BY DEF Apart, SourceOK, Unallocated
<1>4. Visits(s)'
  BY DEF Apart, SourceOK, Visits, Dropping, SourceLabels
<1>5. Drops(s)'
  BY DEF Apart, SourceOK, Drops, Dropping, SourceLabels
<1> QED BY <1>2, <1>3, <1>4, <1>5

\* A step that leaves what brings the cancellation to the source alone too.
LEMMA SourceFrame ==
  ASSUME NEW s \in Sources, SourceOK(s), Apart(s),
         s \in handlers' <=> s \in handlers, cancelled' => cancelled,
         source[s].ready \/ source[s].told => source'[s].ready \/ source'[s].told,
         \A u \in Threads :
           /\ pc[u] = "begin" => pc'[u] = "begin"
           /\ u \in emitting /\ s \in emission[u]
                => u \in emitting' /\ s \in emission'[u]
  PROVE  SourceOK(s)'
<1>1. ToldAt(s)'
  BY DEF Apart, SourceOK, ToldAt, Reached, SourceLabels
<1> QED BY <1>1, RefsFrame DEF SourceOK

\* The threads that hold a reference are finitely many.
LEMMA HolderCount ==
  ASSUME NEW s \in Sources
  PROVE  /\ IsFiniteSet(HoldersOf(s)) /\ IsFiniteSet(HoldersOf(s)')
         /\ Cardinality(HoldersOf(s)) \in Nat /\ Cardinality(HoldersOf(s)') \in Nat
<1>1. HoldersOf(s) \subseteq Threads /\ HoldersOf(s)' \subseteq Threads
  BY DEF HoldersOf
<1>2. IsFiniteSet(HoldersOf(s)) /\ IsFiniteSet(HoldersOf(s)')
  BY <1>1, FS_Subset, GCancellableAssumption
<1> QED BY <1>2, FS_CardinalityType

\* A thread takes a reference, and one gives it back.
LEMMA HolderAdded ==
  ASSUME NEW s \in Sources, NEW t \in Threads, t \notin HoldersOf(s),
         HoldersOf(s)' = HoldersOf(s) \cup {t}
  PROVE  Cardinality(HoldersOf(s)') = Cardinality(HoldersOf(s)) + 1
BY HolderCount, FS_AddElement

LEMMA HolderRemoved ==
  ASSUME NEW s \in Sources, NEW t \in HoldersOf(s),
         HoldersOf(s)' = HoldersOf(s) \ {t}
  PROVE  Cardinality(HoldersOf(s)') = Cardinality(HoldersOf(s)) - 1
BY HolderCount, FS_RemoveElement

\* The only reference is the one of the thread.
LEMMA LastHolder ==
  ASSUME NEW s \in Sources, NEW t \in HoldersOf(s), Counted(s),
         source[s].ref_count = 1
  PROVE  ~ source[s].owned /\ ~ source[s].resurrected /\ HoldersOf(s) = {t}
<1>1. /\ IsFiniteSet(HoldersOf(s) \ {t})
      /\ Cardinality(HoldersOf(s) \ {t}) = Cardinality(HoldersOf(s)) - 1
  BY HolderCount, FS_RemoveElement
<1>2. Cardinality(HoldersOf(s) \ {t}) \in Nat
  BY <1>1, FS_CardinalityType
<1>3. /\ ~ source[s].owned /\ ~ source[s].resurrected
      /\ Cardinality(HoldersOf(s) \ {t}) = 0
  BY <1>1, <1>2, HolderCount DEF Counted, Count
<1>4. HoldersOf(s) \ {t} = {}
  BY <1>1, <1>3, FS_EmptySet
<1> QED BY <1>3, <1>4

\* What the steps below use of IInv: types, labels and the one canceller.
Base ==
  /\ pc \in [Threads -> PC] /\ arg \in [Threads -> Handlers \cup {None}]
  /\ emission \in [Threads -> SUBSET Handlers]
  /\ source \in [Sources -> Source] /\ emitting \subseteq Threads
  /\ Control /\ OneCanceller
  /\ Callbacks \cap Sources = {} /\ None \notin Sources

LEMMA BaseHolds == IInv => Base
BY GCancellableAssumption DEF IInv, TypeOK, Base

\* The steps that are not about a source.
LEMMA CallbackSteps ==
  ASSUME Base, SourcesOK, NEW s \in Sources, NEW t \in Threads,
         \/ AlreadyCancelled(t) \/ CallbackReturns(t) \/ WaitForEmission(t)
         \/ DisconnectEnd(t) \/ SpuriousWakeup(t)
         \/ xcancellable_cancel(t) \/ xcancellable_reset(t)
         \/ xcancellable_make_pollfd(t) \/ xcancellable_release_fd(t)
         \/ \E h \in Callbacks :
              xcancellable_connect(t, h) \/ xcancellable_disconnect(t, h)
  PROVE  SourceOK(s)'
<1>1. /\ UNCHANGED <<emission, emitting, source, cancelled>>
      /\ \A u \in Threads \ {t} : pc'[u] = pc[u] /\ arg'[u] = arg[u]
  BY DEF Base, AlreadyCancelled, CallbackReturns, WaitForEmission, DisconnectEnd,
     SpuriousWakeup, xcancellable_cancel, xcancellable_reset,
     xcancellable_make_pollfd, xcancellable_release_fd, xcancellable_connect,
     xcancellable_disconnect, Return, Goto, fields
<1>2. \/ pc'[t] = pc[t] /\ arg'[t] = arg[t]
      \/ {pc[t], pc'[t]} \cap (SourceLabels \cup {"begin"}) = {}
  BY DEF Base, AlreadyCancelled, CallbackReturns, WaitForEmission, DisconnectEnd,
     SpuriousWakeup, xcancellable_cancel, xcancellable_reset,
     xcancellable_make_pollfd, xcancellable_release_fd, xcancellable_connect,
     xcancellable_disconnect, Return, Goto, SourceLabels
<1>3. s \in handlers' <=> s \in handlers
  BY DEF Base, Control, AlreadyCancelled, CallbackReturns, WaitForEmission,
     DisconnectEnd, SpuriousWakeup, xcancellable_cancel, xcancellable_reset,
     xcancellable_make_pollfd, xcancellable_release_fd, xcancellable_connect,
     xcancellable_disconnect
<1>4. Apart(s)
  BY <1>1, <1>2 DEF Apart
<1> QED BY <1>1, <1>2, <1>3, <1>4, SourceFrame DEF SourcesOK

\* The canceller, before and after its emission, and the reset.
LEMMA CancelSteps ==
  ASSUME Base, SourcesOK, NEW s \in Sources, NEW t \in Threads,
         \/ BecomeCanceller(t) \/ EmitBegin(t) \/ CancelEnd(t) \/ ResetEnd(t)
  PROVE  SourceOK(s)'
<1>1. /\ handlers' = handlers
      /\ \A u \in Threads \ {t} :
           /\ pc'[u] = pc[u] /\ arg'[u] = arg[u] /\ emission'[u] = emission[u]
           /\ u \in emitting' <=> u \in emitting
      /\ {pc[t], pc'[t]} \cap SourceLabels = {}
  BY DEF Base, BecomeCanceller, EmitBegin, CancelEnd, ResetEnd, Goto, fields,
     SourceLabels
<1>2. /\ source'[s].state = source[s].state
      /\ source'[s].owned = source[s].owned
      /\ source'[s].ref_count = source[s].ref_count
      /\ source'[s].cancellable = source[s].cancellable
      /\ source'[s].resurrected = source[s].resurrected
      /\ ResetEnd(t) \/ source'[s] = source[s]
  BY DEF Base, BecomeCanceller, EmitBegin, CancelEnd, ResetEnd, Source
<1>3. Apart(s)
  BY <1>1, <1>2 DEF Apart
<1>4. ToldAt(s)'
  <2>1. CASE ResetEnd(t)
    BY <1>1, <1>2, <2>1 DEF ResetEnd, SourcesOK, SourceOK, ToldAt
  <2>2. CASE BecomeCanceller(t)
    <3>1. pc'[t] = "begin"
      BY <2>2 DEF BecomeCanceller, Goto, Base
    <3> QED BY <1>1, <1>2, <3>1 DEF SourcesOK, SourceOK, ToldAt, Reached
  <2>3. CASE EmitBegin(t)
    <3>1. t \in emitting' /\ emission'[t] = handlers /\ cancelled' = cancelled
      BY <2>3 DEF EmitBegin, Base, fields
    <3> QED BY <1>1, <1>2, <3>1 DEF SourcesOK, SourceOK, ToldAt, Reached
  <2>4. CASE CancelEnd(t)
    <3>1. emission[t] = {} /\ pc[t] = "emit" /\ cancelled' = cancelled
              /\ source'[s] = source[s]
      BY <2>4 DEF CancelEnd, Base
    <3> QED BY <1>1, <1>2, <3>1 DEF SourcesOK, SourceOK, ToldAt, Reached
  <2> QED BY <2>1, <2>2, <2>3, <2>4
<1> QED BY <1>3, <1>4, RefsFrame DEF SourcesOK, SourceOK

\* The emission goes on to the next handler, which may be the source's.
LEMMA EmitNextSource ==
  ASSUME Base, SourcesOK, NEW s \in Sources, NEW t \in Threads, EmitNext(t)
  PROVE  SourceOK(s)'
<1>1. PICK h \in emission[t] :
        /\ emission' = [emission EXCEPT ![t] = @ \ {h}]
        /\ IF h \notin handlers
           THEN UNCHANGED <<pc, arg>>
           ELSE Goto(t, IF h \in Sources THEN "handler" ELSE "callback", h)
  BY DEF EmitNext
<1>2. /\ pc[t] = "emit" /\ t \in emitting
      /\ UNCHANGED <<cancelled, emitting, handlers, source>>
  BY DEF Base, Control, EmitNext, fields
<1>3. /\ \A u \in Threads \ {t} :
           emission'[u] = emission[u] /\ pc'[u] = pc[u] /\ arg'[u] = arg[u]
      /\ emission'[t] = emission[t] \ {h}
      /\ IF h \notin handlers
         THEN pc'[t] = "emit"
         ELSE pc'[t] = (IF h \in Sources THEN "handler" ELSE "callback") /\ arg'[t] = h
  BY <1>1, <1>2 DEF Base, Goto
<1>4. CASE h = s /\ s \in handlers
  <2>1. pc'[t] = "handler" /\ arg'[t] = s
    BY <1>3, <1>4
  <2>2. source[s].cancellable /\ SourceOK(s)
    BY <1>4 DEF SourcesOK, SourceOK, ToldAt
  <2>3. HoldersOf(s)' = HoldersOf(s)
    BY <1>2, <1>3, <2>1 DEF HoldersOf
  <2>4. ToldAt(s)'
    BY <1>2, <1>3, <2>1, <2>2 DEF SourceOK, ToldAt, Reached
  <2>5. Counted(s)' /\ Unallocated(s)'
    BY <1>2, <2>2, <2>3 DEF SourceOK, Counted, Unallocated
  <2>6. Visits(s)'
    BY <1>2, <1>3, <2>1, <2>2 DEF SourceOK, Visits, Dropping
  <2>7. Drops(s)'
    BY <1>2, <1>3, <2>1, <2>2 DEF SourceOK, Drops, Dropping
  <2> QED BY <2>4, <2>5, <2>6, <2>7 DEF SourceOK
<1>5. CASE ~ (h = s /\ s \in handlers)
  <2>1. Apart(s)
    BY <1>2, <1>3, <1>5 DEF Apart, SourceLabels
  <2>2. ToldAt(s)'
    BY <1>2, <1>3, <1>5 DEF SourcesOK, SourceOK, ToldAt, Reached
  <2> QED BY <2>1, <2>2, RefsFrame DEF SourcesOK, SourceOK
<1> QED BY <1>4, <1>5

\* The steps of a thread at another source.
LEMMA SourceSteps ==
  ASSUME Base, SourcesOK, NEW t \in Threads, NEW s \in Sources, s # arg[t],
         \/ TestAfterConnect(t) \/ cancellable_source_cancelled(t) \/ SetReady(t)
         \/ xsource_unref(t) \/ HoldForDispose(t) \/ cancellable_source_dispose(t)
         \/ FreeSource(t)
  PROVE  SourceOK(s)'
<1>1. /\ UNCHANGED <<emission, emitting, cancelled>>
      /\ \A u \in Threads \ {t} : pc'[u] = pc[u] /\ arg'[u] = arg[u]
      /\ pc[t] \in SourceLabels /\ arg'[t] \in {arg[t], None}
  BY DEF Base, TestAfterConnect, cancellable_source_cancelled, SetReady,
     xsource_unref, HoldForDispose, cancellable_source_dispose, FreeSource, Return,
     Goto, fields, SourceLabels
<1>2. s # None /\ arg[t] \in Sources
  BY <1>1 DEF Base, Control
<1>3. source'[s] = source[s] /\ (s \in handlers' <=> s \in handlers)
  BY <1>2
     DEF Base, TestAfterConnect, cancellable_source_cancelled, SetReady,
         xsource_unref, HoldForDispose, cancellable_source_dispose, FreeSource
<1>4. Apart(s)
  BY <1>1, <1>2, <1>3 DEF Apart
<1> QED BY <1>1, <1>2, <1>3, <1>4, SourceFrame DEF SourcesOK, SourceLabels

\* xcancellable_source_new: the source had no reference before.
LEMMA NewSource ==
  ASSUME Base, SourcesOK, NEW t \in Threads, NEW s \in Sources, NEW r \in Sources,
         xcancellable_source_new(t, r)
  PROVE  SourceOK(s)'
<1>1. /\ UNCHANGED <<emission, emitting, cancelled>>
      /\ \A u \in Threads \ {t} : pc'[u] = pc[u] /\ arg'[u] = arg[u]
      /\ pc[t] = "idle" /\ pc'[t] = "source_new" /\ arg'[t] = r
      /\ handlers' = handlers \cup {r}
  BY DEF Base, xcancellable_source_new, Goto, fields
<1>2. CASE s # r
  <2>1. source'[s] = source[s]
    BY <1>2 DEF Base, xcancellable_source_new
  <2>2. Apart(s)
    BY <1>1, <1>2, <2>1 DEF Apart, SourceLabels
  <2> QED BY <1>1, <1>2, <2>1, <2>2, SourceFrame DEF SourcesOK
<1>3. CASE s = r
  <2>1. /\ ~ source[s].owned /\ ~ source[s].resurrected
        /\ \A u \in Threads : pc[u] \in SourceLabels => arg[u] # s
    BY <1>3 DEF xcancellable_source_new, SourcesOK, SourceOK, Unallocated
  <2>2. /\ source'[s].state = "live" /\ source'[s].owned /\ source'[s].ref_count = 1
        /\ source'[s].cancellable /\ source'[s].resurrected = source[s].resurrected
    BY <1>3 DEF Base, xcancellable_source_new, Source
  <2>3. ToldAt(s)'
    BY <1>1, <1>3, <2>1, <2>2 DEF ToldAt, Reached
  <2>4. Counted(s)'
    <3>1. HoldersOf(s)' = {}
      BY <1>1, <2>1 DEF HoldersOf, SourceLabels
    <3>2. Cardinality(HoldersOf(s)') = 0
      BY <3>1, FS_EmptySet
    <3> QED BY <2>1, <2>2, <3>2 DEF Counted, Count
  <2>5. Unallocated(s)'
    BY <2>2 DEF Unallocated
  <2>6. Visits(s)' /\ Drops(s)'
    BY <1>1, <2>1, <2>2 DEF Visits, Drops, Dropping, SourceLabels
  <2> QED BY <2>3, <2>4, <2>5, <2>6 DEF SourceOK
<1> QED BY <1>2, <1>3

\* The look at the cancellable after the connect: a source that came too late
\* for the emission is made ready.
LEMMA TestSource ==
  ASSUME Base, SourcesOK, NEW t \in Threads, NEW s \in Sources, arg[t] = s,
         TestAfterConnect(t)
  PROVE  SourceOK(s)'
<1>1. /\ UNCHANGED <<emission, emitting, cancelled, handlers>>
      /\ \A u \in Threads \ {t} : pc'[u] = pc[u] /\ arg'[u] = arg[u]
      /\ pc[t] = "source_new" /\ pc'[t] = "idle" /\ arg'[t] # s
  BY DEF Base, TestAfterConnect, Goto, fields
<1>2. /\ source'[s].state = source[s].state /\ source'[s].owned = source[s].owned
      /\ source'[s].ref_count = source[s].ref_count
      /\ source'[s].cancellable = source[s].cancellable
      /\ source'[s].resurrected = source[s].resurrected
      /\ cancelled => source'[s].ready
  BY DEF Base, TestAfterConnect, Source
<1>3. SourceOK(s)
  BY DEF SourcesOK
<1>4. HoldersOf(s)' = HoldersOf(s)
  BY <1>1 DEF HoldersOf
<1>5. ToldAt(s)'
  BY <1>1, <1>2, <1>3 DEF SourceOK, ToldAt, Reached
<1>6. Counted(s)'
  BY <1>2, <1>3, <1>4 DEF SourceOK, Counted
<1>7. Unallocated(s)'
  BY <1>1, <1>2, <1>3 DEF SourceOK, Unallocated, SourceLabels
<1>8. Visits(s)'
  BY <1>1, <1>2, <1>3 DEF SourceOK, Visits, Dropping
<1>9. Drops(s)'
  BY <1>1, <1>2, <1>3 DEF SourceOK, Drops, Dropping
<1> QED BY <1>5, <1>6, <1>7, <1>8, <1>9 DEF SourceOK

\* The handler makes the source ready.
LEMMA ReadySteps ==
  ASSUME Base, SourcesOK, NEW t \in Threads, NEW s \in Sources, arg[t] = s,
         SetReady(t)
  PROVE  SourceOK(s)'
<1>1. /\ UNCHANGED <<emission, emitting, cancelled, handlers>>
      /\ \A u \in Threads \ {t} : pc'[u] = pc[u] /\ arg'[u] = arg[u]
      /\ pc[t] = "set_ready" /\ pc'[t] = "unref" /\ arg'[t] = s
  BY DEF Base, SetReady, Goto, fields
<1>2. /\ source'[s].state = source[s].state /\ source'[s].owned = source[s].owned
      /\ source'[s].ref_count = source[s].ref_count
      /\ source'[s].cancellable = source[s].cancellable
      /\ source'[s].resurrected = source[s].resurrected
      /\ source'[s].ready
  BY DEF Base, SetReady, Source
<1>3. SourceOK(s)
  BY DEF SourcesOK
<1>4. HoldersOf(s)' = HoldersOf(s)
  BY <1>1 DEF HoldersOf
<1>5. ToldAt(s)'
  BY <1>1, <1>2, <1>3 DEF SourceOK, ToldAt, Reached
<1>6. Counted(s)'
  BY <1>2, <1>3, <1>4 DEF SourceOK, Counted
<1>7. Unallocated(s)'
  BY <1>1, <1>2, <1>3 DEF SourceOK, Unallocated, SourceLabels
<1>8. Visits(s)'
  BY <1>1, <1>2, <1>3 DEF SourceOK, Visits, Dropping
<1>9. Drops(s)'
  BY <1>1, <1>2, <1>3 DEF SourceOK, Drops, Dropping
<1> QED BY <1>5, <1>6, <1>7, <1>8, <1>9 DEF SourceOK

\* The dispatch tells the program of the cancellation.
LEMMA DispatchSource ==
  ASSUME Base, SourcesOK, NEW t \in Threads, NEW s \in Sources, NEW r \in Sources,
         cancellable_source_dispatch(t, r)
  PROVE  SourceOK(s)'
<1>1. UNCHANGED <<emission, emitting, cancelled, handlers, pc, arg>>
  BY DEF cancellable_source_dispatch, fields
<1>2. /\ source'[s].state = source[s].state /\ source'[s].owned = source[s].owned
      /\ source'[s].ref_count = source[s].ref_count
      /\ source'[s].cancellable = source[s].cancellable
      /\ source'[s].resurrected = source[s].resurrected
      /\ s = r => source'[s].told = cancelled
      /\ s # r => source'[s] = source[s]
  BY DEF Base, cancellable_source_dispatch, Source
<1>3. Apart(s)
  BY <1>1, <1>2 DEF Apart
<1>4. ToldAt(s)'
  BY <1>1, <1>2 DEF SourcesOK, SourceOK, ToldAt, Reached
<1> QED BY <1>3, <1>4, RefsFrame DEF SourcesOK, SourceOK

\* The handler takes its reference, or takes over the one of the resurrection.
\* Only one thread emits, so no other handler relies on that one.
LEMMA HandlerSource ==
  ASSUME Base, SourcesOK, NEW t \in Threads, NEW s \in Sources, arg[t] = s,
         cancellable_source_cancelled(t)
  PROVE  SourceOK(s)'
<1>1. /\ UNCHANGED <<emission, emitting, cancelled, handlers>>
      /\ \A u \in Threads \ {t} : pc'[u] = pc[u] /\ arg'[u] = arg[u]
      /\ pc[t] = "handler" /\ arg'[t] = s
      /\ pc'[t] = IF source[s].resurrected THEN "unref" ELSE "set_ready"
  BY DEF Base, cancellable_source_cancelled, Goto, fields
<1>2. /\ source'[s].state = source[s].state /\ source'[s].owned = source[s].owned
      /\ source'[s].cancellable = source[s].cancellable
      /\ ~ source'[s].resurrected
      /\ source'[s].ref_count =
           IF source[s].resurrected THEN source[s].ref_count
                                    ELSE source[s].ref_count + 1
      /\ source'[s].ready = source[s].ready /\ source'[s].told = source[s].told
      /\ source[s].ref_count \in Int
  BY DEF Base, cancellable_source_cancelled, Source
<1>3. SourceOK(s)
  BY DEF SourcesOK
<1>4. t \in emitting /\ \A u \in Threads : u # t => u \notin emitting
  BY <1>1, <1>3 DEF Base, OneCanceller, SourceOK, Visits
<1>5. Cardinality(HoldersOf(s)') = Cardinality(HoldersOf(s)) + 1
  <2>1. t \notin HoldersOf(s) /\ HoldersOf(s)' = HoldersOf(s) \cup {t}
    BY <1>1 DEF HoldersOf
  <2> QED BY <2>1, HolderAdded
<1>6. ToldAt(s)'
  BY <1>1, <1>2, <1>3 DEF SourceOK, ToldAt, Reached
<1>7. Counted(s)'
  BY <1>2, <1>3, <1>5, HolderCount DEF SourceOK, Counted, Count
<1>8. Unallocated(s)'
  BY <1>1, <1>2, <1>3 DEF SourceOK, Unallocated, SourceLabels
<1>9. Visits(s)'
  BY <1>1, <1>2, <1>3, <1>4 DEF SourceOK, Visits, Dropping
<1>10. Drops(s)'
  BY <1>1, <1>2, <1>3, <1>4 DEF SourceOK, Visits, Drops, Dropping, ToldAt
<1> QED BY <1>6, <1>7, <1>8, <1>9, <1>10 DEF SourceOK

\* The program's reference becomes the thread's.
LEMMA DroppedSource ==
  ASSUME Base, SourcesOK, NEW t \in Threads, NEW s \in Sources, NEW r \in Sources,
         DropSource(t, r)
  PROVE  SourceOK(s)'
<1>1. /\ UNCHANGED <<emission, emitting, cancelled, handlers>>
      /\ \A u \in Threads \ {t} : pc'[u] = pc[u] /\ arg'[u] = arg[u]
      /\ pc[t] = "idle" /\ pc'[t] = "unref" /\ arg'[t] = r
      /\ source[r].owned /\ \A u \in Threads : pc[u] = "source_new" => arg[u] # r
  BY DEF Base, DropSource, Goto, fields
<1>2. CASE s # r
  <2>1. source'[s] = source[s]
    BY <1>2 DEF Base, DropSource
  <2>2. Apart(s)
    BY <1>1, <1>2, <2>1 DEF Apart, SourceLabels
  <2> QED BY <1>1, <1>2, <2>1, <2>2, SourceFrame DEF SourcesOK
<1>3. CASE s = r
  <2>2. /\ source'[s].state = source[s].state /\ ~ source'[s].owned
        /\ source'[s].ref_count = source[s].ref_count
        /\ source'[s].cancellable = source[s].cancellable
        /\ source'[s].resurrected = source[s].resurrected
        /\ source'[s].ready = source[s].ready /\ source'[s].told = source[s].told
    BY <1>3 DEF Base, DropSource, Source
  <2>3. SourceOK(s)
    BY DEF SourcesOK
  <2>4. Cardinality(HoldersOf(s)') = Cardinality(HoldersOf(s)) + 1
    <3>1. t \notin HoldersOf(s) /\ HoldersOf(s)' = HoldersOf(s) \cup {t}
      BY <1>1, <1>3 DEF HoldersOf
    <3> QED BY <3>1, HolderAdded
  <2>6. ToldAt(s)'
    BY <1>1, <1>3, <2>2, <2>3 DEF SourceOK, ToldAt, Reached
  <2>7. Counted(s)'
    BY <1>1, <1>3, <2>2, <2>3, <2>4, HolderCount DEF SourceOK, Counted, Count
  <2>8. Unallocated(s)'
    BY <1>1, <1>3, <2>2, <2>3 DEF SourceOK, Unallocated, SourceLabels
  <2>9. Visits(s)'
    BY <1>1, <1>3, <2>2, <2>3 DEF SourceOK, Visits, Dropping
  <2>10. Drops(s)'
    BY <1>1, <1>3, <2>2, <2>3 DEF SourceOK, Visits, Drops, Dropping
  <2> QED BY <2>6, <2>7, <2>8, <2>9, <2>10 DEF SourceOK
<1> QED BY <1>2, <1>3

\* The count falls.  Whoever brings it to zero held the last reference; another
\* thread that brought it to zero before is possible only if this one emits.
LEMMA UnrefSource ==
  ASSUME Base, SourcesOK, NEW t \in Threads, NEW s \in Sources, arg[t] = s,
         xsource_unref(t)
  PROVE  SourceOK(s)'
<1>1. /\ UNCHANGED <<emission, emitting, cancelled, handlers>>
      /\ \A u \in Threads \ {t} : pc'[u] = pc[u] /\ arg'[u] = arg[u]
      /\ pc[t] = "unref"
      /\ IF source[s].ref_count = 1 THEN pc'[t] = "at_zero" /\ arg'[t] = s
                                    ELSE pc'[t] \in {"emit", "idle"} /\ arg'[t] # s
  BY DEF Base, xsource_unref, Return, Goto, fields
<1>2. /\ source'[s].state = source[s].state /\ source'[s].owned = source[s].owned
      /\ source'[s].cancellable = source[s].cancellable
      /\ source'[s].resurrected = source[s].resurrected
      /\ source'[s].ref_count = source[s].ref_count - 1
      /\ source'[s].ready = source[s].ready /\ source'[s].told = source[s].told
      /\ source[s].ref_count \in Int
  BY DEF Base, xsource_unref, Source
<1>3. SourceOK(s) /\ t \in HoldersOf(s)
  BY <1>1 DEF SourcesOK, HoldersOf
<1>4. source[s].ref_count = 1 =>
        ~ source[s].owned /\ ~ source[s].resurrected /\ HoldersOf(s) = {t}
  BY <1>3, LastHolder DEF SourceOK
<1>5. Cardinality(HoldersOf(s)') = Cardinality(HoldersOf(s)) - 1
  <2>1. HoldersOf(s)' = HoldersOf(s) \ {t}
    BY <1>1 DEF HoldersOf
  <2> QED BY <1>3, <2>1, HolderRemoved
<1>6. ToldAt(s)'
  BY <1>1, <1>2, <1>3 DEF SourceOK, ToldAt, Reached
<1>7. Counted(s)'
  BY <1>2, <1>3, <1>5, HolderCount DEF SourceOK, Counted, Count
<1>8. Unallocated(s)'
  BY <1>1, <1>2, <1>3 DEF SourceOK, Unallocated, SourceLabels
<1>9. Visits(s)'
  BY <1>1, <1>2, <1>3, <1>4 DEF SourceOK, Visits, Dropping
<1>10. Drops(s)'
  BY <1>1, <1>2, <1>3, <1>4 DEF SourceOK, Visits, Drops, Dropping, HoldersOf
<1> QED BY <1>6, <1>7, <1>8, <1>9, <1>10 DEF SourceOK

\* The reference for the time of the dispose function.
LEMMA HoldSource ==
  ASSUME Base, SourcesOK, NEW t \in Threads, NEW s \in Sources, arg[t] = s,
         HoldForDispose(t)
  PROVE  SourceOK(s)'
<1>1. /\ UNCHANGED <<emission, emitting, cancelled, handlers>>
      /\ \A u \in Threads \ {t} : pc'[u] = pc[u] /\ arg'[u] = arg[u]
      /\ pc[t] = "at_zero" /\ pc'[t] = "dispose" /\ arg'[t] = s
  BY DEF Base, HoldForDispose, Goto, fields
<1>2. /\ source'[s].state = source[s].state /\ source'[s].owned = source[s].owned
      /\ source'[s].cancellable = source[s].cancellable
      /\ source'[s].resurrected = source[s].resurrected
      /\ source'[s].ref_count = source[s].ref_count + 1
      /\ source'[s].ready = source[s].ready /\ source'[s].told = source[s].told
      /\ source[s].ref_count \in Int
  BY DEF Base, HoldForDispose, Source
<1>3. SourceOK(s)
  BY DEF SourcesOK
<1>5. Cardinality(HoldersOf(s)') = Cardinality(HoldersOf(s)) + 1
  <2>1. t \notin HoldersOf(s) /\ HoldersOf(s)' = HoldersOf(s) \cup {t}
    BY <1>1 DEF HoldersOf
  <2> QED BY <2>1, HolderAdded
<1>6. ToldAt(s)'
  BY <1>1, <1>2, <1>3 DEF SourceOK, ToldAt, Reached
<1>7. Counted(s)'
  BY <1>2, <1>3, <1>5, HolderCount DEF SourceOK, Counted, Count
<1>8. Unallocated(s)'
  BY <1>1, <1>2, <1>3 DEF SourceOK, Unallocated, SourceLabels
<1>9. Visits(s)'
  BY <1>1, <1>2, <1>3 DEF SourceOK, Visits, Dropping
<1>10. Drops(s)'
  BY <1>1, <1>2, <1>3 DEF SourceOK, Drops, Dropping
<1> QED BY <1>6, <1>7, <1>8, <1>9, <1>10 DEF SourceOK

\* The dispose function resurrects the source if a handler may be committed.
LEMMA DisposeSource ==
  ASSUME Base, SourcesOK, NEW t \in Threads, NEW s \in Sources, arg[t] = s,
         cancellable_source_dispose(t)
  PROVE  SourceOK(s)'
<1>1. /\ UNCHANGED <<emission, emitting, cancelled>>
      /\ \A u \in Threads \ {t} : pc'[u] = pc[u] /\ arg'[u] = arg[u]
      /\ pc[t] = "dispose" /\ pc'[t] = "disposed" /\ arg'[t] = s
      /\ source[s].cancellable => s \notin handlers'
      /\ ~ source[s].cancellable => handlers' = handlers
  BY DEF Base, cancellable_source_dispose, Goto, fields
<1>2. /\ source'[s].state = source[s].state /\ source'[s].owned = source[s].owned
      /\ ~ source'[s].cancellable
      /\ source'[s].resurrected
           <=> source[s].resurrected \/ (source[s].cancellable /\ cancelled_running)
      /\ source'[s].ref_count =
           IF source[s].cancellable /\ cancelled_running
           THEN source[s].ref_count + 1 ELSE source[s].ref_count
      /\ source[s].ref_count \in Int
  BY DEF Base, cancellable_source_dispose, Source
<1>3. SourceOK(s)
  BY DEF SourcesOK
<1>4. /\ \A u \in Threads : u \in emitting => cancelled_running
      /\ \A u, v \in Threads : u \in emitting /\ v \in emitting => u = v
  BY DEF Base, OneCanceller
<1>5. HoldersOf(s)' = HoldersOf(s)
  BY <1>1 DEF HoldersOf
<1>6. ToldAt(s)'
  BY <1>1, <1>2, <1>3 DEF SourceOK, ToldAt
<1>7. Counted(s)'
  BY <1>2, <1>3, <1>5, HolderCount DEF SourceOK, Counted, Count, ToldAt
<1>8. Unallocated(s)'
  BY <1>1, <1>2, <1>3 DEF SourceOK, Unallocated, SourceLabels
<1>9. Visits(s)'
  BY <1>1, <1>2, <1>3, <1>4 DEF SourceOK, Visits, Dropping
<1>10. Drops(s)'
  BY <1>1, <1>2, <1>3, <1>4 DEF SourceOK, Visits, Drops, Dropping
<1> QED BY <1>6, <1>7, <1>8, <1>9, <1>10 DEF SourceOK

\* When the count falls to zero again nobody is at the source any more: a
\* handler or another dispose would need the cancellable or the resurrection.
LEMMA FreedSource ==
  ASSUME Base, SourcesOK, NEW t \in Threads, NEW s \in Sources, arg[t] = s,
         FreeSource(t)
  PROVE  SourceOK(s)'
<1>1. /\ UNCHANGED <<emission, emitting, cancelled, handlers>>
      /\ \A u \in Threads \ {t} : pc'[u] = pc[u] /\ arg'[u] = arg[u]
      /\ pc[t] = "disposed" /\ pc'[t] \in {"emit", "idle"} /\ arg'[t] # s
  BY DEF Base, FreeSource, Return, Goto, fields
<1>2. /\ source'[s].owned = source[s].owned
      /\ source'[s].cancellable = source[s].cancellable
      /\ source'[s].resurrected = source[s].resurrected
      /\ source'[s].ref_count = source[s].ref_count - 1
      /\ source'[s].state = IF source[s].ref_count = 1 THEN "freed" ELSE source[s].state
      /\ source'[s].ready = source[s].ready /\ source'[s].told = source[s].told
      /\ source[s].ref_count \in Int
  BY DEF Base, FreeSource, Source
<1>3. SourceOK(s) /\ t \in HoldersOf(s)
  BY <1>1 DEF SourcesOK, HoldersOf
<1>4. source[s].ref_count = 1 =>
        ~ source[s].owned /\ ~ source[s].resurrected /\ HoldersOf(s) = {t}
  BY <1>3, LastHolder DEF SourceOK
<1>5. Cardinality(HoldersOf(s)') = Cardinality(HoldersOf(s)) - 1
  <2>1. HoldersOf(s)' = HoldersOf(s) \ {t}
    BY <1>1 DEF HoldersOf
  <2> QED BY <1>3, <2>1, HolderRemoved
<1>6. ToldAt(s)'
  BY <1>1, <1>2, <1>3 DEF SourceOK, ToldAt, Reached
<1>7. Counted(s)'
  BY <1>2, <1>3, <1>5, HolderCount DEF SourceOK, Counted, Count
<1>8. Unallocated(s)'
  <2>1. CASE source[s].ref_count = 1
    <3>1. ~ source[s].cancellable
      BY <1>1, <1>3 DEF SourceOK, Visits
    <3>2. ASSUME NEW u \in Threads, u # t, pc[u] \in SourceLabels PROVE arg[u] # s
      BY <1>1, <1>3, <1>4, <2>1, <3>1, <3>2
         DEF SourceOK, Visits, Drops, Dropping, SourceLabels, HoldersOf
    <3> QED BY <1>1, <1>2, <1>4, <2>1, <3>1, <3>2 DEF Unallocated
  <2>2. CASE source[s].ref_count # 1
    BY <1>1, <1>2, <1>3, <2>2 DEF SourceOK, Unallocated, SourceLabels
  <2> QED BY <2>1, <2>2
<1>9. Visits(s)'
  BY <1>1, <1>2, <1>3 DEF SourceOK, Visits, Dropping
<1>10. Drops(s)'
  BY <1>1, <1>2, <1>3 DEF SourceOK, Drops, Dropping
<1> QED BY <1>6, <1>7, <1>8, <1>9, <1>10 DEF SourceOK

\* Every step preserves what is said of the sources.
LEMMA NextSources == IInv /\ SourcesOK /\ [Next]_vars => SourcesOK'
<1> SUFFICES ASSUME IInv, SourcesOK, [Next]_vars, NEW s \in Sources
             PROVE  SourceOK(s)'
  BY DEF SourcesOK
<1>0. Base
  BY BaseHolds
<1>1. CASE UNCHANGED vars
  BY <1>1, SourceFrame DEF vars, fields, SourcesOK, Apart
<1>2. CASE Next
  <2>1. PICK t \in Threads : Continue(t) \/ Call(t) \/ SpuriousWakeup(t)
    BY <1>2 DEF Next
  <2> QED
    BY <1>0, <2>1, CallbackSteps, CancelSteps, EmitNextSource, SourceSteps, NewSource,
       TestSource, ReadySteps, DispatchSource, HandlerSource, DroppedSource,
       UnrefSource, HoldSource, DisposeSource, FreedSource
       DEF Continue, Call
<1> QED BY <1>1, <1>2

\* No source exists initially.
LEMMA InitSources == Init => SourcesOK
<1> SUFFICES ASSUME Init, NEW s \in Sources PROVE SourceOK(s)
  BY DEF SourcesOK
<1>1. HoldersOf(s) = {}
  BY DEF Init, HoldersOf
<1>2. Cardinality(HoldersOf(s)) = 0
  BY <1>1, FS_EmptySet
<1> QED
  BY <1>2
     DEF Init, SourceOK, ToldAt, Counted, Unallocated, Visits, Drops, Dropping, Count,
         SourceLabels

\* No callback is connected initially.
LEMMA InitCalls == Init => CallsOK
BY DEF Init, CallsOK

\* Both parts hold throughout every behaviour.
LEMMA MoreInvariance == Spec => [](IInv /\ CallsOK /\ SourcesOK)
<1>1. Init => CallsOK /\ SourcesOK
  BY InitCalls, InitSources
<1> QED BY <1>1, Invariance, NextCalls, NextSources, PTL DEF Spec

\* Whichever way connects, cancels, disconnects and resets interleave, no
\* callback connected with xcancellable_connect is missed by a cancellation, and
\* none is called twice in it.
THEOREM CallbacksOnce == Spec => []CalledOnce
<1>1. IInv /\ CallsOK => CalledOnce
  BY DEF IInv, TypeOK, CallsOK, CalledOnce
<1> QED BY <1>1, MoreInvariance, PTL

\* A source that xcancellable_source_new has returned, and that is not being
\* dropped, is ready or was dispatched once the emission is over, although the
\* source connects without cancellable_mutex.
THEOREM SourcesTold == Spec => []SourceTold
<1>1. IInv /\ SourcesOK => SourceTold
  <2> SUFFICES ASSUME IInv, SourcesOK, cancelled, ~ cancelled_running,
                      NEW s \in Sources,
                      source[s].cancellable,
                      \A t \in Threads : pc[t] = "source_new" => arg[t] # s
               PROVE  source[s].ready \/ source[s].told
    BY DEF SourceTold
  <2>1. Reached(s)
    BY DEF SourcesOK, SourceOK, ToldAt
  <2>2. \A t \in Threads : pc[t] # "begin" /\ t \notin emitting
    BY DEF IInv, OneCanceller
  <2> QED BY <2>1, <2>2 DEF Reached, SourcesOK, SourceOK, Visits
<1> QED BY <1>1, MoreInvariance, PTL

\* No thread in xsource_unref, in the dispose function or committed to the
\* handler finds the source freed: the resurrection covers every handler that
\* the emission is committed to.
THEOREM SourcesAllocated == Spec => []NoDanglingSource
<1>1. IInv /\ SourcesOK => NoDanglingSource
  BY DEF IInv, Control, SourcesOK, SourceOK, Unallocated, NoDanglingSource,
     SourceLabels
<1> QED BY <1>1, MoreInvariance, PTL

=============================================================================
