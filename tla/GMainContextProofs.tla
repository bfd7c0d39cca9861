------------------------ MODULE GMainContextProofs ------------------------
(***************************************************************************)
(* The invariants of GMainContext, from one inductive invariant, Inv.      *)
(* Its parts follow what a context promises:                               *)
(*   - who holds it: StackOK, OwnerOK, SleepOK;                            *)
(*   - the list of sources and its order: PlaceOK, SourceOK, TimeOK;       *)
(*   - the references: DestroyOK, RefsOK, which need to know what the      *)
(*     queue of dispatches holds: EntriesOK, NestedOK, DistinctOK,         *)
(*     QueueOK;                                                            *)
(*   - the callbacks and the poll records: CallsOK, PollOK;                *)
(*   - nothing is missed between the scan and the poll: ScanOK, RunOK.     *)
(* A step moves at most one thread by one frame (Move), and most steps     *)
(* disturb few parts: the lemmas for steps of one kind (the environment,   *)
(* the outer steps, the iterator, the check, the dispatch) come before     *)
(* those for the actions, one per action, that NextInv puts together.      *)
(***************************************************************************)
EXTENDS GMainContext, FiniteSetTheorems, SequenceTheorems, WellFoundedInduction, TLAPS

\* The number of frames in a set K.
Count(K) == Cardinality({f \in Frames : FrameAt(f) \in K})

\* The labels of xmain_loop_run, of the scan up to the poll, of the check, of
\* the frames that name a source, and of the frames between the check and the end
\* of the dispatch.
LoopPC == {"loopStart", "loopWait", "loopAsleep", "loopTest", "loopRelease"}
Scanning == {"prepareNext", "inPrepare", "query", "poll"}
Checking == {"check", "checkNext", "inCheck"}
WithSource == {"inPrepare", "inCheck", "callback", "needDestroy", "destroying"}
Section == {"dispatchNext", "callback", "needDestroy"}
Filling == Scanning \cup Checking \cup {"dispatch", "release"}

\* What a frame can be, whatever the state.
FrameOK(x) ==
  /\ x.pc \in LoopPC => x.loop # None
  /\ x.pc = "destroying" => x.loop = None
  /\ x.source # None => x.pc \in WithSource \cup {"prepareNext", "checkNext"}
  /\ x.pc \in WithSource => x.source # None
  /\ x.pc \in Scanning => x.n_ready \/ x.max_priority = MaxInt
  /\ x.pc \notin Scanning \cup Checking => ~x.n_ready /\ x.max_priority = MaxInt
  /\ x.pc \in Scanning /\ x.n_ready => x.timeout = 0
  /\ x.pc = "poll" /\ ~x.n_ready => Wake \in x.fds
  /\ x.timeout \in Nat \cup {Infinite}

\* Every frame under the top is in a callback.
StackOK ==
  \A t \in Threads : \A d \in 1..Len(stack[t]) :
    /\ FrameOK(stack[t][d])
    /\ d < Len(stack[t]) => stack[t][d].pc = "callback"

\* The frames that hold the context, for an iteration or for a loop.
IterFrames == {x \in Frame : x.pc \in Iterating}
LoopFrames == {x \in Frame : x.loop # None /\ x.pc \notin {"loopWait", "loopAsleep"}}

\* One thread holds the context, once for every such frame.
OwnerOK ==
  /\ \A t \in Threads : \A d \in 1..Len(stack[t]) :
       stack[t][d] \in IterFrames \cup LoopFrames => t = owner
  /\ owner_count = Count(IterFrames) + Count(LoopFrames)

\* A thread asleep waits for the ownership, and its loop has not been quit.
SleepOK ==
  \A t \in asleep :
    \/ At(t, "asleep")
    \/ At(t, "loopAsleep") /\ is_running[Top(t).loop]

\* The attached sources with the priority of s.
SamePriority(s) == {x \in attached : Priority[x] = Priority[s]}

\* The places of the sources of one priority are distinct, without gaps above.
PlaceOK ==
  \A s \in attached :
    /\ place[s] < Cardinality(SamePriority(s))
    /\ \A x \in SamePriority(s) : place[x] = place[s] => x = s

\* A source that a frame or an entry names is attached.
SourceOK ==
  /\ \A t \in Threads : \A d \in 1..Len(stack[t]) :
       stack[t][d].source # None => stack[t][d].source \in attached
  /\ \A k \in DOMAIN pending_dispatches :
       pending_dispatches[k] # None => pending_dispatches[k] \in attached
  /\ \A s \in Sources \ attached : ~Blocked(s)

\* The clock is bounded and no source has a negative time.
TimeOK ==
  /\ now <= MaxTime
  /\ \A s \in Sources : ready_time[s] \in Nat \cup {Infinite}

\* The frames that destroy, use or call s, and the entries that hold s.
Destroyers(s) == {x \in Frame : x.source = s /\ x.pc \in {"destroying", "needDestroy"}}
Users(s) == {x \in Frame : x.source = s /\ x.pc # "destroying"}
Callers(s) == {x \in Frame : x.source = s /\ x.pc = "callback"}
Queued(s) == Cardinality({k \in DOMAIN pending_dispatches : pending_dispatches[k] = s})

\* One frame at most destroys a source, once its ACTIVE flag is cleared.
DestroyOK ==
  \A s \in Sources : Count(Destroyers(s)) <= Bit(~Active(s))

\* The references to s that the application, the list, a destroyer, the entries
\* and the frames hold.
RefSum(s) ==
  Bit(s \in app_ref) + Bit(s \in attached /\ Active(s)) + Count(Destroyers(s))
    + Queued(s) + Count(Users(s))

\* No reference is missing; none is left over if no callback calls
\* xmain_context_pending.
RefsOK ==
  \A s \in Sources :
    ref_count[s] >= RefSum(s) /\ (MayPend = 0 => ref_count[s] = RefSum(s))

\* How many entries of pending_dispatches the innermost dispatch of t has taken.
Taken(t) ==
  LET n == Len(stack[t])
  IN  IF n = 0 THEN 0
      ELSE IF Top(t).pc \in Section THEN Top(t).i
      ELSE IF Top(t).pc \in Filling \/ n = 1 THEN 0
      ELSE stack[t][n - 1].i

\* An entry is cleared when it is taken.
EntryOK(k, t) ==
  /\ pending_dispatches[k] = None => k <= Taken(t)
  /\ MayPend = 0 /\ k <= Taken(t) => pending_dispatches[k] = None

\* Only the owner takes entries, in their order.
EntriesOK ==
  \A k \in DOMAIN pending_dispatches :
    /\ pending_dispatches[k] = None => owner # None
    /\ \A t \in Threads : t = owner => EntryOK(k, t)

\* Without xmain_context_pending in a callback, a nested iteration dispatches
\* what it has queued before it releases the context.
NestedOK ==
  MayPend = 0 =>
    \A t \in Threads :
      /\ \A d \in 2 .. Len(stack[t]) : stack[t][d].dispatch
      /\ Len(stack[t]) >= 2 /\ Top(t).pc = "release" => pending_dispatches = <<>>

\* A source is queued once.
DistinctOK ==
  \A k, l \in DOMAIN pending_dispatches :
    pending_dispatches[k] = pending_dispatches[l] => k = l \/ pending_dispatches[k] = None

\* Frame x has queued what its check has passed.
QueueFrameOK(x) ==
  /\ \/ x.pc \in Scanning \cup {"check"}
     \/ x.pc = "checkNext" /\ x.source = None
     => pending_dispatches = <<>>
  /\ x.pc \in {"checkNext", "inCheck"} =>
       \A k \in DOMAIN pending_dispatches :
         \/ pending_dispatches[k] = x.source /\ x.pc = "checkNext"
         \/ Before(pending_dispatches[k], x.source)

\* What the check of the owner has queued comes before where it stands.
QueueOK == \A t \in Threads : stack[t] # <<>> => QueueFrameOK(Top(t))

\* A source that may not be called.
Held(s) == Active(s) /\ Blocked(s)

\* A source that cannot recurse is in one callback, for which it is blocked, and
\* a blocked source is neither queued nor checked.
CallsOK ==
  /\ \A s \in Sources \ CanRecurse :
       /\ Count(Callers(s)) <= 1
       /\ Active(s) => (Blocked(s) <=> Count(Callers(s)) = 1)
  /\ \A k \in DOMAIN pending_dispatches :
       pending_dispatches[k] # None => ~Held(pending_dispatches[k])
  /\ \A t \in Threads : At(t, "inCheck") => ~Held(Top(t).source)

\* The poll records are those of the attached sources that are not blocked,
\* until their destruction ends.
PollOK ==
  poll_records = {s \in attached \cap HasFd :
                    ~Blocked(s) /\ (Active(s) \/ Count(Destroyers(s)) > 0)}

\* The sources that the scan of a frame has seen.
Seen(x, s) ==
  \/ x.pc \in {"query", "poll"}
  \/ x.source # None /\ Before(s, x.source)
  \/ x.pc = "prepareNext" /\ x.source = s

\* What the scan of frame x knows of a source it has seen and found not ready.
Harmless(x, s) ==
  /\ s \notin Idle /\ ~Ready(s)
  /\ IF x.pc = "poll"
     THEN (s \in HasFd => s \in x.fds) /\ (ready_time[s] # Infinite
         => x.deadline # Infinite)
     ELSE ready_time[s] # Infinite => x.timeout # Infinite

\* A scan that may block has missed nothing: what it has passed is harmless
\* unless the wakeup is signalled.
ScanFrameOK(x) ==
  /\ x.pc = "poll" /\ x.n_ready => x.deadline \in 0..now
  /\ /\ x.pc \in Scanning /\ ~wakeup /\ ~x.n_ready
     /\ x.pc = "poll" => x.deadline \notin 0..now
     => \A s \in attached : Visible(s) /\ Seen(x, s) => Harmless(x, s)

\* The scans of the threads miss nothing.
ScanOK == \A t \in Threads : stack[t] # <<>> => ScanFrameOK(Top(t))

\* A loop that is about to block still runs, or the wakeup is signalled.
RunFrameOK(x) ==
  x.loop # None /\ x.pc \in Scanning \cup {"acquire", "wait", "asleep", "prepare"}
    => is_running[x.loop] \/ wakeup

\* The loops of the threads are woken when they are quit.
RunOK == \A t \in Threads : stack[t] # <<>> => RunFrameOK(Top(t))

\* The inductive invariant.
Inv ==
  /\ TypeOK /\ StackOK /\ OwnerOK /\ SleepOK /\ PlaceOK /\ SourceOK /\ TimeOK
  /\ DestroyOK /\ RefsOK /\ EntriesOK /\ NestedOK /\ DistinctOK /\ QueueOK
  /\ CallsOK /\ PollOK /\ ScanOK /\ RunOK
-----------------------------------------------------------------------------
(***************************************************************************)
(* The stack of a thread moves: its top frame is replaced, a frame is      *)
(* pushed, or the top frame is popped.                                     *)
(***************************************************************************)
Stacks == [Threads -> Seq(Frame)]

\* Stands for the old frame of a push and the new frame of a pop.
Gone == [NewFrame("acquire") EXCEPT !.pc = "gone"]

\* Thread t goes from frame old to frame new, and the others stay.
Move(t, old, new) ==
  /\ stack' \in Stacks
  /\ \A u \in Threads \ {t} : stack'[u] = stack[u]
  /\ \A d \in 1 .. Len(stack'[t]) :
       \/ stack'[t][d] = new
       \/ d \in 1 .. Len(stack[t]) /\ stack'[t][d] = stack[t][d]
  /\ \A d \in 1 .. Len(stack'[t]) : d < Len(stack'[t]) => stack'[t][d].pc = "callback"
  /\ stack'[t] = <<>> \/ Top(t)' = new \/ Top(t)'.pc = "callback"
  /\ \A K \in SUBSET Frame : Count(K)' = Count(K) + Bit(new \in K) - Bit(old \in K)

\* The frames are finitely many.
LEMMA FramesFinite ==
  ASSUME stack \in Stacks
  PROVE  IsFiniteSet(Frames)
<1> DEFINE D(t) == {<<t, d>> : d \in 1 .. Len(stack[t])}
           f == [t \in Threads |-> D(t)]
           S == {D(t) : t \in Threads}
<1>1. IsFiniteSet(S)
  <2>1. f \in Surjection(Threads, S)
    BY DEF Surjection
  <2> QED BY <2>1, FS_Surjection, GMainContextAssumption DEF GMainContextAssumption
<1>2. ASSUME NEW t \in Threads PROVE IsFiniteSet(D(t))
  <2> DEFINE h == [d \in 1 .. Len(stack[t]) |-> <<t, d>>]
  <2>1. h \in Surjection(1 .. Len(stack[t]), D(t))
    BY DEF Surjection
  <2>2. Len(stack[t]) \in Nat
    BY DEF Stacks
  <2>3. IsFiniteSet(1 .. Len(stack[t]))
    BY <2>2, FS_Interval
  <2> QED BY <2>1, <2>3, FS_Surjection
<1>3. \A T \in S : IsFiniteSet(T)
  BY <1>2
<1>4. IsFiniteSet(UNION S)
  BY <1>1, <1>3, FS_UNION
<1> QED BY <1>4 DEF Frames

\* Places and their frames.
LEMMA InFrames ==
  ASSUME NEW f
  PROVE  f \in Frames <=> \E t \in Threads : \E d \in 1 .. Len(stack[t]) : f = <<t, d>>
  BY DEF Frames

\* A count is a natural number.
LEMMA CountNat ==
  ASSUME stack \in Stacks, NEW K
  PROVE  IsFiniteSet({f \in Frames : FrameAt(f) \in K}) /\ Count(K) \in Nat
  BY FramesFinite, FS_Subset, FS_CardinalityType DEF Count

\* A frame of the set is counted.
LEMMA CountPositive ==
  ASSUME stack \in Stacks, NEW K, NEW t \in Threads, NEW d \in 1 .. Len(stack[t]),
         stack[t][d] \in K
  PROVE  Count(K) >= 1
<1> DEFINE F == {f \in Frames : FrameAt(f) \in K}
<1>1. <<t, d>> \in F
  BY InFrames DEF FrameAt
<1>2. IsFiniteSet(F) /\ Cardinality(F) \in Nat
  BY CountNat DEF Count
<1>3. Cardinality(F) # 0
  BY <1>1, <1>2, FS_EmptySet
<1> QED BY <1>2, <1>3 DEF Count

\* A set that is counted has a frame.
LEMMA CountWitness ==
  ASSUME stack \in Stacks, NEW K, Count(K) # 0
  PROVE  \E t \in Threads : \E d \in 1 .. Len(stack[t]) : stack[t][d] \in K
<1> DEFINE F == {f \in Frames : FrameAt(f) \in K}
<1>1. F # {}
  BY FS_EmptySet DEF Count
<1> QED BY <1>1, InFrames DEF FrameAt

\* One place p is the only one whose membership may differ.
LEMMA CountOther ==
  ASSUME NEW A, IsFiniteSet(A), NEW B, NEW p, A \ {p} = B \ {p}
  PROVE  Cardinality(B) = Cardinality(A) + Bit(p \in B) - Bit(p \in A)
<1> DEFINE R == A \ {p}
<1>1. IsFiniteSet(R) /\ Cardinality(R) \in Nat /\ p \notin R
  BY FS_RemoveElement, FS_CardinalityType
<1>2. Cardinality(R \cup {p}) = Cardinality(R) + 1
  BY <1>1, FS_AddElement
<1>3. Cardinality(A) = Cardinality(R) + Bit(p \in A)
  <2>1. CASE p \in A
    <3>1. A = R \cup {p} /\ Bit(p \in A) = 1
      BY <2>1 DEF Bit
    <3> QED BY <1>1, <1>2, <3>1
  <2>2. CASE p \notin A
    <3>1. A = R /\ Bit(p \in A) = 0
      BY <2>2 DEF Bit
    <3> QED BY <1>1, <3>1
  <2> QED BY <2>1, <2>2
<1>4. Cardinality(B) = Cardinality(R) + Bit(p \in B)
  <2>1. CASE p \in B
    <3>1. B = R \cup {p} /\ Bit(p \in B) = 1
      BY <2>1 DEF Bit
    <3> QED BY <1>1, <1>2, <3>1
  <2>2. CASE p \notin B
    <3>1. B = R /\ Bit(p \in B) = 0
      BY <2>2 DEF Bit
    <3> QED BY <1>1, <3>1
  <2> QED BY <2>1, <2>2
<1> QED BY <1>1, <1>3, <1>4 DEF Bit

\* The top frame is replaced.
Replaces(t, g) ==
  /\ stack' \in Stacks
  /\ \A u \in Threads \ {t} : stack'[u] = stack[u]
  /\ stack'[t] # <<>> /\ Len(stack'[t]) = Len(stack[t]) /\ Top(t)' = g
  /\ \A d \in 1 .. Len(stack[t]) - 1 : stack'[t][d] = stack[t][d]

\* A frame is pushed.
Pushes(t, g) ==
  /\ stack' \in Stacks
  /\ \A u \in Threads \ {t} : stack'[u] = stack[u]
  /\ stack'[t] # <<>> /\ Len(stack'[t]) = Len(stack[t]) + 1 /\ Top(t)' = g
  /\ \A d \in 1 .. Len(stack[t]) : stack'[t][d] = stack[t][d]

\* The top frame is popped.
Pops(t) ==
  /\ stack' \in Stacks
  /\ \A u \in Threads \ {t} : stack'[u] = stack[u]
  /\ Len(stack'[t]) = Len(stack[t]) - 1
  /\ \A d \in 1 .. Len(stack[t]) - 1 : stack'[t][d] = stack[t][d]

\* The top of a stack is its last frame.
LEMMA TopFrame ==
  ASSUME stack \in Stacks, NEW t \in Threads, stack[t] # <<>>
  PROVE  /\ Len(stack[t]) \in Nat /\ Len(stack[t]) \in 1 .. Len(stack[t])
         /\ Top(t) \in Frame /\ Top(t) = stack[t][Len(stack[t])]
<1>1. stack[t] \in Seq(Frame)
  BY DEF Stacks
<1>2. Len(stack[t]) \in Nat /\ Len(stack[t]) # 0
  BY <1>1, EmptySeq
<1> QED BY <1>1, <1>2, ElementOfSeq DEF Top

\* SetTop replaces the top frame.
LEMMA SetTopReplaces ==
  ASSUME stack \in Stacks, NEW t \in Threads, stack[t] # <<>>, NEW g \in Frame,
         SetTop(t, g)
  PROVE  Replaces(t, g)
<1> DEFINE n == Len(stack[t])
           q == [stack[t] EXCEPT ![n] = g]
<1>1. stack[t] \in Seq(Frame) /\ n \in Nat /\ n \in 1 .. n
  BY TopFrame DEF Stacks
<1>2. /\ q \in Seq(Frame) /\ Len(q) = n /\ q[n] = g
      /\ \A d \in 1 .. n - 1 : q[d] = stack[t][d]
  BY <1>1, ExceptSeq
<1>3. stack' = [stack EXCEPT ![t] = q]
  BY DEF SetTop
<1>4. stack'[t] = q /\ stack' \in Stacks /\ \A u \in Threads \ {t} : stack'[u] = stack[u]
  BY <1>2, <1>3 DEF Stacks
<1>5. q # <<>>
  BY <1>1, <1>2, EmptySeq
<1> QED BY <1>2, <1>4, <1>5 DEF Replaces, Top

\* Push adds a frame.
LEMMA PushPushes ==
  ASSUME stack \in Stacks, NEW t \in Threads, NEW g \in Frame, Push(t, g)
  PROVE  Pushes(t, g)
<1> DEFINE n == Len(stack[t])
           q == Append(stack[t], g)
<1>1. stack[t] \in Seq(Frame) /\ n \in Nat
  BY DEF Stacks
<1>2. /\ q \in Seq(Frame) /\ Len(q) = n + 1 /\ q[n + 1] = g
      /\ \A d \in 1 .. n : q[d] = stack[t][d]
  BY <1>1, AppendProperties
<1>3. stack' = [stack EXCEPT ![t] = q]
  BY DEF Push
<1>4. stack'[t] = q /\ stack' \in Stacks /\ \A u \in Threads \ {t} : stack'[u] = stack[u]
  BY <1>2, <1>3 DEF Stacks
<1>5. Len(q) # 0
  BY <1>1, <1>2
<1>6. q # <<>>
  BY <1>5, EmptySeq
<1> QED BY <1>2, <1>4, <1>6 DEF Pushes, Top

\* Pop removes the top frame.
LEMMA PopPops ==
  ASSUME stack \in Stacks, NEW t \in Threads, stack[t] # <<>>, Pop(t)
  PROVE  Pops(t)
<1> DEFINE n == Len(stack[t])
           q == SubSeq(stack[t], 1, n - 1)
<1>1. stack[t] \in Seq(Frame) /\ n \in Nat /\ n \in 1 .. n
  BY TopFrame DEF Stacks
<1>2. /\ q \in Seq(Frame) /\ Len(q) = n - 1
      /\ \A d \in 1 .. n - 1 : q[d] = stack[t][d]
  BY <1>1, SubSeqProperties
<1>3. stack' = [stack EXCEPT ![t] = q]
  BY DEF Pop
<1>4. stack'[t] = q /\ stack' \in Stacks /\ \A u \in Threads \ {t} : stack'[u] = stack[u]
  BY <1>2, <1>3 DEF Stacks
<1> QED BY <1>2, <1>4 DEF Pops

\* The frame that stands for none is not a frame.
LEMMA GoneFacts ==
  /\ Gone \notin Frame /\ Gone.pc = "gone" /\ Gone.source = None /\ Gone.loop = None
  /\ FrameOK(Gone)
<1>1. Gone.pc = "gone" /\ Gone.source = None /\ Gone.loop = None
  BY DEF Gone, NewFrame
<1>2. \A x \in Frame : x.pc \in PC
  BY DEF Frame
<1>3. "gone" \notin PC
  BY DEF PC
<1>4. FrameOK(Gone)
  BY <1>1 DEF Gone, NewFrame, FrameOK, LoopPC, WithSource, Scanning, Checking
<1> QED BY <1>1, <1>2, <1>3, <1>4

\* A replaced top frame is a move.
LEMMA ReplaceMoves ==
  ASSUME stack \in Stacks, StackOK, NEW t \in Threads, stack[t] # <<>>,
         NEW g \in Frame,
         Replaces(t, g)
  PROVE  Move(t, Top(t), g)
<1> DEFINE n == Len(stack[t])
<1>1. n \in Nat /\ n \in 1 .. n /\ Top(t) = stack[t][n] /\ Top(t) \in Frame
  BY TopFrame
<1>2. stack'[t][n] = g /\ Len(stack'[t]) = n
  BY DEF Replaces, Top
<1>3. ASSUME NEW K \in SUBSET Frame
      PROVE  Count(K)' = Count(K) + Bit(g \in K) - Bit(Top(t) \in K)
  <2> DEFINE A == {f \in Frames : FrameAt(f) \in K}
             B == {f \in Frames' : FrameAt(f)' \in K}
  <2>1. PICK p : p = <<t, n>>
    OBVIOUS
  <2>2. IsFiniteSet(A)
    BY CountNat
  <2>3. Frames' = Frames
    BY DEF Frames, Replaces
  <2>4. ASSUME NEW f \in Frames, f # p
        PROVE  FrameAt(f)' = FrameAt(f)
    <3>1. PICK u \in Threads : \E d \in 1 .. Len(stack[u]) : f = <<u, d>>
      BY InFrames
    <3>2. PICK d \in 1 .. Len(stack[u]) : f = <<u, d>>
      BY <3>1
    <3>3. CASE u = t
      <4>1. d \in 1 .. n - 1
        BY <1>1, <2>1, <2>4, <3>2, <3>3
      <4> QED BY <3>2, <3>3, <4>1 DEF FrameAt, Replaces
    <3>4. CASE u # t
      BY <3>2, <3>4 DEF FrameAt, Replaces
    <3> QED BY <3>3, <3>4
  <2>5. A \ {p} = B \ {p}
    BY <2>3, <2>4
  <2>6. p \in Frames /\ FrameAt(p) = Top(t) /\ FrameAt(p)' = g
    BY <1>1, <1>2, <2>1, InFrames DEF FrameAt
  <2>7. (p \in A <=> Top(t) \in K) /\ (p \in B <=> g \in K)
    BY <2>3, <2>6
  <2>8. Cardinality(B) = Cardinality(A) + Bit(p \in B) - Bit(p \in A)
    BY <2>2, <2>5, CountOther
  <2>9. Bit(p \in A) = Bit(Top(t) \in K) /\ Bit(p \in B) = Bit(g \in K)
    BY <2>7 DEF Bit
  <2> QED BY <2>8, <2>9 DEF Count
<1>4. \A d \in 1 .. Len(stack'[t]) :
        \/ stack'[t][d] = g
        \/ d \in 1 .. n /\ stack'[t][d] = stack[t][d]
  BY <1>1, <1>2 DEF Replaces
<1>5. \A d \in 1 .. Len(stack'[t]) : d < Len(stack'[t]) => stack'[t][d].pc = "callback"
  <2> SUFFICES ASSUME NEW d \in 1 .. n, d < n
               PROVE  stack'[t][d].pc = "callback"
    BY <1>2
  <2>1. d \in 1 .. n - 1
    BY <1>1
  <2> QED BY <2>1 DEF Replaces, StackOK
<1> QED BY <1>3, <1>4, <1>5 DEF Move, Replaces

\* A pushed frame is a move from no frame.
LEMMA PushMoves ==
  ASSUME stack \in Stacks, StackOK, NEW t \in Threads, InApplication(t),
         NEW g \in Frame,
         Pushes(t, g)
  PROVE  Move(t, Gone, g)
<1> DEFINE n == Len(stack[t])
<1>1. n \in Nat /\ (stack[t] # <<>>
          => n \in 1 .. n /\ Top(t) = stack[t][n]) /\ n + 1 \in 1 .. n + 1
  BY TopFrame DEF Stacks
<1>2. stack'[t][n + 1] = g /\ Len(stack'[t]) = n + 1
  BY DEF Pushes, Top
<1>3. ASSUME NEW K \in SUBSET Frame
      PROVE  Count(K)' = Count(K) + Bit(g \in K) - Bit(Gone \in K)
  <2> DEFINE A == {f \in Frames : FrameAt(f) \in K}
             B == {f \in Frames' : FrameAt(f)' \in K}
  <2>1. PICK p : p = <<t, n + 1>>
    OBVIOUS
  <2>2. IsFiniteSet(A)
    BY CountNat
  <2>3. Frames' = Frames \cup {p}
    <3>1. \A f : f \in Frames' <=> \E u \in Threads : \E d \in 1 .. Len(stack'[u]) :
              f = <<u, d>>
      BY DEF Frames
    <3>2. \A f : f \in Frames <=> \E u \in Threads : \E d \in 1 .. Len(stack[u]) :
              f = <<u, d>>
      BY InFrames
    <3>3. \A u \in Threads \ {t} : stack'[u] = stack[u]
      BY DEF Pushes
    <3>4. \A d : d \in 1 .. Len(stack'[t]) <=> d \in 1 .. n \/ d = n + 1
      BY <1>1, <1>2
    <3> QED BY <2>1, <3>1, <3>2, <3>3, <3>4
  <2>4. ASSUME NEW f \in Frames
        PROVE  FrameAt(f)' = FrameAt(f) /\ f # p
    <3>1. PICK u \in Threads : \E d \in 1 .. Len(stack[u]) : f = <<u, d>>
      BY InFrames
    <3>2. PICK d \in 1 .. Len(stack[u]) : f = <<u, d>>
      BY <3>1
    <3>3. CASE u = t
      BY <1>1, <2>1, <3>2, <3>3 DEF FrameAt, Pushes
    <3>4. CASE u # t
      BY <2>1, <3>2, <3>4 DEF FrameAt, Pushes
    <3> QED BY <3>3, <3>4
  <2>5. A \ {p} = B \ {p}
    BY <2>3, <2>4
  <2>6. p \notin Frames /\ p \in Frames'
    BY <2>3, <2>4
  <2>7. FrameAt(p)' = g
    BY <1>2, <2>1 DEF FrameAt
  <2>8. p \notin A /\ (p \in B <=> g \in K) /\ Gone \notin K
    BY <2>6, <2>7, GoneFacts
  <2>9. Cardinality(B) = Cardinality(A) + Bit(p \in B) - Bit(p \in A)
    BY <2>2, <2>5, CountOther
  <2>10. Bit(p \in A) = Bit(Gone \in K) /\ Bit(p \in B) = Bit(g \in K)
    BY <2>8 DEF Bit
  <2> QED BY <2>9, <2>10 DEF Count
<1>4. \A d \in 1 .. Len(stack'[t]) :
        \/ stack'[t][d] = g
        \/ d \in 1 .. n /\ stack'[t][d] = stack[t][d]
  BY <1>1, <1>2 DEF Pushes
<1>5. \A d \in 1 .. Len(stack'[t]) : d < Len(stack'[t]) => stack'[t][d].pc = "callback"
  <2> SUFFICES ASSUME NEW d \in 1 .. n
               PROVE  stack[t][d].pc = "callback"
    BY <1>1, <1>2 DEF Pushes
  <2>1. stack[t] # <<>>
    BY <1>1, EmptySeq
  <2>2. stack[t][n].pc = "callback"
    BY <1>1, <2>1 DEF InApplication, At
  <2>3. d < n \/ d = n
    BY <1>1
  <2> QED BY <2>2, <2>3 DEF StackOK
<1> QED BY <1>3, <1>4, <1>5 DEF Move, Pushes

\* A popped frame is a move to no frame.
LEMMA PopMoves ==
  ASSUME stack \in Stacks, StackOK, NEW t \in Threads, stack[t] # <<>>, Pops(t)
  PROVE  Move(t, Top(t), Gone)
<1> DEFINE n == Len(stack[t])
<1>1. n \in Nat /\ n \in 1 .. n /\ Top(t) = stack[t][n] /\ Top(t) \in Frame
  BY TopFrame
<1>2. Len(stack'[t]) = n - 1 /\ stack'[t] \in Seq(Frame)
  BY DEF Pops, Stacks
<1>3. ASSUME NEW K \in SUBSET Frame
      PROVE  Count(K)' = Count(K) + Bit(Gone \in K) - Bit(Top(t) \in K)
  <2> DEFINE A == {f \in Frames : FrameAt(f) \in K}
             B == {f \in Frames' : FrameAt(f)' \in K}
  <2>1. PICK p : p = <<t, n>>
    OBVIOUS
  <2>2. IsFiniteSet(A)
    BY CountNat
  <2>3. Frames' = Frames \ {p}
    <3>1. \A f : f \in Frames' <=> \E u \in Threads : \E d \in 1 .. Len(stack'[u]) :
              f = <<u, d>>
      BY DEF Frames
    <3>2. \A f : f \in Frames <=> \E u \in Threads : \E d \in 1 .. Len(stack[u]) :
              f = <<u, d>>
      BY InFrames
    <3>3. \A u \in Threads \ {t} : stack'[u] = stack[u]
      BY DEF Pops
    <3>4. \A d : d \in 1 .. Len(stack'[t]) <=> d \in 1 .. n /\ d # n
      BY <1>1, <1>2
    <3> QED BY <2>1, <3>1, <3>2, <3>3, <3>4
  <2>4. ASSUME NEW f \in Frames, f # p
        PROVE  FrameAt(f)' = FrameAt(f)
    <3>1. PICK u \in Threads : \E d \in 1 .. Len(stack[u]) : f = <<u, d>>
      BY InFrames
    <3>2. PICK d \in 1 .. Len(stack[u]) : f = <<u, d>>
      BY <3>1
    <3>3. CASE u = t
      <4>1. d \in 1 .. n - 1
        BY <1>1, <2>1, <2>4, <3>2, <3>3
      <4> QED BY <3>2, <3>3, <4>1 DEF FrameAt, Pops
    <3>4. CASE u # t
      BY <3>2, <3>4 DEF FrameAt, Pops
    <3> QED BY <3>3, <3>4
  <2>5. A \ {p} = B \ {p}
    BY <2>3, <2>4
  <2>6. p \in Frames /\ FrameAt(p) = Top(t)
    BY <1>1, <2>1, InFrames DEF FrameAt
  <2>7. (p \in A <=> Top(t) \in K) /\ p \notin B /\ Gone \notin K
    BY <2>3, <2>6, GoneFacts
  <2>8. Cardinality(B) = Cardinality(A) + Bit(p \in B) - Bit(p \in A)
    BY <2>2, <2>5, CountOther
  <2>9. Bit(p \in A) = Bit(Top(t) \in K) /\ Bit(p \in B) = Bit(Gone \in K)
    BY <2>7 DEF Bit
  <2> QED BY <2>8, <2>9 DEF Count
<1>4. \A d \in 1 .. Len(stack'[t]) :
        d \in 1 .. n /\ d < n /\ stack'[t][d] = stack[t][d]
            /\ stack'[t][d].pc = "callback"
  BY <1>1, <1>2 DEF Pops, StackOK
<1>5. stack'[t] = <<>> \/ Top(t)'.pc = "callback"
  <2>1. CASE n - 1 = 0
    BY <1>2, <2>1, EmptySeq
  <2>2. CASE n - 1 # 0
    <3>1. n \in Nat /\ n \in 1 .. n /\ n - 1 # 0
      BY <1>1, <2>2
    <3>2. n - 1 \in 1 .. n - 1
      <4> HIDE DEF n
      <4> QED BY <3>1
    <3>3. n - 1 \in 1 .. Len(stack'[t])
      BY <1>2, <3>2
    <3> QED BY <1>2, <1>4, <3>3 DEF Top
  <2> QED BY <2>1, <2>2
<1> QED BY <1>3, <1>4, <1>5 DEF Move, Pops

\* Thread t calls a function that leaves the stacks alone.
LEMMA StayMoves ==
  ASSUME stack \in Stacks, StackOK, NEW t \in Threads, InApplication(t),
         UNCHANGED stack
  PROVE  Move(t, Gone, Gone)
<1>1. ASSUME NEW K \in SUBSET Frame
      PROVE  Count(K)' = Count(K) + Bit(Gone \in K) - Bit(Gone \in K)
  <2>1. Count(K)' = Count(K)
    BY DEF Count, Frames, FrameAt
  <2>2. Count(K) \in Nat
    BY CountNat
  <2> QED BY <2>1, <2>2 DEF Bit
<1>2. \A d \in 1 .. Len(stack'[t]) : d < Len(stack'[t]) => stack'[t][d].pc = "callback"
  BY DEF StackOK
<1>3. stack'[t] = <<>> \/ Top(t)'.pc = "callback"
  BY DEF InApplication, At, Top
<1> QED BY <1>1, <1>2, <1>3 DEF Move

-----------------------------------------------------------------------------
(***************************************************************************)
(* What a move does to the counts, and the parts of the invariant that     *)
(* only depend on it.                                                      *)
(***************************************************************************)
Shape == Frame \cup {Gone}
IsUser(x, s) == x.source = s /\ x.pc # "destroying"
IsDestroyer(x, s) == x.source = s /\ x.pc \in {"destroying", "needDestroy"}
IsCaller(x, s) == x.source = s /\ x.pc = "callback"
Iterates(x) == x.pc \in Iterating
HoldsLoop(x) == x.loop # None /\ x.pc \notin {"loopWait", "loopAsleep"}
Weight(x) == Bit(Iterates(x)) + Bit(HoldsLoop(x))

\* The sets of frames by what a frame shows.
LEMMA ShapeMember ==
  ASSUME NEW x \in Shape, NEW s \in Sources
  PROVE  /\ x \in Users(s) <=> IsUser(x, s)
         /\ x \in Destroyers(s) <=> IsDestroyer(x, s)
         /\ x \in Callers(s) <=> IsCaller(x, s)
<1>1. None # s
  BY GMainContextAssumption DEF GMainContextAssumption
<1>2. CASE x \in Frame
  BY <1>2 DEF Users, Destroyers, Callers, IsUser, IsDestroyer, IsCaller
<1>3. CASE x = Gone
  BY <1>1, <1>3, GoneFacts
     DEF Users, Destroyers, Callers, IsUser, IsDestroyer, IsCaller
<1> QED BY <1>2, <1>3 DEF Shape

\* The sets of frames that hold the context by what a frame shows.
LEMMA ShapeOwner ==
  ASSUME NEW x \in Shape
  PROVE  (x \in IterFrames <=> Iterates(x)) /\ (x \in LoopFrames <=> HoldsLoop(x))
<1>1. CASE x \in Frame
  BY <1>1 DEF IterFrames, LoopFrames, Iterates, HoldsLoop
<1>2. CASE x = Gone
  BY <1>2, GoneFacts DEF IterFrames, LoopFrames, Iterates, HoldsLoop, Iterating
<1> QED BY <1>1, <1>2 DEF Shape

\* What a move does to the counts of a source.
LEMMA CountsMove ==
  ASSUME NEW t, NEW old \in Shape, NEW new \in Shape, Move(t, old, new),
         NEW s \in Sources
  PROVE  /\ Count(Users(s))' = Count(Users(s)) + Bit(IsUser(new, s)) - Bit(IsUser(old, s))
         /\ Count(Destroyers(s))'
              = Count(Destroyers(s)) + Bit(IsDestroyer(new, s)) - Bit(IsDestroyer(old, s))
         /\ Count(Callers(s))' = Count(Callers(s))
                + Bit(IsCaller(new, s)) - Bit(IsCaller(old, s))
<1>1. Users(s) \in SUBSET Frame /\ Destroyers(s) \in SUBSET Frame
          /\ Callers(s) \in SUBSET Frame
  BY DEF Users, Destroyers, Callers
<1>2. \A K \in SUBSET Frame : Count(K)' = Count(K) + Bit(new \in K) - Bit(old \in K)
  BY DEF Move
<1>3. /\ Bit(new \in Users(s)) = Bit(IsUser(new, s))
      /\ Bit(old \in Users(s)) = Bit(IsUser(old, s))
      /\ Bit(new \in Destroyers(s)) = Bit(IsDestroyer(new, s))
      /\ Bit(old \in Destroyers(s)) = Bit(IsDestroyer(old, s))
      /\ Bit(new \in Callers(s)) = Bit(IsCaller(new, s))
      /\ Bit(old \in Callers(s)) = Bit(IsCaller(old, s))
  BY ShapeMember DEF Bit
<1>4. Count(Users(s))' = Count(Users(s)) + Bit(IsUser(new, s)) - Bit(IsUser(old, s))
  BY <1>1, <1>2, <1>3
<1>5. Count(Destroyers(s))'
              = Count(Destroyers(s)) + Bit(IsDestroyer(new, s)) - Bit(IsDestroyer(old, s))
  BY <1>1, <1>2, <1>3
<1>6. Count(Callers(s))' = Count(Callers(s))
          + Bit(IsCaller(new, s)) - Bit(IsCaller(old, s))
  BY <1>1, <1>2, <1>3
<1> QED BY <1>4, <1>5, <1>6

\* The counts of the frames that destroy or call a source move from old to new.
CountsMoved(old, new) ==
  \A s \in Sources :
    /\ Count(Destroyers(s))'
         = Count(Destroyers(s)) + Bit(IsDestroyer(new, s)) - Bit(IsDestroyer(old, s))
    /\ Count(Callers(s))'
         = Count(Callers(s)) + Bit(IsCaller(new, s)) - Bit(IsCaller(old, s))

\* A move does that.
LEMMA CountsMoves ==
  ASSUME NEW t, NEW old \in Shape, NEW new \in Shape, Move(t, old, new)
  PROVE  CountsMoved(old, new)
  BY CountsMove DEF CountsMoved

\* What a move does to the number of frames that hold the context.
LEMMA OwnerCounts ==
  ASSUME NEW t, NEW old \in Shape, NEW new \in Shape, Move(t, old, new),
         stack \in Stacks
  PROVE  /\ Count(IterFrames) \in Nat /\ Count(LoopFrames) \in Nat
         /\ Count(IterFrames)' \in Nat /\ Count(LoopFrames)' \in Nat
         /\ Count(IterFrames)' + Count(LoopFrames)'
              = Count(IterFrames) + Count(LoopFrames) + Weight(new) - Weight(old)
<1>1. IterFrames \in SUBSET Frame /\ LoopFrames \in SUBSET Frame
  BY DEF IterFrames, LoopFrames
<1>2. \A K \in SUBSET Frame : Count(K)' = Count(K) + Bit(new \in K) - Bit(old \in K)
  BY DEF Move
<1>3. /\ Bit(new \in IterFrames) = Bit(Iterates(new))
      /\ Bit(old \in IterFrames) = Bit(Iterates(old))
      /\ Bit(new \in LoopFrames) = Bit(HoldsLoop(new))
      /\ Bit(old \in LoopFrames) = Bit(HoldsLoop(old))
  BY ShapeOwner DEF Bit
<1>4. \A K : Count(K) \in Nat
  BY CountNat
<1>5. ASSUME NEW K PROVE Count(K)' \in Nat
  <2>1. stack' \in Stacks
    BY DEF Move
  <2>2. (stack \in Stacks => Count(K) \in Nat)'
    BY CountNat, PTL
  <2> QED BY <2>1, <2>2 DEF Stacks
<1>6. Count(IterFrames)' = Count(IterFrames) + Bit(Iterates(new)) - Bit(Iterates(old))
  BY <1>1, <1>2, <1>3
<1>7. Count(LoopFrames)' = Count(LoopFrames) + Bit(HoldsLoop(new)) - Bit(HoldsLoop(old))
  BY <1>1, <1>2, <1>3
<1> QED BY <1>4, <1>5, <1>6, <1>7 DEF Weight, Bit

\* A set of frames with a frame on some stack has a count of at least one.
CountsIn(K) ==
  stack \in Stacks =>
    \A t \in Threads : \A d \in 1 .. Len(stack[t]) : stack[t][d] \in K => Count(K) >= 1

\* So it is for every set of frames.
LEMMA CountsAll ==
  ASSUME NEW K PROVE CountsIn(K)
  BY CountPositive DEF CountsIn

\* Where the frames and the tops are after a move.
LEMMA MoveFrames ==
  ASSUME stack \in Stacks, NEW t \in Threads, NEW old, NEW new, Move(t, old, new),
         NEW u \in Threads, NEW d \in 1 .. Len(stack'[u])
  PROVE  \/ u = t /\ stack'[u][d] = new
         \/ d \in 1 .. Len(stack[u]) /\ stack'[u][d] = stack[u][d]
<1>1. CASE u = t
  BY <1>1 DEF Move
<1>2. CASE u # t
  BY <1>2 DEF Move
<1> QED BY <1>1, <1>2

\* The tops of the stacks after a move.
LEMMA MoveTops ==
  ASSUME stack \in Stacks, NEW t \in Threads, NEW old, NEW new, Move(t, old, new),
         NEW u \in Threads, stack'[u] # <<>>
  PROVE  \/ u = t /\ Top(u)' = new
         \/ u = t /\ Top(u)'.pc = "callback"
         \/ u # t /\ Top(u)' = Top(u) /\ stack[u] # <<>> /\ stack'[u] = stack[u]
  BY DEF Move, Top

\* A move to a sound frame keeps StackOK.
LEMMA StackPart ==
  ASSUME stack \in Stacks, StackOK, NEW t \in Threads, NEW old, NEW new,
         Move(t, old, new), FrameOK(new)
  PROVE  StackOK'
<1> SUFFICES ASSUME NEW u \in Threads, NEW d \in 1 .. Len(stack'[u])
             PROVE  /\ FrameOK(stack'[u][d])
                    /\ d < Len(stack'[u]) => stack'[u][d].pc = "callback"
  BY DEF StackOK
<1>1. FrameOK(stack'[u][d])
  BY MoveFrames DEF StackOK
<1>2. d < Len(stack'[u]) => stack'[u][d].pc = "callback"
  BY DEF Move, StackOK
<1> QED BY <1>1, <1>2

\* A thread whose top frame holds the context is the owner.
LEMMA OwnerTop ==
  ASSUME stack \in Stacks, OwnerOK, NEW t \in Threads, stack[t] # <<>>,
         Weight(Top(t)) # 0
  PROVE  t = owner
<1>1. Top(t) \in Frame /\ Len(stack[t]) \in 1 .. Len(stack[t])
          /\ Top(t) = stack[t][Len(stack[t])]
  BY TopFrame
<1>2. Iterates(Top(t)) \/ HoldsLoop(Top(t))
  BY DEF Weight, Bit
<1>3. Top(t) \in IterFrames \cup LoopFrames
  BY <1>1, <1>2, ShapeOwner DEF Shape
<1> QED BY <1>1, <1>3 DEF OwnerOK

\* A step that leaves the ownership alone.
LEMMA OwnerKeep ==
  ASSUME stack \in Stacks, OwnerOK, NEW t \in Threads, NEW old \in Shape,
         NEW new \in Shape,
         Move(t, old, new), Weight(new) = Weight(old), UNCHANGED <<owner,
                                                                   owner_count>>,
         Weight(new) # 0 => t = owner
  PROVE  OwnerOK'
<1>1. ASSUME NEW u \in Threads, NEW d \in 1 .. Len(stack'[u]),
             stack'[u][d] \in IterFrames \cup LoopFrames
      PROVE  u = owner
  <2>1. CASE u = t /\ stack'[u][d] = new
    <3>1. Iterates(new) \/ HoldsLoop(new)
      BY <1>1, <2>1, ShapeOwner
    <3>2. Weight(new) # 0
      BY <3>1 DEF Weight, Bit
    <3> QED BY <2>1, <3>2
  <2>2. CASE d \in 1 .. Len(stack[u]) /\ stack'[u][d] = stack[u][d]
    BY <1>1, <2>2 DEF OwnerOK
  <2> QED BY <2>1, <2>2, MoveFrames
<1>2. owner_count' = Count(IterFrames)' + Count(LoopFrames)'
  BY OwnerCounts DEF OwnerOK, Weight, Bit
<1> QED BY <1>1, <1>2 DEF OwnerOK

\* The thread becomes the owner, or more of one.
LEMMA OwnerTake ==
  ASSUME stack \in Stacks, OwnerOK, NEW t \in Threads, NEW old \in Shape,
         NEW new \in Shape,
         Move(t, old, new), Weight(new) = Weight(old) + 1, MayOwn(t), TakeOwnership(t)
  PROVE  OwnerOK'
<1>1. ASSUME NEW u \in Threads, NEW d \in 1 .. Len(stack'[u]),
             stack'[u][d] \in IterFrames \cup LoopFrames
      PROVE  u = owner'
  <2>1. CASE u = t
    BY <2>1 DEF TakeOwnership
  <2>2. CASE u # t
    <3>1. u = owner
      BY <1>1, <2>2, MoveFrames DEF OwnerOK
    <3> QED BY <2>2, <3>1, GMainContextAssumption DEF MayOwn, GMainContextAssumption
  <2> QED BY <2>1, <2>2
<1>2. owner_count' = Count(IterFrames)' + Count(LoopFrames)'
  BY OwnerCounts DEF OwnerOK, Weight, Bit, TakeOwnership
<1> QED BY <1>1, <1>2 DEF OwnerOK

\* The thread gives one ownership back.
LEMMA OwnerDrop ==
  ASSUME stack \in Stacks, OwnerOK, NEW t \in Threads, NEW old \in Shape,
         NEW new \in Shape,
         Move(t, old, new), Weight(new) = Weight(old) - 1, t =
             owner, xmain_context_release(t)
  PROVE  OwnerOK' /\ owner_count' \in Nat /\ (owner_count = 1 => Count(IterFrames)' = 0)
<1>1. /\ owner_count' = Count(IterFrames)' + Count(LoopFrames)'
      /\ owner_count' \in Nat
      /\ Count(IterFrames)' \in Nat /\ Count(LoopFrames)' \in Nat
      /\ owner_count \in Nat /\ owner_count' = owner_count - 1
  BY OwnerCounts DEF OwnerOK, Weight, Bit, xmain_context_release
<1>2. ASSUME NEW u \in Threads, NEW d \in 1 .. Len(stack'[u]),
             stack'[u][d] \in IterFrames \cup LoopFrames
      PROVE  u = owner'
  <2>1. owner_count' # 0
    <3>1. \A K : stack' \in Stacks /\ stack'[u][d] \in K => Count(K)' >= 1
      <4>1. ASSUME NEW K PROVE (CountsIn(K))'
        BY CountsAll, PTL
      <4> QED BY <4>1 DEF Stacks, CountsIn
    <3>2. stack' \in Stacks
      BY DEF Move
    <3> QED BY <1>1, <1>2, <3>1, <3>2
  <2>2. owner' = owner
    BY <1>1, <2>1 DEF xmain_context_release
  <2>3. u = owner
    BY <1>2, MoveFrames DEF OwnerOK
  <2> QED BY <2>2, <2>3
<1>3. owner_count = 1 => Count(IterFrames)' = 0
  BY <1>1
<1> QED BY <1>1, <1>2, <1>3 DEF OwnerOK

\* A thread that runs does not sleep.
LEMMA AwakeTop ==
  ASSUME SleepOK, NEW t \in Threads,
         stack[t] = <<>> \/ Top(t).pc \notin {"asleep", "loopAsleep"}
  PROVE  t \notin asleep
  BY DEF SleepOK, At

\* A thread in the application is awake.
LEMMA AwakeApp ==
  ASSUME SleepOK, NEW t \in Threads, InApplication(t)
  PROVE  t \notin asleep
  BY AwakeTop DEF InApplication, At

\* No thread falls asleep, and no loop ends without a broadcast.
LEMMA SleepKeep ==
  ASSUME stack \in Stacks, StackOK, SleepOK, asleep \subseteq Threads,
         NEW t \in Threads,
         NEW old, NEW new, Move(t, old, new), t \notin asleep,
         asleep' \subseteq asleep,
         \A l \in Loops : is_running[l] => is_running'[l]
  PROVE  SleepOK'
<1> SUFFICES ASSUME NEW u \in asleep'
             PROVE  At(u, "asleep")'
                      \/ (At(u, "loopAsleep")' /\ is_running'[Top(u)'.loop])
  BY DEF SleepOK
<1>1. u \in Threads /\ u # t /\ u \in asleep
  OBVIOUS
<1>2. stack'[u] = stack[u]
  BY <1>1 DEF Move
<1>3. \/ At(u, "asleep")
      \/ At(u, "loopAsleep") /\ is_running[Top(u).loop]
  BY <1>1 DEF SleepOK
<1>4. CASE At(u, "asleep")
  BY <1>2, <1>4 DEF At, Top
<1>5. CASE At(u, "loopAsleep") /\ is_running[Top(u).loop]
  <2>1. Top(u) \in Frame /\ FrameOK(Top(u))
    BY <1>1, <1>5, TopFrame DEF At, StackOK
  <2>2. Top(u).loop \in Loops
    BY <1>5, <2>1 DEF At, Frame, FrameOK, LoopPC
  <2> QED BY <1>2, <1>5, <2>2 DEF At, Top
<1> QED BY <1>3, <1>4, <1>5

\* The top of the other threads are neither in an iteration nor in a loop.
Alone(t) ==
  \A u \in Threads \ {t} : stack[u] # <<>> => ~Iterates(Top(u)) /\ ~HoldsLoop(Top(u))

\* A thread that may own the context is the only one to hold it.
LEMMA OwnerAlone ==
  ASSUME stack \in Stacks, OwnerOK, NEW t \in Threads, MayOwn(t)
  PROVE  Alone(t)
<1> SUFFICES ASSUME NEW u \in Threads, u # t, stack[u] # <<>>,
                    Iterates(Top(u)) \/ HoldsLoop(Top(u))
             PROVE  FALSE
  BY DEF Alone
<1>1. Weight(Top(u)) # 0
  BY DEF Weight, Bit
<1>2. u = owner
  BY <1>1, OwnerTop
<1> QED BY <1>2, GMainContextAssumption DEF MayOwn, GMainContextAssumption

\* A thread in an iteration owns the context, alone.
LEMMA IterateOwns ==
  ASSUME stack \in Stacks, OwnerOK, NEW t \in Threads, stack[t] # <<>>,
         Top(t).pc \in Iterating
  PROVE  t = owner /\ MayOwn(t) /\ Alone(t)
<1>1. Weight(Top(t)) # 0
  BY DEF Weight, Bit, Iterates
<1>2. t = owner
  BY <1>1, OwnerTop
<1> QED BY <1>2, OwnerAlone DEF MayOwn

\* The parts that are about tops.
LEMMA ScanAlone ==
  ASSUME stack \in Stacks, NEW t \in Threads, NEW old, NEW new, Move(t, old, new),
         Alone(t), ScanFrameOK(new)'
  PROVE  ScanOK'
<1> SUFFICES ASSUME NEW u \in Threads, stack'[u] # <<>>
             PROVE  ScanFrameOK(Top(u))'
  BY DEF ScanOK
<1>1. PICK x : x = Top(u)'
  OBVIOUS
<1>2. x = new \/ x.pc = "callback" \/ (u # t /\ x = Top(u) /\ stack[u] # <<>>)
  BY <1>1, MoveTops
<1>3. x = new \/ x.pc \notin Scanning
  BY <1>2 DEF Scanning, Alone, Iterates, Iterating
<1>4. ScanFrameOK(x)'
  BY <1>3 DEF ScanFrameOK, Scanning
<1> QED BY <1>1, <1>4 DEF ScanFrameOK, Seen, Harmless

\* A move that leaves the scans alone keeps ScanOK.
LEMMA ScanKeep ==
  ASSUME stack \in Stacks, ScanOK, NEW t \in Threads, NEW old, NEW new,
         Move(t, old, new),
         new.pc \notin Scanning, \A x \in Frame : ScanFrameOK(x) => ScanFrameOK(x)'
  PROVE  ScanOK'
<1> SUFFICES ASSUME NEW u \in Threads, stack'[u] # <<>>
             PROVE  ScanFrameOK(Top(u))'
  BY DEF ScanOK
<1>1. PICK x : x = Top(u)'
  OBVIOUS
<1>2. x.pc \notin Scanning \/ (u # t /\ x = Top(u) /\ stack[u] # <<>>)
  BY <1>1, MoveTops DEF Scanning
<1>3. ScanFrameOK(x)'
  <2>1. CASE x.pc \notin Scanning
    BY <2>1 DEF ScanFrameOK, Scanning
  <2>2. CASE u # t /\ x = Top(u) /\ stack[u] # <<>>
    BY <2>2, TopFrame DEF ScanOK
  <2> QED BY <1>2, <2>1, <2>2
<1> QED BY <1>1, <1>3 DEF ScanFrameOK, Seen, Harmless

\* QueueOK when one thread alone holds the context.
LEMMA QueueAlone ==
  ASSUME stack \in Stacks, NEW t \in Threads, NEW old, NEW new, Move(t, old, new),
         Alone(t), QueueFrameOK(new)'
  PROVE  QueueOK'
<1> SUFFICES ASSUME NEW u \in Threads, stack'[u] # <<>>
             PROVE  QueueFrameOK(Top(u))'
  BY DEF QueueOK
<1>1. PICK x : x = Top(u)'
  OBVIOUS
<1>2. x = new \/ x.pc = "callback" \/ (u # t /\ x = Top(u) /\ stack[u] # <<>>)
  BY <1>1, MoveTops
<1>3. x = new \/ x.pc \notin Scanning \cup Checking
  BY <1>2 DEF Scanning, Checking, Alone, Iterates, Iterating
<1>4. QueueFrameOK(x)'
  BY <1>3 DEF QueueFrameOK, Checking
<1> QED BY <1>1, <1>4 DEF QueueFrameOK, Before

\* QueueOK when the entries stay.
LEMMA QueueKeep ==
  ASSUME stack \in Stacks, QueueOK, NEW t \in Threads, NEW old, NEW new,
         Move(t, old, new),
         UNCHANGED <<pending_dispatches, place>>, QueueFrameOK(new)'
  PROVE  QueueOK'
<1> SUFFICES ASSUME NEW u \in Threads, stack'[u] # <<>>
             PROVE  QueueFrameOK(Top(u))'
  BY DEF QueueOK
<1>1. PICK x : x = Top(u)'
  OBVIOUS
<1>2. x = new \/ x.pc = "callback" \/ (u # t /\ x = Top(u) /\ stack[u] # <<>>)
  BY <1>1, MoveTops
<1>3. QueueFrameOK(x)'
  <2>1. CASE x.pc = "callback"
    BY <2>1 DEF QueueFrameOK, Scanning
  <2>2. CASE u # t /\ x = Top(u) /\ stack[u] # <<>>
    <3>1. QueueFrameOK(x)
      BY <2>2 DEF QueueOK
    <3> QED BY <3>1 DEF QueueFrameOK, Before
  <2> QED BY <1>2, <2>1, <2>2
<1> QED BY <1>1, <1>3 DEF QueueFrameOK, Before

\* RunOK when no loop is quit without a wakeup.
LEMMA RunKeep ==
  ASSUME stack \in Stacks, RunOK, NEW t \in Threads, NEW old, NEW new,
         Move(t, old, new),
         StackOK, wakeup => wakeup', wakeup' \/ \A l \in Loops :
             is_running[l] => is_running'[l],
         RunFrameOK(new)'
  PROVE  RunOK'
<1> SUFFICES ASSUME NEW u \in Threads, stack'[u] # <<>>
             PROVE  RunFrameOK(Top(u))'
  BY DEF RunOK
<1>1. PICK x : x = Top(u)'
  OBVIOUS
<1>2. x = new \/ x.pc = "callback" \/ (u # t /\ x = Top(u) /\ stack[u] # <<>>)
  BY <1>1, MoveTops
<1>3. RunFrameOK(x)'
  <2>1. CASE x.pc = "callback"
    BY <2>1 DEF RunFrameOK, Scanning
  <2>2. CASE u # t /\ x = Top(u) /\ stack[u] # <<>>
    <3>1. RunFrameOK(x)
      BY <2>2 DEF RunOK
    <3>2. x.loop \in Loops \cup {None}
      BY <2>2, TopFrame DEF Frame
    <3> QED BY <3>1, <3>2 DEF RunFrameOK
  <2> QED BY <1>2, <2>1, <2>2
<1> QED BY <1>1, <1>3 DEF RunFrameOK

\* RunOK when one thread alone holds the context.
LEMMA RunAlone ==
  ASSUME stack \in Stacks, NEW t \in Threads, NEW old, NEW new, Move(t, old, new),
         Alone(t), RunFrameOK(new)'
  PROVE  RunOK'
<1> SUFFICES ASSUME NEW u \in Threads, stack'[u] # <<>>
             PROVE  RunFrameOK(Top(u))'
  BY DEF RunOK
<1>1. PICK x : x = Top(u)'
  OBVIOUS
<1>2. x = new \/ x.pc = "callback" \/ (u # t /\ x = Top(u) /\ stack[u] # <<>>)
  BY <1>1, MoveTops
<1>3. x = new \/ x.pc = "callback" \/ ~HoldsLoop(x)
  BY <1>2 DEF Alone
<1>4. RunFrameOK(x)'
  BY <1>3 DEF RunFrameOK, HoldsLoop, Scanning
<1> QED BY <1>1, <1>4 DEF RunFrameOK

-----------------------------------------------------------------------------
(***************************************************************************)
(* The entries of pending_dispatches and the dispatches that take them.    *)
(***************************************************************************)
Outside == PC \ (Section \cup Filling)

\* The length of a stack.
LEMMA LenFacts ==
  ASSUME stack \in Stacks, NEW t \in Threads
  PROVE  /\ Len(stack[t]) \in Nat
         /\ stack[t] = <<>> <=> Len(stack[t]) = 0
  BY EmptySeq DEF Stacks

\* The frame under the top.
LEMMA Below ==
  ASSUME NEW n \in Nat, n # 0, n # 1
  PROVE  n - 1 \in 1 .. n - 1 /\ n - 1 \in 1 .. n /\ n - 1 < n /\ n >= 2
  OBVIOUS

\* The entries taken by a thread whose stack stays.
LEMMA TakenOther ==
  ASSUME NEW t \in Threads, NEW u \in Threads, stack'[u] = stack[u]
  PROVE  Taken(u)' = Taken(u)
  BY DEF Taken, Top

\* The entries taken by a thread whose top frame is replaced.
LEMMA TakenReplace ==
  ASSUME stack \in Stacks, NEW t \in Threads, stack[t] # <<>>, NEW g, Replaces(t, g),
         \/ Top(t).pc \in Outside /\ g.pc \in Outside
         \/ Top(t).pc \in Filling /\ g.pc \in Filling
         \/ Top(t).pc \in Filling /\ g.pc \in Section /\ g.i = 0
         \/ Top(t).pc \in Section /\ g.pc \in Section /\ g.i = Top(t).i
  PROVE  Taken(t)' = Taken(t)
<1> DEFINE n == Len(stack[t])
<1>1. n \in Nat /\ n # 0 /\ Len(stack'[t]) = n /\ Top(t)' = g
  BY LenFacts DEF Replaces
<1>2. n # 1 => stack'[t][n - 1] = stack[t][n - 1]
  BY <1>1, Below DEF Replaces
<1>3. Section \cap Filling = {}
  BY DEF Section, Filling, Scanning, Checking
<1> QED BY <1>1, <1>2, <1>3 DEF Taken, Outside

\* The entries taken by a thread that calls the library.
LEMMA TakenPush ==
  ASSUME stack \in Stacks, NEW t \in Threads, InApplication(t), NEW g, Pushes(t, g),
         g.pc \in Outside
  PROVE  Taken(t)' = Taken(t)
<1> DEFINE n == Len(stack[t])
<1>1. n \in Nat /\ Len(stack'[t]) = n + 1 /\ Top(t)' = g
  BY LenFacts DEF Pushes
<1>2. n # 0 => stack'[t][n] = Top(t) /\ Top(t).pc = "callback"
  BY <1>1, LenFacts DEF Pushes, InApplication, At, Top
<1> QED BY <1>1, <1>2 DEF Taken, Outside, Section

\* The entries taken by a thread that returns to the application.
LEMMA TakenPop ==
  ASSUME stack \in Stacks, StackOK, NEW t \in Threads, stack[t] # <<>>, Pops(t),
         Top(t).pc \in Outside
  PROVE  Taken(t)' = Taken(t)
<1> DEFINE n == Len(stack[t])
<1>1. n \in Nat /\ n # 0 /\ Len(stack'[t]) = n - 1
  BY LenFacts DEF Pops
<1>2. n # 1 => Top(t)' = stack[t][n - 1] /\ stack[t][n - 1].pc = "callback"
  BY <1>1, Below DEF Pops, Top, StackOK
<1> QED BY <1>1, <1>2 DEF Taken, Outside, Section

\* A thread that does not own the context has taken nothing.
LEMMA TakenIdle ==
  ASSUME stack \in Stacks, StackOK, OwnerOK, NEW t \in Threads, t # owner
  PROVE  Taken(t) = 0
<1> DEFINE n == Len(stack[t])
<1>1. n \in Nat /\ (stack[t] # <<>> => n # 0)
  BY LenFacts
<1>2. ASSUME NEW d \in 1 .. n PROVE stack[t][d].pc \notin Section
  <2>1. stack[t][d] \in Frame
    BY ElementOfSeq DEF Stacks
  <2> QED BY <2>1 DEF OwnerOK, IterFrames, Iterating, Section
<1>3. ASSUME n # 0, n # 1 PROVE FALSE
  <2>1. n - 1 \in 1 .. n /\ n - 1 < n
    BY <1>1, <1>3, Below
  <2> QED BY <1>2, <2>1 DEF StackOK, Section
<1> QED BY <1>1, <1>2, <1>3 DEF Taken, Top

\* EntriesOK when no entry is taken.
LEMMA EntriesKeep ==
  ASSUME EntriesOK, UNCHANGED <<pending_dispatches, owner>>,
         \A u \in Threads : Taken(u)' = Taken(u)
  PROVE  EntriesOK'
<1>1. \A k : \A u \in Threads : EntryOK(k, u) => EntryOK(k, u)'
  BY DEF EntryOK
<1> QED BY <1>1 DEF EntriesOK

\* A thread becomes the owner.
LEMMA EntriesTake ==
  ASSUME stack \in Stacks, StackOK, OwnerOK, EntriesOK, NEW t \in Threads, MayOwn(t),
         TakeOwnership(t), UNCHANGED pending_dispatches,
         pending_dispatches \in Seq(Sources \cup {None}),
         \A u \in Threads : Taken(u)' = Taken(u)
  PROVE  EntriesOK'
<1>1. t # None
  BY GMainContextAssumption DEF GMainContextAssumption
<1>2. CASE owner = t
  BY <1>2, EntriesKeep DEF TakeOwnership
<1>3. CASE owner = None
  <2>1. Taken(t) = 0
    BY <1>1, <1>3, TakenIdle
  <2>2. ASSUME NEW k \in DOMAIN pending_dispatches
        PROVE  EntryOK(k, t)' /\ pending_dispatches[k] # None
    <3>1. k \in Nat /\ k >= 1
      OBVIOUS
    <3>2. pending_dispatches[k] # None
      BY <1>3 DEF EntriesOK
    <3> QED BY <2>1, <3>1, <3>2 DEF EntryOK
  <2> QED BY <1>1, <2>2 DEF EntriesOK, TakeOwnership
<1> QED BY <1>2, <1>3 DEF MayOwn

\* No thread is deeper in a dispatch than the first frame of its stack.
LEMMA EntriesEmpty ==
  ASSUME pending_dispatches' = <<>>
  PROVE  EntriesOK' /\ DistinctOK'
  BY DEF EntriesOK, DistinctOK

\* NestedOK when the top frame is replaced.
LEMMA NestedReplace ==
  ASSUME stack \in Stacks, NestedOK, NEW t \in Threads, stack[t] # <<>>,
         NEW g \in Frame,
         Replaces(t, g), Top(t).dispatch => g.dispatch,
         MayPend = 0 /\ Len(stack[t]) >= 2 /\ g.pc = "release"
             => pending_dispatches' = <<>>,
         \/ pending_dispatches' \in {pending_dispatches, <<>>}
         \/ Alone(t)
  PROVE  NestedOK'
<1> SUFFICES ASSUME MayPend = 0, NEW u \in Threads
             PROVE  /\ \A d \in 2 .. Len(stack'[u]) : stack'[u][d].dispatch
                    /\ Len(stack'[u]) >= 2 /\ Top(u)'.pc = "release"
                           => pending_dispatches' = <<>>
  BY DEF NestedOK
<1> DEFINE n == Len(stack[t])
<1>1. CASE u # t
  <2>1. stack'[u] = stack[u] /\ Top(u)' = Top(u)
    BY <1>1 DEF Replaces, Top
  <2>2. Len(stack[u]) \in Nat /\ (stack[u] = <<>> <=> Len(stack[u]) = 0)
    BY LenFacts
  <2>3. Len(stack[u]) >= 2 => stack[u] # <<>>
    BY <2>2
  <2>4. Alone(t) /\ stack[u] # <<>> => Top(u).pc # "release"
    BY <1>1 DEF Alone, Iterates, Iterating
  <2> QED BY <2>1, <2>3, <2>4 DEF NestedOK
<1>2. CASE u = t
  <2>1. n \in Nat /\ n \in 1 .. n /\ Top(t) = stack[t][n]
    BY TopFrame
  <2>2. stack'[t][n] = g /\ Top(t)' = g /\ Len(stack'[t]) = n
    BY DEF Replaces, Top
  <2>3. n >= 2 => g.dispatch
    BY <2>1 DEF NestedOK
  <2>4. ASSUME NEW d \in 2 .. n PROVE stack'[t][d].dispatch
    <3>1. CASE d = n
      BY <2>1, <2>2, <2>3, <3>1
    <3>2. CASE d # n
      <4>1. d \in 1 .. n - 1
        BY <2>1, <3>2
      <4> QED BY <4>1 DEF Replaces, NestedOK
    <3> QED BY <3>1, <3>2
  <2> QED BY <1>2, <2>2, <2>4
<1> QED BY <1>1, <1>2

\* NestedOK when a frame is pushed.
LEMMA NestedPush ==
  ASSUME stack \in Stacks, NestedOK, NEW t \in Threads, NEW g \in Frame, Pushes(t, g),
         g.pc # "release", g.dispatch \/ Len(stack[t]) = 0 \/ MayPend # 0,
         UNCHANGED pending_dispatches
  PROVE  NestedOK'
<1> SUFFICES ASSUME MayPend = 0, NEW u \in Threads
             PROVE  /\ \A d \in 2 .. Len(stack'[u]) : stack'[u][d].dispatch
                    /\ Len(stack'[u]) >= 2 /\ Top(u)'.pc = "release"
                           => pending_dispatches' = <<>>
  BY DEF NestedOK
<1> DEFINE n == Len(stack[t])
<1>1. CASE u # t
  <2>1. stack'[u] = stack[u] /\ Top(u)' = Top(u)
    BY <1>1 DEF Pushes, Top
  <2> QED BY <2>1 DEF NestedOK
<1>2. CASE u = t
  <2>1. n \in Nat
    BY LenFacts
  <2>2. stack'[t][n + 1] = g /\ Top(t)' = g /\ Len(stack'[t]) = n + 1
    BY DEF Pushes, Top
  <2>3. ASSUME NEW d \in 2 .. n + 1 PROVE stack'[t][d].dispatch
    <3>1. CASE d = n + 1
      BY <2>1, <2>2, <3>1
    <3>2. CASE d # n + 1
      <4>1. d \in 1 .. n /\ d \in 2 .. n
        BY <2>1, <3>2
      <4> QED BY <4>1 DEF Pushes, NestedOK
    <3> QED BY <3>1, <3>2
  <2> QED BY <1>2, <2>2, <2>3
<1> QED BY <1>1, <1>2

\* NestedOK when the top frame is popped.
LEMMA NestedPop ==
  ASSUME stack \in Stacks, StackOK, NestedOK, NEW t \in Threads, stack[t] # <<>>,
         Pops(t),
         UNCHANGED pending_dispatches
  PROVE  NestedOK'
<1> SUFFICES ASSUME MayPend = 0, NEW u \in Threads
             PROVE  /\ \A d \in 2 .. Len(stack'[u]) : stack'[u][d].dispatch
                    /\ Len(stack'[u]) >= 2 /\ Top(u)'.pc = "release"
                           => pending_dispatches' = <<>>
  BY DEF NestedOK
<1> DEFINE n == Len(stack[t])
<1>1. CASE u # t
  <2>1. stack'[u] = stack[u] /\ Top(u)' = Top(u)
    BY <1>1 DEF Pops, Top
  <2> QED BY <2>1 DEF NestedOK
<1>2. CASE u = t
  <2>1. n \in Nat /\ Len(stack'[t]) = n - 1
    BY LenFacts DEF Pops
  <2>2. ASSUME NEW d \in 2 .. n - 1 PROVE stack'[t][d].dispatch
    <3>1. d \in 1 .. n - 1 /\ d \in 2 .. n
      BY <2>1
    <3> QED BY <3>1 DEF Pops, NestedOK
  <2>3. n - 1 >= 2 => Top(t)'.pc = "callback"
    <3>1. n - 1 >= 2 => n - 1 \in 1 .. n - 1 /\ n - 1 \in 1 .. n /\ n - 1 < n
      BY <2>1
    <3> QED BY <2>1, <3>1 DEF Pops, Top, StackOK
  <2> QED BY <1>2, <2>1, <2>2, <2>3
<1> QED BY <1>1, <1>2

\* NestedOK when the stacks stay.
LEMMA NestedStay ==
  ASSUME NestedOK, UNCHANGED <<stack, pending_dispatches>>
  PROVE  NestedOK'
  BY DEF NestedOK, Top

-----------------------------------------------------------------------------
(***************************************************************************)
(* A quiet step does not touch the sources or what is known of them.       *)
(***************************************************************************)
Quiet == UNCHANGED <<flags, ref_count, attached, place, app_ref, poll_records,
                     pending_dispatches>>

\* The parts of the invariant that a quiet step keeps.
Calm == PlaceOK /\ SourceOK /\ DestroyOK /\ RefsOK /\ DistinctOK /\ CallsOK /\ PollOK

\* The counts of a source are natural numbers.
LEMMA AllCounts ==
  ASSUME stack \in Stacks, NEW s
  PROVE  Count(Users(s)) \in Nat /\ Count(Destroyers(s)) \in Nat
             /\ Count(Callers(s)) \in Nat
  BY CountNat

\* Frames without a source, or two frames that use it in the same way.
LEMMA SameCounts ==
  ASSUME stack \in Stacks, NEW t, NEW old \in Shape, NEW new \in Shape,
         Move(t, old, new),
         NEW s \in Sources,
         \/ old.source # s /\ new.source # s
         \/ old.source = new.source /\ old.pc = new.pc
  PROVE  /\ Count(Users(s))' = Count(Users(s))
                /\ Count(Destroyers(s))' = Count(Destroyers(s))
         /\ Count(Callers(s))' = Count(Callers(s))
<1>1. /\ Bit(IsUser(new, s)) = Bit(IsUser(old, s))
      /\ Bit(IsDestroyer(new, s)) = Bit(IsDestroyer(old, s))
      /\ Bit(IsCaller(new, s)) = Bit(IsCaller(old, s))
  BY DEF IsUser, IsDestroyer, IsCaller, Bit
<1>2. /\ Bit(IsUser(new, s)) \in Int /\ Bit(IsDestroyer(new, s)) \in Int
      /\ Bit(IsCaller(new, s)) \in Int
  BY DEF Bit
<1>3. Count(Users(s)) \in Nat /\ Count(Destroyers(s)) \in Nat /\ Count(Callers(s)) \in Nat
  BY AllCounts
<1>4. /\ Count(Users(s))' = Count(Users(s)) + Bit(IsUser(new, s)) - Bit(IsUser(old, s))
      /\ Count(Destroyers(s))'
              = Count(Destroyers(s)) + Bit(IsDestroyer(new, s)) - Bit(IsDestroyer(old, s))
      /\ Count(Callers(s))' = Count(Callers(s))
             + Bit(IsCaller(new, s)) - Bit(IsCaller(old, s))
  BY CountsMove
<1> QED BY <1>1, <1>2, <1>3, <1>4

\* The sources of the frames are attached.
LEMMA FrameSources ==
  ASSUME stack \in Stacks, SourceOK, NEW t \in Threads, NEW old, NEW new,
         Move(t, old, new),
         attached \subseteq attached', new.source # None => new.source \in attached'
  PROVE  \A u \in Threads : \A d \in 1 .. Len(stack'[u]) :
           stack'[u][d].source # None => stack'[u][d].source \in attached'
<1> SUFFICES ASSUME NEW u \in Threads, NEW d \in 1 .. Len(stack'[u]),
                    stack'[u][d].source # None
             PROVE  stack'[u][d].source \in attached'
  OBVIOUS
<1> QED BY MoveFrames DEF SourceOK

\* The frames in a check function.
LEMMA ChecksKeep ==
  ASSUME stack \in Stacks, CallsOK, NEW t \in Threads, NEW old, NEW new,
         Move(t, old, new),
         new.pc = "inCheck" => ~Held(new.source)',
         \A s \in Sources : Held(s)' => Held(s),
         \A u \in Threads :
             stack[u] # <<>> /\ Top(u).pc = "inCheck" => Top(u).source \in Sources
  PROVE  \A u \in Threads : At(u, "inCheck")' => ~Held(Top(u).source)'
<1> SUFFICES ASSUME NEW u \in Threads, stack'[u] # <<>>, Top(u)'.pc = "inCheck"
             PROVE  ~Held(Top(u).source)'
  BY DEF At
<1>1. PICK s : s = Top(u)'.source
  OBVIOUS
<1>2. ~Held(s)'
  <2>1. CASE u = t /\ Top(u)' = new
    BY <1>1, <2>1 DEF Held, Active, Blocked
  <2>2. CASE stack[u] # <<>> /\ Top(u)' = Top(u)
    <3>1. ~Held(s) /\ s \in Sources
      BY <1>1, <2>2 DEF CallsOK, At
    <3> QED BY <3>1
  <2> QED BY <2>1, <2>2, MoveTops
<1> QED BY <1>1, <1>2 DEF Held, Active, Blocked

\* The source that a frame stands on.
LEMMA CheckSources ==
  ASSUME TypeOK, StackOK, NEW u \in Threads, stack[u] # <<>>, Top(u).pc \in WithSource
  PROVE  Top(u).source \in Sources
<1>1. Top(u) \in Frame /\ FrameOK(Top(u))
  BY TopFrame DEF StackOK, TypeOK, Stacks
<1> QED BY <1>1 DEF Frame, FrameOK

\* A quiet step keeps the calm parts.
LEMMA QuietCalm ==
  ASSUME Inv, NEW t \in Threads, NEW old \in Shape, NEW new \in Shape,
         Move(t, old, new),
         Quiet, old.source = None, new.source = None, new.pc # "inCheck"
  PROVE  Calm'
<1> USE DEF Quiet
<1>1. stack \in Stacks
  BY DEF Inv, TypeOK, Stacks
<1>2. ASSUME NEW s \in Sources
      PROVE  /\ Count(Users(s))' = Count(Users(s))
                    /\ Count(Destroyers(s))' = Count(Destroyers(s))
             /\ Count(Callers(s))' = Count(Callers(s))
  <2>1. None # s
    BY GMainContextAssumption DEF GMainContextAssumption
  <2> QED BY <1>1, <2>1, SameCounts
<1>3. PlaceOK'
  BY DEF Inv, PlaceOK, SamePriority
<1>4. SourceOK'
  BY <1>1, FrameSources DEF Inv, SourceOK, Blocked
<1>5. DestroyOK'
  BY <1>2 DEF Inv, DestroyOK, Active
<1>6. RefsOK'
  BY <1>2 DEF Inv, RefsOK, RefSum, Queued, Active
<1>7. DistinctOK'
  BY DEF Inv, DistinctOK
<1>8. CallsOK'
  <2>1. \A s : (Active(s)' <=> Active(s)) /\ (Blocked(s)'
            <=> Blocked(s)) /\ (Held(s)' <=> Held(s))
    BY DEF Active, Blocked, Held
  <2>2. \A u \in Threads : At(u, "inCheck")' => ~Held(Top(u).source)'
    BY <1>1, <2>1, ChecksKeep, CheckSources DEF Inv, WithSource
  <2>3. \A s \in Sources \ CanRecurse :
          /\ Count(Callers(s))' <= 1
          /\ Active(s)' => (Blocked(s)' <=> Count(Callers(s))' = 1)
    BY <1>2, <2>1 DEF Inv, CallsOK
  <2>4. \A k \in DOMAIN pending_dispatches :
          pending_dispatches[k] # None => ~Held(pending_dispatches[k])'
    BY <2>1 DEF Inv, CallsOK, Held, Active, Blocked
  <2> QED BY <2>2, <2>3, <2>4 DEF CallsOK
<1>9. PollOK'
  <2>1. \A s \in Sources : Count(Destroyers(s))' > 0 <=> Count(Destroyers(s)) > 0
    BY <1>2
  <2>2. HasFd \subseteq Sources
    BY GMainContextAssumption DEF GMainContextAssumption
  <2> QED BY <2>1, <2>2 DEF Inv, PollOK, Active, Blocked
<1> QED BY <1>3, <1>4, <1>5, <1>6, <1>7, <1>8, <1>9 DEF Calm

-----------------------------------------------------------------------------
(***************************************************************************)
(* The actions, first the steps of the world.                              *)
(***************************************************************************)
still == <<owner, owner_count, flags, ready_time, ref_count, attached, place, app_ref,
           poll_records, wakeup, pending_dispatches, is_running, stack>>

\* The counts when the stacks stay.
LEMMA SameFrames ==
  ASSUME UNCHANGED stack
  PROVE  /\ \A K : Count(K)' = Count(K)
         /\ \A t : Top(t)' = Top(t) /\ Taken(t)' = Taken(t)
<1>1. \A K : Count(K)' = Count(K)
  BY DEF Count, Frames, FrameAt
<1>2. \A t : Top(t)' = Top(t)
  BY DEF Top
<1>3. \A t : Taken(t)' = Taken(t)
  BY DEF Taken, Top
<1> QED BY <1>1, <1>2, <1>3

\* A step of the environment keeps the invariant.
LEMMA StillKeeps ==
  ASSUME Inv, UNCHANGED still, TypeOK', now' >= now, now' <= MaxTime,
         UNCHANGED asleep \/ SleepOK'
  PROVE  Inv'
<1> USE DEF still
<1>1. \A K : Count(K)' = Count(K)
  BY SameFrames
<1>2. \A t : Top(t)' = Top(t) /\ Taken(t)' = Taken(t)
  BY SameFrames
<1>3. StackOK' /\ SleepOK' /\ PlaceOK' /\ DistinctOK'
  BY DEF Inv, StackOK, SleepOK, At, Top, PlaceOK, SamePriority, DistinctOK
<1>4. OwnerOK'
  BY <1>1 DEF Inv, OwnerOK
<1>5. SourceOK' /\ TimeOK'
  BY DEF Inv, SourceOK, Blocked, TimeOK
<1>6. DestroyOK' /\ RefsOK'
  BY <1>1 DEF Inv, DestroyOK, RefsOK, RefSum, Active, Queued
<1>7. EntriesOK'
  BY <1>2, EntriesKeep DEF Inv
<1>8. NestedOK'
  BY NestedStay DEF Inv
<1>9. QueueOK'
  <2>1. ASSUME NEW x PROVE QueueFrameOK(x)' <=> QueueFrameOK(x)
    BY DEF QueueFrameOK, Before
  <2> QED BY <2>1, <1>2 DEF Inv, QueueOK, QueueFrameOK, Before
<1>10. CallsOK' /\ PollOK'
  BY <1>1, <1>2 DEF Inv, CallsOK, PollOK, Held, Active, Blocked, At
<1>11. ScanOK'
  <2> SUFFICES ASSUME NEW u \in Threads, stack[u] # <<>>
               PROVE  ScanFrameOK(Top(u))'
    BY DEF ScanOK
  <2>1. PICK x : x = Top(u)
    OBVIOUS
  <2>2. x \in Frame /\ ScanFrameOK(x)
    BY <2>1, TopFrame DEF Inv, TypeOK, ScanOK, Stacks
  <2>3. now \in Nat /\ now' \in Nat /\ x.deadline \in Int
    BY <2>2 DEF Inv, TypeOK, Frame
  <2>4. x.deadline \in 0 .. now => x.deadline \in 0 .. now'
    BY <2>3
  <2>5. \A s : /\ Visible(s)' <=> Visible(s)
               /\ Seen(x, s)' <=> Seen(x, s)
               /\ Harmless(x, s)' <=> Harmless(x, s)
    BY DEF Visible, Seen, Harmless, Active, Blocked, Ready, Before
  <2>6. ScanFrameOK(x)'
    BY <2>2, <2>4, <2>5 DEF ScanFrameOK
  <2>7. x = Top(u)'
    BY <1>2, <2>1
  <2> QED BY <2>6, <2>7 DEF ScanFrameOK, Seen, Harmless
<1>12. RunOK'
  BY <1>2 DEF Inv, RunOK, RunFrameOK
<1> QED BY <1>3, <1>4, <1>5, <1>6, <1>7, <1>8, <1>9, <1>10, <1>11, <1>12 DEF Inv

\* TimePasses keeps the invariant.
LEMMA TimePassesKeeps ==
  ASSUME Inv, TimePasses
  PROVE  Inv'
<1>1. now \in Nat /\ now < MaxTime /\ now' = now + 1 /\ MaxTime \in Nat
  BY GMainContextAssumption DEF Inv, TypeOK, TimePasses, GMainContextAssumption
<1>2. TypeOK'
  BY <1>1 DEF Inv, TypeOK, TimePasses, ownvars, srcvars, pollvars
<1>3. UNCHANGED still
  BY DEF TimePasses, still, ownvars, srcvars, pollvars
<1>4. UNCHANGED asleep
  BY DEF TimePasses, ownvars
<1> QED BY <1>1, <1>2, <1>3, <1>4, StillKeeps

\* DataArrives keeps the invariant.
LEMMA DataArrivesKeeps ==
  ASSUME Inv, NEW s \in HasFd, DataArrives(s)
  PROVE  Inv'
<1>1. now \in Nat /\ now <= MaxTime /\ now' = now
  BY DEF Inv, TypeOK, TimeOK, DataArrives
<1>2. TypeOK'
  BY DEF Inv, TypeOK, DataArrives, ownvars, srcvars, pollvars
<1>3. UNCHANGED still
  BY DEF DataArrives, still, ownvars, srcvars, pollvars
<1>4. UNCHANGED asleep
  BY DEF DataArrives, ownvars
<1> QED BY <1>1, <1>2, <1>3, <1>4, StillKeeps

\* SpuriousWakeup keeps the invariant.
LEMMA SpuriousWakeupKeeps ==
  ASSUME Inv, NEW t \in Threads, SpuriousWakeup(t)
  PROVE  Inv'
<1>1. now \in Nat /\ now <= MaxTime /\ now' = now
  BY DEF Inv, TypeOK, TimeOK, SpuriousWakeup, envvars
<1>2. TypeOK'
  BY DEF Inv, TypeOK, SpuriousWakeup, srcvars, pollvars, envvars
<1>3. UNCHANGED still
  BY DEF SpuriousWakeup, still, srcvars, pollvars
<1>4. SleepOK'
  BY <1>3 DEF Inv, SleepOK, At, Top, SpuriousWakeup, still
<1> QED BY <1>1, <1>2, <1>3, <1>4, StillKeeps

\* ReadData keeps the invariant.
LEMMA ReadDataKeeps ==
  ASSUME Inv, NEW t \in Threads, ReadData(t)
  PROVE  Inv'
<1>1. now \in Nat /\ now <= MaxTime /\ now' = now
  BY DEF Inv, TypeOK, TimeOK, ReadData
<1>2. TypeOK'
  BY DEF Inv, TypeOK, ReadData, ownvars, srcvars, pollvars
<1>3. UNCHANGED still
  BY DEF ReadData, still, ownvars, srcvars, pollvars
<1>4. UNCHANGED asleep
  BY DEF ReadData, ownvars
<1> QED BY <1>1, <1>2, <1>3, <1>4, StillKeeps

\* A stuttering step keeps the invariant.
LEMMA StutterKeeps ==
  ASSUME Inv, UNCHANGED vars
  PROVE  Inv'
<1>1. now \in Nat /\ now <= MaxTime /\ now' = now
  BY DEF Inv, TypeOK, TimeOK, vars, envvars
<1>2. TypeOK'
  BY DEF Inv, TypeOK, vars, ownvars, srcvars, pollvars, envvars
<1>3. UNCHANGED still
  BY DEF vars, still, ownvars, srcvars, pollvars, envvars
<1>4. UNCHANGED asleep
  BY DEF vars, ownvars
<1> QED BY <1>1, <1>2, <1>3, <1>4, StillKeeps

\* What a frame has scanned stays true while no source gets ready unnoticed.
LEMMA ScanWorld ==
  ASSUME now \in Nat, now' \in Nat, now' >= now, wakeup => wakeup',
         UNCHANGED <<attached, place>>,
         \/ wakeup'
         \/ \A s \in attached : Visible(s)' => /\ Visible(s) /\ (Ready(s)' <=> Ready(s))
                                               /\ ready_time'[s] = ready_time[s]
  PROVE  \A x \in Frame : ScanFrameOK(x) => ScanFrameOK(x)'
<1> SUFFICES ASSUME NEW x \in Frame, ScanFrameOK(x)
             PROVE  ScanFrameOK(x)'
  OBVIOUS
<1>1. x.deadline \in Int
  BY DEF Frame
<1>2. x.deadline \in 0 .. now => x.deadline \in 0 .. now'
  BY <1>1
<1>3. CASE wakeup'
  BY <1>2, <1>3 DEF ScanFrameOK
<1>4. CASE ~wakeup'
  <2>1. \A s \in attached : /\ Seen(x, s)' <=> Seen(x, s)
                            /\ Visible(s)' /\ Harmless(x, s) => Harmless(x, s)'
    BY <1>4 DEF Seen, Before, Harmless
  <2> QED BY <1>2, <1>4, <2>1 DEF ScanFrameOK
<1> QED BY <1>3, <1>4

\* A frame that is neither scanning nor checking.
LEMMA IdleFrame ==
  ASSUME NEW x, x.pc \notin Scanning \cup Checking
  PROVE  QueueFrameOK(x)' /\ ScanFrameOK(x)'
  BY DEF QueueFrameOK, ScanFrameOK, Scanning, Checking

\* What holds of no frame.
LEMMA GoneParts ==
  /\ Gone \in Shape /\ Gone.pc \notin Scanning \cup Checking /\ Weight(Gone) = 0
  /\ QueueFrameOK(Gone)' /\ ScanFrameOK(Gone)' /\ RunFrameOK(Gone)'
<1>1. Gone \in Shape /\ Gone.pc \notin Scanning \cup Checking
  BY GoneFacts DEF Shape, Scanning, Checking
<1>2. Weight(Gone) = 0
  BY GoneFacts DEF Weight, Bit, Iterates, HoldsLoop, Iterating
<1>3. RunFrameOK(Gone)'
  BY GoneFacts DEF RunFrameOK
<1> QED BY <1>1, <1>2, <1>3, IdleFrame

\* A call that leaves the stacks and the sources alone.
LEMMA StayKeeps ==
  ASSUME Inv, NEW t \in Threads, InApplication(t), UNCHANGED stack, Quiet,
         UNCHANGED <<owner, owner_count>>, asleep' \in {asleep, {}}, UNCHANGED now,
         wakeup => wakeup', (wakeup' /\ asleep' = {}) \/ UNCHANGED is_running,
         \/ wakeup'
         \/ \A s \in attached : Visible(s) => ready_time'[s] = ready_time[s],
         TypeOK', TimeOK'
  PROVE  Inv'
<1>1. stack \in Stacks /\ StackOK
  BY DEF Inv, TypeOK, Stacks
<1>2. Move(t, Gone, Gone)
  BY <1>1, StayMoves
<1>3. StackOK'
  BY <1>1, <1>2, StackPart, GoneFacts
<1>4. OwnerOK'
  BY <1>1, <1>2, OwnerKeep, GoneParts DEF Inv
<1>5. SleepOK'
  <2>1. CASE asleep' = {}
    BY <2>1 DEF SleepOK
  <2>2. CASE UNCHANGED <<asleep, is_running>>
    BY <1>1, <1>2, <2>2, SleepKeep, AwakeApp DEF Inv, TypeOK
  <2> QED BY <2>1, <2>2
<1>6. Calm'
  BY <1>2, QuietCalm, GoneParts, GoneFacts
<1>7. EntriesOK'
  BY SameFrames, EntriesKeep DEF Inv, Quiet
<1>8. NestedOK'
  BY NestedStay DEF Inv, Quiet
<1>9. QueueOK'
  BY <1>1, <1>2, QueueKeep, GoneParts DEF Inv, Quiet
<1>10. ScanOK'
  <2>1. \A s : (Visible(s)' <=> Visible(s)) /\ (Ready(s)' <=> Ready(s))
    BY DEF Visible, Active, Blocked, Ready, Quiet
  <2>2. now \in Nat /\ now' \in Nat /\ now' >= now
    BY DEF Inv, TypeOK
  <2>3. \A x \in Frame : ScanFrameOK(x) => ScanFrameOK(x)'
    BY <2>1, <2>2, ScanWorld DEF Quiet
  <2> QED BY <1>1, <1>2, <2>3, ScanKeep, GoneParts DEF Inv
<1>11. RunOK'
  BY <1>1, <1>2, RunKeep, GoneParts DEF Inv
<1> QED BY <1>3, <1>4, <1>5, <1>6, <1>7, <1>8, <1>9, <1>10, <1>11 DEF Inv, Calm

\* xsource_set_ready_time keeps the invariant.
LEMMA SetReadyTimeKeeps ==
  ASSUME Inv, NEW t \in Threads, NEW s \in Sources,
         NEW at \in {Infinite} \cup ReadyTimes,
         xsource_set_ready_time(t, s, at)
  PROVE  Inv'
<1> USE DEF xsource_set_ready_time, ownvars, envvars
<1>1. at \in Nat \cup {Infinite} /\ at \in Int
  BY GMainContextAssumption DEF GMainContextAssumption, Infinite
<1>2. TypeOK'
  BY <1>1 DEF Inv, TypeOK
<1>3. TimeOK'
  BY <1>1 DEF Inv, TypeOK, TimeOK
<1>4. wakeup' \/ \A x \in attached : Visible(x) => ready_time'[x] = ready_time[x]
  BY DEF Inv, TypeOK, Visible
<1> QED BY <1>2, <1>3, <1>4, StayKeeps DEF Quiet

\* xmain_context_wakeup keeps the invariant.
LEMMA WakeupKeeps ==
  ASSUME Inv, NEW t \in Threads, xmain_context_wakeup(t)
  PROVE  Inv'
<1> USE DEF xmain_context_wakeup, ownvars, srcvars, envvars
<1>1. TypeOK'
  BY DEF Inv, TypeOK
<1>2. TimeOK'
  BY DEF Inv, TimeOK
<1> QED BY <1>1, <1>2, StayKeeps DEF Quiet

\* xmain_loop_quit keeps the invariant.
LEMMA QuitKeeps ==
  ASSUME Inv, NEW t \in Threads, NEW l \in Loops, xmain_loop_quit(t, l)
  PROVE  Inv'
<1> USE DEF xmain_loop_quit, srcvars, envvars
<1>1. TypeOK'
  BY DEF Inv, TypeOK
<1>2. TimeOK'
  BY DEF Inv, TimeOK
<1> QED BY <1>1, <1>2, StayKeeps DEF Quiet

\* A quiet step that only moves a thread outside of the dispatches.
Outer ==
  Quiet /\ UNCHANGED <<wakeup, now, ready_time>> /\ (\A l \in Loops :
      is_running[l] => is_running'[l])

\* The scans under an outer step.
LEMMA OuterScan ==
  ASSUME Inv, Outer, NEW t \in Threads, NEW old, NEW new, Move(t, old, new),
         new.pc \notin Scanning
  PROVE  ScanOK'
<1>1. \A s : (Visible(s)' <=> Visible(s)) /\ (Ready(s)' <=> Ready(s))
  BY DEF Visible, Active, Blocked, Ready, Quiet, Outer
<1>2. now \in Nat /\ now' \in Nat /\ now' >= now
  BY DEF Inv, TypeOK, Outer
<1>3. \A x \in Frame : ScanFrameOK(x) => ScanFrameOK(x)'
  BY <1>1, <1>2, ScanWorld DEF Quiet, Outer
<1> QED BY <1>3, ScanKeep DEF Inv, TypeOK, Stacks

\* The parts that follow from the move alone.
LEMMA OuterParts ==
  ASSUME Inv, Outer, NEW t \in Threads, NEW old \in Shape, NEW new \in Shape,
         Move(t, old, new),
         FrameOK(new), old.source = None, new.source = None,
         new.pc \notin Scanning \cup Checking, RunFrameOK(new)'
  PROVE  StackOK' /\ Calm' /\ TimeOK' /\ QueueOK' /\ ScanOK' /\ RunOK'
<1>1. stack \in Stacks /\ StackOK
  BY DEF Inv, TypeOK, Stacks
<1>2. StackOK'
  BY <1>1, StackPart
<1>3. Calm'
  BY QuietCalm DEF Outer, Checking
<1>4. TimeOK'
  BY DEF Inv, TimeOK, Outer
<1>5. QueueOK'
  BY <1>1, QueueKeep, IdleFrame DEF Inv, Quiet, Outer
<1>6. ScanOK'
  BY OuterScan
<1>7. RunOK'
  BY <1>1, RunKeep DEF Inv, Outer
<1> QED BY <1>2, <1>3, <1>4, <1>5, <1>6, <1>7

\* The labels outside of the dispatches.
LEMMA OutsideFacts ==
  /\ Outside \cap (Scanning \cup Checking) = {} /\ Outside \subseteq PC
  /\ {"loopStart", "loopWait", "loopAsleep", "loopTest", "loopRelease", "acquire", "wait", "asleep",
      "prepare", "destroying"} \subseteq Outside
  BY DEF Outside, Section, Filling, Scanning, Checking, PC

\* An outer step that pushes a frame keeps the invariant.
LEMMA PushKeeps ==
  ASSUME Inv, Outer, NEW t \in Threads, InApplication(t), NEW g \in Frame, Push(t, g),
         FrameOK(g),
         g.source = None, g.pc \in Outside, g.dispatch \/ Len(stack[t]) = 0
           \/ MayPend # 0,
         RunFrameOK(g)', UNCHANGED asleep, TypeOK',
         \/ Weight(g) = 0 /\ UNCHANGED <<owner, owner_count>>
         \/ Weight(g) = 1 /\ MayOwn(t) /\ TakeOwnership(t)
  PROVE  Inv'
<1>1. stack \in Stacks /\ StackOK /\ g \in Shape
  BY DEF Inv, TypeOK, Stacks, Shape
<1>2. Pushes(t, g)
  BY <1>1, PushPushes
<1>3. Move(t, Gone, g)
  BY <1>1, <1>2, PushMoves
<1>4. StackOK' /\ Calm' /\ TimeOK' /\ QueueOK' /\ ScanOK' /\ RunOK'
  BY <1>1, <1>3, OuterParts, OutsideFacts, GoneFacts, GoneParts
<1>5. OwnerOK'
  BY <1>1, <1>3, OwnerKeep, OwnerTake, GoneParts DEF Inv
<1>6. SleepOK'
  BY <1>1, <1>3, SleepKeep, AwakeApp DEF Inv, TypeOK, Outer
<1>7. EntriesOK'
  <2>1. ASSUME NEW u \in Threads PROVE Taken(u)' = Taken(u)
    <3>1. CASE u = t
      BY <1>1, <1>2, <3>1, TakenPush
    <3>2. CASE u # t
      BY <1>2, <3>2, TakenOther DEF Pushes
    <3> QED BY <3>1, <3>2
  <2> QED BY <1>1, <2>1, EntriesKeep, EntriesTake DEF Inv, TypeOK, Outer, Quiet
<1>8. NestedOK'
  <2>1. g.pc # "release"
    BY DEF Outside, Filling
  <2> QED BY <1>1, <1>2, <2>1, NestedPush DEF Inv, Outer, Quiet
<1> QED BY <1>4, <1>5, <1>6, <1>7, <1>8 DEF Inv, Calm

\* An outer step that replaces the top frame keeps the invariant.
LEMMA ReplaceKeeps ==
  ASSUME Inv, Outer, NEW t \in Threads, stack[t] # <<>>, NEW g \in Frame,
         SetTop(t, g), FrameOK(g),
         Top(t).source = None, g.source = None, Top(t).pc \in Outside, g.pc \in Outside,
         Top(t).dispatch => g.dispatch, RunFrameOK(g)', SleepOK', TypeOK',
         \/ Weight(g) = Weight(Top(t)) /\ UNCHANGED <<owner, owner_count>>
         \/ Weight(g) = Weight(Top(t)) + 1 /\ MayOwn(t) /\ TakeOwnership(t)
  PROVE  Inv'
<1>1. PICK old : old = Top(t)
  OBVIOUS
<1>2. stack \in Stacks /\ StackOK /\ g \in Shape /\ old \in Shape
  BY <1>1, TopFrame DEF Inv, TypeOK, Stacks, Shape
<1>3. Replaces(t, g)
  BY <1>2, SetTopReplaces
<1>4. Move(t, old, g)
  BY <1>1, <1>2, <1>3, ReplaceMoves
<1>5. StackOK' /\ Calm' /\ TimeOK' /\ QueueOK' /\ ScanOK' /\ RunOK'
  BY <1>1, <1>2, <1>4, OuterParts, OutsideFacts
<1>6. OwnerOK'
  BY <1>1, <1>2, <1>4, OwnerKeep, OwnerTake, OwnerTop DEF Inv
<1>7. EntriesOK'
  <2>1. ASSUME NEW u \in Threads PROVE Taken(u)' = Taken(u)
    <3>1. CASE u = t
      BY <1>2, <1>3, <3>1, TakenReplace
    <3>2. CASE u # t
      BY <1>3, <3>2, TakenOther DEF Replaces
    <3> QED BY <3>1, <3>2
  <2> QED BY <1>2, <2>1, EntriesKeep, EntriesTake DEF Inv, TypeOK, Outer, Quiet
<1>8. NestedOK'
  <2>1. g.pc # "release"
    BY DEF Outside, Filling
  <2> QED BY <1>2, <1>3, <2>1, NestedReplace DEF Inv, Outer, Quiet
<1> QED BY <1>5, <1>6, <1>7, <1>8 DEF Inv, Calm

\* An outer step that pops the top frame keeps the invariant.
LEMMA PopKeeps ==
  ASSUME Inv, Outer, NEW t \in Threads, stack[t] # <<>>, Pop(t), Top(t).source = None,
         Top(t).pc \in Outside, Weight(Top(t)) = 0, UNCHANGED <<owner, owner_count>>,
         UNCHANGED asleep, t \notin asleep, TypeOK'
  PROVE  Inv'
<1>1. PICK old : old = Top(t)
  OBVIOUS
<1>2. stack \in Stacks /\ StackOK /\ old \in Shape
  BY <1>1, TopFrame DEF Inv, TypeOK, Stacks, Shape
<1>3. Pops(t)
  BY <1>2, PopPops
<1>4. Move(t, old, Gone)
  BY <1>1, <1>2, <1>3, PopMoves
<1>5. StackOK' /\ Calm' /\ TimeOK' /\ QueueOK' /\ ScanOK' /\ RunOK'
  BY <1>1, <1>2, <1>4, OuterParts, GoneFacts, GoneParts
<1>6. OwnerOK'
  BY <1>1, <1>2, <1>4, OwnerKeep, GoneParts DEF Inv
<1>7. SleepOK'
  BY <1>2, <1>4, SleepKeep DEF Inv, TypeOK, Outer
<1>8. EntriesOK'
  <2>1. ASSUME NEW u \in Threads PROVE Taken(u)' = Taken(u)
    <3>1. CASE u = t
      BY <1>2, <1>3, <3>1, TakenPop
    <3>2. CASE u # t
      BY <1>3, <3>2, TakenOther DEF Pops
    <3> QED BY <3>1, <3>2
  <2> QED BY <1>2, <2>1, EntriesKeep DEF Inv, Outer, Quiet
<1>9. NestedOK'
  BY <1>2, <1>3, NestedPop DEF Inv, Outer, Quiet
<1> QED BY <1>5, <1>6, <1>7, <1>8, <1>9 DEF Inv, Calm

\* The list of waiters.
LEMMA WithoutType ==
  ASSUME NEW q \in Seq(Threads), NEW x
  PROVE  Without(q, x) \in Seq(Threads)
<1> DEFINE at == CHOOSE k \in DOMAIN q : q[k] = x
           r == [k \in 1 .. Len(q) - 1 |-> IF k < at THEN q[k] ELSE q[k + 1]]
<1>1. CASE \A k \in DOMAIN q : q[k] # x
  BY <1>1 DEF Without
<1>2. CASE ~\A k \in DOMAIN q : q[k] # x
  <2>1. at \in 1 .. Len(q) /\ Len(q) \in Nat
    BY <1>2
  <2>2. Without(q, x) = r
    BY <1>2 DEF Without
  <2>3. Len(q) - 1 \in Nat
    BY <2>1
  <2> HIDE DEF at
  <2>4. \A k \in 1 .. Len(q) - 1 : (IF k < at THEN q[k] ELSE q[k + 1]) \in Threads
    BY <2>1
  <2>5. r \in Seq(Threads)
    BY <2>3, <2>4, IsASeq
  <2> QED BY <2>2, <2>5
<1> QED BY <1>1, <1>2

\* The top frame is typed and sound.
LEMMA TopParts ==
  ASSUME Inv, NEW t \in Threads, stack[t] # <<>>
  PROVE  Top(t) \in Frame /\ FrameOK(Top(t)) /\ stack \in Stacks
  BY TopFrame DEF Inv, TypeOK, Stacks, StackOK

\* A thread that does not own the context runs no loop on it.
LEMMA NoLoopUnlessOwner ==
  ASSUME Inv, NEW t \in Threads, stack[t] # <<>>, ~MayOwn(t),
         Top(t).pc \notin {"loopWait", "loopAsleep"}
  PROVE  Top(t).loop = None /\ Weight(Top(t)) = 0
<1>1. Weight(Top(t)) = 0
  BY OwnerTop DEF Inv, TypeOK, Stacks, MayOwn
<1> QED BY <1>1 DEF Weight, Bit, HoldsLoop

\* A new frame.
LEMMA NewFrameType ==
  ASSUME NEW label \in PC
  PROVE  /\ NewFrame(label) \in Frame /\ NewFrame(label).pc = label
                /\ NewFrame(label).loop = None
         /\ NewFrame(label).source = None /\ NewFrame(label).dispatch = TRUE
         /\ NewFrame(label).n_ready = FALSE /\ NewFrame(label).max_priority = MaxInt
         /\ NewFrame(label).timeout = 0
<1>1. MaxInt \in Int /\ NotFresh \in Int
  BY DEF MaxInt, NotFresh
<1>2. NewFrame(label) \in Frame
  BY <1>1 DEF NewFrame, Frame
<1> QED BY <1>2 DEF NewFrame

\* xmain_context_iteration keeps the invariant.
LEMMA IterationKeeps ==
  ASSUME Inv, NEW t \in Threads, NEW may_block \in BOOLEAN,
         xmain_context_iteration(t, may_block)
  PROVE  Inv'
<1> USE DEF xmain_context_iteration, CanCall
<1>1. PICK g : g = [NewFrame("acquire") EXCEPT !.block = may_block]
  OBVIOUS
<1>2. /\ g \in Frame /\ g.pc = "acquire" /\ g.loop = None /\ g.source = None
      /\ g.dispatch
      /\ g.n_ready = FALSE /\ g.max_priority = MaxInt /\ g.timeout = 0
  <2>1. PICK b : b = NewFrame("acquire")
    OBVIOUS
  <2>2. /\ b \in Frame /\ b.pc = "acquire" /\ b.loop = None /\ b.source = None
        /\ b.dispatch = TRUE
        /\ b.n_ready = FALSE /\ b.max_priority = MaxInt /\ b.timeout = 0
    BY <2>1, NewFrameType DEF PC
  <2>3. g \in Frame
    BY <1>1, <2>1, <2>2 DEF Frame
  <2> QED BY <1>1, <2>1, <2>2, <2>3 DEF Frame
<1>3. FrameOK(g) /\ Weight(g) = 0 /\ RunFrameOK(g)' /\ g.pc \in Outside
  BY <1>2, OutsideFacts
     DEF FrameOK, LoopPC, WithSource, Scanning, Checking, Weight, Bit, Iterates,
         HoldsLoop, Iterating, RunFrameOK
<1>4. Push(t, g)
  BY <1>1
<1>5. TypeOK'
  <2>1. stack' \in Stacks
    BY <1>2, <1>4, PushPushes DEF Inv, TypeOK, Stacks, Pushes
  <2> QED BY <2>1 DEF Inv, TypeOK, Stacks, ownvars, srcvars, pollvars, envvars
<1>6. Outer
  BY DEF Outer, Quiet, srcvars, pollvars, envvars
<1> QED BY <1>2, <1>3, <1>4, <1>5, <1>6, PushKeeps DEF ownvars

\* xmain_context_pending keeps the invariant.
LEMMA PendingKeeps ==
  ASSUME Inv, NEW t \in Threads, xmain_context_pending(t)
  PROVE  Inv'
<1> USE DEF xmain_context_pending, CanCall
<1>1. PICK g : g = [NewFrame("acquire") EXCEPT !.block = FALSE, !.dispatch = FALSE]
  OBVIOUS
<1>2. /\ g \in Frame /\ g.pc = "acquire" /\ g.loop = None /\ g.source = None
      /\ g.n_ready = FALSE /\ g.max_priority = MaxInt /\ g.timeout = 0
  <2>1. PICK b : b = NewFrame("acquire")
    OBVIOUS
  <2>2. /\ b \in Frame /\ b.pc = "acquire" /\ b.loop = None /\ b.source = None
        /\ b.dispatch = TRUE
        /\ b.n_ready = FALSE /\ b.max_priority = MaxInt /\ b.timeout = 0
    BY <2>1, NewFrameType DEF PC
  <2>3. g \in Frame
    BY <1>1, <2>1, <2>2 DEF Frame
  <2> QED BY <1>1, <2>1, <2>2, <2>3 DEF Frame
<1>3. FrameOK(g) /\ Weight(g) = 0 /\ RunFrameOK(g)' /\ g.pc \in Outside
  BY <1>2, OutsideFacts
     DEF FrameOK, LoopPC, WithSource, Scanning, Checking, Weight, Bit, Iterates,
         HoldsLoop, Iterating, RunFrameOK
<1>4. Push(t, g)
  BY <1>1
<1>5. TypeOK'
  <2>1. stack' \in Stacks
    BY <1>2, <1>4, PushPushes DEF Inv, TypeOK, Stacks, Pushes
  <2> QED BY <2>1 DEF Inv, TypeOK, Stacks, ownvars, srcvars, pollvars, envvars
<1>6. Outer
  BY DEF Outer, Quiet, srcvars, pollvars, envvars
<1>7. Len(stack[t]) = 0 \/ MayPend # 0
  BY LenFacts DEF Inv, TypeOK, Stacks
<1> QED BY <1>2, <1>3, <1>4, <1>5, <1>6, <1>7, PushKeeps DEF ownvars

\* xmain_loop_run keeps the invariant.
LEMMA LoopRunKeeps ==
  ASSUME Inv, NEW t \in Threads, NEW l \in Loops, xmain_loop_run(t, l)
  PROVE  Inv'
<1> USE DEF xmain_loop_run, CanCall
<1>1. PICK label : label = (IF MayOwn(t) THEN "loopStart" ELSE "loopWait")
  OBVIOUS
<1>2. PICK g : g = [NewFrame(label) EXCEPT !.loop = l]
  OBVIOUS
<1>3. label \in {"loopStart", "loopWait"} /\ l # None
  BY <1>1, GMainContextAssumption DEF GMainContextAssumption
<1>4. /\ g \in Frame /\ g.pc = label /\ g.loop = l /\ g.source = None /\ g.dispatch
      /\ g.n_ready = FALSE /\ g.max_priority = MaxInt /\ g.timeout = 0
  <2>1. PICK b : b = NewFrame(label)
    OBVIOUS
  <2>2. /\ b \in Frame /\ b.pc = label /\ b.loop = None /\ b.source = None
        /\ b.dispatch = TRUE
        /\ b.n_ready = FALSE /\ b.max_priority = MaxInt /\ b.timeout = 0
    <3>1. label \in PC
      BY <1>3 DEF PC
    <3> QED BY <2>1, <3>1, NewFrameType
  <2>3. g \in Frame
    BY <1>2, <2>1, <2>2 DEF Frame
  <2> QED BY <1>2, <2>1, <2>2, <2>3 DEF Frame
<1>5. FrameOK(g) /\ RunFrameOK(g)' /\ g.pc \in Outside
  BY <1>3, <1>4, OutsideFacts
     DEF FrameOK, LoopPC, WithSource, Scanning, Checking, RunFrameOK
<1>6. Weight(g) = IF MayOwn(t) THEN 1 ELSE 0
  BY <1>1, <1>3, <1>4 DEF Weight, Bit, Iterates, HoldsLoop, Iterating
<1>7. Push(t, g)
  BY <1>1, <1>2
<1>8. \/ Weight(g) = 0 /\ UNCHANGED <<owner, owner_count>>
      \/ Weight(g) = 1 /\ MayOwn(t) /\ TakeOwnership(t)
  BY <1>6
<1>9. TypeOK'
  <2>1. stack' \in Stacks
    BY <1>4, <1>7, PushPushes DEF Inv, TypeOK, Stacks, Pushes
  <2> QED
    BY <1>8, <2>1 DEF Inv, TypeOK, Stacks, TakeOwnership, srcvars, pollvars, envvars
<1>10. Outer
  BY DEF Outer, Quiet, srcvars, pollvars, envvars
<1> QED BY <1>4, <1>5, <1>7, <1>8, <1>9, <1>10, PushKeeps

\* The frame that Goto leaves.
LEMMA GotoFrame ==
  ASSUME NEW x \in Frame, NEW label \in PC, NEW g, g = [x EXCEPT !.pc = label]
  PROVE  /\ g \in Frame /\ g.pc = label /\ g.loop = x.loop /\ g.source = x.source
                /\ g.i = x.i
         /\ g.dispatch = x.dispatch /\ g.n_ready = x.n_ready
         /\ g.max_priority = x.max_priority
         /\ g.timeout = x.timeout /\ g.fds = x.fds
  BY DEF Frame

\* From one outside place to another.
LEMMA GotoKeeps ==
  ASSUME Inv, Outer, NEW t \in Threads, stack[t] # <<>>, NEW label \in Outside,
         Top(t).pc \in Outside \ {"destroying"}, label # "destroying", Goto(t, label),
         label \in LoopPC => Top(t).loop # None,
         \/ Top(t).loop = None
         \/ label \in LoopPC
         \/ is_running'[Top(t).loop]
         \/ Top(t).pc \in {"acquire", "wait", "asleep", "prepare"},
         SleepOK', TypeOK',
         \/ label \notin Iterating /\ Top(t).pc \notin {"loopWait", "loopAsleep"}
              /\ label \notin {"loopWait", "loopAsleep"} /\ Top(t).pc \notin Iterating
              /\ UNCHANGED <<owner, owner_count>>
         \/ Top(t).pc = "loopWait" /\ label = "loopAsleep" /\ UNCHANGED <<owner,
                                                                          owner_count>>
         \/ Top(t).pc \in {"loopWait", "loopAsleep"}
                /\ label \in {"acquire", "loopRelease"}
              /\ MayOwn(t) /\ TakeOwnership(t)
         \/ Top(t).pc \in {"acquire", "wait", "asleep"} /\ label = "prepare"
              /\ MayOwn(t) /\ TakeOwnership(t)
  PROVE  Inv'
<1>1. PICK old : old = Top(t)
  OBVIOUS
<1>2. PICK g : g = [old EXCEPT !.pc = label]
  OBVIOUS
<1>3. old \in Frame /\ FrameOK(old) /\ stack \in Stacks
  BY <1>1, TopParts
<1>4. label \in PC
  BY DEF Outside
<1>5. /\ g \in Frame /\ g.pc = label /\ g.loop = old.loop /\ g.source = old.source
      /\ g.i = old.i
      /\ g.dispatch = old.dispatch /\ g.n_ready = old.n_ready
      /\ g.max_priority = old.max_priority
      /\ g.timeout = old.timeout
  BY <1>2, <1>3, <1>4, GotoFrame
<1>6. SetTop(t, g)
  BY <1>1, <1>2 DEF Goto
<1>7. old.source = None
  BY <1>1, <1>3 DEF FrameOK, Outside, WithSource, Section, Filling, Scanning, Checking
<1>8. FrameOK(g)
  BY <1>1, <1>3, <1>5, <1>7
     DEF FrameOK, Outside, WithSource, LoopPC, Section, Filling, Scanning, Checking
<1>9. RunFrameOK(g)'
  <2>1. RunFrameOK(old) /\ old.loop \in Loops \cup {None}
    BY <1>1, <1>3 DEF Inv, RunOK, Frame
  <2> QED BY <1>1, <1>5, <2>1 DEF RunFrameOK, Outer, LoopPC, Scanning
<1>10. \/ Weight(g) = Weight(old) /\ UNCHANGED <<owner, owner_count>>
       \/ Weight(g) = Weight(old) + 1 /\ MayOwn(t) /\ TakeOwnership(t)
  BY <1>1, <1>3, <1>5 DEF Weight, Bit, Iterates, HoldsLoop, Iterating, FrameOK, LoopPC
<1> QED BY <1>1, <1>3, <1>5, <1>6, <1>7, <1>8, <1>9, <1>10, ReplaceKeeps

\* Goto moves the top frame.
LEMMA GotoMoves ==
  ASSUME Inv, NEW t \in Threads, stack[t] # <<>>, NEW label \in PC, Goto(t, label)
  PROVE  /\ stack' \in Stacks /\ Replaces(t, [Top(t) EXCEPT !.pc = label])
         /\ Move(t, Top(t), [Top(t) EXCEPT !.pc = label])
<1>1. PICK old : old = Top(t)
  OBVIOUS
<1>2. PICK g : g = [old EXCEPT !.pc = label]
  OBVIOUS
<1>3. old \in Frame /\ stack \in Stacks
  BY <1>1, TopParts
<1>4. g \in Frame
  BY <1>2, <1>3, GotoFrame
<1>5. SetTop(t, g)
  BY <1>1, <1>2 DEF Goto
<1>6. Replaces(t, g)
  BY <1>3, <1>4, <1>5, SetTopReplaces
<1>7. Move(t, old, g)
  BY <1>1, <1>3, <1>4, <1>6, ReplaceMoves DEF Inv
<1> QED BY <1>1, <1>2, <1>6, <1>7 DEF Replaces

\* An awake thread moves.
LEMMA GotoSleep ==
  ASSUME Inv, NEW t \in Threads, stack[t] # <<>>, NEW label \in PC, Goto(t, label),
         t \notin asleep, UNCHANGED asleep, \A l \in Loops :
             is_running[l] => is_running'[l]
  PROVE  SleepOK'
<1>1. PICK old : old = Top(t)
  OBVIOUS
<1>2. PICK g : g = [old EXCEPT !.pc = label]
  OBVIOUS
<1>3. Move(t, old, g)
  BY <1>1, <1>2, GotoMoves
<1> QED BY <1>3, SleepKeep DEF Inv, TypeOK, Stacks

\* A thread goes to sleep.
LEMMA FallsAsleep ==
  ASSUME Inv, NEW t \in Threads, stack[t] # <<>>,
         NEW label \in {"asleep", "loopAsleep"},
         Goto(t, label), asleep' = asleep \cup {t}, label = "loopAsleep"
             => is_running'[Top(t).loop],
         \A l \in Loops : is_running[l] => is_running'[l]
  PROVE  SleepOK'
<1>1. PICK old : old = Top(t)
  OBVIOUS
<1>2. PICK g : g = [old EXCEPT !.pc = label]
  OBVIOUS
<1>3. old \in Frame /\ stack \in Stacks
  BY <1>1, TopParts
<1>4. label \in PC
  BY DEF PC
<1>5. Replaces(t, g) /\ g.pc = label /\ g.loop = old.loop
  BY <1>1, <1>2, <1>3, <1>4, GotoMoves, GotoFrame
<1>6. ASSUME NEW u \in asleep'
      PROVE  At(u, "asleep")' \/ (At(u, "loopAsleep")' /\ is_running'[Top(u)'.loop])
  <2>1. CASE u = t
    BY <1>1, <1>5, <2>1 DEF Replaces, At
  <2>2. CASE u # t
    <3>1. u \in Threads /\ u \in asleep /\ stack'[u] = stack[u]
      BY <1>5, <1>6, <2>2 DEF Replaces, Inv, TypeOK
    <3>2. \/ At(u, "asleep")
          \/ At(u, "loopAsleep") /\ is_running[Top(u).loop]
      BY <3>1 DEF SleepOK, Inv
    <3>3. At(u, "loopAsleep") => Top(u).loop \in Loops
      BY <3>1, TopParts DEF At, Frame, FrameOK, LoopPC
    <3> QED BY <3>1, <3>2, <3>3 DEF At, Top
  <2> QED BY <2>1, <2>2
<1> QED BY <1>6 DEF SleepOK

\* The loop of a frame of xmain_loop_run.
LEMMA LoopInLoops ==
  ASSUME Inv, NEW t \in Threads, stack[t] # <<>>, Top(t).pc \in LoopPC
  PROVE  Top(t).loop \in Loops
  BY TopParts DEF Frame, FrameOK

\* Taking the ownership keeps the types.
LEMMA TakeTypes ==
  ASSUME TypeOK, NEW t \in Threads, TakeOwnership(t)
  PROVE  owner' \in Threads \cup {None} /\ owner_count' \in Nat
  BY DEF TypeOK, TakeOwnership

\* LoopStart keeps the invariant.
LEMMA LoopStartKeeps ==
  ASSUME Inv, NEW t \in Threads, LoopStart(t)
  PROVE  Inv'
<1> USE DEF LoopStart, ownvars, srcvars, pollvars, envvars
<1>1. stack[t] # <<>> /\ Top(t).pc = "loopStart" /\ t \notin asleep
  BY AwakeTop DEF At, Inv
<1>2. Top(t).loop \in Loops
  BY <1>1, LoopInLoops DEF LoopPC
<1>3. "acquire" \in PC /\ "acquire" \in Outside /\ "loopStart" \in Outside
  BY OutsideFacts
<1>4. TypeOK'
  BY <1>1, <1>2, <1>3, GotoMoves DEF Inv, TypeOK, Stacks
<1>5. Outer /\ is_running'[Top(t).loop]
  BY <1>2 DEF Outer, Quiet, Inv, TypeOK
<1>6. SleepOK'
  BY <1>1, <1>3, <1>5, GotoSleep DEF Outer
<1> QED BY <1>1, <1>3, <1>4, <1>5, <1>6, GotoKeeps DEF LoopPC, Iterating

\* LoopWait keeps the invariant.
LEMMA LoopWaitKeeps ==
  ASSUME Inv, NEW t \in Threads, LoopWait(t)
  PROVE  Inv'
<1> USE DEF LoopWait, srcvars, pollvars, envvars
<1>1. stack[t] # <<>> /\ Top(t).pc = "loopWait" /\ t \notin asleep
  BY AwakeTop DEF At, Inv
<1>2. Top(t).loop \in Loops
  BY <1>1, LoopInLoops DEF LoopPC
<1>3. /\ {"acquire", "loopAsleep"} \subseteq PC
      /\ {"acquire", "loopAsleep", "loopWait"} \subseteq Outside
      /\ {"acquire", "loopAsleep"} \cap Iterating = {} /\ "loopAsleep" \in LoopPC
      /\ Top(t).loop # None
  BY <1>2, OutsideFacts, GMainContextAssumption
     DEF Iterating, LoopPC, GMainContextAssumption
<1>4. Outer /\ is_running'[Top(t).loop]
  BY <1>2 DEF Outer, Quiet, Inv, TypeOK
<1>5. CASE MayOwn(t)
  <2>1. Goto(t, "acquire") /\ TakeOwnership(t) /\ UNCHANGED <<waiters, asleep>>
    BY <1>5
  <2>2. TypeOK'
    BY <1>1, <1>2, <1>3, <2>1, GotoMoves, TakeTypes DEF Inv, TypeOK, Stacks
  <2>3. SleepOK'
    BY <1>1, <1>3, <1>4, <2>1, GotoSleep DEF Outer
  <2> QED BY <1>1, <1>3, <1>4, <1>5, <2>1, <2>2, <2>3, GotoKeeps DEF LoopPC
<1>6. CASE ~MayOwn(t)
  <2>1. Goto(t, "loopAsleep") /\ Sleep(t) /\ UNCHANGED <<owner, owner_count>>
    BY <1>6
  <2>2. TypeOK'
    BY <1>1, <1>2, <1>3, <2>1, GotoMoves, AppendProperties
       DEF Inv, TypeOK, Stacks, Sleep
  <2>3. SleepOK'
    BY <1>1, <1>3, <1>4, <2>1, FallsAsleep DEF Outer, Sleep
  <2> QED BY <1>1, <1>3, <1>4, <1>6, <2>1, <2>2, <2>3, GotoKeeps
<1> QED BY <1>5, <1>6

\* xmain_context_acquire keeps the invariant.
LEMMA AcquireKeeps ==
  ASSUME Inv, NEW t \in Threads, xmain_context_acquire(t)
  PROVE  Inv'
<1> USE DEF xmain_context_acquire, srcvars, pollvars, envvars
<1>1. stack[t] # <<>> /\ Top(t).pc = "acquire" /\ t \notin asleep
  BY AwakeTop DEF At, Inv
<1>2. /\ {"prepare", "wait"} \subseteq PC
      /\ {"acquire", "wait", "prepare"} \subseteq Outside
      /\ "wait" \notin Iterating /\ "acquire" \notin Iterating
      /\ "wait" \notin LoopPC /\ "prepare" \notin LoopPC
  BY OutsideFacts DEF Iterating, LoopPC
<1>3. Outer
  BY DEF Outer, Quiet
<1>4. CASE MayOwn(t)
  <2>1. Goto(t, "prepare") /\ TakeOwnership(t)
    BY <1>4
  <2>2. TypeOK'
    BY <1>1, <1>2, <2>1, GotoMoves, TakeTypes DEF Inv, TypeOK, Stacks
  <2>3. SleepOK'
    BY <1>1, <1>2, <1>3, <2>1, GotoSleep DEF Outer
  <2> QED BY <1>1, <1>2, <1>3, <1>4, <2>1, <2>2, <2>3, GotoKeeps
<1>5. CASE ~MayOwn(t) /\ Top(t).block
  <2>1. Goto(t, "wait") /\ UNCHANGED <<owner, owner_count>>
    BY <1>5
  <2>2. TypeOK'
    BY <1>1, <1>2, <2>1, GotoMoves DEF Inv, TypeOK, Stacks
  <2>3. SleepOK'
    BY <1>1, <1>2, <1>3, <2>1, GotoSleep DEF Outer
  <2> QED BY <1>1, <1>2, <1>3, <1>5, <2>1, <2>2, <2>3, GotoKeeps
<1>6. CASE ~MayOwn(t) /\ ~Top(t).block
  <2>1. Pop(t) /\ UNCHANGED <<owner, owner_count>>
    BY <1>6
  <2>2. TypeOK'
    BY <1>1, <2>1, PopPops DEF Inv, TypeOK, Stacks, Pops
  <2>3. Top(t).source = None
    BY <1>1, TopParts DEF FrameOK, WithSource
  <2> QED BY <1>1, <1>2, <1>3, <1>6, <2>1, <2>2, <2>3, PopKeeps, NoLoopUnlessOwner
<1> QED BY <1>4, <1>5, <1>6

\* xmain_context_wait_internal keeps the invariant.
LEMMA WaitKeeps ==
  ASSUME Inv, NEW t \in Threads, xmain_context_wait_internal(t)
  PROVE  Inv'
<1> USE DEF xmain_context_wait_internal, srcvars, pollvars, envvars
<1>1. stack[t] # <<>> /\ Top(t).pc = "wait" /\ t \notin asleep
  BY AwakeTop DEF At, Inv
<1>2. /\ {"prepare", "asleep"} \subseteq PC
      /\ {"asleep", "wait", "prepare"} \subseteq Outside
      /\ "wait" \notin Iterating /\ "asleep" \notin Iterating
      /\ "asleep" \notin LoopPC /\ "prepare" \notin LoopPC
  BY OutsideFacts DEF Iterating, LoopPC
<1>3. Outer
  BY DEF Outer, Quiet
<1>4. CASE MayOwn(t)
  <2>1. Goto(t, "prepare") /\ TakeOwnership(t) /\ UNCHANGED <<waiters, asleep>>
    BY <1>4
  <2>2. TypeOK'
    BY <1>1, <1>2, <2>1, GotoMoves, TakeTypes DEF Inv, TypeOK, Stacks
  <2>3. SleepOK'
    BY <1>1, <1>2, <1>3, <2>1, GotoSleep DEF Outer
  <2> QED BY <1>1, <1>2, <1>3, <1>4, <2>1, <2>2, <2>3, GotoKeeps
<1>5. CASE ~MayOwn(t)
  <2>1. Goto(t, "asleep") /\ Sleep(t) /\ UNCHANGED <<owner, owner_count>>
    BY <1>5
  <2>2. TypeOK'
    BY <1>1, <1>2, <2>1, GotoMoves, AppendProperties DEF Inv, TypeOK, Stacks, Sleep
  <2>3. SleepOK'
    BY <1>1, <1>2, <1>3, <2>1, FallsAsleep DEF Outer, Sleep
  <2> QED BY <1>1, <1>2, <1>3, <1>5, <2>1, <2>2, <2>3, GotoKeeps
<1> QED BY <1>4, <1>5

\* Woken keeps the invariant.
LEMMA WokenKeeps ==
  ASSUME Inv, NEW t \in Threads, Woken(t)
  PROVE  Inv'
<1> USE DEF Woken, srcvars, pollvars, envvars
<1>1. stack[t] # <<>> /\ Top(t).pc = "asleep" /\ t \notin asleep
  BY DEF At
<1>2. waiters' \in Seq(Threads)
  BY WithoutType DEF Inv, TypeOK
<1>3. /\ "prepare" \in PC /\ {"asleep", "prepare"} \subseteq Outside
      /\ "prepare" \notin LoopPC
  BY OutsideFacts DEF LoopPC
<1>4. Outer
  BY DEF Outer, Quiet
<1>5. CASE MayOwn(t)
  <2>1. Goto(t, "prepare") /\ TakeOwnership(t)
    BY <1>5
  <2>2. TypeOK'
    BY <1>1, <1>2, <1>3, <2>1, GotoMoves, TakeTypes DEF Inv, TypeOK, Stacks
  <2>3. SleepOK'
    BY <1>1, <1>3, <1>4, <2>1, GotoSleep DEF Outer
  <2> QED BY <1>1, <1>3, <1>4, <1>5, <2>1, <2>2, <2>3, GotoKeeps
<1>6. CASE ~MayOwn(t)
  <2>1. Pop(t) /\ UNCHANGED <<owner, owner_count>>
    BY <1>6
  <2>2. TypeOK'
    BY <1>1, <1>2, <2>1, PopPops DEF Inv, TypeOK, Stacks, Pops
  <2>3. Top(t).source = None
    BY <1>1, TopParts DEF FrameOK, WithSource
  <2> QED BY <1>1, <1>3, <1>4, <1>6, <2>1, <2>2, <2>3, PopKeeps, NoLoopUnlessOwner
<1> QED BY <1>5, <1>6

\* LoopWoken keeps the invariant.
LEMMA LoopWokenKeeps ==
  ASSUME Inv, NEW t \in Threads, LoopWoken(t)
  PROVE  Inv'
<1> USE DEF LoopWoken, srcvars, pollvars, envvars
<1>1. stack[t] # <<>> /\ Top(t).pc = "loopAsleep" /\ t \notin asleep
  BY DEF At
<1>2. Top(t).loop \in Loops
  BY <1>1, LoopInLoops DEF LoopPC
<1>3. Without(waiters, t) \in Seq(Threads) /\ waiters' \in Seq(Threads)
  <2>1. Without(waiters, t) \in Seq(Threads)
    BY WithoutType DEF Inv, TypeOK
  <2> QED BY <2>1, AppendProperties
<1>4. /\ {"acquire", "loopRelease"} \subseteq PC
      /\ {"acquire", "loopAsleep", "loopRelease"} \subseteq Outside
      /\ "loopRelease" \in LoopPC
      /\ Top(t).loop # None
  BY <1>2, OutsideFacts, GMainContextAssumption DEF LoopPC, GMainContextAssumption
<1>5. Outer
  BY DEF Outer, Quiet
<1>6. CASE MayOwn(t)
  <2>1. PICK label : label = (IF is_running[Top(t).loop] THEN "acquire"
                 ELSE "loopRelease")
    OBVIOUS
  <2>2. Goto(t, label) /\ TakeOwnership(t) /\ UNCHANGED asleep
    BY <1>6, <2>1
  <2>3. /\ label \in {"acquire", "loopRelease"} /\ label \in PC /\ label \in Outside
        /\ label \in LoopPC \/ is_running[Top(t).loop]
    BY <1>4, <2>1
  <2>4. TypeOK'
    BY <1>1, <1>3, <2>2, <2>3, GotoMoves, TakeTypes DEF Inv, TypeOK, Stacks
  <2>5. SleepOK'
    BY <1>1, <1>5, <2>2, <2>3, GotoSleep DEF Outer
  <2>6. label # "destroying" /\ UNCHANGED is_running
    BY <2>3
  <2> QED BY <1>1, <1>4, <1>5, <1>6, <2>2, <2>3, <2>4, <2>5, <2>6, GotoKeeps
<1>7. CASE ~MayOwn(t) /\ is_running[Top(t).loop]
  <2>1. UNCHANGED <<stack, owner, owner_count>> /\ asleep' = asleep \cup {t}
    BY <1>7
  <2>2. TypeOK'
    BY <1>3, <2>1 DEF Inv, TypeOK
  <2>3. SleepOK'
    BY <1>1, <1>7, <2>1 DEF Inv, SleepOK, At, Top
  <2>4. now' >= now /\ now' <= MaxTime
    BY DEF Inv, TypeOK, TimeOK
  <2>5. UNCHANGED still
    BY <2>1 DEF still
  <2> QED BY <2>2, <2>3, <2>4, <2>5, StillKeeps
<1>8. CASE ~MayOwn(t) /\ ~is_running[Top(t).loop]
  <2>1. Pop(t) /\ UNCHANGED <<owner, owner_count, asleep>>
    BY <1>8
  <2>2. TypeOK'
    BY <1>1, <1>3, <2>1, PopPops DEF Inv, TypeOK, Stacks, Pops
  <2>3. Top(t).source = None
    BY <1>1, TopParts DEF FrameOK, WithSource
  <2>4. Weight(Top(t)) = 0
    BY <1>1 DEF Weight, Bit, Iterates, HoldsLoop, Iterating
  <2> QED BY <1>1, <1>4, <1>5, <2>1, <2>2, <2>3, <2>4, PopKeeps
<1> QED BY <1>6, <1>7, <1>8

\* LoopTest keeps the invariant.
LEMMA LoopTestKeeps ==
  ASSUME Inv, NEW t \in Threads, LoopTest(t)
  PROVE  Inv'
<1> USE DEF LoopTest, ownvars, srcvars, pollvars, envvars
<1>1. stack[t] # <<>> /\ Top(t).pc = "loopTest" /\ t \notin asleep
  BY AwakeTop DEF At, Inv
<1>2. Top(t).loop \in Loops
  BY <1>1, LoopInLoops DEF LoopPC
<1>3. /\ {"acquire", "loopRelease"} \subseteq PC /\ "loopRelease" \notin Iterating
      /\ {"acquire", "loopTest", "loopRelease"} \subseteq Outside
      /\ "loopRelease" \in LoopPC
      /\ Top(t).loop # None
  BY <1>2, OutsideFacts, GMainContextAssumption
     DEF LoopPC, Iterating, GMainContextAssumption
<1>4. Outer
  BY DEF Outer, Quiet
<1>5. CASE ~is_running[Top(t).loop]
  <2>1. Goto(t, "loopRelease")
    BY <1>5
  <2>2. TypeOK'
    BY <1>1, <1>3, <2>1, GotoMoves DEF Inv, TypeOK, Stacks
  <2>3. SleepOK'
    BY <1>1, <1>3, <1>4, <2>1, GotoSleep DEF Outer
  <2> QED BY <1>1, <1>3, <1>4, <2>1, <2>2, <2>3, GotoKeeps DEF Iterating
<1>6. CASE is_running[Top(t).loop]
  <2>1. PICK old : old = Top(t)
    OBVIOUS
  <2>2. PICK g : g = [old EXCEPT !.pc = "acquire", !.block = TRUE]
    OBVIOUS
  <2>3. old \in Frame /\ FrameOK(old) /\ stack \in Stacks /\ old.source = None
    BY <1>1, <2>1, TopParts DEF FrameOK, WithSource
  <2>4. /\ g \in Frame /\ g.pc = "acquire" /\ g.loop = old.loop
        /\ g.source = old.source
        /\ g.dispatch = old.dispatch /\ g.n_ready = old.n_ready
        /\ g.max_priority = old.max_priority
        /\ g.timeout = old.timeout
    BY <1>3, <2>2, <2>3 DEF Frame
  <2>5. SetTop(t, g)
    BY <1>6, <2>1, <2>2
  <2>6. FrameOK(g)
    BY <1>1, <2>1, <2>3, <2>4 DEF FrameOK, WithSource, LoopPC, Scanning, Checking
  <2>7. Replaces(t, g)
    BY <1>1, <2>3, <2>4, <2>5, SetTopReplaces
  <2>8. Move(t, old, g)
    BY <1>1, <2>1, <2>3, <2>4, <2>7, ReplaceMoves DEF Inv
  <2>9. SleepOK'
    BY <1>1, <2>3, <2>8, SleepKeep DEF Inv, TypeOK
  <2>10. TypeOK'
    BY <2>7 DEF Inv, TypeOK, Stacks, Replaces
  <2>11. RunFrameOK(g)' /\ Weight(g) = Weight(old)
    BY <1>1, <1>6, <2>1, <2>4
       DEF RunFrameOK, Weight, Bit, Iterates, HoldsLoop, Iterating
  <2> QED
    BY <1>1, <1>3, <1>4, <2>1, <2>3, <2>4, <2>5, <2>6, <2>9, <2>10, <2>11,
       ReplaceKeeps
<1> QED BY <1>5, <1>6

\* What a release leaves.
LEMMA ReleaseTypes ==
  ASSUME TypeOK, NEW t \in Threads, xmain_context_release(t)
  PROVE  /\ owner' \in {owner, None} /\ waiters' \in Seq(Threads)
                /\ asleep' \subseteq asleep
<1>1. owner' \in {owner, None} /\ asleep' \subseteq asleep
  BY DEF xmain_context_release, Signal
<1>2. waiters # <<>> => Tail(waiters) \in Seq(Threads)
  BY DEF TypeOK
<1> QED BY <1>1, <1>2 DEF TypeOK, xmain_context_release

\* A thread that does not own the context has taken no entry.
TakenNone == \A t \in Threads :
  stack \in Stacks /\ StackOK /\ OwnerOK /\ t # owner => Taken(t) = 0

\* None of them has.
LEMMA TakenByNone == TakenNone
  BY TakenIdle DEF TakenNone

\* LoopRelease keeps the invariant.
LEMMA LoopReleaseKeeps ==
  ASSUME Inv, NEW t \in Threads, LoopRelease(t)
  PROVE  Inv'
<1> USE DEF LoopRelease, srcvars, pollvars, envvars
<1>1. stack[t] # <<>> /\ Top(t).pc = "loopRelease" /\ t \notin asleep
  BY AwakeTop DEF At, Inv
<1>2. PICK old : old = Top(t)
  OBVIOUS
<1>3. old \in Frame /\ FrameOK(old) /\ stack \in Stacks /\ old.source = None
          /\ old \in Shape
  BY <1>1, <1>2, TopParts DEF FrameOK, WithSource, Shape
<1>4. Weight(old) = 1 /\ t = owner
  <2>1. Weight(old) = 1
    BY <1>1, <1>2, <1>3
       DEF Weight, Bit, Iterates, HoldsLoop, Iterating, FrameOK, LoopPC
  <2> QED BY <1>1, <1>2, <1>3, <2>1, OwnerTop DEF Inv
<1>5. Outer
  BY DEF Outer, Quiet
<1>6. Pops(t)
  BY <1>1, <1>3, PopPops
<1>7. Move(t, old, Gone)
  BY <1>1, <1>2, <1>3, <1>6, PopMoves DEF Inv
<1>8. StackOK' /\ Calm' /\ TimeOK' /\ QueueOK' /\ ScanOK' /\ RunOK'
  BY <1>3, <1>5, <1>7, OuterParts, GoneFacts, GoneParts
<1>9. OwnerOK' /\ owner_count' \in Nat
  BY <1>3, <1>4, <1>7, OwnerDrop, GoneParts DEF Inv
<1>10. TypeOK'
  BY <1>6, <1>9, ReleaseTypes DEF Inv, TypeOK, Stacks, Pops
<1>11. SleepOK'
  BY <1>1, <1>3, <1>7, SleepKeep, ReleaseTypes DEF Inv, TypeOK, Outer
<1>12. ASSUME NEW u \in Threads PROVE Taken(u)' = Taken(u)
  <2>1. CASE u = t
    BY <1>1, <1>3, <1>6, <2>1, TakenPop, OutsideFacts DEF Inv
  <2>2. CASE u # t
    BY <1>6, <2>2, TakenOther DEF Pops
  <2> QED BY <2>1, <2>2
<1>13. EntriesOK'
  <2>1. CASE owner' = owner
    BY <1>12, <2>1, EntriesKeep DEF Inv
  <2>2. CASE owner' = None
    <3>1. TakenNone'
      BY TakenByNone, PTL
    <3>2. t # None /\ \A u \in Threads : u # None
      BY GMainContextAssumption DEF GMainContextAssumption
    <3>3. Taken(t) = 0
      BY <1>6, <1>8, <1>9, <1>12, <2>2, <3>1, <3>2 DEF TakenNone, Pops, Stacks
    <3>4. ASSUME NEW k \in DOMAIN pending_dispatches
          PROVE  pending_dispatches[k] # None
      <4>1. k \in Nat /\ k >= 1
        BY DEF Inv, TypeOK
      <4>2. EntryOK(k, t)
        BY <1>4 DEF Inv, EntriesOK
      <4> QED BY <3>3, <4>1, <4>2 DEF EntryOK
    <3> QED BY <2>2, <3>2, <3>4 DEF EntriesOK
  <2> QED BY <2>1, <2>2, ReleaseTypes DEF Inv
<1>14. NestedOK'
  BY <1>1, <1>3, <1>6, NestedPop DEF Inv
<1> QED BY <1>8, <1>9, <1>10, <1>11, <1>13, <1>14 DEF Inv, Calm

\* IterateReleases keeps the invariant.
LEMMA IterateReleasesKeeps ==
  ASSUME Inv, NEW t \in Threads, IterateReleases(t)
  PROVE  Inv'
<1> USE DEF IterateReleases, srcvars, pollvars, envvars
<1>1. stack[t] # <<>> /\ Top(t).pc = "release" /\ t \notin asleep
  BY AwakeTop DEF At, Inv
<1>2. PICK old : old = Top(t)
  OBVIOUS
<1>3. old \in Frame /\ FrameOK(old) /\ stack \in Stacks /\ old.source = None
          /\ old \in Shape
  BY <1>1, <1>2, TopParts DEF FrameOK, WithSource, Shape
<1>4. t = owner
  BY <1>1, <1>3, IterateOwns DEF Inv, Iterating
<1>5. Outer
  BY DEF Outer, Quiet
<1>6. PICK new \in Shape :
        /\ Move(t, old, new) /\ FrameOK(new) /\ Weight(new) = Weight(old) - 1
        /\ new.source = None
        /\ new.pc \notin Scanning \cup Checking /\ RunFrameOK(new)' /\ NestedOK'
        /\ Len(stack[t]) = 1 => Taken(t)' = 0
  <2>1. CASE old.loop # None
    <3>1. PICK g : g = [old EXCEPT !.pc = "loopTest"]
      OBVIOUS
    <3>2. "loopTest" \in PC
      BY DEF PC
    <3>3. /\ g \in Frame /\ g.pc = "loopTest" /\ g.loop = old.loop
          /\ g.source = old.source
          /\ g.dispatch = old.dispatch /\ g.n_ready = old.n_ready
          /\ g.max_priority = old.max_priority /\ g.timeout = old.timeout
      BY <1>3, <3>1, <3>2, GotoFrame
    <3>4. Replaces(t, g) /\ Move(t, old, g)
      BY <1>1, <1>2, <2>1, <3>1, <3>2, GotoMoves
    <3>5. FrameOK(g) /\ RunFrameOK(g)' /\ g.pc \notin Scanning \cup Checking
      BY <1>1, <1>2, <1>3, <2>1, <3>3
         DEF FrameOK, RunFrameOK, LoopPC, WithSource, Scanning, Checking
    <3>6. Weight(g) = Weight(old) - 1
      BY <1>1, <1>2, <2>1, <3>3 DEF Weight, Bit, Iterates, HoldsLoop, Iterating
    <3>7. NestedOK'
      BY <1>1, <1>2, <1>3, <3>3, <3>4, NestedReplace DEF Inv
    <3>8. Len(stack[t]) = 1 => Taken(t)' = 0
      BY <3>3, <3>4 DEF Replaces, Taken, Section
    <3> QED BY <1>3, <3>3, <3>4, <3>5, <3>6, <3>7, <3>8 DEF Shape
  <2>2. CASE old.loop = None
    <3>1. Pops(t)
      BY <1>1, <1>2, <1>3, <2>2, PopPops
    <3>2. Move(t, old, Gone)
      BY <1>1, <1>2, <1>3, <3>1, PopMoves DEF Inv
    <3>3. Weight(Gone) = Weight(old) - 1
      BY <1>1, <1>2, <2>2, GoneParts DEF Weight, Bit, Iterates, HoldsLoop, Iterating
    <3>4. NestedOK'
      BY <1>1, <1>3, <3>1, NestedPop DEF Inv
    <3>5. Len(stack[t]) = 1 => Taken(t)' = 0
      BY <3>1 DEF Pops, Taken
    <3> QED BY <3>2, <3>3, <3>4, <3>5, GoneFacts, GoneParts
  <2> QED BY <2>1, <2>2
<1>7. StackOK' /\ Calm' /\ TimeOK' /\ QueueOK' /\ ScanOK' /\ RunOK'
  BY <1>3, <1>5, <1>6, OuterParts
<1>8. OwnerOK' /\ owner_count' \in Nat
  BY <1>3, <1>4, <1>6, OwnerDrop DEF Inv
<1>9. TypeOK'
  BY <1>6, <1>8, ReleaseTypes DEF Inv, TypeOK, Stacks, Move
<1>10. SleepOK'
  BY <1>1, <1>3, <1>6, SleepKeep, ReleaseTypes DEF Inv, TypeOK, Outer
<1>11. EntriesOK'
  <2>1. Taken(t) = 0 /\ Len(stack[t]) \in Nat /\ Len(stack[t]) # 0
    BY <1>1, <1>3, LenFacts DEF Taken, Section, Filling
  <2>2. ASSUME NEW k \in DOMAIN pending_dispatches
        PROVE  pending_dispatches[k] # None /\ (MayPend = 0
                   => Len(stack[t]) = 1) /\ k >= 1 /\ k \in Nat
    <3>1. k \in Nat /\ k >= 1
      BY DEF Inv, TypeOK
    <3>2. EntryOK(k, t)
      BY <1>4 DEF Inv, EntriesOK
    <3>3. MayPend = 0 => Len(stack[t]) = 1
      <4>1. pending_dispatches # <<>>
        OBVIOUS
      <4>2. Len(stack[t]) # 1 => Len(stack[t]) >= 2
        BY <2>1, Below
      <4> QED BY <1>1, <4>1, <4>2 DEF Inv, NestedOK
    <3> QED BY <2>1, <3>1, <3>2, <3>3 DEF EntryOK
  <2>3. owner' \in {t, None} /\ \A u \in Threads : u # None
    BY <1>4, ReleaseTypes, GMainContextAssumption DEF Inv, GMainContextAssumption
  <2>4. ASSUME NEW k \in DOMAIN pending_dispatches PROVE EntryOK(k, t)'
    BY <1>6, <2>2 DEF EntryOK
  <2> QED BY <2>2, <2>3, <2>4 DEF EntriesOK
<1> QED BY <1>6, <1>7, <1>8, <1>9, <1>10, <1>11 DEF Inv, Calm

-----------------------------------------------------------------------------
(***************************************************************************)
(* The steps of an iteration, which the owner takes.                       *)
(***************************************************************************)
\* Thread t goes on with its iteration in frame g.
Advances(t, g) ==
  /\ stack[t] # <<>> /\ Top(t).pc \in Iterating /\ g.pc \in Iterating
  /\ g \in Frame /\ g.loop = Top(t).loop /\ SetTop(t, g) /\ FrameOK(g)
  /\ UNCHANGED <<owner, owner_count, asleep, is_running>>

\* What an advance of the owner keeps.
LEMMA AdvanceParts ==
  ASSUME Inv, NEW t \in Threads, NEW g, Advances(t, g), NEW old, old = Top(t),
         ScanFrameOK(g)', QueueFrameOK(g)', RunFrameOK(g)'
  PROVE  /\ stack \in Stacks /\ old \in Shape /\ g \in Shape /\ old \in Frame
                /\ FrameOK(old)
         /\ t = owner /\ Alone(t) /\ Replaces(t, g) /\ Move(t, old, g)
         /\ stack' \in Stacks
         /\ StackOK' /\ OwnerOK' /\ SleepOK' /\ ScanOK' /\ QueueOK' /\ RunOK'
<1> USE DEF Advances
<1>1. old \in Frame /\ FrameOK(old) /\ stack \in Stacks /\ old \in Shape /\ g \in Shape
  BY TopParts DEF Shape
<1>2. t = owner /\ Alone(t)
  BY <1>1, IterateOwns DEF Inv
<1>3. Replaces(t, g)
  BY <1>1, SetTopReplaces
<1>4. Move(t, old, g)
  BY <1>1, <1>3, ReplaceMoves DEF Inv
<1>5. StackOK'
  BY <1>1, <1>4, StackPart DEF Inv
<1>6. OwnerOK'
  <2>1. Weight(g) = Weight(old)
    BY DEF Weight, Bit, Iterates, HoldsLoop, Iterating
  <2> QED BY <1>1, <1>2, <1>4, <2>1, OwnerKeep DEF Inv
<1>7. t \notin asleep
  BY AwakeTop DEF Inv, Iterating
<1>8. SleepOK'
  BY <1>1, <1>4, <1>7, SleepKeep DEF Inv, TypeOK
<1>9. ScanOK' /\ QueueOK' /\ RunOK'
  BY <1>1, <1>2, <1>4, ScanAlone, QueueAlone, RunAlone
<1> QED BY <1>1, <1>2, <1>3, <1>4, <1>5, <1>6, <1>8, <1>9 DEF Replaces

\* A step of an iteration that leaves the sources alone.
LEMMA AdvanceKeeps ==
  ASSUME Inv, NEW t \in Threads, NEW g, Advances(t, g), Quiet,
         ScanFrameOK(g)', QueueFrameOK(g)', RunFrameOK(g)', TimeOK', TypeOK',
         Top(t).source = None, g.source = None, Top(t).dispatch => g.dispatch,
         MayPend = 0 /\ Len(stack[t]) >= 2 /\ g.pc = "release"
             => pending_dispatches = <<>>,
         \/ Top(t).pc \in Filling /\ g.pc \in Filling
         \/ Top(t).pc \in Filling /\ g.pc \in Section /\ g.i = 0
  PROVE  Inv'
<1>1. PICK old : old = Top(t)
  OBVIOUS
<1>2. /\ stack \in Stacks /\ old \in Shape /\ g \in Shape /\ old \in Frame
      /\ FrameOK(old)
      /\ t = owner /\ Alone(t) /\ Replaces(t, g) /\ Move(t, old, g)
      /\ stack' \in Stacks
      /\ StackOK' /\ OwnerOK' /\ SleepOK' /\ ScanOK' /\ QueueOK' /\ RunOK'
  BY <1>1, AdvanceParts
<1>3. g.pc # "inCheck"
  BY DEF Advances, FrameOK, WithSource
<1>4. Calm'
  BY <1>1, <1>2, <1>3, QuietCalm
<1>5. stack[t] # <<>> /\ g \in Frame /\ UNCHANGED owner
  BY DEF Advances
<1>6. ASSUME NEW u \in Threads PROVE Taken(u)' = Taken(u)
  <2>1. CASE u = t
    BY <1>2, <1>5, <2>1, TakenReplace
  <2>2. CASE u # t
    BY <1>2, <2>2, TakenOther DEF Replaces
  <2> QED BY <2>1, <2>2
<1>7. EntriesOK'
  BY <1>5, <1>6, EntriesKeep DEF Inv, Quiet
<1>8. NestedOK'
  BY <1>2, <1>5, NestedReplace DEF Inv, Quiet
<1> QED BY <1>2, <1>4, <1>7, <1>8 DEF Inv, Calm

\* A frame that runs neither a scan nor a loop's first steps.
LEMMA RunIdle ==
  ASSUME NEW x, x.pc \notin Scanning \cup {"acquire", "wait", "asleep", "prepare"}
  PROVE  RunFrameOK(x)'
  BY DEF RunFrameOK

\* The end of the poll, whatever its result, keeps the invariant.
LEMMA PollEndsKeeps ==
  ASSUME Inv, NEW t \in Threads, At(t, "poll"), NEW r \in SUBSET (HasFd \cup {Wake}),
         SetTop(t, [Top(t) EXCEPT !.pc = "check", !.revents = r, !.deadline = 0]),
         UNCHANGED <<mutex, ownvars, srcvars, pollvars, pending_dispatches,
                     is_running, envvars>>
  PROVE  Inv'
<1> USE DEF ownvars, srcvars, pollvars, envvars
<1>1. stack[t] # <<>> /\ Top(t).pc = "poll"
  BY DEF At
<1>2. PICK old : old = Top(t)
  OBVIOUS
<1>3. PICK g : g = [old EXCEPT !.pc = "check", !.revents = r, !.deadline = 0]
  OBVIOUS
<1>4. old \in Frame /\ FrameOK(old) /\ stack \in Stacks /\ old.source = None
  BY <1>1, <1>2, TopParts DEF FrameOK, WithSource
<1>5. g \in Frame
  <2>1. "check" \in PC /\ 0 \in Int
    BY DEF PC
  <2> QED BY <1>3, <1>4, <2>1 DEF Frame
<1>6. /\ g.pc = "check" /\ g.loop = old.loop /\ g.source = None
      /\ g.dispatch = old.dispatch /\ g.n_ready = old.n_ready
      /\ g.max_priority = old.max_priority
      /\ g.timeout = old.timeout
  BY <1>3, <1>4 DEF Frame
<1>7. FrameOK(g)
  BY <1>4, <1>6 DEF FrameOK, WithSource, LoopPC, Scanning, Checking
<1>8. Advances(t, g)
  BY <1>1, <1>2, <1>3, <1>5, <1>6, <1>7 DEF Advances, Iterating
<1>9. ScanFrameOK(g)' /\ RunFrameOK(g)'
  BY <1>6, RunIdle DEF ScanFrameOK, Scanning
<1>10. QueueFrameOK(g)'
  <2>1. QueueFrameOK(old)
    BY <1>1, <1>2 DEF Inv, QueueOK
  <2> QED BY <1>1, <1>2, <1>6, <2>1 DEF QueueFrameOK, Scanning
<1>11. TypeOK'
  <2>1. Replaces(t, g)
    BY <1>1, <1>2, <1>3, <1>4, <1>5, SetTopReplaces
  <2> QED BY <2>1 DEF Inv, TypeOK, Stacks, Replaces
<1>12. TimeOK' /\ Quiet
  BY DEF Inv, TimeOK, Quiet
<1> QED BY <1>1, <1>2, <1>4, <1>6, <1>8, <1>9, <1>10, <1>11, <1>12, AdvanceKeeps
        DEF Filling, Scanning, Checking

\* The poll, finished or interrupted, keeps the invariant.
LEMMA PollKeeps ==
  ASSUME Inv, NEW t \in Threads, xmain_context_poll(t) \/ PollInterrupted(t)
  PROVE  Inv'
<1>1. CASE xmain_context_poll(t)
  <2>1. At(t, "poll") /\ stack[t] # <<>>
    BY <1>1 DEF xmain_context_poll, At
  <2>2. Top(t).fds \in SUBSET (HasFd \cup {Wake})
    BY <2>1, TopParts DEF Frame
  <2>3. PICK r : r = PollReady(Top(t))
    OBVIOUS
  <2>4. r \in SUBSET (HasFd \cup {Wake})
    BY <2>2, <2>3 DEF PollReady
  <2> QED BY <1>1, <2>3, <2>4, PollEndsKeeps DEF xmain_context_poll
<1>2. CASE PollInterrupted(t)
  <2>1. {} \in SUBSET (HasFd \cup {Wake})
    OBVIOUS
  <2> QED BY <1>2, <2>1, PollEndsKeeps DEF PollInterrupted
<1> QED BY <1>1, <1>2

\* xmain_context_dispatch keeps the invariant.
LEMMA DispatchKeeps ==
  ASSUME Inv, NEW t \in Threads, xmain_context_dispatch(t)
  PROVE  Inv'
<1> USE DEF xmain_context_dispatch, ownvars, srcvars, pollvars, envvars
<1>1. stack[t] # <<>> /\ Top(t).pc = "dispatch"
  BY DEF At
<1>2. PICK old : old = Top(t)
  OBVIOUS
<1>3. PICK g : g = IF pending_dispatches = <<>> THEN [old EXCEPT !.pc = "release"]
                   ELSE [old EXCEPT !.pc = "dispatchNext", !.i = 0]
  OBVIOUS
<1>4. old \in Frame /\ FrameOK(old) /\ stack \in Stacks /\ old.source = None
  BY <1>1, <1>2, TopParts DEF FrameOK, WithSource
<1>5. g \in Frame
  <2>1. "release" \in PC /\ "dispatchNext" \in PC /\ 0 \in Nat
    BY DEF PC
  <2> QED BY <1>3, <1>4, <2>1 DEF Frame
<1>6. /\ \/ g.pc = "release" /\ pending_dispatches = <<>>
         \/ g.pc = "dispatchNext" /\ g.i = 0
      /\ g.loop = old.loop /\ g.source = None
      /\ g.dispatch = old.dispatch /\ g.n_ready = old.n_ready
      /\ g.max_priority = old.max_priority
      /\ g.timeout = old.timeout
  BY <1>3, <1>4 DEF Frame
<1>7. FrameOK(g)
  BY <1>1, <1>2, <1>4, <1>6 DEF FrameOK, WithSource, LoopPC, Scanning, Checking
<1>8. Advances(t, g)
  BY <1>1, <1>2, <1>3, <1>5, <1>6, <1>7 DEF Advances, Iterating, Goto
<1>9. ScanFrameOK(g)' /\ RunFrameOK(g)' /\ QueueFrameOK(g)'
  BY <1>6, RunIdle, IdleFrame DEF Scanning, Checking
<1>10. TypeOK'
  <2>1. Replaces(t, g)
    BY <1>1, <1>4, <1>5, <1>8, SetTopReplaces DEF Advances
  <2> QED BY <2>1 DEF Inv, TypeOK, Stacks, Replaces
<1>11. TimeOK' /\ Quiet
  BY DEF Inv, TimeOK, Quiet
<1> QED BY <1>1, <1>2, <1>4, <1>6, <1>8, <1>9, <1>10, <1>11, AdvanceKeeps
        DEF Filling, Section

\* xmain_context_query keeps the invariant.
LEMMA QueryKeeps ==
  ASSUME Inv, NEW t \in Threads, xmain_context_query(t)
  PROVE  Inv'
<1> USE DEF xmain_context_query, ownvars, srcvars, envvars
<1>1. stack[t] # <<>> /\ Top(t).pc = "query"
  BY DEF At
<1>2. PICK old : old = Top(t)
  OBVIOUS
<1>3. PICK block_for : block_for = IF old.block THEN old.timeout ELSE 0
  OBVIOUS
<1>4. PICK fds : fds = {s \in poll_records : Priority[s] <= old.max_priority}
                         \cup (IF 0 <= old.max_priority THEN {Wake} ELSE {})
  OBVIOUS
<1>5. PICK deadline : deadline = IF block_for = Infinite THEN Infinite
                                 ELSE IF now + block_for > MaxTime THEN MaxTime
                                 ELSE now + block_for
  OBVIOUS
<1>6. PICK time : time = IF old.timeout # 0 THEN NotFresh ELSE old.time
  OBVIOUS
<1>7. PICK g : g = [old EXCEPT !.pc = "poll", !.fds = fds, !.deadline =
               deadline, !.timeout = 0,
                               !.block = FALSE, !.time = time]
  OBVIOUS
<1>8. old \in Frame /\ FrameOK(old) /\ stack \in Stacks /\ old.source = None
  BY <1>1, <1>2, TopParts DEF FrameOK, WithSource
<1>9. block_for \in Nat \cup {Infinite} /\ (old.n_ready => block_for = 0)
  BY <1>1, <1>2, <1>3, <1>8 DEF FrameOK, Scanning, Frame
<1>10. now \in Nat /\ MaxTime \in Nat /\ now <= MaxTime
  BY GMainContextAssumption DEF Inv, TypeOK, TimeOK, GMainContextAssumption
<1>11. /\ deadline \in Int /\ (block_for # Infinite => deadline # Infinite)
       /\ block_for = 0 => deadline = now
  BY <1>5, <1>9, <1>10 DEF Infinite
<1>12. fds \in SUBSET (HasFd \cup {Wake}) /\ time \in Int
  BY <1>4, <1>6, <1>8 DEF Inv, TypeOK, NotFresh, Frame
<1>13. g \in Frame
  <2>1. "poll" \in PC /\ 0 \in Int
    BY DEF PC
  <2> QED BY <1>7, <1>8, <1>11, <1>12, <2>1 DEF Frame
<1>14. /\ g.pc = "poll" /\ g.loop = old.loop /\ g.source = None
       /\ g.dispatch = old.dispatch /\ g.n_ready = old.n_ready
       /\ g.max_priority = old.max_priority
       /\ g.timeout = 0 /\ g.fds = fds /\ g.deadline = deadline
  BY <1>7, <1>8 DEF Frame
<1>15. ~old.n_ready => old.max_priority = MaxInt /\ Wake \in fds
  BY <1>1, <1>2, <1>4, <1>8 DEF FrameOK, Scanning, MaxInt
<1>16. FrameOK(g)
  BY <1>1, <1>2, <1>8, <1>14, <1>15
     DEF FrameOK, WithSource, LoopPC, Scanning, Checking
<1>17. SetTop(t, g)
  BY <1>2, <1>3, <1>4, <1>5, <1>6, <1>7
<1>18. Advances(t, g)
  BY <1>1, <1>2, <1>13, <1>14, <1>16, <1>17 DEF Advances, Iterating
<1>19. ScanFrameOK(g)'
  <2>1. g.n_ready => g.deadline \in 0 .. now'
    BY <1>9, <1>10, <1>11, <1>14
  <2>2. ASSUME ~wakeup, ~old.n_ready, NEW s \in attached, Visible(s)
        PROVE  Harmless(g, s)
    <3>1. Harmless(old, s)
      BY <1>1, <1>2, <2>2 DEF Inv, ScanOK, ScanFrameOK, Seen, Scanning
    <3>2. s \in Sources /\ Priority[s] <= MaxInt
      BY GMainContextAssumption DEF Inv, TypeOK, GMainContextAssumption
    <3>3. s \in HasFd => s \in poll_records
      BY <2>2 DEF Inv, PollOK, Visible
    <3>4. s \in HasFd => s \in fds
      BY <1>4, <1>15, <2>2, <3>2, <3>3
    <3>5. ready_time[s] # Infinite => block_for # Infinite
      BY <1>1, <1>2, <1>3, <3>1 DEF Harmless, Infinite
    <3> QED BY <1>11, <1>14, <3>1, <3>4, <3>5 DEF Harmless
  <2>3. \A s : (Visible(s)' <=> Visible(s)) /\ (Harmless(g, s)' <=> Harmless(g, s))
    BY DEF Visible, Active, Blocked, Harmless, Ready
  <2> QED BY <1>14, <2>1, <2>2, <2>3 DEF ScanFrameOK
<1>20. QueueFrameOK(g)'
  <2>1. QueueFrameOK(old)
    BY <1>1, <1>2 DEF Inv, QueueOK
  <2> QED BY <1>1, <1>2, <1>14, <2>1 DEF QueueFrameOK, Scanning
<1>21. RunFrameOK(g)'
  <2>1. RunFrameOK(old)
    BY <1>1, <1>2 DEF Inv, RunOK
  <2> QED BY <1>1, <1>2, <1>14, <2>1 DEF RunFrameOK, Scanning
<1>22. TypeOK'
  <2>1. Replaces(t, g)
    BY <1>1, <1>8, <1>13, <1>17, SetTopReplaces
  <2> QED BY <2>1 DEF Inv, TypeOK, Stacks, Replaces
<1>23. TimeOK' /\ Quiet
  BY DEF Inv, TimeOK, Quiet
<1> QED
  BY <1>1, <1>2, <1>8, <1>14, <1>18, <1>19, <1>20, <1>21, <1>22, <1>23, AdvanceKeeps
     DEF Filling, Scanning

\* The frame that CheckDone leaves.
LEMMA CheckDoneFrame ==
  ASSUME Inv, NEW t \in Threads, stack[t] # <<>>, Top(t).pc \in Checking, CheckDone(t)
  PROVE  \E g \in Frame :
           /\ g.pc = (IF Top(t).dispatch THEN "dispatch" ELSE "release")
           /\ g.dispatch = TRUE /\ g.source = None /\ g.loop = Top(t).loop
           /\ FrameOK(g)
           /\ SetTop(t, g)
<1>1. PICK x : x = Top(t)
  OBVIOUS
<1>2. x \in Frame /\ FrameOK(x)
  BY <1>1, TopParts
<1>3. PICK label : label = IF x.dispatch THEN "dispatch" ELSE "release"
  OBVIOUS
<1>4. label \in {"dispatch", "release"} /\ label \in PC
  BY <1>3 DEF PC
<1>5. MaxInt \in Int /\ NotFresh \in Int /\ {} \in SUBSET (HasFd \cup {Wake})
  BY DEF MaxInt, NotFresh
<1>6. PICK g : g = [x EXCEPT !.pc = label,
                       !.dispatch = TRUE, !.source = None, !.n_ready = FALSE,
                       !.max_priority = MaxInt, !.time = NotFresh, !.fds =
                           {}, !.revents = {}]
  OBVIOUS
<1>7. g \in Frame
  BY <1>2, <1>4, <1>5, <1>6 DEF Frame
<1>8. /\ g.pc = label /\ g.dispatch = TRUE /\ g.source = None /\ g.loop = x.loop
      /\ g.n_ready = FALSE /\ g.max_priority = MaxInt /\ g.timeout = x.timeout
  BY <1>2, <1>6 DEF Frame
<1>9. FrameOK(g)
  BY <1>1, <1>2, <1>4, <1>8 DEF FrameOK, WithSource, LoopPC, Scanning, Checking
<1>10. SetTop(t, g)
  BY <1>1, <1>3, <1>6 DEF CheckDone
<1> QED BY <1>1, <1>3, <1>7, <1>8, <1>9, <1>10

\* xmain_context_check keeps the invariant.
LEMMA CheckKeeps ==
  ASSUME Inv, NEW t \in Threads, xmain_context_check(t)
  PROVE  Inv'
<1> USE DEF xmain_context_check, ownvars, envvars
<1>1. stack[t] # <<>> /\ Top(t).pc = "check"
  BY DEF At
<1>2. PICK old : old = Top(t)
  OBVIOUS
<1>3. old \in Frame /\ FrameOK(old) /\ stack \in Stacks /\ old.source = None
  BY <1>1, <1>2, TopParts DEF FrameOK, WithSource
<1>4. pending_dispatches = <<>>
  BY <1>1 DEF Inv, QueueOK, QueueFrameOK
<1>5. TimeOK' /\ Quiet
  BY DEF Inv, TimeOK, Quiet
<1>6. CASE poll_changed
  <2>1. PICK g \in Frame :
          /\ g.pc = (IF Top(t).dispatch THEN "dispatch" ELSE "release")
          /\ g.dispatch = TRUE /\ g.source = None /\ g.loop = Top(t).loop
          /\ FrameOK(g)
          /\ SetTop(t, g)
    BY <1>1, <1>6, CheckDoneFrame DEF Checking
  <2>2. g.pc \in {"dispatch", "release"}
    BY <2>1
  <2>3. SetTop(t, g)
    BY <2>1
  <2>4. Advances(t, g)
    BY <1>1, <1>2, <2>1, <2>2, <2>3 DEF Advances, Iterating
  <2>5. ScanFrameOK(g)' /\ QueueFrameOK(g)' /\ RunFrameOK(g)'
    BY <2>2, IdleFrame, RunIdle DEF Scanning, Checking
  <2>6. TypeOK'
    <3>1. Replaces(t, g)
      BY <1>1, <1>3, <2>1, <2>3, SetTopReplaces
    <3> QED BY <1>6, <3>1 DEF Inv, TypeOK, Stacks, Replaces
  <2> QED BY <1>1, <1>2, <1>3, <1>4, <1>5, <2>1, <2>2, <2>4, <2>5, <2>6, AdvanceKeeps
          DEF Filling, Checking
<1>7. CASE ~poll_changed
  <2>1. PICK g : g = [old EXCEPT !.pc = "checkNext", !.source = None, !.n_ready = FALSE,
                                 !.fds = {}, !.revents = {}]
    OBVIOUS
  <2>2. g \in Frame
    <3>1. "checkNext" \in PC /\ {} \in SUBSET (HasFd \cup {Wake})
      BY DEF PC
    <3> QED BY <1>3, <2>1, <3>1 DEF Frame
  <2>3. /\ g.pc = "checkNext" /\ g.source = None /\ g.n_ready = FALSE
        /\ g.loop = old.loop
        /\ g.dispatch = old.dispatch /\ g.timeout = old.timeout
    BY <1>3, <2>1 DEF Frame
  <2>4. FrameOK(g)
    BY <1>3, <2>3 DEF FrameOK, WithSource, LoopPC, Scanning, Checking
  <2>5. SetTop(t, g)
    BY <1>2, <1>7, <2>1
  <2>6. Advances(t, g)
    BY <1>1, <1>2, <2>2, <2>3, <2>4, <2>5 DEF Advances, Iterating
  <2>7. ScanFrameOK(g)' /\ RunFrameOK(g)'
    BY <2>3, RunIdle DEF ScanFrameOK, Scanning
  <2>8. QueueFrameOK(g)'
    BY <1>4, <2>3 DEF QueueFrameOK
  <2>9. TypeOK'
    <3>1. Replaces(t, g)
      BY <1>1, <1>3, <2>2, <2>5, SetTopReplaces
    <3>2. old.revents \ {Wake} \subseteq HasFd
      BY <1>3 DEF Frame
    <3>3. revents' \subseteq HasFd
      BY <1>2, <1>7, <3>2 DEF Inv, TypeOK
    <3>4. mutex' \in Threads \cup {None} /\ wakeup' \in BOOLEAN
      BY <1>7 DEF Inv, TypeOK
    <3> QED BY <3>1, <3>3, <3>4 DEF Inv, TypeOK, Stacks, Replaces
  <2> QED BY <1>1, <1>2, <1>3, <1>5, <2>3, <2>6, <2>7, <2>8, <2>9, AdvanceKeeps
          DEF Filling, Checking
<1> QED BY <1>6, <1>7

-----------------------------------------------------------------------------
(***************************************************************************)
(* The list of sources and the iterator.                                   *)
(***************************************************************************)
LEMMA NatMin ==
  ASSUME NEW T, T \subseteq Nat, T # {}
  PROVE  \E n \in T : \A m \in T : n <= m
<1> DEFINE R == {p \in Nat \X Nat : p[1] < p[2]}
<1>1. IsWellFoundedOn(R, Nat)
  BY NatLessThanWellFounded DEF OpToRel
<1>2. PICK n \in T : \A m \in T : <<m, n>> \notin R
  BY <1>1, WFMin
<1>3. ASSUME NEW m \in T PROVE n <= m
  <2>1. m \in Nat /\ n \in Nat /\ <<m, n>> \notin R
    BY <1>2, <1>3
  <2>2. ~ (m < n)
    BY <2>1
  <2> QED BY <2>1, <2>2
<1> QED BY <1>3

\* The list orders the attached sources.
LEMMA BeforeOrder ==
  ASSUME TypeOK, PlaceOK
  PROVE  /\ \A x \in attached : ~Before(x, x)
         /\ \A x, y, z \in attached : Before(x, y) /\ Before(y, z) => Before(x, z)
         /\ \A x, y \in attached : x = y \/ Before(x, y) \/ Before(y, x)
<1>1. \A x \in attached : x \in Sources /\ Priority[x] \in Int /\ place[x] \in Nat
  BY GMainContextAssumption DEF TypeOK, GMainContextAssumption
<1>2. \A x, y \in attached : Priority[x] = Priority[y] /\ place[x] = place[y] => x = y
  BY DEF PlaceOK, SamePriority
<1>3. \A x \in attached : ~Before(x, x)
  BY <1>1 DEF Before
<1>4. \A x, y, z \in attached : Before(x, y) /\ Before(y, z) => Before(x, z)
  BY <1>1 DEF Before
<1>5. \A x, y \in attached : x = y \/ Before(x, y) \/ Before(y, x)
  BY <1>1, <1>2 DEF Before
<1> QED BY <1>3, <1>4, <1>5

\* A set of attached sources has a first one.
LEMMA FirstOf ==
  ASSUME TypeOK, PlaceOK, NEW S, S \subseteq attached, S # {}
  PROVE  \E x \in S : \A y \in S \ {x} : Before(x, y)
<1> DEFINE B(x) == {y \in S : Before(y, x)}
           T == {Cardinality(B(x)) : x \in S}
<1>1. IsFiniteSet(S)
  BY FS_Subset, GMainContextAssumption DEF TypeOK, GMainContextAssumption
<1>2. \A x \in S : IsFiniteSet(B(x)) /\ Cardinality(B(x)) \in Nat
  BY <1>1, FS_Subset, FS_CardinalityType
<1>3. T \subseteq Nat /\ T # {}
  BY <1>2
<1>4. PICK n \in T : \A m \in T : n <= m
  <2> HIDE DEF T
  <2> QED BY <1>3, NatMin
<1>5. PICK x \in S : n = Cardinality(B(x))
  BY <1>4
<1>6. ASSUME NEW y \in S, Before(y, x) PROVE FALSE
  <2>1. B(y) \subseteq B(x) /\ y \in B(x) /\ y \notin B(y)
    BY <1>6, BeforeOrder
  <2>2. B(y) # B(x)
    BY <2>1
  <2>3. Cardinality(B(y)) < Cardinality(B(x))
    <3> HIDE DEF B
    <3>1. IsFiniteSet(B(x)) /\ Cardinality(B(x)) \in Nat
      BY <1>2
    <3>2. Cardinality(B(y)) <= Cardinality(B(x)) /\ Cardinality(B(y)) \in Nat
      BY <1>2, <2>1, FS_Subset
    <3>3. Cardinality(B(y)) # Cardinality(B(x))
      BY <2>1, <2>2, <3>1, FS_Subset
    <3> QED BY <3>1, <3>2, <3>3
  <2>4. n <= Cardinality(B(y))
    BY <1>4
  <2>5. Cardinality(B(y)) \in Nat /\ Cardinality(B(x)) \in Nat
    BY <1>2
  <2> HIDE DEF B
  <2> QED BY <1>5, <2>3, <2>4, <2>5
<1> QED BY <1>6, BeforeOrder

\* What xsource_iter_next returns: the first of the listed sources behind c.
LEMMA IterNextFirst ==
  ASSUME TypeOK, PlaceOK, NEW c, NEW s, s = IterNext(c)
  PROVE  /\ s = None
              \/ (s \in Listed /\ s \in attached /\ s \in Sources /\ (c = None \/ Before(c, s)))
         /\ \A x \in Listed :
                c = None \/ Before(c, x) => s # None /\ (x = s \/ Before(s, x))
<1> DEFINE rest == {x \in Listed : c = None \/ Before(c, x)}
<1>1. rest \subseteq attached /\ attached \subseteq Sources
  BY DEF Listed, TypeOK
<1>2. CASE rest = {}
  <2>1. s = None
    BY <1>2 DEF IterNext
  <2> QED BY <1>2, <2>1
<1>3. CASE rest # {}
  <2>1. \E x \in rest : \A y \in rest \ {x} : Before(x, y)
    <3> HIDE DEF rest
    <3> QED BY <1>1, <1>3, FirstOf
  <2>2. s = CHOOSE x \in rest : \A y \in rest \ {x} : Before(x, y)
    BY <1>3 DEF IterNext
  <2>3. s \in rest /\ \A y \in rest \ {s} : Before(s, y)
    <3> HIDE DEF rest
    <3> QED BY <2>1, <2>2
  <2>4. s # None
    BY <1>1, <2>3, GMainContextAssumption DEF GMainContextAssumption
  <2> QED BY <1>1, <2>3, <2>4
<1> QED BY <1>2, <1>3

\* References are counted with natural numbers.
Accounts ==
  stack \in Stacks /\ pending_dispatches \in Seq(Sources \cup {None})
    => \A s \in Sources : RefSum(s) \in Nat /\ Queued(s) \in Nat

\* So they are in every state.
LEMMA AccountsHold == Accounts
<1> SUFFICES ASSUME stack \in Stacks, pending_dispatches \in Seq(Sources \cup {None}),
                    NEW s \in Sources
             PROVE  RefSum(s) \in Nat /\ Queued(s) \in Nat
  BY DEF Accounts
<1>1. Queued(s) \in Nat
  <2> DEFINE D == DOMAIN pending_dispatches
  <2>1. D = 1 .. Len(pending_dispatches) /\ Len(pending_dispatches) \in Nat
    OBVIOUS
  <2>2. IsFiniteSet(D)
    BY <2>1, FS_Interval
  <2>3. IsFiniteSet({k \in D : pending_dispatches[k] = s})
    BY <2>2, FS_Subset
  <2> QED BY <2>3, FS_CardinalityType DEF Queued
<1>2. Count(Users(s)) \in Nat /\ Count(Destroyers(s)) \in Nat
  BY AllCounts
<1> QED BY <1>1, <1>2 DEF RefSum, Bit

\* The count of each source changes by what its references change.
LEMMA RefsStep ==
  ASSUME Inv, stack' \in Stacks, pending_dispatches' \in Seq(Sources \cup {None}),
         NEW delta, \A s \in Sources : delta[s] \in Int,
         \A s \in Sources : RefSum(s)' = RefSum(s) + delta[s],
         ref_count' = [s \in Sources |-> ref_count[s] + delta[s]]
  PROVE  RefsOK' /\ ref_count' \in [Sources -> Nat]
<1>1. Accounts'
  BY AccountsHold, PTL
<1>2. ASSUME NEW s \in Sources
      PROVE  /\ ref_count'[s] \in Nat /\ ref_count'[s] >= RefSum(s)'
             /\ MayPend = 0 => ref_count'[s] = RefSum(s)'
  <2>1. RefSum(s)' \in Nat
    BY <1>1 DEF Accounts, Stacks
  <2>2. RefSum(s) \in Nat /\ ref_count[s] \in Nat
    BY AccountsHold DEF Accounts, Inv, TypeOK, Stacks
  <2>3. ref_count[s] >= RefSum(s) /\ (MayPend = 0 => ref_count[s] = RefSum(s))
    BY DEF Inv, RefsOK
  <2>4. ref_count'[s] = ref_count[s] + delta[s] /\ RefSum(s)' = RefSum(s) + delta[s]
    OBVIOUS
  <2> QED BY <2>1, <2>2, <2>3, <2>4
<1> QED BY <1>2 DEF RefsOK

\* The flags that decide which sources are polled and dispatched.
SameFlags == \A s \in Sources : (Active(s)' <=> Active(s)) /\ (Blocked(s)' <=> Blocked(s))

\* A step that neither destroys nor calls a source.
LEMMA Settled ==
  ASSUME Inv, NEW t \in Threads, NEW old \in Shape, NEW new \in Shape,
         Move(t, old, new),
         UNCHANGED <<attached, place, app_ref, poll_records>>, SameFlags,
         {old.pc, new.pc} \cap {"destroying", "needDestroy", "callback"} = {},
         new.source \in attached \cup {None},
         new.pc = "inCheck" => new.source \in Sources /\ ~Held(new.source),
         \A k \in DOMAIN pending_dispatches' :
           pending_dispatches'[k] # None =>
             pending_dispatches'[k] \in attached /\ ~Held(pending_dispatches'[k])
  PROVE  PlaceOK' /\ SourceOK' /\ DestroyOK' /\ CallsOK' /\ PollOK'
<1>1. stack \in Stacks /\ attached \subseteq Sources
  BY DEF Inv, TypeOK, Stacks
<1>2. ASSUME NEW s \in Sources
      PROVE  Count(Destroyers(s))' = Count(Destroyers(s))
                 /\ Count(Callers(s))' = Count(Callers(s))
  <2>1. /\ Bit(IsDestroyer(new, s)) = 0 /\ Bit(IsDestroyer(old, s)) = 0
        /\ Bit(IsCaller(new, s)) = 0 /\ Bit(IsCaller(old, s)) = 0
    BY DEF Bit, IsDestroyer, IsCaller
  <2>2. Count(Destroyers(s)) \in Nat /\ Count(Callers(s)) \in Nat
    BY <1>1, AllCounts
  <2>3. /\ Count(Destroyers(s))'
              = Count(Destroyers(s)) + Bit(IsDestroyer(new, s)) - Bit(IsDestroyer(old, s))
        /\ Count(Callers(s))' = Count(Callers(s))
               + Bit(IsCaller(new, s)) - Bit(IsCaller(old, s))
    BY CountsMove
  <2> QED BY <2>1, <2>2, <2>3
<1>3. \A s \in Sources : Held(s)' <=> Held(s)
  BY DEF SameFlags, Held
<1>4. PlaceOK'
  BY DEF Inv, PlaceOK, SamePriority
<1>5. SourceOK'
  <2>1. \A u \in Threads : \A d \in 1 .. Len(stack'[u]) :
           stack'[u][d].source # None => stack'[u][d].source \in attached'
    BY <1>1, FrameSources DEF Inv
  <2>2. \A s \in Sources \ attached' : ~Blocked(s)'
    BY DEF SameFlags, Inv, SourceOK
  <2> QED BY <2>1, <2>2 DEF SourceOK
<1>6. DestroyOK'
  <2>1. \A s \in Sources : Bit(~Active(s))' = Bit(~Active(s))
    BY DEF SameFlags, Bit
  <2> QED BY <1>2, <2>1 DEF Inv, DestroyOK
<1>7. CallsOK'
  <2>1. new.pc = "inCheck" => ~Held(new.source)'
    BY <1>3
  <2>2. \A u \in Threads : At(u, "inCheck")' => ~Held(Top(u).source)'
    BY <1>1, <1>3, <2>1, ChecksKeep, CheckSources DEF Inv, WithSource
  <2>3. \A s \in Sources \ CanRecurse :
          /\ Count(Callers(s))' <= 1
          /\ Active(s)' => (Blocked(s)' <=> Count(Callers(s))' = 1)
    BY <1>2 DEF Inv, CallsOK, SameFlags
  <2>4. \A k \in DOMAIN pending_dispatches' :
          pending_dispatches'[k] # None => ~Held(pending_dispatches[k])'
    <3> SUFFICES ASSUME NEW k \in DOMAIN pending_dispatches',
                        pending_dispatches'[k] # None
                 PROVE  ~Held(pending_dispatches[k])'
      OBVIOUS
    <3>1. PICK s : s = pending_dispatches'[k]
      OBVIOUS
    <3>2. s \in Sources /\ ~Held(s)
      BY <1>1, <3>1
    <3>3. ~Held(s)'
      BY <1>3, <3>2
    <3> QED BY <3>1, <3>3 DEF Held, Active, Blocked
  <2> QED BY <2>2, <2>3, <2>4 DEF CallsOK
<1>8. PollOK'
  <2>1. \A s \in Sources : Count(Destroyers(s))' > 0 <=> Count(Destroyers(s)) > 0
    BY <1>2
  <2>2. HasFd \subseteq Sources
    BY GMainContextAssumption DEF GMainContextAssumption
  <2>3. \A s \in attached \cap HasFd :
          ~Blocked(s)' /\ (Active(s)' \/ Count(Destroyers(s))' > 0)
            <=> ~Blocked(s) /\ (Active(s) \/ Count(Destroyers(s)) > 0)
    BY <2>1, <2>2 DEF SameFlags
  <2> QED BY <2>3 DEF Inv, PollOK
<1> QED BY <1>4, <1>5, <1>6, <1>7, <1>8

\* The entries of pending_dispatches are attached and not held.
LEMMA EntriesSettled ==
  ASSUME Inv, NEW k \in DOMAIN pending_dispatches, pending_dispatches[k] # None
  PROVE  pending_dispatches[k] \in attached /\ ~Held(pending_dispatches[k])
  BY DEF Inv, SourceOK, CallsOK

\* An active source that is attached is in the list.
LEMMA ActiveListed ==
  ASSUME Inv, NEW s \in attached, Active(s)
  PROVE  s \in Listed
<1>1. s \in Sources /\ stack \in Stacks
  BY DEF Inv, TypeOK, Stacks
<1>2. Count(Users(s)) \in Nat /\ Count(Destroyers(s)) \in Nat /\ Queued(s) \in Nat
  BY <1>1, AllCounts, AccountsHold DEF Accounts, Inv, TypeOK
<1>3. RefSum(s) >= 1
  BY <1>2 DEF RefSum, Bit
<1>4. ref_count[s] >= RefSum(s) /\ ref_count[s] \in Nat /\ RefSum(s) \in Nat
  BY <1>1, AccountsHold DEF Inv, TypeOK, RefsOK, Accounts
<1> QED BY <1>3, <1>4 DEF Listed

\* The references to a source after a move.
LEMMA RefSumMove ==
  ASSUME stack \in Stacks, NEW t, NEW old \in Shape, NEW new \in Shape,
         Move(t, old, new),
         NEW s \in Sources
  PROVE  RefSum(s)' = Bit(s \in app_ref') + Bit(s \in attached' /\ Active(s)')
                        + (Count(Destroyers(s))
                            + Bit(IsDestroyer(new, s)) - Bit(IsDestroyer(old, s)))
                        + Queued(s)' + (Count(Users(s))
                            + Bit(IsUser(new, s)) - Bit(IsUser(old, s)))
<1>1. /\ Count(Users(s))' = Count(Users(s)) + Bit(IsUser(new, s)) - Bit(IsUser(old, s))
      /\ Count(Destroyers(s))'
              = Count(Destroyers(s)) + Bit(IsDestroyer(new, s)) - Bit(IsDestroyer(old, s))
  BY CountsMove
<1> QED BY <1>1 DEF RefSum, Bit

\* The labels between which the iterator moves.
Moving == {"prepareNext", "inPrepare", "query", "checkNext", "inCheck", "dispatch", "release"}

\* An iterator moves on, in prepare or in check, and nothing is queued.
LEMMA IterStep ==
  ASSUME Inv, NEW t \in Threads, NEW g, Advances(t, g), NEW old, old = Top(t),
         {old.pc, g.pc} \subseteq Moving, old.dispatch => g.dispatch,
         MayPend = 0 /\ Len(stack[t]) >= 2 /\ g.pc = "release"
             => pending_dispatches = <<>>,
         g.source \in attached \cup {None},
         g.pc = "inCheck" => g.source \in Sources /\ ~Held(g.source),
         IterMove(old.source, g.source), flags' \in [Sources -> SUBSET Flag], SameFlags,
         mutex' \in Threads \cup {None},
         UNCHANGED <<waiters, ready_time, revents, attached, place, app_ref, pollvars,
                     pending_dispatches, envvars>>,
         ScanFrameOK(g)', QueueFrameOK(g)', RunFrameOK(g)'
  PROVE  Inv'
<1> USE DEF pollvars, envvars
<1>1. /\ stack \in Stacks /\ old \in Shape /\ g \in Shape /\ old \in Frame
      /\ FrameOK(old)
      /\ t = owner /\ Alone(t) /\ Replaces(t, g) /\ Move(t, old, g)
      /\ stack' \in Stacks
      /\ StackOK' /\ OwnerOK' /\ SleepOK' /\ ScanOK' /\ QueueOK' /\ RunOK'
  BY AdvanceParts
<1>2. {old.pc, g.pc} \cap {"destroying", "needDestroy", "callback"} = {}
  BY DEF Moving
<1>3. PlaceOK' /\ SourceOK' /\ DestroyOK' /\ CallsOK' /\ PollOK'
  BY <1>1, <1>2, EntriesSettled, Settled
<1>4. RefsOK' /\ ref_count' \in [Sources -> Nat]
  <2> DEFINE delta == [s \in Sources |-> Bit(s = g.source) - Bit(s = old.source)]
  <2>1. \A s \in Sources : delta[s] \in Int
    BY DEF Bit
  <2>2. ASSUME NEW s \in Sources PROVE RefSum(s)' = RefSum(s) + delta[s]
    <3>1. /\ Bit(IsUser(g, s)) = Bit(s = g.source)
          /\ Bit(IsUser(old, s)) = Bit(s = old.source)
          /\ Bit(IsDestroyer(g, s)) = 0 /\ Bit(IsDestroyer(old, s)) = 0
      BY <1>2 DEF IsUser, IsDestroyer, Bit
    <3>2. Queued(s)' = Queued(s) /\ Queued(s) \in Nat
      BY <1>1, AccountsHold DEF Queued, Accounts, Inv, TypeOK
    <3>3. Bit(s \in attached' /\ Active(s)') = Bit(s \in attached /\ Active(s))
      BY DEF SameFlags, Bit
    <3>4. Count(Users(s)) \in Nat /\ Count(Destroyers(s)) \in Nat
      BY <1>1, AllCounts
    <3>5. RefSum(s)' = Bit(s \in app_ref') + Bit(s \in attached' /\ Active(s)')
                        + (Count(Destroyers(s))
                            + Bit(IsDestroyer(g, s)) - Bit(IsDestroyer(old, s)))
                        + Queued(s)' + (Count(Users(s))
                            + Bit(IsUser(g, s)) - Bit(IsUser(old, s)))
      BY <1>1, RefSumMove
    <3>6. delta[s] = Bit(s = g.source) - Bit(s = old.source)
      OBVIOUS
    <3>7. RefSum(s) = Bit(s \in app_ref)
                      + Bit(s \in attached /\ Active(s)) + Count(Destroyers(s))
                        + Queued(s) + Count(Users(s))
      BY DEF RefSum
    <3>8. /\ Bit(s \in app_ref') = Bit(s \in app_ref) /\ Bit(s \in app_ref) \in Int
          /\ Bit(s \in attached /\ Active(s)) \in Int
          /\ Bit(s = g.source) \in Int /\ Bit(s = old.source) \in Int
      BY DEF Bit
    <3> QED BY <3>1, <3>2, <3>3, <3>4, <3>5, <3>6, <3>7, <3>8
  <2>3. ref_count' = [s \in Sources |-> ref_count[s] + delta[s]]
    <3>1. \A s \in Sources : ref_count[s] + Bit(s = g.source) - Bit(s = old.source)
                               = ref_count[s] + delta[s]
      BY DEF Inv, TypeOK, Bit
    <3> QED BY <3>1 DEF IterMove
  <2>4. pending_dispatches' \in Seq(Sources \cup {None})
    BY DEF Inv, TypeOK
  <2> HIDE DEF delta
  <2> QED BY <1>1, <2>1, <2>2, <2>3, <2>4, RefsStep
<1>5. TypeOK'
  BY <1>1, <1>4 DEF Inv, TypeOK, Stacks, Advances
<1>6. TimeOK' /\ DistinctOK'
  BY DEF Inv, TimeOK, DistinctOK
<1>7. stack[t] # <<>> /\ g \in Frame /\ UNCHANGED owner
  BY DEF Advances
<1>8. ASSUME NEW u \in Threads PROVE Taken(u)' = Taken(u)
  <2>1. CASE u = t
    <3>1. Moving \subseteq Filling
      BY DEF Moving, Filling, Scanning, Checking
    <3> QED BY <1>1, <1>7, <2>1, <3>1, TakenReplace
  <2>2. CASE u # t
    BY <1>1, <2>2, TakenOther DEF Replaces
  <2> QED BY <2>1, <2>2
<1>9. EntriesOK'
  BY <1>7, <1>8, EntriesKeep DEF Inv
<1>10. NestedOK'
  BY <1>1, <1>7, NestedReplace DEF Inv
<1> QED BY <1>1, <1>3, <1>4, <1>5, <1>6, <1>9, <1>10 DEF Inv

\* The source of an iterator.
LEMMA IterSource ==
  ASSUME Inv, NEW t \in Threads, stack[t] # <<>>
  PROVE  Top(t).source \in attached \cup {None}
<1>1. Len(stack[t]) \in 1 .. Len(stack[t]) /\ Top(t) = stack[t][Len(stack[t])]
  BY TopFrame DEF Inv, TypeOK, Stacks
<1> QED BY <1>1 DEF Inv, SourceOK

\* The sources in front of the next one have been seen.
LEMMA SeenNext ==
  ASSUME Inv, NEW old, old.pc = "prepareNext", old.source \in attached \cup {None},
         NEW s, s = IterNext(old.source), NEW x \in attached, Visible(x),
         s = None \/ Before(x, s)
  PROVE  Seen(old, x)
<1>1. TypeOK /\ PlaceOK /\ x \in Listed
  BY ActiveListed DEF Inv, Visible
<1>2. /\ s = None \/ (s \in Listed /\ s \in attached /\ s \in Sources)
      /\ old.source = None \/ Before(old.source, x) => s # None /\ (x = s \/ Before(s, x))
  BY <1>1, IterNextFirst
<1>3. s \in attached => ~(x = s \/ Before(s, x)) \/ s = None \/ ~Before(x, s)
  BY <1>1, BeforeOrder
<1>4. old.source # None /\ ~Before(old.source, x)
  BY <1>2, <1>3
<1>5. x = old.source \/ Before(x, old.source)
  BY <1>1, <1>4, BeforeOrder
<1> QED BY <1>4, <1>5 DEF Seen

\* PrepareEnds keeps the invariant.
LEMMA PrepareEndsKeeps ==
  ASSUME Inv, NEW t \in Threads, PrepareEnds(t)
  PROVE  Inv'
<1> USE DEF PrepareEnds, ownvars
<1>1. stack[t] # <<>> /\ Top(t).pc = "prepareNext"
  BY DEF At
<1>2. PICK old : old = Top(t)
  OBVIOUS
<1>3. PICK s : s = IterNext(old.source)
  OBVIOUS
<1>4. PICK g : g = [old EXCEPT !.pc = "query", !.source = None]
  OBVIOUS
<1>5. old \in Frame /\ FrameOK(old) /\ stack \in Stacks
          /\ old.source \in attached \cup {None}
  BY <1>1, <1>2, TopParts, IterSource
<1>6. g \in Frame
  <2>1. "query" \in PC
    BY DEF PC
  <2> QED BY <1>4, <1>5, <2>1 DEF Frame
<1>7. /\ g.pc = "query" /\ g.source = None /\ g.loop = old.loop
      /\ g.n_ready = old.n_ready
      /\ g.dispatch = old.dispatch /\ g.timeout = old.timeout
      /\ g.max_priority = old.max_priority
  BY <1>4, <1>5 DEF Frame
<1>8. FrameOK(g)
  BY <1>1, <1>2, <1>5, <1>7 DEF FrameOK, WithSource, LoopPC, Scanning, Checking
<1>9. Advances(t, g)
  BY <1>1, <1>2, <1>4, <1>6, <1>7, <1>8 DEF Advances, Iterating
<1>10. s = None \/ old.n_ready
  BY <1>2, <1>3
<1>11. ScanFrameOK(g)'
  <2>1. ASSUME ~wakeup, ~old.n_ready, NEW x \in attached, Visible(x)
        PROVE  Harmless(g, x)
    <3>1. Seen(old, x)
      BY <1>1, <1>2, <1>3, <1>5, <1>10, <2>1, SeenNext
    <3>2. Harmless(old, x)
      BY <1>1, <1>2, <2>1, <3>1 DEF Inv, ScanOK, ScanFrameOK, Scanning
    <3> QED BY <1>1, <1>2, <1>7, <3>2 DEF Harmless
  <2>2. \A x : (Visible(x)' <=> Visible(x)) /\ (Harmless(g, x)' <=> Harmless(g, x))
    BY DEF Visible, Active, Blocked, Harmless, Ready
  <2> QED BY <1>7, <2>1, <2>2 DEF ScanFrameOK, pollvars
<1>12. QueueFrameOK(g)'
  <2>1. QueueFrameOK(old)
    BY <1>1, <1>2 DEF Inv, QueueOK
  <2> QED BY <1>1, <1>2, <1>7, <2>1 DEF QueueFrameOK, Scanning
<1>13. RunFrameOK(g)'
  <2>1. RunFrameOK(old)
    BY <1>1, <1>2 DEF Inv, RunOK
  <2> QED BY <1>1, <1>2, <1>7, <2>1 DEF RunFrameOK, Scanning, pollvars
<1>14. flags' \in [Sources -> SUBSET Flag] /\ SameFlags /\ mutex' \in Threads \cup {None}
  BY DEF Inv, TypeOK, SameFlags, Active, Blocked
<1>15. IterMove(old.source, g.source)
  BY <1>2, <1>7
<1>16. {old.pc, g.pc} \subseteq Moving /\ g.pc \notin {"release", "inCheck"}
  BY <1>1, <1>2, <1>7 DEF Moving
<1> QED BY <1>2, <1>7, <1>9, <1>11, <1>12, <1>13, <1>14, <1>15, <1>16, IterStep

\* The iterator of prepare moves to source s.
LEMMA PrepareStep ==
  ASSUME Inv, NEW t \in Threads, stack[t] # <<>>, NEW old, old = Top(t),
         old.pc = "prepareNext",
         NEW s, s = IterNext(old.source), s # None,
         NEW g \in Frame, SetTop(t, g), g.pc \in {"prepareNext", "inPrepare"},
         g.loop = old.loop,
         g.dispatch = old.dispatch, g.source = s, FrameOK(g), IterMove(old.source, s),
         flags' \in [Sources -> SUBSET Flag], SameFlags, mutex' \in Threads \cup {None},
         UNCHANGED <<ownvars, ready_time, revents, attached, place, app_ref, pollvars,
                     pending_dispatches, is_running, envvars>>,
         \/ g.n_ready
         \/ /\ UNCHANGED flags /\ g.n_ready = old.n_ready
            /\ old.timeout # Infinite => g.timeout # Infinite
            /\ Visible(s) /\ g.pc = "prepareNext" => Harmless(g, s)
  PROVE  Inv'
<1> USE DEF ownvars, pollvars, envvars
<1>1. old \in Frame /\ FrameOK(old) /\ stack \in Stacks
          /\ old.source \in attached \cup {None}
  BY TopParts, IterSource
<1>2. s \in attached /\ s \in Sources
  BY IterNextFirst DEF Inv
<1>3. Advances(t, g)
  BY DEF Advances, Iterating
<1>4. ScanFrameOK(g)'
  <2>1. CASE g.n_ready
    BY <2>1 DEF ScanFrameOK
  <2>2. CASE ~g.n_ready
    <3>1. ASSUME ~wakeup, NEW x \in attached, Visible(x), Seen(g, x)
          PROVE  Harmless(g, x)
      <4>1. CASE x = s /\ g.pc = "prepareNext"
        BY <2>2, <3>1, <4>1
      <4>2. CASE Before(x, s)
        <5>1. Seen(old, x)
          BY <1>1, <3>1, <4>2, SeenNext
        <5>2. Harmless(old, x)
          BY <2>2, <3>1, <5>1 DEF Inv, ScanOK, ScanFrameOK, Scanning
        <5> QED BY <2>2, <5>2 DEF Harmless
      <4> QED BY <3>1, <4>1, <4>2 DEF Seen
    <3>2. \A x : /\ Visible(x)' <=> Visible(x)
                 /\ Harmless(g, x)' <=> Harmless(g, x)
                 /\ Seen(g, x)' <=> Seen(g, x)
      BY <2>2 DEF Visible, Active, Blocked, Harmless, Ready, Seen, Before
    <3> QED BY <3>1, <3>2 DEF ScanFrameOK
  <2> QED BY <2>1, <2>2
<1>5. QueueFrameOK(g)'
  <2>1. QueueFrameOK(old)
    BY DEF Inv, QueueOK
  <2> QED BY <2>1 DEF QueueFrameOK, Scanning
<1>6. RunFrameOK(g)'
  <2>1. RunFrameOK(old)
    BY DEF Inv, RunOK
  <2> QED BY <2>1 DEF RunFrameOK, Scanning
<1>7. {old.pc, g.pc} \subseteq Moving /\ g.pc \notin {"release", "inCheck"}
  BY DEF Moving
<1>8. IterMove(old.source, g.source) /\ g.source \in attached \cup {None}
  BY <1>2
<1> QED BY <1>3, <1>4, <1>5, <1>6, <1>7, <1>8, IterStep

\* The frame of a source found ready.
ReadyAt(x, s, time) ==
  [x EXCEPT !.pc = "prepareNext", !.source = s, !.timeout = 0, !.n_ready = TRUE,
            !.max_priority = Priority[s], !.time = time]

\* It is a sound frame.
LEMMA ReadyFrame ==
  ASSUME NEW old \in Frame, FrameOK(old), old.pc \in {"prepareNext", "inPrepare"},
         NEW s \in Sources, NEW time \in Int
  PROVE  \E g \in Frame :
           /\ g = ReadyAt(old, s, time)
           /\ g.pc = "prepareNext" /\ g.source = s /\ g.n_ready /\ g.loop = old.loop
           /\ g.dispatch = old.dispatch /\ FrameOK(g)
<1>1. Priority[s] \in Int /\ 0 \in Int /\ "prepareNext" \in PC
          /\ s \in Sources \cup {None}
  BY GMainContextAssumption DEF PC, GMainContextAssumption
<1>2. PICK g : g = ReadyAt(old, s, time)
  OBVIOUS
<1>3. g \in Frame
  BY <1>1, <1>2 DEF Frame, ReadyAt
<1>4. /\ g.pc = "prepareNext" /\ g.source = s /\ g.n_ready /\ g.loop = old.loop
      /\ g.dispatch = old.dispatch /\ g.timeout = 0
  BY <1>2 DEF Frame, ReadyAt
<1>5. FrameOK(g)
  BY <1>4 DEF FrameOK, LoopPC, WithSource, Scanning, Checking
<1> QED BY <1>2, <1>3, <1>4, <1>5

\* The READY flag disturbs no other.
LEMMA ReadyFlag ==
  ASSUME Inv, NEW s \in Sources, flags' = [flags EXCEPT ![s] = @ \cup {"READY"}]
  PROVE  flags' \in [Sources -> SUBSET Flag] /\ SameFlags
<1>1. flags \in [Sources -> SUBSET Flag]
  BY DEF Inv, TypeOK
<1>2. flags' \in [Sources -> SUBSET Flag]
  BY <1>1 DEF Flag
<1>3. ASSUME NEW x \in Sources
      PROVE  (Active(x)' <=> Active(x)) /\ (Blocked(x)' <=> Blocked(x))
  <2>1. CASE x = s
    BY <1>1, <2>1 DEF Active, Blocked
  <2>2. CASE x # s
    BY <1>1, <2>2 DEF Active, Blocked
  <2> QED BY <2>1, <2>2
<1> QED BY <1>2, <1>3 DEF SameFlags

\* The clock is a number.
LEMMA ClockInt ==
  ASSUME Inv, NEW t \in Threads, stack[t] # <<>>
  PROVE  Clock(t) \in Int /\ Top(t).time \in Int
<1>1. Top(t).time \in Int
  BY TopParts DEF Frame
<1>2. now \in Int
  BY DEF Inv, TypeOK
<1> QED BY <1>1, <1>2 DEF Clock

\* PrepareNext keeps the invariant.
LEMMA PrepareNextKeeps ==
  ASSUME Inv, NEW t \in Threads, PrepareNext(t)
  PROVE  Inv'
<1> USE DEF pollvars
<1>1. stack[t] # <<>> /\ Top(t).pc = "prepareNext"
  BY DEF At, PrepareNext
<1>2. PICK old : old = Top(t)
  OBVIOUS
<1>3. PICK s : s = IterNext(old.source)
  OBVIOUS
<1>4. old \in Frame /\ FrameOK(old) /\ stack \in Stacks
  BY <1>1, <1>2, TopParts
<1>5. s # None /\ s \in attached /\ s \in Sources /\ s \in Sources \cup {None}
  <2>1. s # None
    BY <1>2, <1>3 DEF PrepareNext
  <2> QED BY <1>3, <2>1, IterNextFirst DEF Inv
<1>6. /\ IterMove(old.source, s)
      /\ UNCHANGED <<ownvars, ready_time, revents, attached, place, app_ref, pollvars,
                     pending_dispatches, is_running, envvars>>
  BY <1>2, <1>3 DEF PrepareNext
<1>7. flags \in [Sources -> SUBSET Flag] /\ t \in Threads \cup {None}
  BY DEF Inv, TypeOK
<1>8. UNCHANGED flags => SameFlags
  BY DEF SameFlags, Active, Blocked
<1>9. PICK clock \in Int : clock = Clock(t)
  BY <1>1, ClockInt
<1>10. ASSUME ~Visible(s), SetTop(t, [Top(t) EXCEPT !.source = s]),
              UNCHANGED <<mutex, flags>>
       PROVE  Inv'
  <2>1. PICK g : g = [old EXCEPT !.source = s]
    OBVIOUS
  <2>2. g \in Frame
    BY <1>4, <1>5, <2>1 DEF Frame
  <2>3. /\ g.pc = old.pc /\ g.source = s /\ g.n_ready = old.n_ready
        /\ g.loop = old.loop
        /\ g.dispatch = old.dispatch /\ g.timeout = old.timeout
        /\ g.max_priority = old.max_priority
    BY <1>4, <2>1 DEF Frame
  <2>4. FrameOK(g)
    BY <1>1, <1>2, <1>4, <2>3 DEF FrameOK, WithSource, LoopPC, Scanning, Checking
  <2>5. SetTop(t, g) /\ mutex' \in Threads \cup {None}
    BY <1>2, <1>10, <2>1 DEF Inv, TypeOK
  <2> QED
    BY <1>1, <1>2, <1>3, <1>5, <1>6, <1>7, <1>8, <1>10, <2>2, <2>3, <2>4, <2>5,
       PrepareStep
<1>11. ASSUME SetTop(t, FoundReady(t, s)), UNCHANGED <<mutex, flags>>
       PROVE  Inv'
  <2>1. old.time \in Int
    BY <1>4 DEF Frame
  <2>2. PICK g \in Frame :
          /\ g = ReadyAt(old, s, old.time)
          /\ g.pc = "prepareNext" /\ g.source = s /\ g.n_ready /\ g.loop = old.loop
          /\ g.dispatch = old.dispatch /\ FrameOK(g)
    BY <1>1, <1>2, <1>4, <1>5, <2>1, ReadyFrame
  <2>3. g = FoundReady(t, s)
    BY <1>2, <1>4, <1>9, <2>2 DEF FoundReady, ReadyAt, Frame
  <2>4. SetTop(t, g) /\ mutex' \in Threads \cup {None}
    BY <1>11, <2>3 DEF Inv, TypeOK
  <2> QED BY <1>1, <1>2, <1>3, <1>5, <1>6, <1>7, <1>8, <1>11, <2>2, <2>4, PrepareStep
<1>12. ASSUME SetTop(t, [Top(t) EXCEPT !.pc = "inPrepare", !.source = s]),
              mutex' = None,
              UNCHANGED flags
       PROVE  Inv'
  <2>1. PICK g : g = [old EXCEPT !.pc = "inPrepare", !.source = s]
    OBVIOUS
  <2>2. g \in Frame
    <3>1. "inPrepare" \in PC
      BY DEF PC
    <3> QED BY <1>4, <1>5, <2>1, <3>1 DEF Frame
  <2>3. /\ g.pc = "inPrepare" /\ g.source = s /\ g.n_ready = old.n_ready
        /\ g.loop = old.loop
        /\ g.dispatch = old.dispatch /\ g.timeout = old.timeout
        /\ g.max_priority = old.max_priority
    BY <1>4, <2>1 DEF Frame
  <2>4. FrameOK(g)
    BY <1>1, <1>2, <1>4, <1>5, <2>3
       DEF FrameOK, WithSource, LoopPC, Scanning, Checking
  <2>5. SetTop(t, g) /\ mutex' \in Threads \cup {None}
    BY <1>2, <1>12, <2>1
  <2> QED
    BY <1>1, <1>2, <1>3, <1>5, <1>6, <1>7, <1>8, <1>12, <2>2, <2>3, <2>4, <2>5,
       PrepareStep
<1>13. ASSUME SetTop(t, [FoundReady(t, s) EXCEPT !.time = Clock(t)]), UNCHANGED mutex,
              flags' = [flags EXCEPT ![s] = @ \cup {"READY"}]
       PROVE  Inv'
  <2>1. old.time \in Int
    BY <1>4 DEF Frame
  <2>2. PICK g \in Frame :
          /\ g = ReadyAt(old, s, clock)
          /\ g.pc = "prepareNext" /\ g.source = s /\ g.n_ready /\ g.loop = old.loop
          /\ g.dispatch = old.dispatch /\ FrameOK(g)
    BY <1>1, <1>2, <1>4, <1>5, <1>9, <2>1, ReadyFrame
  <2>3. g = [FoundReady(t, s) EXCEPT !.time = Clock(t)]
    BY <1>2, <1>4, <1>9, <2>2 DEF FoundReady, ReadyAt, Frame
  <2>4. SetTop(t, g) /\ mutex' \in Threads \cup {None}
    BY <1>13, <2>3 DEF Inv, TypeOK
  <2>5. flags' \in [Sources -> SUBSET Flag] /\ SameFlags
    BY <1>5, <1>13, ReadyFlag
  <2> QED BY <1>1, <1>2, <1>3, <1>5, <1>6, <2>2, <2>4, <2>5, PrepareStep
<1>14. ASSUME ~Ready(s), s \notin Idle, ~Due(s, Clock(t)), UNCHANGED <<mutex, flags>>,
              SetTop(t, [Top(t) EXCEPT !.source = s, !.time = SampledTime(t, s),
                                       !.timeout = EarlierTimeout(@, s, Clock(t))])
       PROVE  Inv'
  <2>1. PICK time : time = SampledTime(t, s)
    OBVIOUS
  <2>2. PICK timeout : timeout = EarlierTimeout(old.timeout, s, clock)
    OBVIOUS
  <2>3. PICK g : g = [old EXCEPT !.source = s, !.time = time, !.timeout = timeout]
    OBVIOUS
  <2>4. time \in Int
    BY <1>1, <2>1, ClockInt DEF SampledTime
  <2>5. old.timeout \in Nat \cup {Infinite} /\ ready_time[s] \in Nat \cup {Infinite}
    BY <1>4, <1>5 DEF FrameOK, Inv, TimeOK
  <2>6. ready_time[s] # Infinite => ready_time[s] \in Nat /\ ready_time[s] - clock >= 1
    BY <1>9, <1>14, <2>5 DEF Due
  <2>7. /\ timeout \in Nat \cup {Infinite} /\ (old.timeout = 0 => timeout = 0)
        /\ old.timeout # Infinite => timeout # Infinite
        /\ ready_time[s] # Infinite => timeout # Infinite
    <3>1. CASE ready_time[s] = Infinite
      BY <2>2, <2>5, <3>1 DEF EarlierTimeout
    <3>2. CASE ready_time[s] # Infinite
      BY <1>9, <2>2, <2>5, <2>6, <3>2 DEF EarlierTimeout, Infinite
    <3> QED BY <3>1, <3>2
  <2>8. g \in Frame
    <3>1. timeout \in Int
      BY <2>7 DEF Infinite
    <3> QED BY <1>4, <1>5, <2>3, <2>4, <3>1 DEF Frame
  <2>9. /\ g.pc = old.pc /\ g.source = s /\ g.n_ready = old.n_ready
        /\ g.loop = old.loop
        /\ g.dispatch = old.dispatch /\ g.timeout = timeout
        /\ g.max_priority = old.max_priority
    BY <1>4, <2>3 DEF Frame
  <2>10. FrameOK(g)
    BY <1>1, <1>2, <1>4, <2>7, <2>9
       DEF FrameOK, WithSource, LoopPC, Scanning, Checking
  <2>11. SetTop(t, g) /\ mutex' \in Threads \cup {None}
    BY <1>2, <1>9, <1>14, <2>1, <2>2, <2>3 DEF Inv, TypeOK
  <2>12. Harmless(g, s)
    BY <1>1, <1>2, <1>14, <2>7, <2>9 DEF Harmless
  <2> QED
    BY <1>1, <1>2, <1>3, <1>5, <1>6, <1>7, <1>8, <1>14, <2>7, <2>8, <2>9, <2>10,
       <2>11, <2>12, PrepareStep
<1> QED BY <1>2, <1>3, <1>10, <1>11, <1>12, <1>13, <1>14 DEF PrepareNext

\* PrepareReturns keeps the invariant.
LEMMA PrepareReturnsKeeps ==
  ASSUME Inv, NEW t \in Threads, PrepareReturns(t)
  PROVE  Inv'
<1> USE DEF PrepareReturns, ownvars
<1>1. stack[t] # <<>> /\ Top(t).pc = "inPrepare"
  BY DEF At
<1>2. PICK old : old = Top(t)
  OBVIOUS
<1>3. old \in Frame /\ FrameOK(old) /\ stack \in Stacks /\ old.time \in Int
  BY <1>1, <1>2, TopParts DEF Frame
<1>4. PICK s : s = old.source
  OBVIOUS
<1>5. s \in Sources /\ s \in attached
  BY <1>1, <1>2, <1>4, CheckSources, IterSource, GMainContextAssumption
     DEF Inv, WithSource, GMainContextAssumption
<1>6. PICK g \in Frame :
        /\ g = ReadyAt(old, s, old.time)
        /\ g.pc = "prepareNext" /\ g.source = s /\ g.n_ready /\ g.loop = old.loop
        /\ g.dispatch = old.dispatch /\ FrameOK(g)
  BY <1>1, <1>2, <1>3, <1>5, ReadyFrame
<1>7. g = FoundReady(t, s)
  BY <1>2, <1>3, <1>6 DEF FoundReady, ReadyAt, Frame
<1>8. /\ g \in Frame /\ g.pc = "prepareNext" /\ g.source = s /\ g.n_ready
      /\ g.loop = old.loop
      /\ g.dispatch = old.dispatch /\ FrameOK(g)
  BY <1>6
<1>9. Advances(t, g)
  BY <1>1, <1>2, <1>4, <1>7, <1>8 DEF Advances, Iterating
<1>10. ScanFrameOK(g)'
  BY <1>8 DEF ScanFrameOK
<1>11. QueueFrameOK(g)'
  <2>1. QueueFrameOK(old)
    BY <1>1, <1>2 DEF Inv, QueueOK
  <2> QED BY <1>1, <1>2, <1>8, <2>1 DEF QueueFrameOK, Scanning
<1>12. RunFrameOK(g)'
  <2>1. RunFrameOK(old)
    BY <1>1, <1>2 DEF Inv, RunOK
  <2> QED BY <1>1, <1>2, <1>8, <2>1 DEF RunFrameOK, Scanning, pollvars
<1>13. {old.pc, g.pc} \subseteq Moving /\ g.pc \notin {"release", "inCheck"}
  BY <1>1, <1>2, <1>8 DEF Moving
<1>14. flags' \in [Sources -> SUBSET Flag] /\ SameFlags
  BY <1>2, <1>4, <1>5, ReadyFlag
<1>15. IterMove(old.source, g.source)
  <2>1. ref_count = [x \in Sources |-> ref_count[x] + Bit(x = s) - Bit(x = s)]
    BY DEF Inv, TypeOK, Bit
  <2> QED BY <1>4, <1>8, <2>1 DEF IterMove
<1> QED
  BY <1>2, <1>4, <1>5, <1>8, <1>9, <1>10, <1>11, <1>12, <1>13, <1>14, <1>15, IterStep

\* The dispatches left over are dropped with their references.
LEMMA PrepareKeeps ==
  ASSUME Inv, NEW t \in Threads, xmain_context_prepare(t)
  PROVE  Inv'
<1> USE DEF xmain_context_prepare, ownvars
<1>1. stack[t] # <<>> /\ Top(t).pc = "prepare"
  BY DEF At
<1>2. PICK old : old = Top(t)
  OBVIOUS
<1>3. PICK g : g = [old EXCEPT !.pc = "prepareNext", !.timeout = Infinite]
  OBVIOUS
<1>4. old \in Frame /\ FrameOK(old) /\ stack \in Stacks
  BY <1>1, <1>2, TopParts
<1>5. g \in Frame
  <2>1. "prepareNext" \in PC /\ Infinite \in Int
    BY DEF PC, Infinite
  <2> QED BY <1>3, <1>4, <2>1 DEF Frame
<1>6. /\ g.pc = "prepareNext" /\ g.source = old.source /\ g.loop = old.loop
      /\ g.n_ready = old.n_ready /\ g.dispatch = old.dispatch /\ g.timeout = Infinite
      /\ g.max_priority = old.max_priority
  BY <1>3, <1>4 DEF Frame
<1>7. old.source = None /\ ~g.n_ready /\ g.max_priority = MaxInt
  BY <1>1, <1>2, <1>4, <1>6 DEF FrameOK, WithSource, Scanning, Checking
<1>8. FrameOK(g)
  BY <1>6, <1>7 DEF FrameOK, WithSource, LoopPC, Scanning, Checking
<1>9. Advances(t, g)
  BY <1>1, <1>2, <1>3, <1>5, <1>6, <1>8 DEF Advances, Iterating
<1>10. ScanFrameOK(g)'
  <2>1. None \notin attached
    BY GMainContextAssumption DEF GMainContextAssumption, Inv, TypeOK
  <2>2. \A s \in attached : ~Seen(g, s)'
    BY <1>6, <1>7, <2>1 DEF Seen
  <2> QED BY <1>6, <1>7, <2>2 DEF ScanFrameOK
<1>11. QueueFrameOK(g)'
  BY <1>6 DEF QueueFrameOK
<1>12. RunFrameOK(g)'
  <2>1. RunFrameOK(old)
    BY <1>1, <1>2 DEF Inv, RunOK
  <2> QED BY <1>1, <1>2, <1>6, <2>1 DEF RunFrameOK, Scanning
<1>13. /\ stack \in Stacks /\ old \in Shape /\ g \in Shape /\ t = owner /\ Alone(t)
       /\ Replaces(t, g) /\ Move(t, old, g) /\ stack' \in Stacks
       /\ StackOK' /\ OwnerOK' /\ SleepOK' /\ ScanOK' /\ QueueOK' /\ RunOK'
  BY <1>2, <1>9, <1>10, <1>11, <1>12, AdvanceParts
<1>14. SameFlags
  BY DEF SameFlags, Active, Blocked
<1>15. {old.pc, g.pc} \cap {"destroying", "needDestroy", "callback"} = {}
           /\ g.source = None
  BY <1>1, <1>2, <1>6, <1>7
<1>16. PlaceOK' /\ SourceOK' /\ DestroyOK' /\ CallsOK' /\ PollOK'
  BY <1>6, <1>13, <1>14, <1>15, Settled
<1>17. RefsOK' /\ ref_count' \in [Sources -> Nat]
  <2> DEFINE delta == [s \in Sources |-> 0 - Queued(s)]
  <2>1. \A s \in Sources : Queued(s) \in Nat
    BY <1>4, AccountsHold DEF Accounts, Inv, TypeOK
  <2>2. \A s \in Sources : delta[s] \in Int
    BY <2>1
  <2>3. ASSUME NEW s \in Sources PROVE RefSum(s)' = RefSum(s) + delta[s]
    <3>1. /\ Bit(IsUser(g, s)) = 0 /\ Bit(IsUser(old, s)) = 0
          /\ Bit(IsDestroyer(g, s)) = 0 /\ Bit(IsDestroyer(old, s)) = 0
      BY <1>7, <1>15, GMainContextAssumption
         DEF IsUser, IsDestroyer, Bit, GMainContextAssumption
    <3>2. Queued(s)' = 0
      <4>1. {k \in DOMAIN pending_dispatches' : pending_dispatches'[k] = s} = {}
        OBVIOUS
      <4> QED BY <4>1, FS_EmptySet DEF Queued
    <3>3. Bit(s \in attached' /\ Active(s)') = Bit(s \in attached /\ Active(s))
      BY DEF Active
    <3>4. Count(Users(s)) \in Nat /\ Count(Destroyers(s)) \in Nat /\ Queued(s) \in Nat
      BY <1>4, <2>1, AllCounts
    <3>5. RefSum(s)' = Bit(s \in app_ref') + Bit(s \in attached' /\ Active(s)')
                        + (Count(Destroyers(s))
                            + Bit(IsDestroyer(g, s)) - Bit(IsDestroyer(old, s)))
                        + Queued(s)' + (Count(Users(s))
                            + Bit(IsUser(g, s)) - Bit(IsUser(old, s)))
      BY <1>13, RefSumMove
    <3>6. delta[s] = 0 - Queued(s)
      OBVIOUS
    <3>7. RefSum(s) = Bit(s \in app_ref)
                      + Bit(s \in attached /\ Active(s)) + Count(Destroyers(s))
                        + Queued(s) + Count(Users(s))
      BY DEF RefSum
    <3>8. /\ Bit(s \in app_ref') = Bit(s \in app_ref) /\ Bit(s \in app_ref) \in Int
          /\ Bit(s \in attached /\ Active(s)) \in Int
      BY DEF Bit
    <3> QED BY <3>1, <3>2, <3>3, <3>4, <3>5, <3>6, <3>7, <3>8
  <2>4. ref_count' = [s \in Sources |-> ref_count[s] + delta[s]]
    <3>1. \A s \in Sources : ref_count[s] - Queued(s) = ref_count[s] + delta[s]
      BY <2>1 DEF Inv, TypeOK
    <3> QED BY <3>1 DEF Queued
  <2>5. pending_dispatches' \in Seq(Sources \cup {None})
    OBVIOUS
  <2> HIDE DEF delta
  <2> QED BY <1>13, <2>2, <2>3, <2>4, <2>5, RefsStep
<1>18. TypeOK'
  BY <1>13, <1>17 DEF Inv, TypeOK, Stacks, envvars
<1>19. TimeOK' /\ DistinctOK' /\ EntriesOK'
  BY EntriesEmpty DEF Inv, TimeOK, envvars
<1>20. NestedOK'
  BY <1>1, <1>2, <1>5, <1>6, <1>13, NestedReplace DEF Inv
<1> QED BY <1>13, <1>16, <1>17, <1>18, <1>19, <1>20 DEF Inv

\* CheckEnds keeps the invariant.
LEMMA CheckEndsKeeps ==
  ASSUME Inv, NEW t \in Threads, CheckEnds(t)
  PROVE  Inv'
<1> USE DEF CheckEnds, ownvars
<1>1. stack[t] # <<>> /\ Top(t).pc = "checkNext"
  BY DEF At
<1>2. PICK old : old = Top(t)
  OBVIOUS
<1>3. PICK g \in Frame :
        /\ g.pc = (IF Top(t).dispatch THEN "dispatch" ELSE "release")
        /\ g.dispatch = TRUE /\ g.source = None /\ g.loop = Top(t).loop /\ FrameOK(g)
        /\ SetTop(t, g)
  BY <1>1, CheckDoneFrame DEF Checking
<1>4. g.pc \in {"dispatch", "release"} /\ (g.pc = "release" => ~old.dispatch)
  BY <1>2, <1>3
<1>5. Advances(t, g)
  BY <1>1, <1>3, <1>4 DEF Advances, Iterating
<1>6. ScanFrameOK(g)' /\ QueueFrameOK(g)' /\ RunFrameOK(g)'
  <2>1. g.pc \notin Scanning \cup Checking \cup {"acquire", "wait", "asleep", "prepare"}
    BY <1>4 DEF Scanning, Checking
  <2> QED BY <2>1, IdleFrame, RunIdle
<1>7. {old.pc, g.pc} \subseteq Moving /\ g.pc # "inCheck"
  BY <1>1, <1>2, <1>4 DEF Moving
<1>8. MayPend = 0 /\ Len(stack[t]) >= 2 => g.pc # "release"
  <2>1. Len(stack[t]) \in Nat /\ old = stack[t][Len(stack[t])]
    BY <1>1, <1>2, TopFrame DEF Inv, TypeOK, Stacks
  <2>2. MayPend = 0 => \A d \in 2 .. Len(stack[t]) : stack[t][d].dispatch
    BY DEF Inv, NestedOK
  <2> QED BY <1>4, <2>1, <2>2
<1>9. flags' \in [Sources -> SUBSET Flag] /\ SameFlags /\ mutex' \in Threads \cup {None}
  BY DEF Inv, TypeOK, SameFlags, Active, Blocked
<1>10. IterMove(old.source, g.source)
  BY <1>2, <1>3
<1> QED BY <1>2, <1>3, <1>5, <1>6, <1>7, <1>8, <1>9, <1>10, IterStep

\* While an iteration is not dispatching, no entry has been taken.
LEMMA EntriesThere ==
  ASSUME Inv, NEW t \in Threads, stack[t] # <<>>, Top(t).pc \in Filling \cap Iterating
  PROVE  /\ Taken(t) = 0
         /\ \A k \in DOMAIN pending_dispatches : pending_dispatches[k] \in attached
<1>1. stack \in Stacks
  BY DEF Inv, TypeOK, Stacks
<1>2. Len(stack[t]) # 0 /\ t = owner
  BY <1>1, LenFacts, IterateOwns DEF Inv
<1>3. Taken(t) = 0
  BY <1>2 DEF Taken, Filling, Section, Scanning, Checking
<1>4. ASSUME NEW k \in DOMAIN pending_dispatches
      PROVE  pending_dispatches[k] \in attached
  <2>1. k \in Nat /\ k >= 1
    BY DEF Inv, TypeOK
  <2>2. pending_dispatches[k] = None => k <= 0
    BY <1>2, <1>3 DEF Inv, EntriesOK, EntryOK
  <2> QED BY <2>1, <2>2 DEF Inv, SourceOK
<1> QED BY <1>3, <1>4

\* What is queued stands in front of the next source.
LEMMA QueuedBefore ==
  ASSUME Inv, NEW t \in Threads, stack[t] # <<>>, NEW old, old = Top(t),
         old.pc = "checkNext",
         NEW s, s = IterNext(old.source), s # None
  PROVE  \A k \in DOMAIN pending_dispatches :
           pending_dispatches[k] \in attached /\ Before(pending_dispatches[k], s)
<1>1. TypeOK /\ PlaceOK /\ QueueFrameOK(old)
  BY DEF Inv, QueueOK
<1>2. s \in attached /\ (old.source = None \/ Before(old.source, s))
  BY <1>1, IterNextFirst
<1>3. old.source \in attached \cup {None}
  BY IterSource
<1> SUFFICES ASSUME NEW k \in DOMAIN pending_dispatches
             PROVE  pending_dispatches[k] \in attached /\ Before(pending_dispatches[k], s)
  OBVIOUS
<1>4. pending_dispatches[k] \in attached
  BY EntriesThere DEF Filling, Checking, Iterating
<1>5. pending_dispatches # <<>>
  OBVIOUS
<1>6. old.source # None
  BY <1>1, <1>5 DEF QueueFrameOK
<1>7. pending_dispatches[k] = old.source \/ Before(pending_dispatches[k], old.source)
  BY <1>1 DEF QueueFrameOK
<1>8. Before(pending_dispatches[k], s)
  <2>1. PICK x \in attached : x = pending_dispatches[k]
    BY <1>4
  <2>2. PICK y \in attached : y = old.source
    BY <1>3, <1>6
  <2>3. \A a, b, c \in attached : Before(a, b) /\ Before(b, c) => Before(a, c)
    BY <1>1, BeforeOrder
  <2> QED BY <1>2, <1>6, <1>7, <2>1, <2>2, <2>3
<1> QED BY <1>4, <1>8

\* The iterator of check moves to source s, which is not queued.
LEMMA CheckStep ==
  ASSUME Inv, NEW t \in Threads, stack[t] # <<>>, NEW old, old = Top(t),
         old.pc = "checkNext",
         NEW s, s = IterNext(old.source), s # None,
         NEW g \in Frame, SetTop(t, g), g.pc \in {"checkNext", "inCheck"},
         g.loop = old.loop,
         g.dispatch = old.dispatch, g.source = s, g.timeout = old.timeout,
         g.pc = "inCheck" => Visible(s), IterMove(old.source, s),
         mutex' \in Threads \cup {None},
         UNCHANGED <<ownvars, flags, ready_time, revents, attached, place, app_ref, pollvars,
                     pending_dispatches, is_running, envvars>>
  PROVE  Inv'
<1> USE DEF ownvars
<1>1. old \in Frame /\ FrameOK(old) /\ stack \in Stacks
  BY TopParts
<1>2. s \in attached /\ s \in Sources
  BY IterNextFirst DEF Inv
<1>3. FrameOK(g)
  BY <1>1 DEF FrameOK, LoopPC, WithSource, Scanning, Checking
<1>4. Advances(t, g)
  BY <1>3 DEF Advances, Iterating
<1>5. ScanFrameOK(g)' /\ RunFrameOK(g)'
  BY DEF ScanFrameOK, RunFrameOK, Scanning
<1>6. QueueFrameOK(g)'
  <2>1. \A k \in DOMAIN pending_dispatches : Before(pending_dispatches[k], s)
    BY QueuedBefore
  <2>2. s # None /\ UNCHANGED <<pending_dispatches, place>>
    OBVIOUS
  <2> QED BY <2>1, <2>2 DEF QueueFrameOK, Scanning, Before
<1>7. {old.pc, g.pc} \subseteq Moving /\ g.pc # "release"
  BY DEF Moving
<1>8. g.pc = "inCheck" => g.source \in Sources /\ ~Held(g.source)
  BY <1>2 DEF Held, Visible
<1>9. flags' \in [Sources -> SUBSET Flag] /\ SameFlags
  BY DEF Inv, TypeOK, SameFlags, Active, Blocked
<1> QED BY <1>2, <1>4, <1>5, <1>6, <1>7, <1>8, <1>9, IterStep

\* One more entry.
LEMMA QueuedAppend ==
  ASSUME pending_dispatches \in Seq(Sources \cup {None}), NEW s \in Sources,
         NEW x \in Sources,
         pending_dispatches' = Append(pending_dispatches, s)
  PROVE  Queued(x)' = Queued(x) + Bit(x = s)
<1> DEFINE n == Len(pending_dispatches)
           A == {k \in DOMAIN pending_dispatches : pending_dispatches[k] = x}
           B == {k \in DOMAIN pending_dispatches' : pending_dispatches'[k] = x}
<1>1. n \in Nat /\ DOMAIN pending_dispatches = 1 .. n
  OBVIOUS
<1>2. /\ DOMAIN pending_dispatches' = 1 .. n + 1 /\ pending_dispatches'[n + 1] = s
      /\ \A k \in 1 .. n : pending_dispatches'[k] = pending_dispatches[k]
  OBVIOUS
<1>3. IsFiniteSet(A)
  <2>1. IsFiniteSet(1 .. n)
    BY <1>1, FS_Interval
  <2>2. A \subseteq 1 .. n
    BY <1>1
  <2> QED BY <2>1, <2>2, FS_Subset
<1>4. Cardinality(A) \in Nat
  BY <1>3, FS_CardinalityType
<1>5. A \ {n + 1} = B \ {n + 1}
  BY <1>1, <1>2
<1>6. Bit(n + 1 \in B) = Bit(x = s) /\ Bit(n + 1 \in A) = 0 /\ Bit(x = s) \in Int
  BY <1>1, <1>2 DEF Bit
<1>7. Cardinality(B) = Cardinality(A) + Bit(n + 1 \in B) - Bit(n + 1 \in A)
  BY <1>3, <1>5, CountOther
<1> HIDE DEF A, B, n
<1>8. Cardinality(B) = Cardinality(A) + Bit(x = s)
  BY <1>4, <1>6, <1>7
<1> QED BY <1>8 DEF Queued, A, B

\* Source s is queued for its dispatch.
LEMMA QueueStep ==
  ASSUME Inv, NEW t \in Threads, NEW g, Advances(t, g), NEW old, old = Top(t),
         old.pc \in {"checkNext", "inCheck"}, g.pc = "checkNext", g.dispatch =
             old.dispatch,
         NEW s \in attached, g.source = s, ~Held(s),
         \A k \in DOMAIN pending_dispatches :
           pending_dispatches[k] \in attached /\ Before(pending_dispatches[k], s),
         pending_dispatches' = Append(pending_dispatches, s),
         ref_count' = [x \in Sources |-> ref_count[x]
             + 2 * Bit(x = s) - Bit(x = old.source)],
         flags' \in [Sources -> SUBSET Flag], SameFlags, mutex' \in Threads \cup {None},
         UNCHANGED <<waiters, ready_time, revents, attached, place, app_ref,
                     pollvars, envvars>>
  PROVE  Inv'
<1> USE DEF pollvars, envvars
<1>1. stack[t] # <<>> /\ g \in Frame /\ UNCHANGED owner
  BY DEF Advances
<1>2. /\ TypeOK /\ PlaceOK /\ pending_dispatches \in Seq(Sources \cup {None})
      /\ s \in Sources
      /\ s # None
  BY GMainContextAssumption DEF Inv, TypeOK, GMainContextAssumption
<1>3. PICK n : n = Len(pending_dispatches)
  OBVIOUS
<1>4. /\ n \in Nat /\ DOMAIN pending_dispatches = 1 .. n
      /\ DOMAIN pending_dispatches' = 1 .. n + 1
      /\ pending_dispatches'[n + 1] = s
      /\ \A k \in 1 .. n : pending_dispatches'[k] = pending_dispatches[k]
      /\ pending_dispatches' \in Seq(Sources \cup {None})
  BY <1>2, <1>3
<1>5. \A k \in 1 .. n + 1 : k = n + 1 \/ k \in 1 .. n
  BY <1>4
<1>6. ScanFrameOK(g)' /\ RunFrameOK(g)'
  BY DEF ScanFrameOK, RunFrameOK, Scanning
<1>7. QueueFrameOK(g)'
  <2>1. \A x, y : Before(x, y)' <=> Before(x, y)
    BY DEF Before
  <2> QED BY <1>2, <1>4, <1>5, <2>1 DEF QueueFrameOK, Scanning
<1>8. /\ stack \in Stacks /\ old \in Shape /\ g \in Shape /\ old \in Frame
      /\ FrameOK(old)
      /\ t = owner /\ Alone(t) /\ Replaces(t, g) /\ Move(t, old, g)
      /\ stack' \in Stacks
      /\ StackOK' /\ OwnerOK' /\ SleepOK' /\ ScanOK' /\ QueueOK' /\ RunOK'
  BY <1>6, <1>7, AdvanceParts
<1>9. {old.pc, g.pc} \cap {"destroying", "needDestroy", "callback"} = {}
          /\ g.pc # "inCheck"
  OBVIOUS
<1>10. \A k \in DOMAIN pending_dispatches' :
         pending_dispatches'[k] \in attached /\ ~Held(pending_dispatches'[k])
  <2>1. \A k \in 1 .. n :
            pending_dispatches[k] \in attached /\ ~Held(pending_dispatches[k])
    <3>1. None \notin attached
      BY GMainContextAssumption DEF Inv, TypeOK, GMainContextAssumption
    <3> QED BY <1>4, <3>1, EntriesSettled
  <2> QED BY <1>4, <1>5, <2>1
<1>11. PlaceOK' /\ SourceOK' /\ DestroyOK' /\ CallsOK' /\ PollOK'
  BY <1>8, <1>9, <1>10, Settled
<1>12. RefsOK' /\ ref_count' \in [Sources -> Nat]
  <2> DEFINE delta == [x \in Sources |-> 2 * Bit(x = s) - Bit(x = old.source)]
  <2>1. \A x \in Sources : delta[x] \in Int
    BY DEF Bit
  <2>2. ASSUME NEW x \in Sources PROVE RefSum(x)' = RefSum(x) + delta[x]
    <3>1. /\ Bit(IsUser(g, x)) = Bit(x = s)
          /\ Bit(IsUser(old, x)) = Bit(x = old.source)
          /\ Bit(IsDestroyer(g, x)) = 0 /\ Bit(IsDestroyer(old, x)) = 0
      BY <1>9 DEF IsUser, IsDestroyer, Bit
    <3>2. Queued(x)' = Queued(x) + Bit(x = s)
      BY <1>2, QueuedAppend
    <3>3. Bit(x \in attached' /\ Active(x)') = Bit(x \in attached /\ Active(x))
      BY DEF SameFlags, Bit
    <3>4. Count(Users(x)) \in Nat /\ Count(Destroyers(x)) \in Nat /\ Queued(x) \in Nat
      BY <1>2, <1>8, AllCounts, AccountsHold DEF Accounts
    <3>5. RefSum(x)' = Bit(x \in app_ref') + Bit(x \in attached' /\ Active(x)')
                        + (Count(Destroyers(x))
                            + Bit(IsDestroyer(g, x)) - Bit(IsDestroyer(old, x)))
                        + Queued(x)' + (Count(Users(x))
                            + Bit(IsUser(g, x)) - Bit(IsUser(old, x)))
      BY <1>8, RefSumMove
    <3>6. delta[x] = 2 * Bit(x = s) - Bit(x = old.source)
      OBVIOUS
    <3>7. RefSum(x) = Bit(x \in app_ref)
                      + Bit(x \in attached /\ Active(x)) + Count(Destroyers(x))
                        + Queued(x) + Count(Users(x))
      BY DEF RefSum
    <3>8. /\ Bit(x \in app_ref') = Bit(x \in app_ref) /\ Bit(x \in app_ref) \in Int
          /\ Bit(x \in attached /\ Active(x)) \in Int
          /\ Bit(x = s) \in Int /\ Bit(x = old.source) \in Int
      BY DEF Bit
    <3> QED BY <3>1, <3>2, <3>3, <3>4, <3>5, <3>6, <3>7, <3>8
  <2>3. ref_count' = [x \in Sources |-> ref_count[x] + delta[x]]
    <3>1. \A x \in Sources : ref_count[x] + 2 * Bit(x = s) - Bit(x = old.source)
                               = ref_count[x] + delta[x]
      BY DEF Inv, TypeOK, Bit
    <3> QED BY <3>1
  <2> HIDE DEF delta
  <2> QED BY <1>4, <1>8, <2>1, <2>2, <2>3, RefsStep
<1>13. TypeOK'
  BY <1>4, <1>8, <1>12 DEF Inv, TypeOK, Stacks, Advances
<1>14. TimeOK'
  BY DEF Inv, TimeOK
<1>15. DistinctOK'
  <2>1. \A x \in attached : ~Before(x, x)
    BY <1>2, BeforeOrder
  <2>2. \A k \in 1 .. n : pending_dispatches[k] # s
    BY <1>4, <2>1
  <2> QED BY <1>4, <1>5, <2>2 DEF Inv, DistinctOK
<1>16. EntriesOK'
  <2>1. Taken(t) = 0
    BY <1>1, EntriesThere DEF Filling, Checking, Iterating
  <2>2. Taken(t)' = Taken(t)
    BY <1>1, <1>8, TakenReplace DEF Filling, Checking
  <2>3. None \notin attached /\ t # None
    BY GMainContextAssumption DEF Inv, TypeOK, GMainContextAssumption
  <2>4. \A k \in DOMAIN pending_dispatches' : k >= 1 /\ k \in Nat
    BY <1>4
  <2> QED BY <1>1, <1>8, <1>10, <2>1, <2>2, <2>3, <2>4 DEF EntriesOK, EntryOK
<1>17. NestedOK'
  BY <1>1, <1>8, NestedReplace DEF Inv
<1> QED BY <1>8, <1>11, <1>12, <1>13, <1>14, <1>15, <1>16, <1>17 DEF Inv

\* The frame that has queued source s.
LEMMA QueueFrame ==
  ASSUME Inv, NEW t \in Threads, stack[t] # <<>>,
         Top(t).pc \in {"checkNext", "inCheck"},
         NEW s \in Sources, QueueDispatch(t, s), UNCHANGED <<ownvars, is_running>>
  PROVE  \E g : /\ Advances(t, g) /\ g.pc = "checkNext" /\ g.dispatch = Top(t).dispatch
                /\ g.source = s
<1>1. PICK old : old = Top(t)
  OBVIOUS
<1>2. PICK g : g = [old EXCEPT !.pc = "checkNext", !.source = s,
                               !.n_ready = TRUE, !.max_priority = Priority[s]]
  OBVIOUS
<1>3. old \in Frame /\ FrameOK(old) /\ stack \in Stacks
  BY <1>1, TopParts
<1>4. /\ "checkNext" \in PC /\ s \in Sources \cup {None} /\ Priority[s] \in Int
  BY GMainContextAssumption DEF PC, GMainContextAssumption
<1>5. g \in Frame
  BY <1>2, <1>3, <1>4 DEF Frame
<1>6. /\ g.pc = "checkNext" /\ g.dispatch = old.dispatch /\ g.source = s
      /\ g.loop = old.loop
      /\ g.timeout = old.timeout
  BY <1>2, <1>3 DEF Frame
<1>7. FrameOK(g)
  BY <1>3, <1>6 DEF FrameOK, LoopPC, WithSource, Scanning, Checking
<1>8. SetTop(t, g)
  BY <1>1, <1>2 DEF QueueDispatch
<1>9. Advances(t, g)
  BY <1>1, <1>5, <1>6, <1>7, <1>8 DEF Advances, Iterating, ownvars
<1> QED BY <1>1, <1>6, <1>9

\* CheckReturns keeps the invariant.
LEMMA CheckReturnsKeeps ==
  ASSUME Inv, NEW t \in Threads, CheckReturns(t)
  PROVE  Inv'
<1>1. stack[t] # <<>> /\ Top(t).pc = "inCheck"
  BY DEF At, CheckReturns
<1>2. PICK old : old = Top(t)
  OBVIOUS
<1>3. PICK s : s = old.source
  OBVIOUS
<1>4. s \in Sources /\ s \in attached /\ ~Held(s)
  <2>1. s \in Sources
    BY <1>1, <1>2, <1>3, CheckSources DEF Inv, WithSource
  <2>2. s \in attached
    BY <1>1, <1>2, <1>3, <2>1, IterSource, GMainContextAssumption
       DEF GMainContextAssumption
  <2>3. ~Held(s)
    BY <1>1, <1>2, <1>3 DEF Inv, CallsOK, At
  <2> QED BY <2>1, <2>2, <2>3
<1>5. PICK g : /\ Advances(t, g) /\ g.pc = "checkNext" /\ g.dispatch = Top(t).dispatch
               /\ g.source = s
  <2>1. QueueDispatch(t, s) /\ UNCHANGED <<ownvars, is_running>>
    BY <1>2, <1>3 DEF CheckReturns
  <2> QED BY <1>1, <1>4, <2>1, QueueFrame
<1>6. \A k \in DOMAIN pending_dispatches :
        pending_dispatches[k] \in attached /\ Before(pending_dispatches[k], s)
  <2>1. QueueFrameOK(old)
    BY <1>1, <1>2 DEF Inv, QueueOK
  <2>2. \A k \in DOMAIN pending_dispatches : pending_dispatches[k] \in attached
    BY <1>1, EntriesThere DEF Filling, Checking, Iterating
  <2> QED BY <1>1, <1>2, <1>3, <2>1, <2>2 DEF QueueFrameOK
<1>7. ref_count' = [x \in Sources |-> ref_count[x] + 2 * Bit(x = s) - Bit(x = old.source)]
  <2>1. ref_count' = [ref_count EXCEPT ![s] = @ + 1]
    BY <1>2, <1>3 DEF CheckReturns
  <2>2. ref_count \in [Sources -> Nat]
    BY DEF Inv, TypeOK
  <2>3. ref_count' = [x \in Sources |-> IF x = s THEN ref_count[x] + 1 ELSE ref_count[x]]
    BY <1>4, <2>1, <2>2
  <2>4. \A x \in Sources : (IF x = s THEN ref_count[x] + 1 ELSE ref_count[x])
                             = ref_count[x] + 2 * Bit(x = s) - Bit(x = s)
    BY <2>2 DEF Bit
  <2> QED BY <1>3, <2>3, <2>4
<1>8. flags' \in [Sources -> SUBSET Flag] /\ SameFlags
  BY <1>2, <1>3, <1>4, ReadyFlag DEF CheckReturns
<1>9. pending_dispatches' = Append(pending_dispatches, s)
  BY <1>2, <1>3 DEF QueueDispatch, CheckReturns
<1>10. /\ mutex' \in Threads \cup {None}
       /\ UNCHANGED <<waiters, ready_time, revents, attached, place, app_ref,
                      pollvars, envvars>>
  BY DEF ownvars, CheckReturns
<1>11. /\ old.pc \in {"checkNext", "inCheck"} /\ g.pc = "checkNext"
       /\ g.dispatch = old.dispatch
       /\ g.source = s /\ Advances(t, g)
  BY <1>1, <1>2, <1>5
<1> QED BY <1>2, <1>4, <1>6, <1>7, <1>8, <1>9, <1>10, <1>11, QueueStep

\* CheckNext keeps the invariant.
LEMMA CheckNextKeeps ==
  ASSUME Inv, NEW t \in Threads, CheckNext(t)
  PROVE  Inv'
<1> USE DEF pollvars
<1>1. stack[t] # <<>> /\ Top(t).pc = "checkNext"
  BY DEF At, CheckNext
<1>2. PICK old : old = Top(t)
  OBVIOUS
<1>3. PICK s : s = IterNext(old.source)
  OBVIOUS
<1>4. old \in Frame /\ FrameOK(old) /\ stack \in Stacks
  BY <1>1, <1>2, TopParts
<1>5. s # None /\ s \in attached /\ s \in Sources /\ s \in Sources \cup {None}
  <2>1. s # None
    BY <1>2, <1>3 DEF CheckNext
  <2> QED BY <1>3, <2>1, IterNextFirst DEF Inv
<1>6. UNCHANGED <<ownvars, ready_time, revents, attached, place, app_ref, pollvars,
                  is_running, envvars>>
  BY DEF CheckNext
<1>7. ASSUME SetTop(t, [Top(t) EXCEPT !.source = s]), IterMove(old.source, s),
             UNCHANGED <<mutex, flags, pending_dispatches>>
      PROVE  Inv'
  <2>1. PICK g : g = [old EXCEPT !.source = s]
    OBVIOUS
  <2>2. g \in Frame
    BY <1>4, <1>5, <2>1 DEF Frame
  <2>3. /\ g.pc = old.pc /\ g.source = s /\ g.loop = old.loop
        /\ g.dispatch = old.dispatch
        /\ g.timeout = old.timeout
    BY <1>4, <2>1 DEF Frame
  <2>4. SetTop(t, g) /\ mutex' \in Threads \cup {None}
    BY <1>2, <1>7, <2>1 DEF Inv, TypeOK
  <2> QED BY <1>1, <1>2, <1>3, <1>5, <1>6, <1>7, <2>2, <2>3, <2>4, CheckStep
<1>8. ASSUME SetTop(t, [Top(t) EXCEPT !.pc = "inCheck", !.source = s]),
             IterMove(old.source, s),
             Visible(s), mutex' = None, UNCHANGED <<flags, pending_dispatches>>
      PROVE  Inv'
  <2>1. PICK g : g = [old EXCEPT !.pc = "inCheck", !.source = s]
    OBVIOUS
  <2>2. g \in Frame
    <3>1. "inCheck" \in PC
      BY DEF PC
    <3> QED BY <1>4, <1>5, <2>1, <3>1 DEF Frame
  <2>3. /\ g.pc = "inCheck" /\ g.source = s /\ g.loop = old.loop
        /\ g.dispatch = old.dispatch
        /\ g.timeout = old.timeout
    BY <1>4, <2>1 DEF Frame
  <2>4. SetTop(t, g) /\ mutex' \in Threads \cup {None}
    BY <1>2, <1>8, <2>1
  <2> QED BY <1>1, <1>2, <1>3, <1>5, <1>6, <1>8, <2>2, <2>3, <2>4, CheckStep
<1>9. ASSUME Visible(s), flags' = [flags EXCEPT ![s] = @ \cup {"READY"}],
             QueueDispatch(t, s),
             ref_count' = [x \in Sources |-> ref_count[x]
                 + 2 * Bit(x = s) - Bit(x = old.source)],
             UNCHANGED mutex
      PROVE  Inv'
  <2>1. PICK g : /\ Advances(t, g) /\ g.pc = "checkNext" /\ g.dispatch = Top(t).dispatch
                 /\ g.source = s
    BY <1>1, <1>5, <1>6, <1>9, QueueFrame
  <2>2. \A k \in DOMAIN pending_dispatches :
          pending_dispatches[k] \in attached /\ Before(pending_dispatches[k], s)
    BY <1>1, <1>2, <1>3, <1>5, QueuedBefore
  <2>3. flags' \in [Sources -> SUBSET Flag] /\ SameFlags
    BY <1>5, <1>9, ReadyFlag
  <2>4. pending_dispatches' = Append(pending_dispatches, s) /\ ~Held(s)
    BY <1>9 DEF QueueDispatch, Held, Visible
  <2>5. /\ mutex' \in Threads \cup {None}
        /\ UNCHANGED <<waiters, ready_time, revents, attached, place, app_ref,
                       pollvars, envvars>>
    BY <1>6, <1>9 DEF Inv, TypeOK, ownvars
  <2>6. /\ old.pc \in {"checkNext", "inCheck"} /\ g.pc = "checkNext"
        /\ g.dispatch = old.dispatch
        /\ g.source = s /\ Advances(t, g)
    BY <1>1, <1>2, <2>1
  <2> QED BY <1>2, <1>5, <1>9, <2>2, <2>3, <2>4, <2>5, <2>6, QueueStep
<1>10. ASSUME SetTop(t, [Top(t) EXCEPT !.source = s, !.time = SampledTime(t, s)]),
              IterMove(old.source, s), UNCHANGED <<mutex, flags, pending_dispatches>>
       PROVE  Inv'
  <2>1. PICK time : time = SampledTime(t, s)
    OBVIOUS
  <2>2. PICK g : g = [old EXCEPT !.source = s, !.time = time]
    OBVIOUS
  <2>3. time \in Int
    BY <1>1, <2>1, ClockInt DEF SampledTime
  <2>4. g \in Frame
    BY <1>4, <1>5, <2>2, <2>3 DEF Frame
  <2>5. /\ g.pc = old.pc /\ g.source = s /\ g.loop = old.loop
        /\ g.dispatch = old.dispatch
        /\ g.timeout = old.timeout
    BY <1>4, <2>2 DEF Frame
  <2>6. SetTop(t, g) /\ mutex' \in Threads \cup {None}
    BY <1>2, <1>10, <2>1, <2>2 DEF Inv, TypeOK
  <2> QED BY <1>1, <1>2, <1>3, <1>5, <1>6, <1>10, <2>4, <2>5, <2>6, CheckStep
<1> QED BY <1>2, <1>3, <1>7, <1>8, <1>9, <1>10 DEF CheckNext

\* The references to s that a step adds.
Gain(old, new, s) ==
  (Bit(s \in app_ref') - Bit(s \in app_ref))
    + (Bit(s \in attached' /\ Active(s)') - Bit(s \in attached /\ Active(s)))
    + (Bit(IsDestroyer(new, s)) - Bit(IsDestroyer(old, s)))
    + (Queued(s)' - Queued(s))
    + (Bit(IsUser(new, s)) - Bit(IsUser(old, s)))

\* The sum of the references after a step.
LEMMA GainCounts ==
  ASSUME Inv, NEW t, NEW old \in Shape, NEW new \in Shape, Move(t, old, new),
         pending_dispatches' \in Seq(Sources \cup {None}), NEW s \in Sources
  PROVE  RefSum(s)' = RefSum(s) + Gain(old, new, s) /\ Gain(old, new, s) \in Int
<1>1. stack \in Stacks /\ stack' \in Stacks
  BY DEF Inv, TypeOK, Stacks, Move
<1>2. Count(Users(s)) \in Nat /\ Count(Destroyers(s)) \in Nat /\ Queued(s) \in Nat
  BY <1>1, AllCounts, AccountsHold DEF Accounts, Inv, TypeOK
<1>3. Queued(s)' \in Nat
  <2>1. Accounts'
    BY AccountsHold, PTL
  <2> QED BY <1>1, <2>1 DEF Accounts, Stacks
<1>4. PICK a \in Int, a1 \in Int, b \in Int, b1 \in Int :
        /\ a = Bit(s \in app_ref) /\ a1 = Bit(s \in app_ref')
        /\ b = Bit(s \in attached /\ Active(s))
        /\ b1 = Bit(s \in attached' /\ Active(s)')
  BY DEF Bit
<1>5. PICK d \in Int, u \in Int, q \in Int, q1 \in Int :
        /\ d = Count(Destroyers(s)) /\ u = Count(Users(s)) /\ q = Queued(s)
        /\ q1 = Queued(s)'
  BY <1>2, <1>3
<1>6. PICK d0 \in Int, d1 \in Int, u0 \in Int, u1 \in Int :
        /\ d0 = Bit(IsDestroyer(old, s)) /\ d1 = Bit(IsDestroyer(new, s))
        /\ u0 = Bit(IsUser(old, s)) /\ u1 = Bit(IsUser(new, s))
  BY DEF Bit
<1>7. RefSum(s)' = a1 + b1 + (d + d1 - d0) + q1 + (u + u1 - u0)
  BY <1>1, <1>4, <1>5, <1>6, RefSumMove
<1>8. RefSum(s) = a + b + d + q + u
  BY <1>4, <1>5 DEF RefSum
<1>9. Gain(old, new, s) = (a1 - a) + (b1 - b) + (d1 - d0) + (q1 - q) + (u1 - u0)
  BY <1>4, <1>5, <1>6 DEF Gain
<1> QED BY <1>7, <1>8, <1>9

\* The count of a source changes by what a step adds to its references.
LEMMA RefsMove ==
  ASSUME Inv, NEW t, NEW old \in Shape, NEW new \in Shape, Move(t, old, new),
         pending_dispatches' \in Seq(Sources \cup {None}), NEW delta,
         \A s \in Sources : delta[s] = Gain(old, new, s),
         ref_count' = [s \in Sources |-> ref_count[s] + delta[s]]
  PROVE  RefsOK' /\ ref_count' \in [Sources -> Nat]
<1>1. stack' \in Stacks
  BY DEF Move
<1>2. \A s \in Sources : delta[s] \in Int /\ RefSum(s)' = RefSum(s) + delta[s]
  BY GainCounts
<1> QED BY <1>1, <1>2, RefsStep

\* The changes of ref_count when source s alone gains c references.
Only(s, c) == [x \in Sources |-> c * Bit(x = s)]

\* One source gains references.
LEMMA RefsOne ==
  ASSUME Inv, NEW s \in Sources, NEW c \in Int,
         ref_count' = [ref_count EXCEPT ![s] = @ + c]
  PROVE  ref_count' = [x \in Sources |-> ref_count[x] + Only(s, c)[x]]
<1>1. ref_count \in [Sources -> Nat]
  BY DEF Inv, TypeOK
<1>2. ref_count' = [x \in Sources |-> IF x = s THEN ref_count[x] + c ELSE ref_count[x]]
  BY <1>1
<1>3. \A x \in Sources : (IF x = s THEN ref_count[x] + c ELSE ref_count[x])
                           = ref_count[x] + Only(s, c)[x]
  BY <1>1 DEF Bit, Only
<1> QED BY <1>2, <1>3

\* One source loses a reference.
LEMMA RefsLess ==
  ASSUME Inv, NEW s \in Sources, Unref(s)
  PROVE  ref_count' = [x \in Sources |-> ref_count[x] + Only(s, -1)[x]]
<1>1. PICK c \in Int : c = -1
  OBVIOUS
<1>2. ref_count[s] - 1 = ref_count[s] + c
  BY <1>1 DEF Inv, TypeOK
<1>3. ref_count' = [ref_count EXCEPT ![s] = @ + c]
  BY <1>2 DEF Unref
<1>4. ref_count' = [x \in Sources |-> ref_count[x] + Only(s, c)[x]]
  BY <1>3, RefsOne
<1> QED BY <1>1, <1>4

\* A step of a dispatch.
LEMMA SectionParts ==
  ASSUME Inv, NEW t \in Threads, NEW g, Advances(t, g), NEW old, old = Top(t),
         g.pc \in Section \cup {"release"}, g.dispatch = old.dispatch,
         g.pc = "release" => pending_dispatches' = <<>>,
         UNCHANGED <<ready_time, attached, place, envvars>>
  PROVE  /\ stack \in Stacks /\ old \in Shape /\ g \in Shape /\ old \in Frame
                /\ FrameOK(old)
         /\ t = owner /\ Alone(t) /\ Replaces(t, g) /\ Move(t, old, g)
         /\ stack' \in Stacks
         /\ StackOK' /\ OwnerOK' /\ SleepOK' /\ ScanOK' /\ QueueOK' /\ RunOK'
         /\ NestedOK' /\ TimeOK' /\ PlaceOK'
<1>1. ScanFrameOK(g)' /\ QueueFrameOK(g)' /\ RunFrameOK(g)'
  <2>1. g.pc \notin Scanning \cup Checking \cup {"acquire", "wait", "asleep", "prepare"}
    BY DEF Section, Scanning, Checking
  <2> QED BY <2>1, IdleFrame, RunIdle
<1>2. /\ stack \in Stacks /\ old \in Shape /\ g \in Shape /\ old \in Frame
      /\ FrameOK(old)
      /\ t = owner /\ Alone(t) /\ Replaces(t, g) /\ Move(t, old, g)
      /\ stack' \in Stacks
      /\ StackOK' /\ OwnerOK' /\ SleepOK' /\ ScanOK' /\ QueueOK' /\ RunOK'
  BY <1>1, AdvanceParts
<1>3. NestedOK'
  BY <1>2, NestedReplace DEF Inv, Advances
<1>4. TimeOK' /\ PlaceOK'
  BY DEF Inv, TimeOK, PlaceOK, SamePriority, envvars
<1> QED BY <1>2, <1>3, <1>4

\* A frame that has finished with its source, or with its list.
LEMMA DispatchEndsKeeps ==
  ASSUME Inv, NEW t \in Threads, DispatchEnds(t)
  PROVE  Inv'
<1> USE DEF DispatchEnds, ownvars, srcvars
<1>1. stack[t] # <<>> /\ Top(t).pc = "dispatchNext"
  BY DEF At
<1>2. PICK old : old = Top(t)
  OBVIOUS
<1>3. PICK g : g = [old EXCEPT !.pc = "release", !.i = 0]
  OBVIOUS
<1>4. old \in Frame /\ FrameOK(old) /\ stack \in Stacks
  BY <1>1, <1>2, TopParts
<1>5. g \in Frame
  <2>1. "release" \in PC /\ 0 \in Nat
    BY DEF PC
  <2> QED BY <1>3, <1>4, <2>1 DEF Frame
<1>6. /\ g.pc = "release" /\ g.source = old.source /\ g.loop = old.loop
      /\ g.n_ready = old.n_ready /\ g.dispatch = old.dispatch
      /\ g.timeout = old.timeout
      /\ g.max_priority = old.max_priority
  BY <1>3, <1>4 DEF Frame
<1>7. old.source = None
  BY <1>1, <1>2, <1>4 DEF FrameOK, WithSource
<1>8. FrameOK(g)
  BY <1>1, <1>2, <1>4, <1>6, <1>7 DEF FrameOK, WithSource, LoopPC, Scanning, Checking
<1>9. Advances(t, g)
  BY <1>1, <1>2, <1>3, <1>5, <1>6, <1>8 DEF Advances, Iterating
<1>10. UNCHANGED <<ready_time, attached, place,
                   envvars>> /\ pending_dispatches' = <<>>
  OBVIOUS
<1>11. /\ stack \in Stacks /\ old \in Shape /\ g \in Shape /\ t = owner
       /\ Replaces(t, g) /\ Move(t, old, g) /\ stack' \in Stacks
       /\ StackOK' /\ OwnerOK' /\ SleepOK' /\ ScanOK' /\ QueueOK' /\ RunOK'
       /\ NestedOK' /\ TimeOK' /\ PlaceOK'
  BY <1>2, <1>6, <1>9, <1>10, SectionParts
<1>12. SameFlags
  BY DEF SameFlags, Active, Blocked
<1>13. {old.pc, g.pc} \cap {"destroying", "needDestroy", "callback"} = {}
           /\ g.source = None
  BY <1>1, <1>2, <1>6, <1>7
<1>14. SourceOK' /\ DestroyOK' /\ CallsOK' /\ PollOK'
  <2>1. g.pc # "inCheck" /\ UNCHANGED <<attached, place, app_ref, poll_records>>
    BY <1>6 DEF pollvars
  <2> QED BY <1>10, <1>11, <1>12, <1>13, <2>1, Settled
<1>15. RefsOK'
  <2> SUFFICES ASSUME NEW s \in Sources
               PROVE  ref_count[s] >= RefSum(s)' /\ (MayPend = 0
                          => ref_count[s] = RefSum(s)')
    BY DEF RefsOK
  <2>1. /\ Bit(IsUser(g, s)) = 0 /\ Bit(IsUser(old, s)) = 0
        /\ Bit(IsDestroyer(g, s)) = 0 /\ Bit(IsDestroyer(old, s)) = 0
    BY <1>7, <1>13, GMainContextAssumption
       DEF IsUser, IsDestroyer, Bit, GMainContextAssumption
  <2>2. Queued(s)' = 0
    <3>1. {k \in DOMAIN pending_dispatches' : pending_dispatches'[k] = s} = {}
      OBVIOUS
    <3> QED BY <3>1, FS_EmptySet DEF Queued
  <2>3. Bit(s \in attached' /\ Active(s)') = Bit(s \in attached /\ Active(s))
    BY DEF Active
  <2>4. Count(Users(s)) \in Nat /\ Count(Destroyers(s)) \in Nat /\ Queued(s) \in Nat
    BY <1>4, AllCounts, AccountsHold DEF Accounts, Inv, TypeOK
  <2>5. RefSum(s)' = Bit(s \in app_ref') + Bit(s \in attached' /\ Active(s)')
                      + (Count(Destroyers(s))
                          + Bit(IsDestroyer(g, s)) - Bit(IsDestroyer(old, s)))
                      + Queued(s)' + (Count(Users(s))
                          + Bit(IsUser(g, s)) - Bit(IsUser(old, s)))
    BY <1>11, RefSumMove
  <2>6. RefSum(s) = Bit(s \in app_ref)
                    + Bit(s \in attached /\ Active(s)) + Count(Destroyers(s))
                      + Queued(s) + Count(Users(s))
    BY DEF RefSum
  <2>7. /\ Bit(s \in app_ref') = Bit(s \in app_ref) /\ Bit(s \in app_ref) \in Int
        /\ Bit(s \in attached /\ Active(s)) \in Int
    BY DEF Bit
  <2>8. RefSum(s)' = RefSum(s) - Queued(s) /\ RefSum(s) \in Int
    BY <2>1, <2>2, <2>3, <2>4, <2>5, <2>6, <2>7
  <2>9. MayPend = 0 => Queued(s) = 0
    <3>1. Taken(t) = old.i
      <4>1. Len(stack[t]) # 0
        BY <1>1, <1>4, LenFacts
      <4> QED BY <1>1, <1>2, <4>1 DEF Taken, Section
    <3>2. \A k \in DOMAIN pending_dispatches : k <= old.i
      BY <1>2, <1>4 DEF Frame, Inv, TypeOK
    <3>3. MayPend = 0 => \A k \in DOMAIN pending_dispatches : pending_dispatches[k] = None
      BY <1>11, <3>1, <3>2 DEF Inv, EntriesOK, EntryOK
    <3>4. MayPend = 0 => {k \in DOMAIN pending_dispatches :
              pending_dispatches[k] = s} = {}
      BY <3>3, GMainContextAssumption DEF GMainContextAssumption
    <3> QED BY <3>4, FS_EmptySet DEF Queued
  <2>10. /\ ref_count[s] >= RefSum(s) /\ (MayPend = 0 => ref_count[s] = RefSum(s))
         /\ ref_count[s] \in Int
    BY DEF Inv, RefsOK, TypeOK
  <2> QED BY <2>4, <2>8, <2>9, <2>10
<1>16. TypeOK'
  BY <1>11 DEF Inv, TypeOK, Stacks, envvars, pollvars
<1>17. DistinctOK' /\ EntriesOK'
  BY EntriesEmpty
<1> QED BY <1>11, <1>14, <1>15, <1>16, <1>17 DEF Inv

\* The next entry of pending_dispatches, k, is taken: it is source s.
Takes(t, k, s) ==
  /\ stack[t] # <<>> /\ Top(t).pc = "dispatchNext"
  /\ k = Top(t).i + 1 /\ k <= Len(pending_dispatches) /\ s = pending_dispatches[k]
  /\ pending_dispatches' = [pending_dispatches EXCEPT ![k] = None]

\* What taking an entry does to the queue.
LEMMA TakeEntry ==
  ASSUME Inv, NEW t \in Threads, NEW k, NEW s, Takes(t, k, s)
  PROVE  /\ k \in Nat /\ k \in DOMAIN pending_dispatches /\ s \in attached
                /\ s \in Sources
         /\ s # None /\ ~Held(s)
         /\ pending_dispatches' \in Seq(Sources \cup {None})
         /\ DOMAIN pending_dispatches' = DOMAIN pending_dispatches
         /\ pending_dispatches'[k] = None
         /\ \A l \in DOMAIN pending_dispatches :
              l # k => pending_dispatches'[l] = pending_dispatches[l]
         /\ \A x \in Sources : Queued(x)' = Queued(x) - Bit(x = s)
         /\ DistinctOK'
<1> USE DEF Takes
<1>1. Top(t) \in Frame /\ stack \in Stacks /\ Top(t).i \in Nat /\ t = owner
  BY TopParts, IterateOwns DEF Frame, Inv, Iterating
<1>2. pending_dispatches \in Seq(Sources \cup {None})
  BY DEF Inv, TypeOK
<1>3. k \in Nat /\ k \in DOMAIN pending_dispatches
  BY <1>1, <1>2
<1>4. Taken(t) = Top(t).i
  <2>1. Len(stack[t]) # 0
    BY <1>1, LenFacts
  <2> QED BY <2>1 DEF Taken, Section
<1>5. s # None
  BY <1>1, <1>3, <1>4 DEF Inv, EntriesOK, EntryOK
<1>6. s \in attached /\ ~Held(s) /\ s \in Sources
  BY <1>3, <1>5, EntriesSettled DEF Inv, TypeOK
<1>7. /\ pending_dispatches' \in Seq(Sources \cup {None})
      /\ DOMAIN pending_dispatches' = DOMAIN pending_dispatches
      /\ pending_dispatches'[k] = None
      /\ \A l \in DOMAIN pending_dispatches :
           l # k => pending_dispatches'[l] = pending_dispatches[l]
  BY <1>2, <1>3
<1>8. ASSUME NEW x \in Sources PROVE Queued(x)' = Queued(x) - Bit(x = s)
  <2> DEFINE A == {l \in DOMAIN pending_dispatches : pending_dispatches[l] = x}
             B == {l \in DOMAIN pending_dispatches' : pending_dispatches'[l] = x}
  <2>1. x # None
    BY GMainContextAssumption DEF GMainContextAssumption
  <2>2. IsFiniteSet(A)
    <3>1. IsFiniteSet(1 .. Len(pending_dispatches))
      BY <1>2, FS_Interval
    <3>2. A \subseteq 1 .. Len(pending_dispatches)
      BY <1>2
    <3> QED BY <3>1, <3>2, FS_Subset
  <2>3. Cardinality(A) \in Nat
    BY <2>2, FS_CardinalityType
  <2>4. A \ {k} = B \ {k}
    BY <1>7
  <2>5. Bit(k \in B) = 0 /\ Bit(k \in A) = Bit(x = s) /\ Bit(x = s) \in Int
    BY <1>3, <1>7, <2>1 DEF Bit
  <2>6. Cardinality(B) = Cardinality(A) + Bit(k \in B) - Bit(k \in A)
    BY <2>2, <2>4, CountOther
  <2> HIDE DEF A, B
  <2>7. Cardinality(B) = Cardinality(A) - Bit(x = s)
    BY <2>3, <2>5, <2>6
  <2> QED BY <2>7 DEF Queued, A, B
<1>9. DistinctOK'
  BY <1>7 DEF Inv, DistinctOK
<1> QED BY <1>3, <1>5, <1>6, <1>7, <1>8, <1>9

\* The frame has taken one entry more.
LEMMA EntryTaken ==
  ASSUME Inv, NEW t \in Threads, NEW k, NEW s, Takes(t, k, s),
         NEW g, Replaces(t, g), g.pc \in Section, g.i = k, UNCHANGED owner
  PROVE  EntriesOK'
<1>1. /\ Top(t) \in Frame /\ stack \in Stacks /\ Top(t).i \in Nat /\ t = owner
      /\ stack[t] # <<>> /\ Top(t).pc = "dispatchNext"
  BY TopParts, IterateOwns DEF Frame, Inv, Iterating, Takes
<1>2. PICK i \in Nat : i = Top(t).i /\ k = i + 1
  BY <1>1 DEF Takes
<1>3. /\ k \in Nat /\ k \in DOMAIN pending_dispatches
      /\ DOMAIN pending_dispatches' = DOMAIN pending_dispatches
      /\ pending_dispatches'[k] = None
      /\ \A l \in DOMAIN pending_dispatches :
           l # k => pending_dispatches'[l] = pending_dispatches[l]
  BY TakeEntry
<1>4. Taken(t) = i
  <2>1. Len(stack[t]) # 0
    BY <1>1, LenFacts
  <2> QED BY <1>1, <1>2, <2>1 DEF Taken, Section
<1>5. Taken(t)' = k
  <2>1. Len(stack'[t]) # 0 /\ Top(t)' = g
    <3>1. Len(stack[t]) # 0
      BY <1>1, LenFacts
    <3> QED BY <3>1 DEF Replaces
  <2> QED BY <2>1 DEF Taken
<1>6. \A l \in DOMAIN pending_dispatches : EntryOK(l, t)
  BY <1>1 DEF Inv, EntriesOK
<1>7. ASSUME NEW l \in DOMAIN pending_dispatches PROVE EntryOK(l, t)'
  <2>1. l \in Nat
    BY DEF Inv, TypeOK
  <2>2. CASE l = k
    BY <1>3, <1>5, <2>2 DEF EntryOK
  <2>3. CASE l # k
    <3>1. pending_dispatches'[l] = pending_dispatches[l] /\ (l <= k <=> l <= i)
      BY <1>2, <1>3, <2>1, <2>3
    <3> QED BY <1>4, <1>5, <1>6, <3>1 DEF EntryOK
  <2> QED BY <2>2, <2>3
<1>8. t # None
  BY GMainContextAssumption DEF GMainContextAssumption
<1> QED BY <1>1, <1>3, <1>7, <1>8 DEF EntriesOK

\* The threads that are not the owner's are in no check function.
LEMMA NoChecks ==
  ASSUME Inv, NEW t \in Threads, Alone(t), NEW old, NEW g, Move(t, old, g),
         g.pc # "inCheck"
  PROVE  \A u \in Threads : ~At(u, "inCheck")'
<1> SUFFICES ASSUME NEW u \in Threads, stack'[u] # <<>>, Top(u)'.pc = "inCheck"
             PROVE  FALSE
  BY DEF At
<1>1. stack \in Stacks
  BY DEF Inv, TypeOK, Stacks
<1>2. u # t /\ Top(u)' = Top(u) /\ stack[u] # <<>>
  BY <1>1, MoveTops
<1> QED BY <1>2 DEF Alone, Iterates, Iterating

\* A source destroyed since it was queued is only released.
LEMMA DispatchSkips ==
  ASSUME Inv, NEW t \in Threads, NEW old, old = Top(t), NEW k, NEW s, Takes(t, k, s),
         flags' = [flags EXCEPT ![s] = @ \ {"READY"}],
         NEW g, g = [old EXCEPT !.i = k], SetTop(t, g), Unref(s),
         UNCHANGED <<mutex, ownvars, ready_time, revents, attached, place, app_ref, pollvars,
                     is_running, envvars>>
  PROVE  Inv'
<1> USE DEF ownvars
<1>1. /\ stack[t] # <<>> /\ old.pc = "dispatchNext" /\ old \in Frame /\ FrameOK(old)
      /\ stack \in Stacks /\ flags \in [Sources -> SUBSET Flag]
  BY TopParts DEF Inv, TypeOK, Takes
<1>2. /\ k \in Nat /\ s \in attached /\ s \in Sources /\ s # None
      /\ pending_dispatches' \in Seq(Sources \cup {None})
      /\ DOMAIN pending_dispatches' = DOMAIN pending_dispatches
      /\ pending_dispatches'[k] = None
      /\ \A l \in DOMAIN pending_dispatches :
           l # k => pending_dispatches'[l] = pending_dispatches[l]
      /\ \A x \in Sources : Queued(x)' = Queued(x) - Bit(x = s)
      /\ DistinctOK'
  BY TakeEntry
<1>3. old.source = None
  BY <1>1 DEF FrameOK, WithSource
<1>4. /\ g \in Frame /\ g.pc = "dispatchNext" /\ g.source = None /\ g.i = k
      /\ g.loop = old.loop
      /\ g.dispatch = old.dispatch /\ FrameOK(g)
  <2>1. k \in Nat
    BY <1>2
  <2>2. g \in Frame
    BY <1>1, <2>1 DEF Frame
  <2>3. /\ g.pc = old.pc /\ g.source = old.source /\ g.i = k /\ g.loop = old.loop
        /\ g.dispatch = old.dispatch /\ g.n_ready = old.n_ready
        /\ g.max_priority = old.max_priority /\ g.timeout = old.timeout
    BY <1>1 DEF Frame
  <2>4. FrameOK(g)
    BY <1>1, <1>3, <2>3 DEF FrameOK, LoopPC, WithSource, Scanning, Checking
  <2> QED BY <1>1, <1>3, <2>2, <2>3, <2>4
<1>5. Advances(t, g)
  BY <1>1, <1>4 DEF Advances, Iterating
<1>6. g.pc \in Section \cup {"release"} /\ g.pc # "release" /\ g.pc \in Section
  BY <1>4 DEF Section
<1>7. /\ old \in Shape /\ g \in Shape /\ t = owner
      /\ Replaces(t, g) /\ Move(t, old, g) /\ stack' \in Stacks
      /\ StackOK' /\ OwnerOK' /\ SleepOK' /\ ScanOK' /\ QueueOK' /\ RunOK'
      /\ NestedOK' /\ TimeOK' /\ PlaceOK'
  BY <1>4, <1>5, <1>6, SectionParts
<1>8. flags' \in [Sources -> SUBSET Flag] /\ SameFlags
  <2>1. flags' \in [Sources -> SUBSET Flag]
    BY <1>1 DEF Flag
  <2>2. ASSUME NEW x \in Sources
        PROVE  (Active(x)' <=> Active(x)) /\ (Blocked(x)' <=> Blocked(x))
    <3>1. CASE x = s
      BY <1>1, <3>1 DEF Active, Blocked
    <3>2. CASE x # s
      BY <1>1, <3>2 DEF Active, Blocked
    <3> QED BY <3>1, <3>2
  <2> QED BY <2>1, <2>2 DEF SameFlags
<1>9. SourceOK' /\ DestroyOK' /\ CallsOK' /\ PollOK'
  <2>1. {old.pc, g.pc} \cap {"destroying", "needDestroy", "callback"} = {}
    BY <1>1, <1>4
  <2>2. \A l \in DOMAIN pending_dispatches' : pending_dispatches'[l] # None =>
          pending_dispatches'[l] \in attached /\ ~Held(pending_dispatches'[l])
    BY <1>2, EntriesSettled
  <2>3. UNCHANGED <<attached, place, app_ref, poll_records>>
    BY DEF pollvars
  <2> QED BY <1>4, <1>7, <1>8, <2>1, <2>2, <2>3, Settled
<1>10. RefsOK' /\ ref_count' \in [Sources -> Nat]
  <2>1. ASSUME NEW x \in Sources PROVE Only(s, -1)[x] = Gain(old, g, x)
    <3>1. /\ Bit(IsUser(g, x)) = 0 /\ Bit(IsUser(old, x)) = 0
          /\ Bit(IsDestroyer(g, x)) = 0 /\ Bit(IsDestroyer(old, x)) = 0
      BY <1>3, <1>4, GMainContextAssumption
         DEF IsUser, IsDestroyer, Bit, GMainContextAssumption
    <3>2. /\ Bit(x \in app_ref') = Bit(x \in app_ref) /\ Bit(x \in app_ref) \in Int
          /\ Bit(x \in attached' /\ Active(x)') = Bit(x \in attached /\ Active(x))
          /\ Bit(x \in attached /\ Active(x)) \in Int
      BY <1>8 DEF SameFlags, Bit
    <3>3. Queued(x)' = Queued(x) - Bit(x = s) /\ Queued(x) \in Int /\ Bit(x = s) \in Int
      <4>1. Queued(x) \in Nat
        BY <1>1, AccountsHold DEF Accounts, Inv, TypeOK
      <4>2. Bit(x = s) \in Int
        BY DEF Bit
      <4> QED BY <1>2, <4>1, <4>2
    <3>4. Only(s, -1)[x] = (-1) * Bit(x = s)
      BY DEF Only
    <3>5. Queued(x)' - Queued(x) = (-1) * Bit(x = s)
      BY <3>3
    <3> QED BY <3>1, <3>2, <3>3, <3>4, <3>5 DEF Gain
  <2>2. ref_count' = [x \in Sources |-> ref_count[x] + Only(s, -1)[x]]
    BY <1>2, RefsLess
  <2> QED BY <1>2, <1>7, <2>1, <2>2, RefsMove
<1>11. EntriesOK'
  BY <1>4, <1>6, <1>7, EntryTaken
<1>12. TypeOK'
  BY <1>2, <1>7, <1>8, <1>10 DEF Inv, TypeOK, Stacks, pollvars, envvars
<1> QED BY <1>2, <1>7, <1>9, <1>10, <1>11, <1>12 DEF Inv

\* Thread t calls the dispatch function of s, entry k.
EntersCallback(t, k, s) == SetTop(t, [Top(t) EXCEPT !.pc = "callback", !.source =
    s, !.i = k])

\* The frame that enters a callback.
LEMMA CallFrame ==
  ASSUME Inv, NEW t \in Threads, NEW k, NEW s, Takes(t, k, s),
         EntersCallback(t, k, s),
         UNCHANGED <<ownvars, is_running>>
  PROVE  \E g : /\ Advances(t, g) /\ g.pc = "callback" /\ g.source = s /\ g.i = k
                /\ g.dispatch = Top(t).dispatch
<1>1. PICK old : old = Top(t)
  OBVIOUS
<1>2. PICK g : g = [old EXCEPT !.pc = "callback", !.source = s, !.i = k]
  OBVIOUS
<1>3. /\ stack[t] # <<>> /\ old.pc = "dispatchNext" /\ old \in Frame /\ FrameOK(old)
  BY <1>1, TopParts DEF Takes
<1>4. k \in Nat /\ s \in Sources /\ s # None
  BY TakeEntry
<1>5. "callback" \in PC
  BY DEF PC
<1>6. g \in Frame
  BY <1>2, <1>3, <1>4, <1>5 DEF Frame
<1>7. /\ g.pc = "callback" /\ g.source = s /\ g.i = k /\ g.loop = old.loop
      /\ g.dispatch = old.dispatch /\ g.n_ready = old.n_ready
      /\ g.max_priority = old.max_priority /\ g.timeout = old.timeout
  BY <1>2, <1>3 DEF Frame
<1>8. FrameOK(g)
  BY <1>3, <1>4, <1>7 DEF FrameOK, LoopPC, WithSource, Scanning, Checking
<1>9. Advances(t, g)
  BY <1>1, <1>2, <1>3, <1>6, <1>7, <1>8
     DEF Advances, Iterating, ownvars, EntersCallback
<1> QED BY <1>1, <1>7, <1>9

\* The flags of a source whose dispatch function is called.
LEMMA BlockFlags ==
  ASSUME Inv, NEW s \in Sources,
         flags' = [flags EXCEPT ![s] =
                     (@ \ {"READY"}) \cup (IF s \in CanRecurse THEN {} ELSE {"BLOCKED"})]
  PROVE  /\ flags' \in [Sources -> SUBSET Flag]
         /\ \A x \in Sources : Active(x)' <=> Active(x)
         /\ \A x \in Sources : x # s => (Blocked(x)' <=> Blocked(x))
         /\ IF s \in CanRecurse THEN Blocked(s)' <=> Blocked(s) ELSE Blocked(s)'
<1>1. flags \in [Sources -> SUBSET Flag]
  BY DEF Inv, TypeOK
<1>2. flags' \in [Sources -> SUBSET Flag]
  BY <1>1 DEF Flag
<1>3. \A x \in Sources : Active(x)' <=> Active(x)
  <2> SUFFICES ASSUME NEW x \in Sources PROVE Active(x)' <=> Active(x)
    OBVIOUS
  <2>1. CASE x = s
    BY <1>1, <2>1 DEF Active
  <2>2. CASE x # s
    BY <1>1, <2>2 DEF Active
  <2> QED BY <2>1, <2>2
<1>4. \A x \in Sources : x # s => (Blocked(x)' <=> Blocked(x))
  BY <1>1 DEF Blocked
<1>5. IF s \in CanRecurse THEN Blocked(s)' <=> Blocked(s) ELSE Blocked(s)'
  BY <1>1 DEF Blocked
<1> QED BY <1>2, <1>3, <1>4, <1>5

\* A source is blocked, unless it can recurse, and its dispatch function called.
LEMMA DispatchCalls ==
  ASSUME Inv, NEW t \in Threads, NEW k, NEW s, Takes(t, k, s), Active(s),
         flags' = [flags EXCEPT ![s] =
                     (@ \ {"READY"}) \cup (IF s \in CanRecurse THEN {} ELSE {"BLOCKED"})],
         IF s \in CanRecurse THEN UNCHANGED pollvars ELSE RemovePoll(s),
         EntersCallback(t, k, s), mutex' = None,
         UNCHANGED <<ownvars, ref_count, ready_time, revents, attached, place, app_ref,
                     is_running, envvars>>
  PROVE  Inv'
<1>1. PICK old : old = Top(t)
  OBVIOUS
<1>2. PICK g : /\ Advances(t, g) /\ g.pc = "callback" /\ g.source = s /\ g.i = k
               /\ g.dispatch = Top(t).dispatch
  BY CallFrame
<1>3. /\ stack[t] # <<>> /\ old.pc = "dispatchNext" /\ old \in Frame /\ FrameOK(old)
      /\ old.source = None
  BY <1>1, TopParts DEF Takes, FrameOK, WithSource
<1>4. /\ k \in Nat /\ s \in attached /\ s \in Sources /\ s # None /\ ~Held(s)
      /\ pending_dispatches' \in Seq(Sources \cup {None})
      /\ DOMAIN pending_dispatches' = DOMAIN pending_dispatches
      /\ pending_dispatches'[k] = None /\ k \in DOMAIN pending_dispatches
      /\ \A l \in DOMAIN pending_dispatches :
           l # k => pending_dispatches'[l] = pending_dispatches[l]
      /\ \A x \in Sources : Queued(x)' = Queued(x) - Bit(x = s)
      /\ DistinctOK'
  BY TakeEntry
<1>5. /\ old \in Shape /\ g \in Shape /\ t = owner /\ stack \in Stacks /\ Alone(t)
      /\ Replaces(t, g) /\ Move(t, old, g) /\ stack' \in Stacks
      /\ StackOK' /\ OwnerOK' /\ SleepOK' /\ ScanOK' /\ QueueOK' /\ RunOK'
      /\ NestedOK' /\ TimeOK' /\ PlaceOK'
  <2>1. g.pc \in Section \cup {"release"} /\ g.pc # "release" /\ g.dispatch = old.dispatch
    BY <1>1, <1>2 DEF Section
  <2> QED BY <1>1, <1>2, <2>1, SectionParts
<1>6. /\ flags' \in [Sources -> SUBSET Flag]
      /\ \A x \in Sources : Active(x)' <=> Active(x)
      /\ \A x \in Sources : x # s => (Blocked(x)' <=> Blocked(x))
      /\ IF s \in CanRecurse THEN Blocked(s)' <=> Blocked(s) ELSE Blocked(s)'
  BY <1>4, BlockFlags
<1>7. ASSUME NEW x \in Sources
      PROVE  /\ Count(Destroyers(x))' = Count(Destroyers(x))
             /\ Count(Callers(x))' = Count(Callers(x)) + Bit(x = s)
             /\ Count(Destroyers(x)) \in Nat /\ Count(Callers(x)) \in Nat
  <2>1. /\ Bit(IsDestroyer(g, x)) = 0 /\ Bit(IsDestroyer(old, x)) = 0
        /\ Bit(IsCaller(g, x)) = Bit(x = s) /\ Bit(IsCaller(old, x)) = 0
        /\ Bit(x = s) \in Int
    BY <1>2, <1>3 DEF Bit, IsDestroyer, IsCaller
  <2>2. Count(Destroyers(x)) \in Nat /\ Count(Callers(x)) \in Nat
    BY <1>5, AllCounts
  <2>3. /\ Count(Destroyers(x))'
              = Count(Destroyers(x)) + Bit(IsDestroyer(g, x)) - Bit(IsDestroyer(old, x))
        /\ Count(Callers(x))' = Count(Callers(x))
               + Bit(IsCaller(g, x)) - Bit(IsCaller(old, x))
    BY <1>5, CountsMove
  <2> QED BY <2>1, <2>2, <2>3
<1>8. SourceOK'
  <2>1. \A u \in Threads : \A d \in 1 .. Len(stack'[u]) :
           stack'[u][d].source # None => stack'[u][d].source \in attached'
    BY <1>2, <1>4, <1>5, FrameSources DEF Inv
  <2>2. \A x \in Sources \ attached' : ~Blocked(x)'
    BY <1>4, <1>6 DEF Inv, SourceOK
  <2>3. \A l \in DOMAIN pending_dispatches' :
          pending_dispatches'[l] # None => pending_dispatches'[l] \in attached'
    BY <1>4 DEF Inv, SourceOK
  <2> QED BY <2>1, <2>2, <2>3 DEF SourceOK
<1>9. DestroyOK'
  <2>1. \A x \in Sources : Bit(~Active(x))' = Bit(~Active(x))
    BY <1>6 DEF Bit
  <2> QED BY <1>7, <2>1 DEF Inv, DestroyOK
<1>10. RefsOK' /\ ref_count' \in [Sources -> Nat]
  <2>1. PICK c \in Int : c = 0
    OBVIOUS
  <2>2. ASSUME NEW x \in Sources PROVE Only(s, c)[x] = Gain(old, g, x)
    <3>1. /\ Bit(IsUser(g, x)) = Bit(x = s) /\ Bit(IsUser(old, x)) = 0
          /\ Bit(IsDestroyer(g, x)) = 0 /\ Bit(IsDestroyer(old, x)) = 0
      BY <1>2, <1>3, GMainContextAssumption
         DEF IsUser, IsDestroyer, Bit, GMainContextAssumption
    <3>2. /\ Bit(x \in app_ref') = Bit(x \in app_ref) /\ Bit(x \in app_ref) \in Int
          /\ Bit(x \in attached' /\ Active(x)') = Bit(x \in attached /\ Active(x))
          /\ Bit(x \in attached /\ Active(x)) \in Int /\ Bit(x = s) \in Int
      BY <1>6 DEF Bit
    <3>3. Queued(x)' = Queued(x) - Bit(x = s)
      BY <1>4
    <3>4. Queued(x) \in Nat
      BY <1>5, AccountsHold DEF Accounts, Inv, TypeOK
    <3>5. Only(s, c)[x] = 0
      BY <2>1, <3>2 DEF Only
    <3>6. (Queued(x)' - Queued(x)) + (Bit(x = s) - 0) = 0
      BY <3>2, <3>3, <3>4
    <3> QED BY <3>1, <3>2, <3>3, <3>4, <3>5, <3>6 DEF Gain
  <2>3. ref_count' = [ref_count EXCEPT ![s] = @ + c]
    BY <1>4, <2>1 DEF Inv, TypeOK
  <2>4. ref_count' = [x \in Sources |-> ref_count[x] + Only(s, c)[x]]
    BY <1>4, <2>3, RefsOne
  <2> QED BY <1>4, <1>5, <2>2, <2>4, RefsMove
<1>11. CallsOK'
  <2>1. ASSUME NEW x \in Sources \ CanRecurse
        PROVE  /\ Count(Callers(x))' <= 1
               /\ Active(x)' => (Blocked(x)' <=> Count(Callers(x))' = 1)
    <3>1. /\ Count(Callers(x)) <= 1 /\ (Active(x) => (Blocked(x)
                 <=> Count(Callers(x)) = 1))
          /\ Count(Callers(x)) \in Nat
          /\ Count(Callers(x))' = Count(Callers(x)) + Bit(x = s)
      BY <1>7 DEF Inv, CallsOK
    <3>2. CASE x = s
      <4>1. Count(Callers(x)) = 0 /\ Bit(x = s) = 1
        BY <1>4, <3>1, <3>2 DEF Held, Bit
      <4> QED BY <1>6, <3>1, <3>2, <4>1
    <3>3. CASE x # s
      <4>1. Bit(x = s) = 0
        BY <3>3 DEF Bit
      <4> QED BY <1>6, <3>1, <3>3, <4>1
    <3> QED BY <3>2, <3>3
  <2>2. \A l \in DOMAIN pending_dispatches' :
          pending_dispatches'[l] # None => ~Held(pending_dispatches[l])'
    <3> SUFFICES ASSUME NEW l \in DOMAIN pending_dispatches',
                        pending_dispatches'[l] # None
                 PROVE  ~Held(pending_dispatches[l])'
      OBVIOUS
    <3>1. PICK x : x = pending_dispatches'[l]
      OBVIOUS
    <3>2. l # k /\ l \in DOMAIN pending_dispatches /\ x = pending_dispatches[l]
      BY <1>4, <3>1
    <3>3. x \in Sources /\ ~Held(x)
      BY <3>1, <3>2, EntriesSettled DEF Inv, TypeOK
    <3>4. x # s
      BY <1>4, <3>1, <3>2 DEF Inv, DistinctOK, Takes
    <3>5. ~Held(x)'
      BY <1>6, <3>3, <3>4 DEF Held
    <3> QED BY <3>1, <3>5 DEF Held, Active, Blocked
  <2>3. \A u \in Threads : ~At(u, "inCheck")'
    BY <1>2, <1>5, NoChecks
  <2> QED BY <2>1, <2>2, <2>3 DEF CallsOK
<1>12. /\ PollOK' /\ poll_records' \subseteq HasFd /\ poll_changed' \in BOOLEAN
       /\ wakeup' \in BOOLEAN
  <2>1. HasFd \subseteq Sources
    BY GMainContextAssumption DEF GMainContextAssumption
  <2>2. \A x \in Sources : Count(Destroyers(x))' > 0 <=> Count(Destroyers(x)) > 0
    BY <1>7
  <2>3. CASE s \in CanRecurse
    <3>1. \A x \in Sources : Blocked(x)' <=> Blocked(x)
      BY <1>6, <2>3
    <3> QED BY <1>6, <2>1, <2>2, <2>3, <3>1 DEF Inv, TypeOK, PollOK, pollvars
  <2>4. CASE s \notin CanRecurse
    <3>1. poll_records' = poll_records \ {s}
      BY <2>4 DEF RemovePoll, Inv, PollOK
    <3>2. PollOK'
      BY <1>6, <2>1, <2>2, <2>4, <3>1 DEF Inv, PollOK
    <3> QED BY <2>4, <3>1, <3>2 DEF RemovePoll, Inv, TypeOK
  <2> QED BY <2>3, <2>4
<1>13. EntriesOK'
  BY <1>2, <1>5, EntryTaken DEF Section, Advances
<1>14. TypeOK'
  BY <1>4, <1>5, <1>6, <1>10, <1>12 DEF Inv, TypeOK, Stacks, envvars, ownvars
<1> QED BY <1>4, <1>5, <1>8, <1>9, <1>10, <1>11, <1>12, <1>13, <1>14 DEF Inv

\* g_main_dispatch keeps the invariant.
LEMMA DispatchNextKeeps ==
  ASSUME Inv, NEW t \in Threads, g_main_dispatch(t)
  PROVE  Inv'
<1>1. PICK k : k = Top(t).i + 1
  OBVIOUS
<1>2. PICK s : s = pending_dispatches[k]
  OBVIOUS
<1>3. Takes(t, k, s)
  BY <1>1, <1>2 DEF g_main_dispatch, Takes, At
<1>4. UNCHANGED <<ownvars, ready_time, revents, attached, place, app_ref, is_running,
                  envvars>>
  BY DEF g_main_dispatch
<1>5. CASE ~Active(s)
  <2>1. PICK old : old = Top(t)
    OBVIOUS
  <2>2. PICK g : g = [old EXCEPT !.i = k]
    OBVIOUS
  <2>3. /\ flags' = [flags EXCEPT ![s] = @ \ {"READY"}] /\ SetTop(t, g) /\ Unref(s)
        /\ UNCHANGED <<mutex, pollvars>>
    BY <1>1, <1>2, <1>5, <2>1, <2>2 DEF g_main_dispatch, pollvars
  <2> QED BY <1>3, <1>4, <2>1, <2>2, <2>3, DispatchSkips
<1>6. CASE Active(s)
  <2>1. /\ flags' = [flags EXCEPT ![s] =
                       (@ \ {"READY"}) \cup (IF s \in CanRecurse THEN {}
                           ELSE {"BLOCKED"})]
        /\ IF s \in CanRecurse THEN UNCHANGED pollvars ELSE RemovePoll(s)
        /\ EntersCallback(t, k, s)
        /\ mutex' = None /\ UNCHANGED ref_count
    BY <1>1, <1>2, <1>6 DEF g_main_dispatch, pollvars, EntersCallback
  <2> QED BY <1>3, <1>4, <1>6, <2>1, DispatchCalls
<1> QED BY <1>5, <1>6

\* Thread t goes on with the next entry.
LeavesCallback(t) == SetTop(t, [Top(t) EXCEPT !.pc = "dispatchNext", !.source = None])

\* The frame that leaves a callback.
LEMMA ReturnFrame ==
  ASSUME Inv, NEW t \in Threads, stack[t] # <<>>,
         Top(t).pc \in {"callback", "needDestroy"},
         LeavesCallback(t), UNCHANGED <<ownvars, is_running>>
  PROVE  \E g : /\ Advances(t, g) /\ g.pc = "dispatchNext" /\ g.source = None
             /\ g.i = Top(t).i
                /\ g.dispatch = Top(t).dispatch
<1>1. PICK old : old = Top(t)
  OBVIOUS
<1>2. PICK g : g = [old EXCEPT !.pc = "dispatchNext", !.source = None]
  OBVIOUS
<1>3. old \in Frame /\ FrameOK(old)
  BY <1>1, TopParts
<1>4. "dispatchNext" \in PC /\ None \in Sources \cup {None}
  BY DEF PC
<1>5. g \in Frame
  BY <1>2, <1>3, <1>4 DEF Frame
<1>6. /\ g.pc = "dispatchNext" /\ g.source = None /\ g.i = old.i /\ g.loop = old.loop
      /\ g.dispatch = old.dispatch /\ g.n_ready = old.n_ready
      /\ g.max_priority = old.max_priority /\ g.timeout = old.timeout
  BY <1>2, <1>3 DEF Frame
<1>7. FrameOK(g)
  BY <1>1, <1>3, <1>6 DEF FrameOK, LoopPC, WithSource, Scanning, Checking
<1>8. Advances(t, g)
  BY <1>1, <1>2, <1>5, <1>6, <1>7 DEF Advances, Iterating, ownvars, LeavesCallback
<1> QED BY <1>1, <1>6, <1>8

\* The frame of a callback that wants its source destroyed.
LEMMA DestroyFrame ==
  ASSUME Inv, NEW t \in Threads, stack[t] # <<>>, Top(t).pc = "callback",
         Goto(t, "needDestroy"), UNCHANGED <<ownvars, is_running>>
  PROVE  \E g : /\ Advances(t, g) /\ g.pc = "needDestroy" /\ g.source = Top(t).source
                /\ g.i = Top(t).i /\ g.dispatch = Top(t).dispatch
<1>1. PICK old : old = Top(t)
  OBVIOUS
<1>2. PICK g : g = [old EXCEPT !.pc = "needDestroy"]
  OBVIOUS
<1>3. old \in Frame /\ FrameOK(old)
  BY <1>1, TopParts
<1>4. "needDestroy" \in PC
  BY DEF PC
<1>5. g \in Frame
  BY <1>2, <1>3, <1>4 DEF Frame
<1>6. /\ g.pc = "needDestroy" /\ g.source = old.source /\ g.i = old.i
      /\ g.loop = old.loop
      /\ g.dispatch = old.dispatch /\ g.n_ready = old.n_ready
      /\ g.max_priority = old.max_priority /\ g.timeout = old.timeout
  BY <1>2, <1>3 DEF Frame
<1>7. FrameOK(g)
  BY <1>1, <1>3, <1>6 DEF FrameOK, LoopPC, WithSource, Scanning, Checking
<1>8. Advances(t, g)
  BY <1>1, <1>2, <1>5, <1>6, <1>7 DEF Advances, Iterating, ownvars, Goto
<1> QED BY <1>1, <1>6, <1>8

\* The flags and the poll records when the dispatch function of s has returned.
Unblocks(s, destroy) ==
  /\ flags' = [flags EXCEPT ![s] =
                 @ \ ((IF Blocked(s) /\ Active(s) THEN {"BLOCKED"} ELSE {})
                        \cup (IF destroy THEN {"ACTIVE"} ELSE {}))]
  /\ IF Blocked(s) /\ Active(s)
     THEN AddPoll(s) ELSE UNCHANGED <<revents, poll_records, poll_changed, wakeup>>

\* The flags after a source is unblocked.
LEMMA UnblockFlags ==
  ASSUME Inv, NEW s \in Sources, NEW destroy \in BOOLEAN, Unblocks(s, destroy)
  PROVE  /\ flags' \in [Sources -> SUBSET Flag]
         /\ \A x \in Sources :
                x # s => (Active(x)' <=> Active(x)) /\ (Blocked(x)' <=> Blocked(x))
         /\ Active(s)' <=> Active(s) /\ ~destroy
         /\ Blocked(s)' <=> Blocked(s) /\ ~Active(s)
<1>1. flags \in [Sources -> SUBSET Flag]
  BY DEF Inv, TypeOK
<1>2. flags' \in [Sources -> SUBSET Flag]
  BY <1>1 DEF Unblocks
<1>3. \A x \in Sources : x # s => flags'[x] = flags[x]
  BY <1>1 DEF Unblocks
<1>4. flags'[s] = flags[s] \ ((IF Blocked(s) /\ Active(s) THEN {"BLOCKED"} ELSE {})
                                \cup (IF destroy THEN {"ACTIVE"} ELSE {}))
  BY <1>1 DEF Unblocks
<1>5. \A x \in Sources :
          x # s => (Active(x)' <=> Active(x)) /\ (Blocked(x)' <=> Blocked(x))
  BY <1>3 DEF Active, Blocked
<1>6. Active(s)' <=> Active(s) /\ ~destroy
  BY <1>4 DEF Active
<1>7. Blocked(s)' <=> Blocked(s) /\ ~Active(s)
  BY <1>4 DEF Blocked
<1> QED BY <1>2, <1>5, <1>6, <1>7

\* The poll records after a source is unblocked.
LEMMA UnblockPoll ==
  ASSUME Inv, NEW s \in Sources, NEW destroy \in BOOLEAN, Unblocks(s, destroy)
  PROVE  /\ poll_records' = poll_records
                            \cup (IF Blocked(s) /\ Active(s) THEN {s} \cap HasFd ELSE {})
         /\ poll_changed' \in BOOLEAN /\ wakeup' \in BOOLEAN
         /\ revents' \subseteq HasFd
<1>1. poll_changed \in BOOLEAN /\ wakeup \in BOOLEAN /\ revents \subseteq HasFd
  BY DEF Inv, TypeOK
<1>2. CASE Blocked(s) /\ Active(s) /\ s \in HasFd
  BY <1>1, <1>2 DEF Unblocks, AddPoll
<1>3. CASE Blocked(s) /\ Active(s) /\ s \notin HasFd
  BY <1>1, <1>3 DEF Unblocks, AddPoll
<1>4. CASE ~(Blocked(s) /\ Active(s))
  BY <1>1, <1>4 DEF Unblocks
<1> QED BY <1>2, <1>3, <1>4

\* What the return of a dispatch function does to the calls and the records.
LEMMA ReturnCalm ==
  ASSUME Inv, NEW t \in Threads, stack[t] # <<>>, NEW old \in Shape, old = Top(t),
         old.pc = "callback", NEW s \in Sources, s = old.source, s \in attached,
         NEW destroy \in BOOLEAN, destroy => Active(s), Unblocks(s, destroy),
         NEW g \in Shape, Move(t, old, g), UNCHANGED <<attached, pending_dispatches>>,
         g.pc = (IF destroy THEN "needDestroy" ELSE "dispatchNext"),
         g.source = (IF destroy THEN s ELSE None)
  PROVE  SourceOK' /\ DestroyOK' /\ CallsOK' /\ PollOK'
<1>1. stack \in Stacks /\ None # s
  BY GMainContextAssumption DEF Inv, TypeOK, Stacks, GMainContextAssumption
<1>2. /\ \A x \in Sources :
             x # s => (Active(x)' <=> Active(x)) /\ (Blocked(x)' <=> Blocked(x))
      /\ Active(s)' <=> Active(s) /\ ~destroy
      /\ Blocked(s)' <=> Blocked(s) /\ ~Active(s)
  BY UnblockFlags
<1>3. ASSUME NEW x \in Sources
      PROVE  /\ Count(Destroyers(x))' = Count(Destroyers(x)) + Bit(x = s /\ destroy)
             /\ Count(Callers(x))' = Count(Callers(x)) - Bit(x = s)
             /\ Count(Destroyers(x)) \in Nat /\ Count(Callers(x)) \in Nat
  <2>1. /\ Bit(IsDestroyer(g, x)) = Bit(x = s /\ destroy)
        /\ Bit(IsDestroyer(old, x)) = 0
        /\ Bit(IsCaller(g, x)) = 0 /\ Bit(IsCaller(old, x)) = Bit(x = s)
        /\ Bit(x = s) \in Int /\ Bit(x = s /\ destroy) \in Int
    <3>1. CASE destroy
      BY <3>1 DEF Bit, IsDestroyer, IsCaller
    <3>2. CASE ~destroy
      BY <3>2 DEF Bit, IsDestroyer, IsCaller
    <3> QED BY <3>1, <3>2
  <2>2. Count(Destroyers(x)) \in Nat /\ Count(Callers(x)) \in Nat
    BY <1>1, AllCounts
  <2>3. CountsMoved(old, g)
    BY CountsMoves
  <2>4. /\ Count(Destroyers(x))'
              = Count(Destroyers(x)) + Bit(IsDestroyer(g, x)) - Bit(IsDestroyer(old, x))
        /\ Count(Callers(x))'
              = Count(Callers(x)) + Bit(IsCaller(g, x)) - Bit(IsCaller(old, x))
    BY <2>3 DEF CountsMoved
  <2> QED BY <2>1, <2>2, <2>4
<1>4. \A x \in Sources : Held(x)' => Held(x)
  BY <1>2 DEF Held
<1>5. SourceOK'
  <2>1. \A u \in Threads : \A d \in 1 .. Len(stack'[u]) :
           stack'[u][d].source # None => stack'[u][d].source \in attached'
    BY <1>1, FrameSources DEF Inv
  <2>2. \A x \in Sources \ attached' : ~Blocked(x)'
    BY <1>2 DEF Inv, SourceOK
  <2> QED BY <2>1, <2>2 DEF Inv, SourceOK
<1>6. DestroyOK'
  <2> SUFFICES ASSUME NEW x \in Sources
               PROVE  Count(Destroyers(x))' <= Bit(~Active(x)')
    BY DEF DestroyOK, Bit
  <2>1. Count(Destroyers(x)) <= Bit(~Active(x)) /\ Count(Destroyers(x)) \in Nat
    BY <1>3 DEF Inv, DestroyOK
  <2>2. Count(Destroyers(x))' = Count(Destroyers(x)) + Bit(x = s /\ destroy)
    BY <1>3
  <2>3. CASE x = s /\ destroy
    <3>1. Bit(x = s /\ destroy) = 1 /\ Bit(~Active(x)) = 0 /\ Bit(~Active(x)') = 1
      BY <1>2, <2>3 DEF Bit
    <3> QED BY <2>1, <2>2, <3>1
  <2>4. CASE ~(x = s /\ destroy)
    <3>1. Bit(x = s /\ destroy) = 0 /\ Bit(~Active(x)') = Bit(~Active(x))
              /\ Bit(~Active(x)) \in Int
      BY <1>2, <2>4 DEF Bit
    <3> QED BY <2>1, <2>2, <3>1
  <2> QED BY <2>3, <2>4
<1>7. CallsOK'
  <2>1. ASSUME NEW x \in Sources \ CanRecurse
        PROVE  /\ Count(Callers(x))' <= 1
               /\ Active(x)' => (Blocked(x)' <=> Count(Callers(x))' = 1)
    <3>1. /\ Count(Callers(x)) <= 1 /\ (Active(x) => (Blocked(x)
                 <=> Count(Callers(x)) = 1))
          /\ Count(Callers(x)) \in Nat
          /\ Count(Callers(x))' = Count(Callers(x)) - Bit(x = s)
      BY <1>3 DEF Inv, CallsOK
    <3>2. CASE x = s
      <4>1. Bit(x = s) = 1 /\ (Active(x)' => ~Blocked(x)')
        BY <1>2, <3>2 DEF Bit
      <4>2. Count(Callers(x))' # 1 /\ Count(Callers(x))' <= 1
        BY <3>1, <4>1
      <4> QED BY <4>1, <4>2
    <3>3. CASE x # s
      <4>1. Bit(x = s) = 0
        BY <3>3 DEF Bit
      <4> QED BY <1>2, <3>1, <3>3, <4>1
    <3> QED BY <3>2, <3>3
  <2>2. \A l \in DOMAIN pending_dispatches' :
          pending_dispatches'[l] # None => ~Held(pending_dispatches[l])'
    <3> SUFFICES ASSUME NEW l \in DOMAIN pending_dispatches,
                        pending_dispatches[l] # None
                 PROVE  ~Held(pending_dispatches[l])'
      OBVIOUS
    <3>1. PICK x : x = pending_dispatches[l]
      OBVIOUS
    <3>2. x \in Sources /\ ~Held(x)
      BY <3>1, EntriesSettled DEF Inv, TypeOK
    <3>3. ~Held(x)'
      BY <1>4, <3>2
    <3> QED BY <3>1, <3>3 DEF Held, Active, Blocked
  <2>3. \A u \in Threads : At(u, "inCheck")' => ~Held(Top(u).source)'
    <3>1. g.pc # "inCheck"
      OBVIOUS
    <3> QED BY <1>1, <1>4, <3>1, ChecksKeep, CheckSources DEF Inv, WithSource
  <2> QED BY <2>1, <2>2, <2>3 DEF CallsOK
<1>8. PollOK'
  <2>1. HasFd \subseteq Sources
    BY GMainContextAssumption DEF GMainContextAssumption
  <2>2. poll_records' = poll_records
                        \cup (IF Blocked(s) /\ Active(s) THEN {s} \cap HasFd ELSE {})
    BY UnblockPoll
  <2>3. \A x \in Sources :
            x # s => (Count(Destroyers(x))' > 0 <=> Count(Destroyers(x)) > 0)
    BY <1>3 DEF Bit
  <2>4. IF destroy THEN Count(Destroyers(s))' > 0
        ELSE Count(Destroyers(s))' > 0 <=> Count(Destroyers(s)) > 0
    BY <1>3 DEF Bit
  <2>5. \A x \in attached \cap HasFd :
          x \in poll_records'
              <=> ~Blocked(x)' /\ (Active(x)' \/ Count(Destroyers(x))' > 0)
    <3> SUFFICES ASSUME NEW x \in attached \cap HasFd
                 PROVE  x \in poll_records' <=> ~Blocked(x)'
                            /\ (Active(x)' \/ Count(Destroyers(x))' > 0)
      OBVIOUS
    <3>1. x \in poll_records <=> ~Blocked(x) /\ (Active(x) \/ Count(Destroyers(x)) > 0)
      BY DEF Inv, PollOK
    <3>2. CASE x = s
      BY <1>2, <2>2, <2>4, <3>1, <3>2
    <3>3. CASE x # s
      BY <1>2, <2>1, <2>2, <2>3, <3>1, <3>3
    <3> QED BY <3>2, <3>3
  <2>6. poll_records' \subseteq attached \cap HasFd
    BY <2>2 DEF Inv, PollOK
  <2> QED BY <2>5, <2>6 DEF PollOK
<1> QED BY <1>5, <1>6, <1>7, <1>8

\* What is left of the invariant when a frame of a dispatch goes on to another
\* one without taking an entry.
LEMMA SectionKeeps ==
  ASSUME Inv, NEW t \in Threads, NEW g, Advances(t, g), NEW old, old = Top(t),
         old.pc \in Section, g.pc \in Section, g.i = old.i, g.dispatch = old.dispatch,
         UNCHANGED <<ready_time, attached, place, envvars, pending_dispatches,
                     app_ref, waiters>>,
         SourceOK' /\ DestroyOK' /\ CallsOK' /\ PollOK',
         RefsOK' /\ ref_count' \in [Sources -> Nat],
         flags' \in [Sources -> SUBSET Flag], mutex' \in Threads \cup {None},
         poll_changed' \in BOOLEAN, wakeup' \in BOOLEAN, revents' \subseteq HasFd
  PROVE  Inv'
<1>1. /\ stack \in Stacks /\ t = owner
      /\ Replaces(t, g) /\ Move(t, old, g) /\ stack' \in Stacks
      /\ StackOK' /\ OwnerOK' /\ SleepOK' /\ ScanOK' /\ QueueOK' /\ RunOK'
      /\ NestedOK' /\ TimeOK' /\ PlaceOK'
  <2>1. g.pc # "release" /\ UNCHANGED <<ready_time, attached, place, envvars>>
    BY DEF Section
  <2> QED BY <2>1, SectionParts
<1>2. stack[t] # <<>> /\ UNCHANGED <<owner, owner_count, asleep, is_running>>
  BY DEF Advances
<1>3. poll_records' \subseteq HasFd
  BY DEF PollOK
<1>4. TypeOK'
  BY <1>1, <1>2, <1>3 DEF Inv, TypeOK, Stacks, envvars
<1>5. DistinctOK'
  BY DEF Inv, DistinctOK
<1>6. ASSUME NEW u \in Threads PROVE Taken(u)' = Taken(u)
  <2>1. CASE u = t
    BY <1>1, <1>2, <2>1, TakenReplace
  <2>2. CASE u # t
    BY <1>1, <2>2, TakenOther DEF Replaces
  <2> QED BY <2>1, <2>2
<1>7. EntriesOK'
  BY <1>2, <1>6, EntriesKeep DEF Inv
<1> QED BY <1>1, <1>4, <1>5, <1>7 DEF Inv

\* CallbackReturns keeps the invariant.
LEMMA CallbackReturnsKeeps ==
  ASSUME Inv, NEW t \in Threads, NEW need_destroy \in BOOLEAN,
         CallbackReturns(t, need_destroy)
  PROVE  Inv'
<1>1. stack[t] # <<>> /\ Top(t).pc = "callback"
  BY DEF At, CallbackReturns
<1>2. PICK old : old = Top(t)
  OBVIOUS
<1>3. PICK s : s = old.source
  OBVIOUS
<1>4. PICK destroy \in BOOLEAN : destroy <=> need_destroy /\ Active(s)
  OBVIOUS
<1>5. Unblocks(s, destroy)
  BY <1>2, <1>3, <1>4 DEF CallbackReturns, Unblocks
<1>6. /\ UNCHANGED <<ready_time, attached, place, envvars, pending_dispatches,
                     app_ref, waiters>>
      /\ UNCHANGED <<ownvars, is_running>>
  BY DEF CallbackReturns, ownvars
<1>7. s \in Sources /\ s \in attached /\ s # None
  <2>1. s \in Sources
    BY <1>1, <1>2, <1>3, CheckSources DEF Inv, WithSource
  <2> QED
    BY <1>1, <1>2, <1>3, <2>1, IterSource, GMainContextAssumption
       DEF GMainContextAssumption
<1>8. PICK g : /\ Advances(t, g)
               /\ g.pc = (IF destroy THEN "needDestroy" ELSE "dispatchNext")
               /\ g.source = (IF destroy THEN s ELSE None)
               /\ g.i = old.i /\ g.dispatch = old.dispatch
  <2>1. CASE destroy
    <3>1. Goto(t, "needDestroy")
      BY <1>2, <1>3, <1>4, <2>1 DEF CallbackReturns
    <3>2. PICK g : /\ Advances(t, g) /\ g.pc = "needDestroy" /\ g.source = Top(t).source
                   /\ g.i = Top(t).i /\ g.dispatch = Top(t).dispatch
      BY <1>1, <1>6, <3>1, DestroyFrame
    <3> QED BY <1>2, <1>3, <2>1, <3>2
  <2>2. CASE ~destroy
    <3>1. LeavesCallback(t)
      BY <1>2, <1>3, <1>4, <2>2 DEF CallbackReturns, LeavesCallback
    <3>2. PICK g : /\ Advances(t, g) /\ g.pc = "dispatchNext" /\ g.source = None
                   /\ g.i = Top(t).i
                   /\ g.dispatch = Top(t).dispatch
      BY <1>1, <1>6, <3>1, ReturnFrame
    <3> QED BY <1>2, <2>2, <3>2
  <2> QED BY <2>1, <2>2
<1>9. old.pc \in Section /\ g.pc \in Section /\ g.pc # "release"
  BY <1>1, <1>2, <1>8 DEF Section
<1>10. old \in Shape /\ g \in Shape /\ stack \in Stacks /\ Move(t, old, g)
  BY <1>2, <1>6, <1>8, <1>9, SectionParts
<1>11. SourceOK' /\ DestroyOK' /\ CallsOK' /\ PollOK'
  BY <1>1, <1>2, <1>3, <1>4, <1>5, <1>6, <1>7, <1>8, <1>10, ReturnCalm
<1>12. /\ flags' \in [Sources -> SUBSET Flag]
       /\ \A x \in Sources :
              x # s => (Active(x)' <=> Active(x)) /\ (Blocked(x)' <=> Blocked(x))
       /\ Active(s)' <=> Active(s) /\ ~destroy
  BY <1>5, <1>7, UnblockFlags
<1>13. poll_changed' \in BOOLEAN /\ wakeup' \in BOOLEAN /\ revents' \subseteq HasFd
  BY <1>5, <1>7, UnblockPoll
<1>14. pending_dispatches' \in Seq(Sources \cup {None})
  BY <1>6 DEF Inv, TypeOK
<1>15. ASSUME NEW x \in Sources
       PROVE  /\ Gain(old, g, x) = (IF x = s /\ ~destroy THEN -1 ELSE 0)
  <2>1. /\ Bit(x \in app_ref') = Bit(x \in app_ref) /\ Bit(x \in app_ref) \in Int
        /\ Bit(IsDestroyer(old, x)) = 0 /\ Bit(IsUser(old, x)) = Bit(x = s)
    BY <1>1, <1>2, <1>3, <1>6 DEF Bit, IsDestroyer, IsUser
  <2>2. Queued(x)' = Queued(x) /\ Queued(x) \in Nat
    BY <1>6, <1>10, AccountsHold DEF Queued, Accounts, Inv, TypeOK
  <2>3. CASE x = s /\ destroy
    <3>1. /\ Bit(IsDestroyer(g, x)) = 1 /\ Bit(IsUser(g, x)) = 1 /\ Bit(x = s) = 1
          /\ Bit(x \in attached' /\ Active(x)') = 0
          /\ Bit(x \in attached /\ Active(x)) = 1
      BY <1>4, <1>7, <1>8, <1>12, <2>3 DEF Bit, IsDestroyer, IsUser
    <3> QED BY <2>1, <2>2, <2>3, <3>1 DEF Gain
  <2>4. CASE x = s /\ ~destroy
    <3>1. /\ Bit(IsDestroyer(g, x)) = 0 /\ Bit(IsUser(g, x)) = 0 /\ Bit(x = s) = 1
          /\ Bit(x \in attached' /\ Active(x)') = Bit(x \in attached /\ Active(x))
          /\ Bit(x \in attached /\ Active(x)) \in Int
      BY <1>6, <1>7, <1>8, <1>12, <2>4 DEF Bit, IsDestroyer, IsUser
    <3> QED BY <2>1, <2>2, <2>4, <3>1 DEF Gain
  <2>5. CASE x # s
    <3>1. /\ Bit(IsDestroyer(g, x)) = 0 /\ Bit(IsUser(g, x)) = 0 /\ Bit(x = s) = 0
          /\ Bit(x \in attached' /\ Active(x)') = Bit(x \in attached /\ Active(x))
          /\ Bit(x \in attached /\ Active(x)) \in Int
      <4>1. g.source # x
        BY <1>8, <2>5, GMainContextAssumption DEF GMainContextAssumption
      <4> QED BY <1>6, <1>12, <2>5, <4>1 DEF Bit, IsDestroyer, IsUser
    <3> QED BY <2>1, <2>2, <2>5, <3>1 DEF Gain
  <2> QED BY <2>3, <2>4, <2>5
<1>16. RefsOK' /\ ref_count' \in [Sources -> Nat] /\ mutex' \in Threads \cup {None}
  <2>1. CASE destroy
    <3>1. UNCHANGED <<mutex, ref_count>>
      BY <1>2, <1>3, <1>4, <2>1 DEF CallbackReturns
    <3>2. PICK c \in Int : c = 0
      OBVIOUS
    <3>3. \A x \in Sources : Only(s, c)[x] = Gain(old, g, x)
      BY <1>15, <2>1, <3>2 DEF Only, Bit
    <3>4. ref_count' = [ref_count EXCEPT ![s] = @ + c]
      BY <1>7, <3>1, <3>2 DEF Inv, TypeOK
    <3>5. ref_count' = [x \in Sources |-> ref_count[x] + Only(s, c)[x]]
      BY <1>7, <3>4, RefsOne
    <3>6. RefsOK' /\ ref_count' \in [Sources -> Nat]
      BY <1>10, <1>14, <3>3, <3>5, RefsMove
    <3> QED BY <3>1, <3>6 DEF Inv, TypeOK
  <2>2. CASE ~destroy
    <3>1. Unref(s) /\ mutex' = t
      BY <1>2, <1>3, <1>4, <2>2 DEF CallbackReturns
    <3>2. \A x \in Sources : Only(s, -1)[x] = Gain(old, g, x)
      BY <1>15, <2>2 DEF Only, Bit
    <3>3. ref_count' = [x \in Sources |-> ref_count[x] + Only(s, -1)[x]]
      BY <1>7, <3>1, RefsLess
    <3>4. RefsOK' /\ ref_count' \in [Sources -> Nat]
      BY <1>10, <1>14, <3>2, <3>3, RefsMove
    <3> QED BY <3>1, <3>4
  <2> QED BY <2>1, <2>2
<1> QED BY <1>2, <1>6, <1>8, <1>9, <1>11, <1>12, <1>13, <1>16, SectionKeeps

\* The source has lost its descriptors, unless a dispatch had blocked them.
Unpolls(s) ==
  IF Blocked(s) THEN UNCHANGED <<poll_records, poll_changed,
                                 wakeup>> ELSE RemovePoll(s)

\* The poll records after a source is removed from them.
LEMMA UnpollRecords ==
  ASSUME Inv, NEW s \in Sources, Unpolls(s)
  PROVE  /\ poll_records' = (IF Blocked(s) THEN poll_records ELSE poll_records \ {s})
         /\ poll_changed' \in BOOLEAN /\ wakeup' \in BOOLEAN /\ (wakeup => wakeup')
<1>1. poll_changed \in BOOLEAN /\ wakeup \in BOOLEAN /\ poll_records \subseteq HasFd
  BY DEF Inv, TypeOK
<1>2. CASE Blocked(s)
  BY <1>1, <1>2 DEF Unpolls
<1>3. CASE ~Blocked(s) /\ s \in HasFd
  BY <1>1, <1>3 DEF Unpolls, RemovePoll
<1>4. CASE ~Blocked(s) /\ s \notin HasFd
  BY <1>1, <1>4 DEF Unpolls, RemovePoll
<1> QED BY <1>2, <1>3, <1>4

\* The second half of xsource_destroy_internal.
LEMMA DestroyCalm ==
  ASSUME Inv, NEW t \in Threads, stack[t] # <<>>, NEW old \in Shape, old = Top(t),
         old.pc \in {"needDestroy", "destroying"}, NEW s \in Sources, s =
             old.source, Unpolls(s),
         NEW g \in Shape, Move(t, old, g), g.source = None, g.pc # "inCheck",
         UNCHANGED <<flags, attached, pending_dispatches>>
  PROVE  SourceOK' /\ DestroyOK' /\ CallsOK' /\ PollOK'
<1>1. stack \in Stacks
  BY DEF Inv, TypeOK, Stacks
<1>2. \A x : (Active(x)' <=> Active(x)) /\ (Blocked(x)' <=> Blocked(x)) /\ (Held(x)'
          <=> Held(x))
  BY DEF Active, Blocked, Held
<1>3. ASSUME NEW x \in Sources
      PROVE  /\ Count(Destroyers(x))' = Count(Destroyers(x)) - Bit(x = s)
             /\ Count(Callers(x))' = Count(Callers(x))
             /\ Count(Destroyers(x)) \in Nat /\ Count(Callers(x)) \in Nat
  <2>1. /\ Bit(IsDestroyer(g, x)) = 0 /\ Bit(IsDestroyer(old, x)) = Bit(x = s)
        /\ Bit(IsCaller(g, x)) = 0 /\ Bit(IsCaller(old, x)) = 0 /\ Bit(x = s) \in Int
    BY GMainContextAssumption DEF Bit, IsDestroyer, IsCaller, GMainContextAssumption
  <2>2. Count(Destroyers(x)) \in Nat /\ Count(Callers(x)) \in Nat
    BY <1>1, AllCounts
  <2>3. CountsMoved(old, g)
    BY CountsMoves
  <2>4. /\ Count(Destroyers(x))'
              = Count(Destroyers(x)) + Bit(IsDestroyer(g, x)) - Bit(IsDestroyer(old, x))
        /\ Count(Callers(x))'
              = Count(Callers(x)) + Bit(IsCaller(g, x)) - Bit(IsCaller(old, x))
    BY <2>3 DEF CountsMoved
  <2> QED BY <2>1, <2>2, <2>4
<1>4. Count(Destroyers(s)) = 1 /\ ~Active(s) /\ Count(Destroyers(s))' = 0
  <2>1. Len(stack[t]) \in 1 .. Len(stack[t]) /\ Top(t) = stack[t][Len(stack[t])]
            /\ Top(t) \in Frame
    BY <1>1, TopFrame
  <2>2. Top(t) \in Destroyers(s)
    BY <2>1 DEF Destroyers
  <2>3. Count(Destroyers(s)) >= 1
    BY <1>1, <2>1, <2>2, CountPositive
  <2>4. Count(Destroyers(s)) <= Bit(~Active(s)) /\ Count(Destroyers(s)) \in Nat
    BY <1>3 DEF Inv, DestroyOK
  <2>5. ~Active(s) /\ Count(Destroyers(s)) = 1
    BY <2>3, <2>4 DEF Bit
  <2>6. Count(Destroyers(s))' = Count(Destroyers(s)) - 1
    BY <1>3 DEF Bit
  <2> QED BY <2>5, <2>6
<1>5. SourceOK'
  <2>1. \A u \in Threads : \A d \in 1 .. Len(stack'[u]) :
           stack'[u][d].source # None => stack'[u][d].source \in attached'
    BY <1>1, FrameSources DEF Inv
  <2> QED BY <1>2, <2>1 DEF Inv, SourceOK
<1>6. DestroyOK'
  <2> SUFFICES ASSUME NEW x \in Sources
               PROVE  Count(Destroyers(x))' <= Bit(~Active(x)')
    BY DEF DestroyOK, Bit
  <2>1. Count(Destroyers(x)) <= Bit(~Active(x)) /\ Count(Destroyers(x)) \in Nat
    BY <1>3 DEF Inv, DestroyOK
  <2>2. Bit(~Active(x)') = Bit(~Active(x)) /\ Bit(~Active(x)) \in Int
            /\ Bit(x = s) \in Nat
    BY <1>2 DEF Bit
  <2> QED BY <1>3, <2>1, <2>2
<1>7. CallsOK'
  <2>1. \A x \in Sources \ CanRecurse :
          /\ Count(Callers(x))' <= 1
          /\ Active(x)' => (Blocked(x)' <=> Count(Callers(x))' = 1)
    BY <1>2, <1>3 DEF Inv, CallsOK
  <2>2. \A l \in DOMAIN pending_dispatches' :
          pending_dispatches'[l] # None => ~Held(pending_dispatches[l])'
    BY <1>2 DEF Inv, CallsOK, Held, Active, Blocked
  <2>3. \A u \in Threads : At(u, "inCheck")' => ~Held(Top(u).source)'
    BY <1>1, <1>2, ChecksKeep, CheckSources DEF Inv, WithSource
  <2> QED BY <2>1, <2>2, <2>3 DEF CallsOK
<1>8. PollOK'
  <2>1. HasFd \subseteq Sources
    BY GMainContextAssumption DEF GMainContextAssumption
  <2>2. poll_records' = (IF Blocked(s) THEN poll_records ELSE poll_records \ {s})
    BY UnpollRecords
  <2>3. \A x \in Sources :
            x # s => (Count(Destroyers(x))' > 0 <=> Count(Destroyers(x)) > 0)
    BY <1>3 DEF Bit
  <2>4. ~(Count(Destroyers(s))' > 0)
    BY <1>4
  <2>5. \A x \in attached \cap HasFd :
          x \in poll_records'
              <=> ~Blocked(x)' /\ (Active(x)' \/ Count(Destroyers(x))' > 0)
    <3> SUFFICES ASSUME NEW x \in attached \cap HasFd
                 PROVE  x \in poll_records' <=> ~Blocked(x)'
                            /\ (Active(x)' \/ Count(Destroyers(x))' > 0)
      OBVIOUS
    <3>1. x \in poll_records <=> ~Blocked(x) /\ (Active(x) \/ Count(Destroyers(x)) > 0)
      BY DEF Inv, PollOK
    <3>2. CASE x = s
      BY <1>2, <1>4, <2>2, <2>4, <3>1, <3>2
    <3>3. CASE x # s
      BY <1>2, <2>1, <2>2, <2>3, <3>1, <3>3
    <3> QED BY <3>2, <3>3
  <2>6. poll_records' \subseteq attached \cap HasFd
    BY <2>2 DEF Inv, PollOK
  <2> QED BY <2>5, <2>6 DEF PollOK
<1> QED BY <1>5, <1>6, <1>7, <1>8

\* NeedDestroyEnds keeps the invariant.
LEMMA NeedDestroyEndsKeeps ==
  ASSUME Inv, NEW t \in Threads, NeedDestroyEnds(t)
  PROVE  Inv'
<1>1. stack[t] # <<>> /\ Top(t).pc = "needDestroy"
  BY DEF At, NeedDestroyEnds
<1>2. PICK old : old = Top(t)
  OBVIOUS
<1>3. PICK s : s = old.source
  OBVIOUS
<1>4. /\ UNCHANGED <<ready_time, attached, place, envvars, pending_dispatches,
                     app_ref, waiters>>
      /\ UNCHANGED <<ownvars,
                     is_running>> /\ UNCHANGED <<flags, attached, pending_dispatches>>
      /\ mutex' = t /\ UNCHANGED revents
  BY DEF NeedDestroyEnds, ownvars
<1>5. Unpolls(s) /\ LeavesCallback(t)
  BY <1>2, <1>3 DEF NeedDestroyEnds, Unpolls, LeavesCallback
<1>6. s \in Sources /\ s # None
  BY <1>1, <1>2, <1>3, CheckSources, GMainContextAssumption
     DEF Inv, WithSource, GMainContextAssumption
<1>7. PICK g : /\ Advances(t, g) /\ g.pc = "dispatchNext" /\ g.source = None
               /\ g.i = Top(t).i
               /\ g.dispatch = Top(t).dispatch
  BY <1>1, <1>4, <1>5, ReturnFrame
<1>8. old.pc \in Section /\ g.pc \in Section /\ g.i = old.i /\ g.dispatch = old.dispatch
  BY <1>1, <1>2, <1>7 DEF Section
<1>9. old \in Shape /\ g \in Shape /\ stack \in Stacks /\ Move(t, old, g)
  <2>1. g.pc \in Section \cup {"release"} /\ g.pc # "release"
    BY <1>7, <1>8
  <2> QED BY <1>2, <1>4, <1>7, <1>8, <2>1, SectionParts
<1>10. SourceOK' /\ DestroyOK' /\ CallsOK' /\ PollOK'
  BY <1>1, <1>2, <1>3, <1>4, <1>5, <1>6, <1>7, <1>9, DestroyCalm
<1>11. poll_changed' \in BOOLEAN /\ wakeup' \in BOOLEAN
  BY <1>5, <1>6, UnpollRecords
<1>12. RefsOK' /\ ref_count' \in [Sources -> Nat]
  <2>1. PICK c \in Int : c = -2
    OBVIOUS
  <2>2. ASSUME NEW x \in Sources PROVE Only(s, c)[x] = Gain(old, g, x)
    <3>1. /\ Bit(IsUser(g, x)) = 0 /\ Bit(IsUser(old, x)) = Bit(x = s)
          /\ Bit(IsDestroyer(g, x)) = 0 /\ Bit(IsDestroyer(old, x)) = Bit(x = s)
      BY <1>1, <1>2, <1>3, <1>7, GMainContextAssumption
         DEF IsUser, IsDestroyer, Bit, GMainContextAssumption
    <3>2. /\ Bit(x \in app_ref') = Bit(x \in app_ref) /\ Bit(x \in app_ref) \in Int
          /\ Bit(x \in attached' /\ Active(x)') = Bit(x \in attached /\ Active(x))
          /\ Bit(x \in attached /\ Active(x)) \in Int /\ Bit(x = s) \in Int
      BY <1>4 DEF Bit, Active
    <3>3. Queued(x)' = Queued(x) /\ Queued(x) \in Nat
      BY <1>4, <1>9, AccountsHold DEF Queued, Accounts, Inv, TypeOK
    <3>4. Only(s, c)[x] = (-2) * Bit(x = s)
      BY <2>1 DEF Only
    <3> QED BY <3>1, <3>2, <3>3, <3>4 DEF Gain
  <2>3. ref_count[s] - 2 = ref_count[s] + c
    BY <1>6, <2>1 DEF Inv, TypeOK
  <2>4. ref_count' = [ref_count EXCEPT ![s] = @ + c]
    BY <1>2, <1>3, <2>3 DEF NeedDestroyEnds
  <2>5. ref_count' = [x \in Sources |-> ref_count[x] + Only(s, c)[x]]
    BY <1>6, <2>4, RefsOne
  <2>6. pending_dispatches' \in Seq(Sources \cup {None})
    BY <1>4 DEF Inv, TypeOK
  <2> QED BY <1>9, <2>2, <2>5, <2>6, RefsMove
<1>13. /\ flags' \in [Sources -> SUBSET Flag] /\ mutex' \in Threads \cup {None}
       /\ revents' \subseteq HasFd
  BY <1>4 DEF Inv, TypeOK
<1> QED BY <1>2, <1>4, <1>7, <1>8, <1>10, <1>11, <1>12, <1>13, SectionKeeps

\* A step on a source from outside of the iterations.
LEMMA SourceParts ==
  ASSUME Inv, NEW t \in Threads, NEW old \in Shape, NEW new \in Shape,
         Move(t, old, new),
         FrameOK(new), Weight(old) = 0, Weight(new) =
             0, new.pc \notin Scanning \cup Checking,
         RunFrameOK(new)', t \notin asleep, wakeup => wakeup',
         \A s \in attached : Visible(s)' => Visible(s) /\ (Ready(s)' <=> Ready(s)),
         UNCHANGED <<ownvars, ready_time, attached, place, pending_dispatches,
                     is_running, envvars>>
  PROVE  /\ StackOK' /\ OwnerOK' /\ SleepOK' /\ ScanOK' /\ QueueOK' /\ RunOK'
         /\ TimeOK' /\ PlaceOK' /\ DistinctOK'
<1> USE DEF ownvars, envvars
<1>1. /\ stack \in Stacks /\ StackOK /\ OwnerOK /\ SleepOK /\ ScanOK /\ QueueOK
      /\ RunOK
      /\ asleep \subseteq Threads /\ now \in Nat
  BY DEF Inv, TypeOK, Stacks
<1>2. StackOK'
  BY <1>1, StackPart
<1>3. OwnerOK'
  BY <1>1, OwnerKeep
<1>4. SleepOK'
  BY <1>1, SleepKeep
<1>5. ScanOK'
  <2>1. \A x \in Frame : ScanFrameOK(x) => ScanFrameOK(x)'
    <3>1. \A s \in attached : Visible(s)' => /\ Visible(s) /\ (Ready(s)' <=> Ready(s))
                                             /\ ready_time'[s] = ready_time[s]
      OBVIOUS
    <3>2. now' \in Nat /\ now' >= now /\ UNCHANGED <<attached, place>>
      BY <1>1
    <3> QED BY <1>1, <3>1, <3>2, ScanWorld
  <2> QED BY <1>1, <2>1, ScanKeep
<1>6. QueueOK'
  <2>1. QueueFrameOK(new)'
    BY IdleFrame
  <2> QED BY <1>1, <2>1, QueueKeep
<1>7. RunOK'
  BY <1>1, RunKeep
<1>8. TimeOK' /\ PlaceOK' /\ DistinctOK'
  BY DEF Inv, TimeOK, PlaceOK, SamePriority, DistinctOK
<1> QED BY <1>2, <1>3, <1>4, <1>5, <1>6, <1>7, <1>8

\* DestroyEnds keeps the invariant.
LEMMA DestroyEndsKeeps ==
  ASSUME Inv, NEW t \in Threads, DestroyEnds(t)
  PROVE  Inv'
<1>1. stack[t] # <<>> /\ Top(t).pc = "destroying"
  BY DEF At, DestroyEnds
<1>2. PICK old : old = Top(t)
  OBVIOUS
<1>3. PICK s : s = old.source
  OBVIOUS
<1>4. /\ UNCHANGED <<ownvars, ready_time, attached, place, pending_dispatches,
                     is_running, envvars>>
      /\ UNCHANGED <<flags, attached, pending_dispatches>>
      /\ UNCHANGED <<mutex, app_ref, revents>>
  BY DEF DestroyEnds
<1>5. Unpolls(s) /\ Unref(s) /\ Pop(t)
  BY <1>2, <1>3 DEF DestroyEnds, Unpolls
<1>6. old \in Frame /\ FrameOK(old) /\ stack \in Stacks /\ old \in Shape /\ StackOK
  BY <1>1, <1>2, TopParts DEF Shape, Inv
<1>7. Pops(t)
  BY <1>1, <1>5, <1>6, PopPops
<1>8. Move(t, old, Gone) /\ stack' \in Stacks
  BY <1>1, <1>2, <1>6, <1>7, PopMoves DEF Pops
<1>9. /\ Gone \in Shape /\ Gone.pc = "gone" /\ Gone.pc \notin Scanning \cup Checking
      /\ Gone.source = None /\ Weight(Gone) = 0 /\ RunFrameOK(Gone)' /\ FrameOK(Gone)
  BY GoneParts, GoneFacts
<1>10. Weight(old) = 0
  BY <1>1, <1>2, <1>6 DEF FrameOK, Weight, Iterates, HoldsLoop, Iterating, Bit
<1>11. t \notin asleep
  BY <1>1, AwakeTop DEF Inv
<1>12. s \in Sources /\ s # None
  BY <1>1, <1>2, <1>3, CheckSources, GMainContextAssumption
     DEF Inv, WithSource, GMainContextAssumption
<1>13. poll_changed' \in BOOLEAN /\ wakeup' \in BOOLEAN /\ (wakeup => wakeup')
  BY <1>5, <1>12, UnpollRecords
<1>14. PICK gone \in Shape : gone = Gone
  BY <1>9
<1>15. /\ StackOK' /\ OwnerOK' /\ SleepOK' /\ ScanOK' /\ QueueOK' /\ RunOK'
       /\ TimeOK' /\ PlaceOK' /\ DistinctOK'
  <2>1. \A x \in attached : Visible(x)' => Visible(x) /\ (Ready(x)' <=> Ready(x))
    BY <1>4 DEF Visible, Active, Blocked, Ready
  <2>2. /\ Move(t, old, gone) /\ FrameOK(gone) /\ Weight(gone) = 0
        /\ gone.pc \notin Scanning \cup Checking
    BY <1>8, <1>9, <1>14
  <2>3. RunFrameOK(gone)'
    BY <1>9, <1>14 DEF RunFrameOK
  <2> QED BY <1>4, <1>6, <1>10, <1>11, <1>13, <2>1, <2>2, <2>3, SourceParts
<1>16. SourceOK' /\ DestroyOK' /\ CallsOK' /\ PollOK'
  <2>1. Move(t, old, gone) /\ gone.source = None /\ gone.pc # "inCheck"
    BY <1>8, <1>9, <1>14
  <2> QED BY <1>1, <1>2, <1>3, <1>4, <1>5, <1>6, <1>12, <2>1, DestroyCalm
<1>17. RefsOK' /\ ref_count' \in [Sources -> Nat]
  <2>1. ASSUME NEW x \in Sources PROVE Only(s, -1)[x] = Gain(old, gone, x)
    <3>1. /\ Bit(IsUser(gone, x)) = 0 /\ Bit(IsUser(old, x)) = 0
          /\ Bit(IsDestroyer(gone, x)) = 0 /\ Bit(IsDestroyer(old, x)) = Bit(x = s)
      BY <1>1, <1>2, <1>3, <1>9, <1>14, GMainContextAssumption
         DEF IsUser, IsDestroyer, Bit, GMainContextAssumption
    <3>2. /\ Bit(x \in app_ref') = Bit(x \in app_ref) /\ Bit(x \in app_ref) \in Int
          /\ Bit(x \in attached' /\ Active(x)') = Bit(x \in attached /\ Active(x))
          /\ Bit(x \in attached /\ Active(x)) \in Int /\ Bit(x = s) \in Int
      BY <1>4 DEF Bit, Active
    <3>3. Queued(x)' = Queued(x) /\ Queued(x) \in Nat
      BY <1>4, <1>6, AccountsHold DEF Queued, Accounts, Inv, TypeOK
    <3>4. Only(s, -1)[x] = (-1) * Bit(x = s)
      BY DEF Only
    <3> QED BY <3>1, <3>2, <3>3, <3>4 DEF Gain
  <2>2. ref_count' = [x \in Sources |-> ref_count[x] + Only(s, -1)[x]]
    BY <1>5, <1>12, RefsLess
  <2>3. pending_dispatches' \in Seq(Sources \cup {None}) /\ Move(t, old, gone)
    BY <1>4, <1>8, <1>14 DEF Inv, TypeOK
  <2> QED BY <1>6, <2>1, <2>2, <2>3, RefsMove
<1>18. TypeOK'
  <2>1. poll_records' \subseteq HasFd
    BY <1>16 DEF PollOK
  <2> QED BY <1>4, <1>8, <1>13, <1>17, <2>1 DEF Inv, TypeOK, Stacks, ownvars, envvars
<1>19. ASSUME NEW u \in Threads PROVE Taken(u)' = Taken(u)
  <2>1. CASE u = t
    BY <1>1, <1>6, <1>7, <2>1, TakenPop, OutsideFacts
  <2>2. CASE u # t
    BY <1>7, <2>2, TakenOther DEF Pops
  <2> QED BY <2>1, <2>2
<1>20. EntriesOK'
  BY <1>4, <1>19, EntriesKeep DEF Inv, ownvars
<1>21. NestedOK'
  BY <1>1, <1>4, <1>6, <1>7, NestedPop DEF Inv
<1> QED BY <1>15, <1>16, <1>17, <1>18, <1>20, <1>21 DEF Inv

\* The frame that a call finds when it leaves the stacks alone.
LEMMA StayFrame ==
  ASSUME Inv, NEW t \in Threads, InApplication(t), UNCHANGED stack
  PROVE  \E gone \in Shape :
           /\ Move(t, gone, gone) /\ gone.pc = "gone" /\ gone.source = None
           /\ gone.pc \notin Scanning \cup Checking
           /\ Weight(gone) = 0 /\ RunFrameOK(gone)' /\ FrameOK(gone)
<1>1. PICK gone : gone = Gone
  OBVIOUS
<1>2. Move(t, gone, gone)
  BY <1>1, StayMoves DEF Inv, TypeOK, Stacks
<1>3. gone \in Shape /\ gone.pc = "gone" /\ gone.source = None /\ Weight(gone) = 0
          /\ FrameOK(gone)
  BY <1>1, GoneParts, GoneFacts
<1>4. gone.loop = None
  BY <1>1, GoneFacts
<1>5. RunFrameOK(gone)'
  BY <1>4 DEF RunFrameOK
<1>6. gone.pc \notin Scanning \cup Checking
  BY <1>3 DEF Scanning, Checking
<1> QED BY <1>2, <1>3, <1>5, <1>6

\* xsource_unref keeps the invariant.
LEMMA UnrefKeeps ==
  ASSUME Inv, NEW t \in Threads, NEW s \in Sources, xsource_unref(t, s)
  PROVE  Inv'
<1>1. /\ UNCHANGED <<ownvars, ready_time, attached, place, pending_dispatches,
                     is_running, envvars>>
      /\ UNCHANGED <<mutex, flags, revents,
                     pollvars>> /\ UNCHANGED <<stack, pending_dispatches>>
      /\ InApplication(t) /\ Unref(s) /\ s \in app_ref /\ app_ref' = app_ref \ {s}
  BY DEF xsource_unref, Holds
<1>2. PICK gone \in Shape :
           /\ Move(t, gone, gone) /\ gone.pc = "gone" /\ gone.source = None
           /\ gone.pc \notin Scanning \cup Checking
           /\ Weight(gone) = 0 /\ RunFrameOK(gone)' /\ FrameOK(gone)
  BY <1>1, StayFrame
<1>3. stack \in Stacks /\ t \notin asleep
  BY <1>1, AwakeApp DEF Inv, TypeOK, Stacks
<1>4. /\ StackOK' /\ OwnerOK' /\ SleepOK' /\ ScanOK' /\ QueueOK' /\ RunOK'
      /\ TimeOK' /\ PlaceOK' /\ DistinctOK'
  <2>1. /\ \A x \in attached : Visible(x)' => Visible(x) /\ (Ready(x)' <=> Ready(x))
        /\ wakeup => wakeup'
    BY <1>1 DEF Visible, Active, Blocked, Ready, pollvars
  <2> QED BY <1>1, <1>2, <1>3, <2>1, SourceParts
<1>5. SourceOK' /\ DestroyOK' /\ CallsOK' /\ PollOK'
  <2>1. \A K : Count(K)' = Count(K)
    BY <1>1, SameFrames
  <2>2. \A u : Top(u)' = Top(u)
    BY <1>1, SameFrames
  <2>3. SourceOK' /\ DestroyOK'
    BY <1>1, <2>1 DEF Inv, SourceOK, DestroyOK, Blocked, Active
  <2>4. CallsOK' /\ PollOK'
    BY <1>1, <2>1, <2>2 DEF Inv, CallsOK, PollOK, Held, Active, Blocked, At, pollvars
  <2> QED BY <2>3, <2>4
<1>6. RefsOK' /\ ref_count' \in [Sources -> Nat]
  <2>1. ASSUME NEW x \in Sources PROVE Only(s, -1)[x] = Gain(gone, gone, x)
    <3>1. /\ Bit(IsUser(gone, x)) = 0 /\ Bit(IsDestroyer(gone, x)) = 0
      BY <1>2, GMainContextAssumption
         DEF IsUser, IsDestroyer, Bit, GMainContextAssumption
    <3>2. /\ Bit(x \in app_ref') - Bit(x \in app_ref) = (-1) * Bit(x = s)
          /\ Bit(x \in attached' /\ Active(x)') = Bit(x \in attached /\ Active(x))
          /\ Bit(x \in attached /\ Active(x)) \in Int /\ Bit(x = s) \in Int
      BY <1>1 DEF Bit, Active
    <3>3. Queued(x)' = Queued(x) /\ Queued(x) \in Nat
      BY <1>1, <1>3, AccountsHold DEF Queued, Accounts, Inv, TypeOK
    <3>4. Only(s, -1)[x] = (-1) * Bit(x = s)
      BY DEF Only
    <3> QED BY <3>1, <3>2, <3>3, <3>4 DEF Gain
  <2>2. ref_count' = [x \in Sources |-> ref_count[x] + Only(s, -1)[x]]
    BY <1>1, RefsLess
  <2>3. pending_dispatches' \in Seq(Sources \cup {None})
    BY <1>1 DEF Inv, TypeOK
  <2> QED BY <1>2, <2>1, <2>2, <2>3, RefsMove
<1>7. TypeOK'
  BY <1>1, <1>6 DEF Inv, TypeOK, ownvars, envvars, pollvars
<1>8. EntriesOK' /\ NestedOK'
  <2>1. \A u : Taken(u)' = Taken(u)
    BY <1>1, SameFrames
  <2>2. UNCHANGED <<pending_dispatches, owner>>
    BY <1>1 DEF ownvars
  <2>3. EntriesOK'
    BY <2>1, <2>2, EntriesKeep DEF Inv
  <2> QED BY <1>1, <2>3, NestedStay DEF Inv
<1> QED BY <1>4, <1>5, <1>6, <1>7, <1>8 DEF Inv

\* The first half of xsource_destroy_internal: the frame that holds the
\* context's reference from now on, if there is one.
Deactivates(s) == flags' = [flags EXCEPT ![s] = @ \ {"ACTIVE"}]

\* The flags after a source is deactivated.
LEMMA DeactivateFlags ==
  ASSUME Inv, NEW s \in Sources, Deactivates(s)
  PROVE  /\ flags' \in [Sources -> SUBSET Flag]
         /\ \A x \in Sources : /\ Active(x)' <=> Active(x) /\ x # s
                               /\ Blocked(x)' <=> Blocked(x)
                               /\ Ready(x)' <=> Ready(x)
<1>1. flags \in [Sources -> SUBSET Flag]
  BY DEF Inv, TypeOK
<1>2. flags' \in [Sources -> SUBSET Flag]
  BY <1>1 DEF Deactivates
<1>3. ASSUME NEW x \in Sources
      PROVE  flags'[x] = IF x = s THEN flags[x] \ {"ACTIVE"} ELSE flags[x]
  BY <1>1 DEF Deactivates
<1> QED BY <1>2, <1>3 DEF Active, Blocked, Ready

\* The start of a destruction keeps the calm parts.
LEMMA DestroyStartsCalm ==
  ASSUME Inv, NEW t \in Threads, NEW s \in Sources, Deactivates(s), Active(s),
         NEW old \in Shape, NEW g \in Shape, Move(t, old, g), old.source = None,
         old.pc = "gone",
         \/ s \in attached /\ g.source = s /\ g.pc = "destroying"
         \/ s \notin attached /\ g.source = None /\ g.pc = "gone",
         UNCHANGED <<ref_count, attached, app_ref, poll_records, pending_dispatches>>
  PROVE  SourceOK' /\ DestroyOK' /\ CallsOK' /\ PollOK' /\ RefsOK'
<1>1. stack \in Stacks /\ attached \subseteq Sources
  BY DEF Inv, TypeOK, Stacks
<1>2. \A x \in Sources : /\ Active(x)' <=> Active(x) /\ x # s
                         /\ Blocked(x)' <=> Blocked(x)
                         /\ Held(x)' => Held(x)
  BY DeactivateFlags DEF Held
<1>3. None \notin Sources /\ HasFd \subseteq Sources
  BY GMainContextAssumption DEF GMainContextAssumption
<1>4. ASSUME NEW x \in Sources
      PROVE  /\ Count(Destroyers(x))'
                     = Count(Destroyers(x)) + Bit(x = s /\ s \in attached)
             /\ Count(Callers(x))' = Count(Callers(x))
             /\ Count(Destroyers(x)) \in Nat /\ Count(Callers(x)) \in Nat
             /\ Bit(x = s /\ s \in attached) \in Nat
             /\ Bit(IsDestroyer(g, x)) = Bit(x = s /\ s \in attached)
             /\ Bit(IsDestroyer(old, x)) = 0 /\ Bit(IsUser(g, x)) = 0
             /\ Bit(IsUser(old, x)) = 0
  <2>1. /\ Bit(IsDestroyer(g, x)) = Bit(x = s /\ s \in attached)
        /\ Bit(IsDestroyer(old, x)) = 0
        /\ Bit(IsCaller(g, x)) = 0 /\ Bit(IsCaller(old, x)) = 0
        /\ Bit(IsUser(g, x)) = 0 /\ Bit(IsUser(old, x)) = 0
        /\ Bit(x = s /\ s \in attached) \in Nat
    BY <1>3 DEF Bit, IsDestroyer, IsCaller, IsUser
  <2>2. Count(Destroyers(x)) \in Nat /\ Count(Callers(x)) \in Nat
    BY <1>1, AllCounts
  <2>3. CountsMoved(old, g)
    BY CountsMoves
  <2>4. /\ Count(Destroyers(x))'
              = Count(Destroyers(x)) + Bit(IsDestroyer(g, x)) - Bit(IsDestroyer(old, x))
        /\ Count(Callers(x))'
              = Count(Callers(x)) + Bit(IsCaller(g, x)) - Bit(IsCaller(old, x))
    BY <2>3 DEF CountsMoved
  <2> QED BY <2>1, <2>2, <2>4
<1>5. Count(Destroyers(s)) = 0
  <2>1. Count(Destroyers(s)) <= Bit(~Active(s)) /\ Bit(~Active(s)) = 0
    BY DEF Inv, DestroyOK, Bit
  <2> QED BY <1>4, <2>1
<1>6. SourceOK'
  <2>1. \A u \in Threads : \A d \in 1 .. Len(stack'[u]) :
           stack'[u][d].source # None => stack'[u][d].source \in attached'
    BY <1>1, FrameSources DEF Inv
  <2> QED BY <1>2, <2>1 DEF Inv, SourceOK
<1>7. DestroyOK'
  <2> SUFFICES ASSUME NEW x \in Sources
               PROVE  Count(Destroyers(x))' <= Bit(~Active(x)')
    BY DEF DestroyOK, Bit
  <2>1. CASE x = s
    BY <1>2, <1>4, <1>5, <2>1 DEF Bit
  <2>2. CASE x # s
    <3>1. Count(Destroyers(x)) <= Bit(~Active(x)) /\ Bit(x = s /\ s \in attached) = 0
      BY <2>2 DEF Inv, DestroyOK, Bit
    <3>2. Bit(~Active(x)') = Bit(~Active(x))
      BY <1>2, <2>2 DEF Bit
    <3> QED BY <1>4, <3>1, <3>2
  <2> QED BY <2>1, <2>2
<1>8. CallsOK'
  <2>1. \A x \in Sources \ CanRecurse :
          /\ Count(Callers(x))' <= 1
          /\ Active(x)' => (Blocked(x)' <=> Count(Callers(x))' = 1)
    BY <1>2, <1>4 DEF Inv, CallsOK
  <2>2. ASSUME NEW l \in DOMAIN pending_dispatches', pending_dispatches'[l] # None
        PROVE  ~Held(pending_dispatches[l])'
    <3>1. PICK x : x = pending_dispatches[l]
      OBVIOUS
    <3>2. x \in Sources /\ ~Held(x)
      BY <1>1, <2>2, <3>1 DEF Inv, CallsOK, SourceOK
    <3>3. ~Held(x)'
      BY <1>2, <3>2
    <3> QED BY <3>1, <3>3 DEF Held, Active, Blocked
  <2>3. \A u \in Threads : At(u, "inCheck")' => ~Held(Top(u).source)'
    BY <1>1, <1>2, ChecksKeep, CheckSources DEF Inv, WithSource
  <2> QED BY <2>1, <2>2, <2>3 DEF CallsOK
<1>9. PollOK'
  <2> SUFFICES ASSUME NEW x \in attached \cap HasFd
               PROVE  ~Blocked(x) /\ (Active(x) \/ Count(Destroyers(x)) > 0)
                        <=> ~Blocked(x)' /\ (Active(x)' \/ Count(Destroyers(x))' > 0)
    BY DEF Inv, PollOK
  <2>1. CASE x = s
    <3>1. Count(Destroyers(x))' > 0
      BY <1>1, <1>4, <1>5, <2>1 DEF Bit
    <3> QED BY <1>1, <1>2, <2>1, <3>1
  <2>2. CASE x # s
    <3>1. Count(Destroyers(x))' = Count(Destroyers(x))
      BY <1>1, <1>4, <2>2 DEF Bit
    <3> QED BY <1>1, <1>2, <2>2, <3>1
  <2> QED BY <2>1, <2>2
<1>10. RefsOK'
  <2>1. PICK c \in Int : c = 0
    OBVIOUS
  <2>2. ASSUME NEW x \in Sources PROVE Only(s, c)[x] = Gain(old, g, x)
    <3>1. Bit(x \in app_ref') = Bit(x \in app_ref) /\ Bit(x \in app_ref) \in Int
      BY DEF Bit
    <3>2. Bit(x \in attached' /\ Active(x)') - Bit(x \in attached /\ Active(x))
             = 0 - Bit(x = s /\ s \in attached)
      BY <1>2 DEF Bit
    <3>3. Queued(x)' = Queued(x) /\ Queued(x) \in Nat
      BY <1>1, AccountsHold DEF Queued, Accounts, Inv, TypeOK
    <3>4. Only(s, c)[x] = 0
      BY <2>1 DEF Only, Bit
    <3> QED BY <1>4, <3>1, <3>2, <3>3, <3>4 DEF Gain
  <2>3. /\ pending_dispatches' \in Seq(Sources \cup {None})
        /\ ref_count' = [x \in Sources |-> ref_count[x] + Only(s, c)[x]]
    BY <2>1 DEF Inv, TypeOK, Only, Bit
  <2> QED BY <2>2, <2>3, RefsMove
<1> QED BY <1>6, <1>7, <1>8, <1>9, <1>10

\* The frame of xsource_destroy_internal.
LEMMA DestroyingFrame ==
  ASSUME NEW s \in Sources, NEW g, g = [NewFrame("destroying") EXCEPT !.source = s]
  PROVE  /\ g \in Frame /\ g \in Shape /\ g.pc = "destroying" /\ g.source = s
                /\ g.loop = None
         /\ g.dispatch /\ FrameOK(g) /\ Weight(g) = 0
         /\ g.pc \notin Scanning \cup Checking
         /\ RunFrameOK(g)' /\ g.pc \in Outside /\ g.pc # "release"
<1>1. "destroying" \in PC /\ s # None
  <2>1. s # None
    BY GMainContextAssumption DEF GMainContextAssumption
  <2> QED BY <2>1 DEF PC
<1>2. PICK b : b = NewFrame("destroying")
  OBVIOUS
<1>3. /\ b \in Frame /\ b.pc = "destroying" /\ b.loop = None /\ b.dispatch = TRUE
      /\ b.n_ready = FALSE /\ b.max_priority = MaxInt /\ b.timeout = 0
  BY <1>1, <1>2, NewFrameType
<1>4. g = [b EXCEPT !.source = s]
  BY <1>2
<1>5. /\ g \in Frame /\ g.pc = "destroying" /\ g.source = s /\ g.loop = None
      /\ g.dispatch = TRUE
      /\ g.n_ready = FALSE /\ g.max_priority = MaxInt /\ g.timeout = 0
  BY <1>3, <1>4 DEF Frame
<1>6. FrameOK(g)
  BY <1>1, <1>5 DEF FrameOK, LoopPC, WithSource, Scanning, Checking
<1>7. Weight(g) = 0 /\ g.pc \notin Scanning \cup Checking
  BY <1>5 DEF Weight, Bit, Iterates, HoldsLoop, Iterating, Scanning, Checking
<1>8. RunFrameOK(g)'
  BY <1>5 DEF RunFrameOK
<1>9. g.pc \in Outside /\ g.pc # "release"
  BY <1>5, OutsideFacts
<1> QED BY <1>5, <1>6, <1>7, <1>8, <1>9 DEF Shape

\* xsource_destroy keeps the invariant.
LEMMA DestroyKeeps ==
  ASSUME Inv, NEW t \in Threads, NEW s \in Sources, xsource_destroy(t, s)
  PROVE  Inv'
<1>1. /\ UNCHANGED <<ownvars, ready_time, attached, place, pending_dispatches,
                     is_running, envvars>>
      /\ UNCHANGED <<ref_count, attached, app_ref, poll_records, pending_dispatches>>
      /\ UNCHANGED <<mutex, revents, poll_changed, wakeup>>
      /\ InApplication(t) /\ Deactivates(s) /\ Active(s)
  BY DEF xsource_destroy, Deactivates, pollvars
<1>2. stack \in Stacks /\ t \notin asleep /\ StackOK
  BY <1>1, AwakeApp DEF Inv, TypeOK, Stacks
<1>3. PICK old \in Shape, g \in Shape :
        /\ Move(t, old, g) /\ old.source = None /\ old.pc = "gone" /\ Weight(old) = 0
        /\ \/ s \in attached /\ g.source = s /\ g.pc = "destroying"
           \/ s \notin attached /\ g.source = None /\ g.pc = "gone"
        /\ g.pc \notin Scanning \cup Checking /\ Weight(g) = 0 /\ FrameOK(g)
        /\ RunFrameOK(g)'
        /\ (\A u \in Threads : Taken(u)' = Taken(u)) /\ NestedOK'
  <2>1. CASE s \in attached
    <3>1. PICK g : g = [NewFrame("destroying") EXCEPT !.source = s]
      OBVIOUS
    <3>2. Push(t, g)
      BY <2>1, <3>1 DEF xsource_destroy
    <3>3. /\ g \in Frame /\ g \in Shape /\ g.pc = "destroying" /\ g.source = s
          /\ g.dispatch /\ FrameOK(g) /\ Weight(g) = 0
          /\ g.pc \notin Scanning \cup Checking
          /\ RunFrameOK(g)' /\ g.pc \in Outside /\ g.pc # "release"
      BY <3>1, DestroyingFrame
    <3>4. Pushes(t, g)
      BY <1>2, <3>2, <3>3, PushPushes
    <3>5. PICK old : old = Gone
      OBVIOUS
    <3>6. Move(t, old, g)
      BY <1>1, <1>2, <3>3, <3>4, <3>5, PushMoves
    <3>7. old \in Shape /\ old.source = None /\ old.pc = "gone" /\ Weight(old) = 0
      BY <3>5, GoneFacts, GoneParts
    <3>8. ASSUME NEW u \in Threads PROVE Taken(u)' = Taken(u)
      <4>1. CASE u = t
        BY <1>1, <1>2, <3>3, <3>4, <4>1, TakenPush
      <4>2. CASE u # t
        BY <3>4, <4>2, TakenOther DEF Pushes
      <4> QED BY <4>1, <4>2
    <3>9. NestedOK'
      BY <1>1, <1>2, <3>3, <3>4, NestedPush DEF Inv
    <3> QED BY <2>1, <3>3, <3>6, <3>7, <3>8, <3>9
  <2>2. CASE s \notin attached
    <3>1. UNCHANGED stack
      BY <2>2 DEF xsource_destroy
    <3>2. PICK gone \in Shape :
           /\ Move(t, gone, gone) /\ gone.pc = "gone" /\ gone.source = None
           /\ gone.pc \notin Scanning \cup Checking
           /\ Weight(gone) = 0 /\ RunFrameOK(gone)' /\ FrameOK(gone)
      BY <1>1, <3>1, StayFrame
    <3>3. \A u : Taken(u)' = Taken(u)
      BY <3>1, SameFrames
    <3>4. NestedOK'
      BY <1>1, <3>1, NestedStay DEF Inv
    <3> QED BY <2>2, <3>2, <3>3, <3>4
  <2> QED BY <2>1, <2>2
<1>4. SourceOK' /\ DestroyOK' /\ CallsOK' /\ PollOK' /\ RefsOK'
  BY <1>1, <1>3, DestroyStartsCalm
<1>5. flags' \in [Sources -> SUBSET Flag]
  BY <1>1, DeactivateFlags
<1>6. /\ StackOK' /\ OwnerOK' /\ SleepOK' /\ ScanOK' /\ QueueOK' /\ RunOK'
      /\ TimeOK' /\ PlaceOK' /\ DistinctOK'
  <2>1. attached \subseteq Sources
    BY DEF Inv, TypeOK
  <2>2. \A x \in attached : Visible(x)' => Visible(x) /\ (Ready(x)' <=> Ready(x))
    BY <1>1, <2>1, DeactivateFlags DEF Visible
  <2> QED BY <1>1, <1>2, <1>3, <2>2, SourceParts
<1>7. TypeOK'
  <2>1. stack' \in Stacks
    BY <1>3 DEF Move
  <2> QED BY <1>1, <1>5, <2>1 DEF Inv, TypeOK, ownvars, envvars, Stacks
<1>8. EntriesOK'
  BY <1>1, <1>3, EntriesKeep DEF Inv, ownvars
<1> QED BY <1>3, <1>4, <1>6, <1>7, <1>8 DEF Inv

\* source_add_to_context puts a source behind the others of its priority.
LEMMA AttachPlace ==
  ASSUME Inv, NEW s \in Sources, s \notin attached, attached' = attached \cup {s},
         place' = [place EXCEPT ![s] = Cardinality(SamePriority(s))]
  PROVE  /\ PlaceOK' /\ place' \in [Sources -> Nat]
         /\ \A x \in attached : place'[x] = place[x]
<1>1. /\ place \in [Sources -> Nat] /\ attached \subseteq Sources
      /\ Priority \in [Sources -> Int]
      /\ IsFiniteSet(attached)
  BY GMainContextAssumption, FS_Subset DEF Inv, TypeOK, GMainContextAssumption
<1>2. ASSUME NEW x
      PROVE  /\ IsFiniteSet(SamePriority(x)) /\ Cardinality(SamePriority(x)) \in Nat
             /\ SamePriority(x) \subseteq attached
  <2>1. SamePriority(x) \subseteq attached
    BY DEF SamePriority
  <2> QED BY <1>1, <2>1, FS_Subset, FS_CardinalityType
<1>3. PICK n \in Nat : n = Cardinality(SamePriority(s))
  BY <1>2
<1>4. /\ place' \in [Sources -> Nat] /\ place'[s] = n
      /\ \A x \in attached : place'[x] = place[x]
  BY <1>1, <1>3
<1>5. ASSUME NEW x \in attached', Priority[x] = Priority[s]
      PROVE  SamePriority(x)' = SamePriority(s) \cup {s}
                 /\ Cardinality(SamePriority(x)') = n + 1
  <2>1. SamePriority(x)' = SamePriority(s) \cup {s}
    BY <1>5 DEF SamePriority
  <2>2. s \notin SamePriority(s)
    BY <1>2
  <2>3. Cardinality(SamePriority(s) \cup {s}) = n + 1
    BY <1>2, <1>3, <2>2, FS_AddElement
  <2> QED BY <2>1, <2>3
<1>6. ASSUME NEW x \in attached, Priority[x] = Priority[s]
      PROVE  place[x] < n
  <2>1. SamePriority(x) = SamePriority(s)
    BY <1>6 DEF SamePriority
  <2> QED BY <1>3, <2>1 DEF Inv, PlaceOK
<1>7. ASSUME NEW x \in attached'
      PROVE  /\ place'[x] < Cardinality(SamePriority(x)')
             /\ \A y \in SamePriority(x)' : place'[y] = place'[x] => y = x
  <2>1. CASE Priority[x] # Priority[s]
    <3>1. x \in attached /\ SamePriority(x)' = SamePriority(x)
      BY <2>1 DEF SamePriority
    <3> QED BY <1>2, <1>4, <3>1 DEF Inv, PlaceOK
  <2>2. CASE Priority[x] = Priority[s] /\ x = s
    <3>1. SamePriority(x)' = SamePriority(s) \cup {s}
              /\ Cardinality(SamePriority(x)') = n + 1
      BY <1>5, <2>2
    <3>2. ASSUME NEW y \in SamePriority(x)', place'[y] = place'[x], y # x
          PROVE  FALSE
      <4>1. y \in attached /\ Priority[y] = Priority[s]
        BY <2>2, <3>1, <3>2 DEF SamePriority
      <4>2. place[y] < n /\ place[y] = n
        BY <1>4, <1>6, <2>2, <3>2, <4>1
      <4> QED BY <4>2
    <3> QED BY <1>4, <2>2, <3>1, <3>2
  <2>3. CASE Priority[x] = Priority[s] /\ x # s
    <3>1. SamePriority(x)' = SamePriority(s) \cup {s}
              /\ Cardinality(SamePriority(x)') = n + 1
      BY <1>5, <2>3
    <3>2. x \in attached /\ place[x] < n /\ SamePriority(x) = SamePriority(s)
              /\ place[x] \in Nat
      <4>1. x \in attached
        BY <2>3
      <4> QED BY <1>1, <1>6, <2>3, <4>1 DEF SamePriority
    <3>3. ASSUME NEW y \in SamePriority(x)', place'[y] = place'[x]
          PROVE  y = x
      <4>1. CASE y = s
        BY <1>4, <3>2, <3>3, <4>1
      <4>2. CASE y # s
        <5>1. y \in SamePriority(x) /\ y \in attached
          BY <1>2, <3>1, <3>2, <4>2
        <5> QED BY <1>4, <3>2, <3>3, <5>1 DEF Inv, PlaceOK
      <4> QED BY <4>1, <4>2
    <3>4. place'[x] < n + 1
      BY <1>4, <3>2
    <3> QED BY <3>1, <3>3, <3>4
  <2> QED BY <2>1, <2>2, <2>3
<1>8. PlaceOK'
  BY <1>7 DEF PlaceOK, SamePriority
<1> QED BY <1>4, <1>8

\* The threads that scan the context are woken when a source is attached.
LEMMA AttachScan ==
  ASSUME Inv, NEW t \in Threads, InApplication(t), UNCHANGED <<stack, now>>,
         owner \notin {None, t} => wakeup'
  PROVE  ScanOK'
<1> SUFFICES ASSUME NEW u \in Threads, stack[u] # <<>>
             PROVE  ScanFrameOK(Top(u))'
  BY DEF ScanOK
<1>1. PICK x : x = Top(u)
  OBVIOUS
<1>2. ScanFrameOK(x) /\ x = Top(u)'
  BY <1>1 DEF Inv, ScanOK, Top
<1>3. wakeup' \/ x.pc \notin Scanning
  <2>1. CASE wakeup'
    BY <2>1
  <2>2. CASE u = t
    BY <1>1, <2>2 DEF InApplication, At, Scanning
  <2>3. CASE ~wakeup' /\ u # t
    <3>1. Alone(t)
      BY <2>3, OwnerAlone DEF MayOwn, Inv, TypeOK, Stacks
    <3> QED BY <1>1, <2>3, <3>1 DEF Alone, Iterates, Iterating, Scanning
  <2> QED BY <2>1, <2>2, <2>3
<1>4. ScanFrameOK(x)'
  BY <1>2, <1>3 DEF ScanFrameOK, Scanning
<1> QED BY <1>2, <1>4 DEF ScanFrameOK, Seen, Harmless

\* What is queued stays before the source that is checked.
LEMMA AttachQueue ==
  ASSUME Inv, UNCHANGED <<stack, pending_dispatches>>,
         \A x \in attached : place'[x] = place[x]
  PROVE  QueueOK'
<1> SUFFICES ASSUME NEW u \in Threads, stack[u] # <<>>
             PROVE  QueueFrameOK(Top(u))'
  BY DEF QueueOK
<1>1. PICK x : x = Top(u)
  OBVIOUS
<1>2. QueueFrameOK(x) /\ x = Top(u)'
  BY <1>1 DEF Inv, QueueOK, Top
<1>3. x.source # None => x.source \in attached
  <2>1. Len(stack[u]) \in 1 .. Len(stack[u]) /\ Top(u) = stack[u][Len(stack[u])]
    BY TopFrame DEF Inv, TypeOK, Stacks
  <2> QED BY <1>1, <2>1 DEF Inv, SourceOK
<1>4. x.pc \in {"checkNext", "inCheck"} =>
        \A k \in DOMAIN pending_dispatches : pending_dispatches[k] \in attached
  BY <1>1, EntriesThere DEF Filling, Checking, Iterating
<1>5. QueueFrameOK(x)'
  <2>1. CASE x.pc \notin {"checkNext", "inCheck"}
    BY <1>2, <2>1 DEF QueueFrameOK
  <2>2. CASE x.source = None
    <3>1. x.pc # "inCheck"
      BY <1>1, <2>2, TopParts DEF FrameOK, WithSource
    <3> QED BY <1>2, <2>2, <3>1 DEF QueueFrameOK
  <2>3. CASE x.pc \in {"checkNext", "inCheck"} /\ x.source # None
    <3>1. ASSUME NEW y \in attached PROVE Before(y, x.source)' <=> Before(y, x.source)
      BY <1>3, <2>3, <3>1 DEF Before
    <3> QED BY <1>2, <1>4, <2>3, <3>1 DEF QueueFrameOK, Before
  <2> QED BY <2>1, <2>2, <2>3
<1> QED BY <1>2, <1>5 DEF QueueFrameOK, Before

\* xsource_attach keeps the invariant.
LEMMA AttachKeeps ==
  ASSUME Inv, NEW t \in Threads, NEW s \in Sources, xsource_attach(t, s)
  PROVE  Inv'
<1>1. /\ UNCHANGED <<mutex, ownvars, flags, ready_time, app_ref,
                     pending_dispatches, is_running, stack, envvars>>
      /\ InApplication(t) /\ s \notin attached /\ Active(s)
      /\ attached' = attached \cup {s}
      /\ ref_count' = [ref_count EXCEPT ![s] = @ + 1]
      /\ place' = [place EXCEPT ![s] = Cardinality(SamePriority(s))]
      /\ poll_records' = poll_records \cup ({s} \cap HasFd)
      /\ revents' = revents \ {s}
      /\ poll_changed' = (poll_changed \/ s \in HasFd)
      /\ wakeup' = (wakeup \/ s \in HasFd \/ owner \notin {None, t})
  BY DEF xsource_attach, SamePriority
<1>2. stack \in Stacks /\ wakeup \in BOOLEAN /\ poll_changed \in BOOLEAN
  BY DEF Inv, TypeOK, Stacks
<1>3. /\ wakeup' \in BOOLEAN /\ poll_changed' \in BOOLEAN /\ (wakeup => wakeup')
      /\ owner \notin {None, t} => wakeup'
  BY <1>1, <1>2
<1>4. PlaceOK' /\ place' \in [Sources -> Nat] /\ \A x \in attached : place'[x] = place[x]
  BY <1>1, AttachPlace
<1>5. \A K : Count(K)' = Count(K)
  BY <1>1, SameFrames
<1>6. \A u : Top(u)' = Top(u) /\ Taken(u)' = Taken(u)
  BY <1>1, SameFrames
<1>7. StackOK' /\ SleepOK' /\ TimeOK' /\ DistinctOK'
  BY <1>1 DEF Inv, StackOK, SleepOK, TimeOK, DistinctOK, At, Top, ownvars, envvars
<1>8. OwnerOK' /\ DestroyOK'
  BY <1>1, <1>5 DEF Inv, OwnerOK, DestroyOK, Active, ownvars
<1>9. EntriesOK' /\ NestedOK'
  <2>1. UNCHANGED <<pending_dispatches, owner>>
    BY <1>1 DEF ownvars
  <2>2. EntriesOK'
    BY <1>6, <2>1, EntriesKeep DEF Inv
  <2> QED BY <1>1, <2>2, NestedStay DEF Inv
<1>10. ScanOK' /\ QueueOK'
  <2>1. UNCHANGED <<stack, now>> /\ UNCHANGED <<stack, pending_dispatches>>
    BY <1>1 DEF envvars
  <2> QED BY <1>1, <1>3, <1>4, <2>1, AttachScan, AttachQueue
<1>11. RunOK'
  BY <1>1, <1>3, <1>6 DEF Inv, RunOK, RunFrameOK
<1>12. SourceOK' /\ CallsOK'
  <2>1. SourceOK'
    BY <1>1 DEF Inv, SourceOK, Blocked
  <2>2. CallsOK'
    BY <1>1, <1>5, <1>6 DEF Inv, CallsOK, Held, Active, Blocked, At
  <2> QED BY <2>1, <2>2
<1>13. PollOK'
  <2>1. ~Blocked(s)
    BY <1>1 DEF Inv, SourceOK
  <2>2. \A x : (Active(x)' <=> Active(x)) /\ (Blocked(x)' <=> Blocked(x))
    BY <1>1 DEF Active, Blocked
  <2>3. PollOK /\ \A x : Count(Destroyers(x))' = Count(Destroyers(x))
    BY <1>5 DEF Inv, Destroyers
  <2> QED BY <1>1, <2>1, <2>2, <2>3 DEF PollOK
<1>14. RefsOK' /\ ref_count' \in [Sources -> Nat]
  <2>1. PICK c \in Int : c = 1
    OBVIOUS
  <2>2. PICK gone \in Shape : Move(t, gone, gone) /\ gone.source = None
    BY <1>1, StayFrame
  <2>3. ASSUME NEW x \in Sources PROVE Only(s, c)[x] = Gain(gone, gone, x)
    <3>1. /\ Bit(IsUser(gone, x)) = 0 /\ Bit(IsDestroyer(gone, x)) = 0
      BY <2>2, GMainContextAssumption
         DEF IsUser, IsDestroyer, Bit, GMainContextAssumption
    <3>2. /\ Bit(x \in app_ref') = Bit(x \in app_ref) /\ Bit(x \in app_ref) \in Int
          /\ Bit(x \in attached' /\ Active(x)')
               - Bit(x \in attached /\ Active(x)) = Bit(x = s)
          /\ Bit(x = s) \in Int
      BY <1>1 DEF Bit, Active
    <3>3. Queued(x)' = Queued(x) /\ Queued(x) \in Nat
      BY <1>1, <1>2, AccountsHold DEF Queued, Accounts, Inv, TypeOK
    <3>4. Only(s, c)[x] = Bit(x = s)
      BY <2>1, <3>2 DEF Only
    <3> QED BY <3>1, <3>2, <3>3, <3>4 DEF Gain
  <2>4. ref_count' = [ref_count EXCEPT ![s] = @ + c]
    BY <1>1, <2>1
  <2>5. ref_count' = [x \in Sources |-> ref_count[x] + Only(s, c)[x]]
    BY <2>4, RefsOne
  <2>6. pending_dispatches' \in Seq(Sources \cup {None})
    BY <1>1 DEF Inv, TypeOK
  <2> QED BY <2>2, <2>3, <2>5, <2>6, RefsMove
<1>15. TypeOK'
  BY <1>1, <1>3, <1>4, <1>14 DEF Inv, TypeOK, ownvars, envvars
<1> QED BY <1>4, <1>7, <1>8, <1>9, <1>10, <1>11, <1>12, <1>13, <1>14, <1>15 DEF Inv

-----------------------------------------------------------------------------
(***************************************************************************)
(* The invariant holds in every state, and what it says of the context.    *)
(***************************************************************************)
\* The invariant holds initially.
LEMMA InitInv == Init => Inv
<1> SUFFICES ASSUME Init PROVE Inv
  OBVIOUS
<1> USE DEF Init
<1>1. \A t \in Threads : stack[t] = <<>> /\ Len(stack[t]) = 0 /\ 1 .. Len(stack[t]) = {}
  OBVIOUS
<1>2. \A K : Count(K) = 0
  <2>1. Frames = {}
    BY <1>1 DEF Frames
  <2>2. \A K : {f \in Frames : FrameAt(f) \in K} = {}
    BY <2>1
  <2> QED BY <2>2, FS_EmptySet DEF Count
<1>3. TypeOK
  <2>1. Infinite \in Int /\ {"ACTIVE"} \in SUBSET Flag
    BY DEF Infinite, Flag
  <2>2. stack \in [Threads -> Seq(Frame)]
    BY EmptySeq
  <2>3. 0 \in Nat /\ 1 \in Nat /\ waiters \in Seq(Threads)
        /\ pending_dispatches \in Seq(Sources \cup {None})
    BY EmptySeq
  <2> QED BY <2>1, <2>2, <2>3 DEF TypeOK
<1>4. StackOK /\ SleepOK /\ PlaceOK /\ NestedOK /\ QueueOK /\ ScanOK /\ RunOK
  BY <1>1 DEF StackOK, SleepOK, PlaceOK, NestedOK, QueueOK, ScanOK, RunOK
<1>5. OwnerOK
  BY <1>1, <1>2 DEF OwnerOK
<1>6. SourceOK /\ EntriesOK /\ DistinctOK
  BY <1>1 DEF SourceOK, EntriesOK, DistinctOK, Blocked
<1>7. TimeOK
  BY GMainContextAssumption DEF TimeOK, GMainContextAssumption
<1>8. \A s \in Sources : Active(s) /\ ~Blocked(s) /\ Count(Destroyers(s)) = 0
          /\ Count(Callers(s)) = 0
  BY <1>2 DEF Active, Blocked
<1>9. DestroyOK
  BY <1>8 DEF DestroyOK, Bit
<1>10. CallsOK
  BY <1>1, <1>8 DEF CallsOK, At
<1>11. PollOK
  BY DEF PollOK
<1>12. RefsOK
  <2> SUFFICES ASSUME NEW s \in Sources PROVE RefSum(s) = 1
    BY DEF RefsOK
  <2>1. Queued(s) = 0
    <3>1. {k \in DOMAIN pending_dispatches : pending_dispatches[k] = s} = {}
      OBVIOUS
    <3> QED BY <3>1, FS_EmptySet DEF Queued
  <2>2. Bit(s \in app_ref) = 1 /\ Bit(s \in attached /\ Active(s)) = 0
    BY DEF Bit
  <2> QED BY <1>2, <2>1, <2>2 DEF RefSum
<1> QED BY <1>3, <1>4, <1>5, <1>6, <1>7, <1>9, <1>10, <1>11, <1>12 DEF Inv

\* Every step of the library keeps the invariant.
LEMMA LibraryKeeps ==
  ASSUME Inv, NEW t \in Threads, Library(t)
  PROVE  Inv'
<1>1. CASE DestroyEnds(t)
  BY <1>1, DestroyEndsKeeps
<1>2. CASE LoopStart(t)
  BY <1>2, LoopStartKeeps
<1>3. CASE LoopWait(t)
  BY <1>3, LoopWaitKeeps
<1>4. CASE LoopWoken(t)
  BY <1>4, LoopWokenKeeps
<1>5. CASE LoopTest(t)
  BY <1>5, LoopTestKeeps
<1>6. CASE LoopRelease(t)
  BY <1>6, LoopReleaseKeeps
<1>7. CASE xmain_context_acquire(t)
  BY <1>7, AcquireKeeps
<1>8. CASE xmain_context_wait_internal(t)
  BY <1>8, WaitKeeps
<1>9. CASE Woken(t)
  BY <1>9, WokenKeeps
<1>10. CASE xmain_context_prepare(t)
  BY <1>10, PrepareKeeps
<1>11. CASE PrepareEnds(t)
  BY <1>11, PrepareEndsKeeps
<1>12. CASE PrepareNext(t)
  BY <1>12, PrepareNextKeeps
<1>13. CASE PrepareReturns(t)
  BY <1>13, PrepareReturnsKeeps
<1>14. CASE xmain_context_query(t)
  BY <1>14, QueryKeeps
<1>15. CASE xmain_context_poll(t)
  BY <1>15, PollKeeps
<1>16. CASE xmain_context_check(t)
  BY <1>16, CheckKeeps
<1>17. CASE CheckEnds(t)
  BY <1>17, CheckEndsKeeps
<1>18. CASE CheckNext(t)
  BY <1>18, CheckNextKeeps
<1>19. CASE CheckReturns(t)
  BY <1>19, CheckReturnsKeeps
<1>20. CASE xmain_context_dispatch(t)
  BY <1>20, DispatchKeeps
<1>21. CASE DispatchEnds(t)
  BY <1>21, DispatchEndsKeeps
<1>22. CASE g_main_dispatch(t)
  BY <1>22, DispatchNextKeeps
<1>23. CASE NeedDestroyEnds(t)
  BY <1>23, NeedDestroyEndsKeeps
<1>24. CASE IterateReleases(t)
  BY <1>24, IterateReleasesKeeps
<1> QED
  BY <1>1, <1>2, <1>3, <1>4, <1>5, <1>6, <1>7, <1>8, <1>9, <1>10, <1>11, <1>12, <1>13,
           <1>14, <1>15, <1>16, <1>17, <1>18, <1>19, <1>20, <1>21, <1>22, <1>23, <1>24
        DEF Library

\* Every call of the application keeps the invariant.
LEMMA ApplicationKeeps ==
  ASSUME Inv, NEW t \in Threads, Application(t)
  PROVE  Inv'
<1>1. ASSUME NEW s \in Sources,
             xsource_attach(t, s) \/ xsource_destroy(t, s) \/ xsource_unref(t, s)
      PROVE  Inv'
  BY <1>1, AttachKeeps, DestroyKeeps, UnrefKeeps
<1>2. ASSUME NEW s \in Sources \ Idle, NEW at \in {Infinite} \cup ReadyTimes,
             xsource_set_ready_time(t, s, at)
      PROVE  Inv'
  BY <1>2, SetReadyTimeKeeps
<1>3. CASE xmain_context_wakeup(t)
  BY <1>3, WakeupKeeps
<1>4. ASSUME NEW l \in Loops, xmain_loop_run(t, l) \/ xmain_loop_quit(t, l)
      PROVE  Inv'
  BY <1>4, LoopRunKeeps, QuitKeeps
<1>5. ASSUME NEW may_block \in BOOLEAN, xmain_context_iteration(t, may_block)
      PROVE  Inv'
  BY <1>5, IterationKeeps
<1>6. CASE xmain_context_pending(t)
  BY <1>6, PendingKeeps
<1>7. CASE ReadData(t)
  BY <1>7, ReadDataKeeps
<1> QED BY <1>1, <1>2, <1>3, <1>4, <1>5, <1>6, <1>7 DEF Application

\* Every step keeps the invariant.
LEMMA NextInv == Inv /\ [Next]_vars => Inv'
<1> SUFFICES ASSUME Inv, [Next]_vars PROVE Inv'
  OBVIOUS
<1>1. ASSUME NEW t \in Threads, Library(t) PROVE Inv'
  BY <1>1, LibraryKeeps
<1>2. ASSUME NEW t \in Threads, Application(t) PROVE Inv'
  BY <1>2, ApplicationKeeps
<1>3. ASSUME NEW t \in Threads, PollInterrupted(t) PROVE Inv'
  BY <1>3, PollKeeps
<1>4. ASSUME NEW t \in Threads, NEW need_destroy \in BOOLEAN,
             CallbackReturns(t, need_destroy)
      PROVE  Inv'
  BY <1>4, CallbackReturnsKeeps
<1>5. CASE TimePasses
  BY <1>5, TimePassesKeeps
<1>6. ASSUME NEW s \in HasFd, DataArrives(s) PROVE Inv'
  BY <1>6, DataArrivesKeeps
<1>7. ASSUME NEW t \in Threads, SpuriousWakeup(t) PROVE Inv'
  BY <1>7, SpuriousWakeupKeeps
<1>8. CASE UNCHANGED vars
  BY <1>8, StutterKeeps
<1> QED BY <1>1, <1>2, <1>3, <1>4, <1>5, <1>6, <1>7, <1>8 DEF Next

\* Every behaviour of the context keeps the inductive invariant, whatever the
\* threads, the sources, their priorities and flags, and the depth of nesting.
THEOREM Invariant == Spec => []Inv
<1>1. Init => Inv
  BY InitInv
<1>2. Inv /\ [Next]_vars => Inv'
  BY NextInv
<1> QED BY <1>1, <1>2, PTL DEF Spec

\* Two threads never prepare, poll, check or dispatch the context at the same
\* time, and owner_count is the number of acquisitions not yet released
\* (xmain_context_acquire, xmain_context_wait_internal, xmain_context_release).
THEOREM OneOwner == Spec => []SingleOwner
<1>1. Inv => SingleOwner
  <2> SUFFICES ASSUME Inv PROVE SingleOwner
    OBVIOUS
  <2>1. TypeOK /\ stack \in Stacks
    BY DEF Inv, TypeOK, Stacks
  <2>2. ASSUME NEW f \in Frames
        PROVE  FrameAt(f) \in Frame /\ (FrameAt(f).pc \in Iterating => f[1] = owner)
    <3>1. PICK t \in Threads : \E d \in 1 .. Len(stack[t]) : f = <<t, d>>
      BY InFrames
    <3>2. PICK d \in 1 .. Len(stack[t]) : f = <<t, d>>
      BY <3>1
    <3>3. stack[t][d] \in Frame /\ FrameAt(f) = stack[t][d] /\ f[1] = t
      BY <2>1, <3>2, ElementOfSeq DEF Stacks, FrameAt
    <3> QED BY <3>3 DEF Inv, OwnerOK, IterFrames
  <2>3. {f \in Frames : FrameAt(f).pc \in Iterating} = {f \in Frames :
            FrameAt(f) \in IterFrames}
    BY <2>2 DEF IterFrames
  <2>4. {f \in Frames :
            FrameAt(f).loop # None /\ FrameAt(f).pc \notin {"loopWait", "loopAsleep"}}
          = {f \in Frames : FrameAt(f) \in LoopFrames}
    BY <2>2 DEF LoopFrames
  <2>5. owner_count = Count(IterFrames) + Count(LoopFrames)
    BY DEF Inv, OwnerOK
  <2> QED BY <2>1, <2>2, <2>3, <2>4, <2>5 DEF SingleOwner, Count
<1> QED BY <1>1, Invariant, PTL

\* A thread that blocks in poll has missed nothing: it polls every descriptor,
\* no source is ready, a source that waits for a time bounds its timeout, and
\* its loop still runs, unless the wakeup is signalled (the wakeups of
\* xsource_attach, xsource_set_ready_time and xmain_loop_quit, against the
\* acknowledgement in xmain_context_check).
THEOREM NothingMissed == Spec => []PollSeesAll
<1>1. Inv => PollSeesAll
  <2> SUFFICES ASSUME Inv, NEW t \in Threads, NEW x, x = Top(t), stack[t] # <<>>,
                      x.pc = "poll",
                      x.deadline \notin 0..now, ~(wakeup /\ Wake \in x.fds)
               PROVE  /\ x.loop # None => is_running[x.loop]
                      /\ \A s \in attached :
                           Visible(s) => /\ s \notin Idle
                                         /\ ~Ready(s)
                                         /\ s \in HasFd => s \in x.fds
                                         /\ ready_time[s] # Infinite
                                                => x.deadline # Infinite
    BY DEF PollSeesAll, At
  <2>1. FrameOK(x) /\ ScanFrameOK(x) /\ RunFrameOK(x)
    BY TopParts DEF Inv, ScanOK, RunOK
  <2>2. ~x.n_ready /\ "poll" \in Scanning
    BY <2>1 DEF ScanFrameOK, Scanning
  <2>3. ~wakeup
    BY <2>1, <2>2 DEF FrameOK
  <2>4. ASSUME NEW s \in attached, Visible(s) PROVE Harmless(x, s)
    BY <2>1, <2>2, <2>3, <2>4 DEF ScanFrameOK, Seen
  <2>5. x.loop # None => is_running[x.loop]
    BY <2>1, <2>2, <2>3 DEF RunFrameOK
  <2> QED BY <2>4, <2>5 DEF Harmless
<1> QED BY <1>1, Invariant, PTL

\* The frames of a source in the states, and in the counts of the invariant.
LEMMA DestroyedCounts ==
  ASSUME Inv, NEW s \in Sources
  PROVE  /\ BeingDestroyed(s) <=> Count(Destroyers(s)) = 1
         /\ BeingDestroyed(s) => s \in attached /\ ~Active(s)
         /\ Count(Destroyers(s)) \in {0, 1}
<1>1. stack \in Stacks
  BY DEF Inv, TypeOK, Stacks
<1>2. Count(Destroyers(s)) \in {0, 1} /\ (Count(Destroyers(s)) = 1 => ~Active(s))
  <2>1. Count(Destroyers(s)) <= Bit(~Active(s)) /\ Count(Destroyers(s)) \in Nat
    BY <1>1, AllCounts DEF Inv, DestroyOK
  <2> QED BY <2>1 DEF Bit
<1>3. ASSUME BeingDestroyed(s) PROVE Count(Destroyers(s)) >= 1 /\ s \in attached
  <2>1. PICK f \in Frames : /\ FrameAt(f).source = s
                            /\ FrameAt(f).pc \in {"destroying", "needDestroy"}
    BY <1>3 DEF BeingDestroyed
  <2>2. PICK t \in Threads : \E d \in 1 .. Len(stack[t]) : f = <<t, d>>
    BY InFrames
  <2>3. PICK d \in 1 .. Len(stack[t]) : f = <<t, d>>
    BY <2>2
  <2>4. stack[t][d] \in Frame /\ FrameAt(f) = stack[t][d]
    BY <1>1, <2>3, ElementOfSeq DEF Stacks, FrameAt
  <2>5. stack[t][d] \in Destroyers(s)
    BY <2>1, <2>4 DEF Destroyers
  <2>6. s # None
    BY GMainContextAssumption DEF GMainContextAssumption
  <2>7. s \in attached
    BY <2>1, <2>4, <2>6 DEF Inv, SourceOK
  <2> QED BY <1>1, <2>5, <2>7, CountPositive
<1>4. ASSUME Count(Destroyers(s)) = 1 PROVE BeingDestroyed(s)
  <2>1. \E t \in Threads : \E d \in 1 .. Len(stack[t]) : stack[t][d] \in Destroyers(s)
    BY <1>1, <1>4, CountWitness
  <2>2. PICK t \in Threads : \E d \in 1 .. Len(stack[t]) : stack[t][d] \in Destroyers(s)
    BY <2>1
  <2>3. PICK d \in 1 .. Len(stack[t]) : stack[t][d] \in Destroyers(s)
    BY <2>2
  <2>4. PICK f : f = <<t, d>>
    OBVIOUS
  <2>5. f \in Frames /\ FrameAt(f) = stack[t][d]
    BY <2>4, InFrames DEF FrameAt
  <2> QED BY <2>3, <2>5 DEF BeingDestroyed, Destroyers
<1> QED BY <1>2, <1>3, <1>4

\* The frames of the threads are of the right type.
LEMMA FramesTyped ==
  ASSUME Inv, NEW f \in Frames
  PROVE  FrameAt(f) \in Frame
<1>1. PICK t \in Threads : \E d \in 1 .. Len(stack[t]) : f = <<t, d>>
  BY InFrames
<1>2. PICK d \in 1 .. Len(stack[t]) : f = <<t, d>>
  BY <1>1
<1> QED BY <1>2, ElementOfSeq DEF Inv, TypeOK, FrameAt

\* Where no callback calls xmain_context_pending (MayPend = 0), every reference
\* to a source is accounted for, so that it is freed when the last one goes,
\* not before and not never (xsource_unref_internal, g_main_dispatch,
\* xsource_iter_next).
THEOREM ReferencesCounted == ASSUME MayPend = 0 PROVE Spec => []RefsExact
<1>1. Inv => RefsExact
  <2> SUFFICES ASSUME Inv, NEW s \in Sources
               PROVE  ref_count[s] =
                        Bit(s \in app_ref)
                        + Bit(s \in attached /\ (Active(s) \/ BeingDestroyed(s)))
                        + Cardinality({k \in DOMAIN pending_dispatches :
                            pending_dispatches[k] = s})
                        + Cardinality({f \in Frames : /\ FrameAt(f).source = s
                                                      /\ FrameAt(f).pc # "destroying"})
    BY DEF RefsExact
  <2>1. ref_count[s] = Bit(s \in app_ref)
                       + Bit(s \in attached /\ Active(s)) + Count(Destroyers(s))
                         + Queued(s) + Count(Users(s))
    BY DEF Inv, RefsOK, RefSum
  <2>2. Bit(s \in attached /\ (Active(s) \/ BeingDestroyed(s)))
          = Bit(s \in attached /\ Active(s)) + Count(Destroyers(s))
    BY DestroyedCounts DEF Bit
  <2>3. {f \in Frames : FrameAt(f).source = s /\ FrameAt(f).pc # "destroying"}
          = {f \in Frames : FrameAt(f) \in Users(s)}
    BY FramesTyped DEF Users
  <2>4. /\ Bit(s \in app_ref) \in Int /\ Bit(s \in attached /\ Active(s)) \in Int
        /\ Count(Destroyers(s)) \in Int /\ Queued(s) \in Int
        /\ Count(Users(s)) \in Int
    BY AllCounts, AccountsHold DEF Bit, Accounts, Inv, TypeOK, Stacks
  <2>5. /\ Cardinality({f \in Frames :
               FrameAt(f).source = s /\ FrameAt(f).pc # "destroying"})
             = Count(Users(s))
        /\ Cardinality({k \in DOMAIN pending_dispatches :
               pending_dispatches[k] = s}) = Queued(s)
    BY <2>3 DEF Count, Queued
  <2> QED BY <2>1, <2>2, <2>4, <2>5
<1> QED BY <1>1, Invariant, PTL

\* A descriptor is polled exactly while its source is attached, not destroyed
\* and not blocked by a dispatch (xsource_attach, xsource_destroy_internal,
\* block_source, unblock_source).
THEOREM PollRecordsKept == Spec => []PollRecordsExact
<1>1. Inv => PollRecordsExact
  <2> SUFFICES ASSUME Inv PROVE PollRecordsExact
    OBVIOUS
  <2>1. attached \subseteq Sources
    BY DEF Inv, TypeOK
  <2>2. \A s \in attached : Count(Destroyers(s)) > 0 <=> BeingDestroyed(s)
    BY <2>1, DestroyedCounts
  <2> QED BY <2>2 DEF Inv, PollOK, PollRecordsExact
<1> QED BY <1>1, Invariant, PTL

\* A source that cannot recurse is dispatched by one frame of one thread at a
\* time, and is blocked exactly while it is (block_source and unblock_source in
\* g_main_dispatch).
THEOREM CalledOnce == Spec => []NotReentered
<1>1. Inv => NotReentered
  <2> SUFFICES ASSUME Inv, NEW s \in attached \ CanRecurse, NEW calls,
                      calls = {f \in Frames :
                          FrameAt(f).source = s /\ FrameAt(f).pc = "callback"}
               PROVE  /\ Cardinality(calls) <= 1
                      /\ Active(s) => (Blocked(s) <=> calls # {})
    BY DEF NotReentered
  <2>1. s \in Sources \ CanRecurse /\ stack \in Stacks
    BY DEF Inv, TypeOK, Stacks
  <2>2. calls = {f \in Frames : FrameAt(f) \in Callers(s)}
    BY FramesTyped DEF Callers
  <2>3. IsFiniteSet(calls) /\ Cardinality(calls) = Count(Callers(s))
            /\ Count(Callers(s)) \in Nat
    BY <2>1, <2>2, CountNat DEF Count
  <2>4. calls = {} <=> Count(Callers(s)) = 0
    BY <2>3, FS_EmptySet
  <2>5. /\ Count(Callers(s)) <= 1
        /\ Active(s) => (Blocked(s) <=> Count(Callers(s)) = 1)
    BY <2>1 DEF Inv, CallsOK
  <2> QED BY <2>3, <2>4, <2>5
<1> QED BY <1>1, Invariant, PTL

\* A loop that sleeps for the ownership of its context has not been quit
\* (xmain_loop_quit broadcasts context->cond).
THEOREM QuitBroadcasts == Spec => []QuitWakes
<1>1. Inv => QuitWakes
  BY DEF Inv, SleepOK, QuitWakes, At
<1> QED BY <1>1, Invariant, PTL
=============================================================================
