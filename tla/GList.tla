-------------------------------- MODULE GList --------------------------------
(***************************************************************************)
(* The sort of glib/glist.c, which g_queue_sort calls: a recursive merge   *)
(* sort that relinks the nodes of a doubly linked list.                    *)
(*                                                                         *)
(* Nodes are numbered in the order of the list that is to be sorted, and a *)
(* list (the next pointers) is the sequence of its nodes.  The prev        *)
(* pointers are kept apart, since the functions repair them at other       *)
(* places than the next pointers.  A call of xlist_sort_real is a frame.   *)
(***************************************************************************)
EXTENDS GQueue

CONSTANTS
  Data,        \* what a node can hold
  DataLess,    \* the pairs of data for which compare_func is negative
  MaxLength    \* bound: the longest list that is sorted

\* compare_func is a strict weak order.
ASSUME GListAssumption ==
  /\ MaxLength \in Nat
  /\ \A x, y \in Data : <<x, y>> \in DataLess => <<y, x>> \notin DataLess
  /\ \A x, y, z \in Data : <<x, z>> \in DataLess => <<x, y>> \in DataLess \/ <<y, z>> \in DataLess

VARIABLES
  input,    \* the data of each node
  prev,     \* the prev pointer of each node
  frames,   \* the calls of xlist_sort_real, innermost last
  head      \* what the outermost call returns

listvars == <<input, prev, frames, head>>

Nodes == 1 .. Len(input)

NULL == 0
StackVariable == -1   \* &list of xlist_sort_merge, which is no node

\* The two halves that a call sorts.
Halves == {1, 2}

(***************************************************************************)
(* A frame: start, at the beginning; walk, in the search for the middle,   *)
(* with l1 at the i-th and l2 at the j-th node; halves, at the calls and   *)
(* in xlist_sort_merge.  calling is the half being sorted by the next      *)
(* frame, or 0.                                                            *)
(***************************************************************************)
ListFrame == [pc : {"start", "walk", "halves"}, list : Seq(Nodes), i : Nat, j : Nat,
              half : [Halves -> Seq(Nodes)], sorted : SUBSET Halves,
              calling : Halves \cup {0}, merged : Seq(Nodes)]

NewCall(list) ==
  [pc |-> "start", list |-> list, i |-> 1, j |-> 2, half |-> [h \in Halves |-> <<>>],
   sorted |-> {}, calling |-> 0, merged |-> <<>>]

\* Lists of all data, as they come from a queue.
ListInit ==
  /\ input \in UNION {[1 .. n -> Data] : n \in 0 .. MaxLength}
  /\ prev = [a \in Nodes |-> a - 1]
  /\ frames = <<NewCall([a \in Nodes |-> a])>>
  /\ head = <<>>

Depth == Len(frames)
Call == frames[Depth]
SetCall(frame) == frames' = [frames EXCEPT ![Depth] = frame] /\ UNCHANGED head

\* A call returns a list: to the call before, or to g_queue_sort.
Return(list) ==
  IF Depth = 1 THEN frames' = <<>> /\ head' = list
  ELSE /\ frames' = [d \in 1 .. Depth - 1 |->
            IF d < Depth - 1 THEN frames[d]
            ELSE [frames[d] EXCEPT !.half[frames[d].calling] = list,
                                   !.sorted = @ \cup {frames[d].calling},
                                   !.calling = 0]]
       /\ UNCHANGED head

-----------------------------------------------------------------------------
xlist_sort_real ==
  /\ frames # <<>> /\ Call.pc = "start"
  /\ IF Len(Call.list) <= 1 THEN Return(Call.list)
     ELSE SetCall([Call EXCEPT !.pc = "walk"])
  /\ UNCHANGED <<input, prev>>

\* l2 goes two nodes ahead for one of l1; where it cannot, the list is cut
\* behind l1.
FindMiddle ==
  /\ frames # <<>> /\ Call.pc = "walk"
  /\ SetCall(IF Call.j + 2 <= Len(Call.list)
             THEN [Call EXCEPT !.i = @ + 1, !.j = @ + 2]
             ELSE [Call EXCEPT !.pc = "halves",
                     !.half = [h \in Halves |->
                        IF h = 1 THEN SubSeq(Call.list, 1, Call.i)
                        ELSE SubSeq(Call.list, Call.i + 1, Len(Call.list))]])
  /\ UNCHANGED <<input, prev>>

\* The two calls are arguments of a third, so either may come first.
SortHalf(h) ==
  /\ frames # <<>> /\ Call.pc = "halves" /\ h \notin Call.sorted
  /\ frames' = Append([frames EXCEPT ![Depth].calling = h],
                      NewCall(Call.half[h]))
  /\ UNCHANGED <<input, prev, head>>

Merging == frames # <<>> /\ Call.pc = "halves" /\ Call.sorted = Halves

\* compare_func (a->data, b->data) < 0
Bug_CompareLess(a, b) == <<input[a], input[b]>> \in DataLess

\* compare_func (a->data, b->data) <= 0
LessOrEqual(a, b) == <<input[b], input[a]>> \notin DataLess

\* The loop of xlist_sort_merge: the smaller of the first nodes is appended.
xlist_sort_merge ==
  /\ Merging /\ \A h \in Halves : Call.half[h] # <<>>
  /\ LET h == IF LessOrEqual(Call.half[1][1], Call.half[2][1]) THEN 1 ELSE 2
         node == Call.half[h][1]
         lprev == IF Call.merged = <<>> THEN NULL ELSE Call.merged[Len(Call.merged)]
     IN  /\ SetCall([Call EXCEPT !.half[h] = Tail(@),
                                 !.merged = Append(@, node)])
         /\ prev' = [prev EXCEPT ![node] = lprev]
  /\ UNCHANGED input

\* Behind the loop: the rest of the list that is left is appended whole.
MergeRest ==
  /\ Merging /\ \E h \in Halves : Call.half[h] = <<>>
  /\ LET rest == IF Call.half[1] # <<>> THEN Call.half[1] ELSE Call.half[2]
         last == IF Call.merged = <<>> THEN StackVariable
                 ELSE Call.merged[Len(Call.merged)]
     IN  /\ prev' = [prev EXCEPT ![rest[1]] = last]
         /\ Return(Call.merged \o rest)
  /\ UNCHANGED input

ListNext ==
  \/ xlist_sort_real \/ FindMiddle \/ (\E h \in Halves : SortHalf(h))
  \/ xlist_sort_merge \/ MergeRest

ListSpec == ListInit /\ [][ListNext]_listvars

-----------------------------------------------------------------------------
ListTypeOK ==
  /\ input \in Seq(Data)
  /\ prev \in [Nodes -> Nodes \cup {NULL}]
  /\ frames \in Seq(ListFrame)
  /\ head \in Seq(Nodes)

\* Forwards the list is that of g_queue_sort.
StableOrder ==
  [k \in 1 .. Len(head) |-> input[head[k]]] = g_queue_sort(input, DataLess)

\* Backwards it is the same list: each prev pointer leads to the node before.
LinkedBothWays ==
  \A k \in 1 .. Len(head) : prev[head[k]] = IF k = 1 THEN NULL ELSE head[k - 1]

\* The merge sort returns the list that g_queue_sort stands for: every node
\* once, ordered by compare_func, equal nodes in the order they had
\* (xlist_sort_real, xlist_sort_merge; "The algorithm used is a stable sort",
\* glist.c:1280).  It can be walked backwards, too, as g_queue_pop_tail does:
\* the prev pointers, stale on the way at the head of every half, are repaired
\* (xlist_sort_merge, glist.c:1232, 1236).
SortsStably ==
  /\ ListTypeOK
  /\ frames = <<>> => StableOrder /\ LinkedBothWays
=============================================================================
