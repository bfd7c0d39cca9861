------------------------------- MODULE GQueue -------------------------------
(***************************************************************************)
(* The operations of glib/gqueue.c that the asynchronous queue uses, on    *)
(* the sequence of the elements from head to tail.                         *)
(***************************************************************************)
EXTENDS Integers, FiniteSets, SequencesExt

g_queue_push_head(queue, data) == <<data>> \o queue

g_queue_push_tail(queue, data) == Append(queue, data)

\* What is left after g_queue_pop_tail; an empty queue stays empty (NULL).
g_queue_pop_tail(queue) == IF queue = <<>> THEN <<>> ELSE Front(queue)

(***************************************************************************)
(* A compare function is the relation less of the pairs <<x, y>> of        *)
(* elements for which func (x, y, user_data) < 0.                          *)
(***************************************************************************)

\* From the head, past every element that compares less than the new one.
g_queue_insert_sorted(queue, data, less) ==
  LET stops == {i \in 1 .. Len(queue) : <<queue[i], data>> \notin less}
  IN  InsertAt(queue, Min(stops \cup {Len(queue) + 1}), data)

\* The sort of the list is stable: an element goes after those that compare
\* less and, of those that compare equal, after the ones it came after.  That
\* the merge sort it calls returns this list is shown in GList (SortsStably).
g_queue_sort(queue, less) ==
  LET n == Len(queue)
      before(i, j) == \/ <<queue[i], queue[j]>> \in less
                      \/ i < j /\ <<queue[j], queue[i]>> \notin less
      place == [i \in 1 .. n |-> 1 + Cardinality({j \in 1 .. n : before(j, i)})]
  IN  [p \in 1 .. n |-> queue[CHOOSE i \in 1 .. n : place[i] = p]]

\* Of the elements that hold the data the one nearest to the head goes, if
\* there is one.
g_queue_remove(queue, holding) == RemoveFirstMatch(queue, LAMBDA e : e \in holding)

=============================================================================
