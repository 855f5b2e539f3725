-------------------------- MODULE IteratorSequence ---------------------------
(***************************************************************************)
(* utilmm::iterator_sequence: an iterator that goes through a first range  *)
(* and then through a second one.  The positions of a range s are numbered *)
(* 1 .. Len(s), and its end is Len(s) + 1.                                 *)
(***************************************************************************)
EXTENDS Integers, Sequences

\* The iterators that the documentation gives for the two ranges s and t.
Begin(s, t) ==
  [m_first |-> 1, m_first_end |-> Len(s) + 1, m_second_begin |-> 1, m_second |-> 1]
End(s, t) ==
  [m_first |-> Len(s) + 1, m_first_end |-> Len(s) + 1,
   m_second_begin |-> Len(t) + 1, m_second |-> Len(t) + 1]

\* i with new values of m_first and m_second.
To(i, first, second) ==
  [m_first |-> first, m_first_end |-> i.m_first_end,
   m_second_begin |-> i.m_second_begin, m_second |-> second]

InFirst(i) == i.m_first # i.m_first_end

Dereference(i, s, t) == IF InFirst(i) THEN s[i.m_first] ELSE t[i.m_second]

Equal(i, j) == i.m_first = j.m_first /\ i.m_second = j.m_second

Increment(i) ==
  IF InFirst(i) THEN To(i, i.m_first + 1, i.m_second) ELSE To(i, i.m_first, i.m_second + 1)

Decrement(i) ==
  IF i.m_second = i.m_second_begin
  THEN To(i, i.m_first - 1, i.m_second) ELSE To(i, i.m_first, i.m_second - 1)

\* advance(n), for n of either sign.
Forward(i, n) ==
  LET remains == i.m_first_end - i.m_first
  IN  IF remains > n THEN To(i, i.m_first + n, i.m_second)
      ELSE To(i, i.m_first_end, i.m_second + (n - remains))
Backward(i, n) ==
  LET remains == i.m_second_begin - i.m_second
  IN  IF remains < n THEN To(i, i.m_first, i.m_second + n)
      ELSE To(i, i.m_first + (n - remains), i.m_second_begin)
Advance(i, n) == IF n > 0 THEN Forward(i, n) ELSE Backward(i, n)

DistanceTo(i, j) == (j.m_first - i.m_first) + (j.m_second - i.m_second)

-----------------------------------------------------------------------------
(* What the class promises: one sequence                                     *)

\* The iterator that Begin becomes after k increments.
At(s, t, k) ==
  [m_first |-> IF k < Len(s) THEN k + 1 ELSE Len(s) + 1, m_first_end |-> Len(s) + 1,
   m_second_begin |-> 1, m_second |-> IF k < Len(s) THEN 1 ELSE k - Len(s) + 1]

\* From any position every other one is reached by ++, --, += and -=, the
\* distance is the difference, and the elements are those of s and then t.
ActsAsOne(s, t) ==
  \A k \in 0 .. Len(s) + Len(t) :
    /\ k < Len(s) + Len(t) =>
         /\ Increment(At(s, t, k)) = At(s, t, k + 1)
         /\ Dereference(At(s, t, k), s, t) = (s \o t)[k + 1]
    /\ k > 0 => Decrement(At(s, t, k)) = At(s, t, k - 1)
    /\ Equal(At(s, t, k), End(s, t)) <=> k = Len(s) + Len(t)
    /\ \A m \in 0 .. Len(s) + Len(t) :
         /\ Advance(At(s, t, k), m - k) = At(s, t, m)
         /\ DistanceTo(At(s, t, k), At(s, t, m)) = m - k
         /\ Equal(At(s, t, k), At(s, t, m)) <=> k = m

=============================================================================
