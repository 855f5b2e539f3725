------------------------------- MODULE KeyBag --------------------------------
(***************************************************************************)
(* What a table promises (table.hh, hash_map.hh, hash_set.hh): several     *)
(* bags of keys, with no chains, nodes or hash values; contents[t][k] is   *)
(* how often k is in t.  A range of iterators covers whatever elements it  *)
(* happens to cover.                                                       *)
(***************************************************************************)
EXTENDS Integers

CONSTANTS Tables, Keys

VARIABLES
  contents,
  answer      \* the last call, and what it said: was it inserted, was it found?

Empty == [k \in Keys |-> 0]

Init ==
  /\ contents = [t \in Tables |-> Empty]
  /\ answer = [op |-> "none", said |-> FALSE]

Has(t, k) == contents[t][k] > 0
Changes(t, k, delta) == contents' = [contents EXCEPT ![t][k] = @ + delta]
Says(op, said) == answer' = [op |-> op, said |-> said]
Void == Says("none", FALSE)

InsertUnique(t, k) ==
  /\ Says("insert", ~Has(t, k))
  /\ IF Has(t, k) THEN UNCHANGED contents ELSE Changes(t, k, 1)

InsertMultiple(t, k) == Says("insert_multiple", TRUE) /\ Changes(t, k, 1)

Find(t, k) == Says("find", Has(t, k)) /\ UNCHANGED contents

\* The element that find() gives.
EraseKey(t, k) ==
  /\ Says("erase", FALSE)
  /\ IF Has(t, k) THEN Changes(t, k, -1) ELSE UNCHANGED contents

\* Keys are removed, none is added and no other table changes.
EraseRange(t) ==
  /\ Says("erase_range", FALSE)
  /\ \A k \in Keys : contents'[t][k] \in 0 .. contents[t][k]
  /\ contents' = [contents EXCEPT ![t] = contents'[t]]

Clear(t)     == Void /\ contents' = [contents EXCEPT ![t] = Empty]
Assign(t, u) == Void /\ contents' = [contents EXCEPT ![t] = contents[u]]
Swap(t, u)   ==
  /\ Void
  /\ contents' = [contents EXCEPT ![t] = contents[u], ![u] = contents[t]]
Begin == Says("begin", FALSE) /\ UNCHANGED contents

Next ==
  \/ Begin
  \/ \E t \in Tables :
       \/ EraseRange(t) \/ Clear(t)
       \/ \E k \in Keys :
            InsertUnique(t, k) \/ InsertMultiple(t, k) \/ EraseKey(t, k) \/ Find(t, k)
       \/ \E u \in Tables : Assign(t, u) \/ Swap(t, u)

Spec == Init /\ [][Next]_<<contents, answer>>

=============================================================================
