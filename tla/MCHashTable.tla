---------------------------- MODULE MCHashTable ------------------------------
(* Instances of HashTable for TLC.  AvgBucketCount is 1 or 2 where the code    *)
(* has 64, so that a few insertions rehash the table more than once.          *)
EXTENDS HashTable

\* "a" and "b" collide in one and two chains, and not in three.
TwoKeys == {"a", "b"}
TwoHash == [k \in TwoKeys |-> IF k = "a" THEN 0 ELSE 2]

\* The tables are interchangeable.
SameTables == Permutations(Tables)

=============================================================================
