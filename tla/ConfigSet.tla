----------------------------- MODULE ConfigSet ------------------------------
(***************************************************************************)
(* utilmm::config_set: a scope of a configuration.  It has a multimap of   *)
(* values, which are strings, and one of child sets, which it owns.  A     *)
(* heap is a function from the addresses in use to the sets there; the     *)
(* multimaps give every key the sequence of what was inserted under it.    *)
(***************************************************************************)
EXTENDS Naturals, Sequences, FiniteSets

CONSTANTS Keys,     \* names of values and of children
          Values    \* texts of values

NoSet == 0                  \* the null pointer
NoHeap == [a \in {} |-> {}]

SetType(addresses) ==
    [parent : addresses \cup {NoSet}, values : [Keys -> Seq(Values)],
     children : [Keys -> Seq(addresses)]]

(* new config_set(parent), at the address a.                               *)
EmptySet(parent) ==
    [parent |-> parent, values |-> [k \in Keys |-> <<>>],
     children |-> [k \in Keys |-> <<>>]]

NewAt(heap, a, parent) ==
    [b \in DOMAIN heap \cup {a} |-> IF b = a THEN EmptySet(parent) ELSE heap[b]]

(* The operations that change one set.  insert() appends to the values of  *)
(* a key, set() replaces them, erase() does not touch children.            *)
Insert(set, k, v) == [set EXCEPT !.values[k] = Append(@, v)]
InsertAll(set, k, vs) == [set EXCEPT !.values[k] = @ \o vs]
Erase(set, k) == [set EXCEPT !.values[k] = <<>>]
Replace(set, k, v) == Insert(Erase(set, k), k, v)
ReplaceAll(set, k, vs) == InsertAll(Erase(set, k), k, vs)
InsertChild(set, k, child) == [set EXCEPT !.children[k] = Append(@, child)]

(* The questions.  get<T>() converts every value of the key, also if only  *)
(* the first one is asked for: one that cannot be converted throws.        *)
Exists(set, k) == set.values[k] # <<>> \/ set.children[k] # <<>>
Empty(set) == \A k \in Keys : ~Exists(set, k)
GetList(set, k, default) == IF set.values[k] = <<>> THEN default ELSE set.values[k]
Converts(set, k, Convertible) == \A i \in DOMAIN set.values[k] : set.values[k][i] \in Convertible
Get(set, k, default) == Head(GetList(set, k, <<default>>))
Child(set, k) == IF set.children[k] = <<>> THEN NoSet ELSE Head(set.children[k])

(* clear() deletes the children, whose destructors clear them; what is     *)
(* freed is the set and everything below it: whatever no closed set of     *)
(* addresses leaves out.                                                   *)
ChildrenOf(set) == UNION {{set.children[k][i] : i \in DOMAIN set.children[k]} : k \in Keys}
Freed(heap, a) ==
    {b \in DOMAIN heap :
        \A S \in SUBSET DOMAIN heap : a \in S /\ (\A c \in S : ChildrenOf(heap[c]) \subseteq S) => b \in S}

Delete(heap, a) == [b \in DOMAIN heap \ Freed(heap, a) |-> heap[b]]
=============================================================================
