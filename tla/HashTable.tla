------------------------------ MODULE HashTable ------------------------------
(***************************************************************************)
(* utilmm::hash_toolbox::table, on which hash_map and hash_set are built:  *)
(* a vector of chains of nodes.  A chain is a sequence of nodes, `next' is *)
(* the successor in it; what a node holds besides its key does not matter. *)
(* Tables own their nodes: `val' knows the nodes that new has given out    *)
(* and delete has not taken back.                                          *)
(*                                                                         *)
(* A default constructed table has no chain at all and every operation     *)
(* that hashes a key computes a remainder by zero; clear() gives it one.   *)
(***************************************************************************)
EXTENDS Integers, Sequences, FiniteSets, SequencesExt, FiniteSetsExt

CONSTANTS
  Tables,
  Keys,
  Hash,             \* the hash functor
  Nodes,            \* the memory for nodes (a bound)
  End,              \* the null pointer: end()
  Garbage,          \* a pointer read from memory that has been freed
  AvgBucketCount,   \* avg_bucket_count, 64 in the code
  ClearFirst        \* do users clear() a new table before they use it?

ASSUME HashTableAssumption ==
  /\ Hash \in [Keys -> Nat]
  /\ {End, Garbage} \cap Nodes = {}
  /\ AvgBucketCount \in Nat \ {0}
  /\ ClearFirst \in BOOLEAN
  /\ IsFiniteSet(Nodes)

VARIABLES
  bucket,       \* bucket[t]: the chains of table t
  node_count,
  val,          \* val[n]: the key of node n, for the nodes that exist
  result,       \* what the last call returned: an iterator, a flag, a range
  trapped       \* the program has computed a remainder by zero

vars == <<bucket, node_count, val, result, trapped>>

allocated == DOMAIN val

NoResult == [op |-> "none", it |-> End, inserted |-> FALSE, range |-> {}]
Iterator(op, n) == [NoResult EXCEPT !.op = op, !.it = n]

Init ==
  /\ bucket = [t \in Tables |-> <<>>]
  /\ node_count = [t \in Tables |-> 0]
  /\ val = <<>>
  /\ result = NoResult
  /\ trapped = FALSE

-----------------------------------------------------------------------------
(* Looking for a key                                                         *)

\* hash_key() and hash_node(): chains are numbered from 1 here.
HashKey(k, mod) == (Hash[k] % mod) + 1

Fresh(t) == bucket[t] = <<>>

Chain(t, k) == bucket[t][HashKey(k, Len(bucket[t]))]

\* find_node(): the place in the chain of the first node with that key, or the
\* place after its last node.
FindNode(t, k) ==
  LET i == SelectInSeq(Chain(t, k), LAMBDA n : val[n] = k)
  IN  IF i = 0 THEN Len(Chain(t, k)) + 1 ELSE i

\* The pointer that is stored at a place of a chain.
At(chain, i) == IF i \in DOMAIN chain THEN chain[i] ELSE End

\* The place of a node in a sequence of nodes.
Place(nodes, n) == SelectInSeq(nodes, LAMBDA m : m = n)

\* The order of iteration.
Flat(t) == FlattenSeq(bucket[t])
Linked(t) == ToSet(Flat(t))

\* operator+=(1): the next node of the chain, or the first one of the next
\* chain that has any.
Successor(t, n) ==
  LET b     == HashKey(val[n], Len(bucket[t]))
      chain == bucket[t][b]
      later == {c \in b + 1 .. Len(bucket[t]) : bucket[t][c] # <<>>}
  IN  IF n # Last(chain) THEN chain[Place(chain, n) + 1]
      ELSE IF later = {} THEN End ELSE Head(bucket[t][Min(later)])

\* equal_range(): from the first node with the key up to the first other one.
EqualRange(t, k) ==
  LET chain == Chain(t, k)
      first == FindNode(t, k)
  IN  {chain[i] : i \in {j \in first .. Len(chain) :
                           \A m \in first .. j : val[chain[m]] = k}}

-----------------------------------------------------------------------------
(* resize()                                                                  *)

\* The elements of S in an order: before[x] are those in front of x.
InOrder(S, before) ==
  [i \in 1 .. Cardinality(S) |-> CHOOSE x \in S : Cardinality(before[x]) = i - 1]

\* The nodes at some places, in an order of the places.
Moved(nodes, places, before) ==
  LET order == InOrder(places, before) IN [i \in DOMAIN order |-> nodes[order[i]]]

\* A run is a stretch of nodes with equal keys; runs are put in front of each
\* other, and the nodes of a run stay in order.
SameRun(v, nodes, i, j) == \A m \in (i .. j) \cup (j .. i) : v[nodes[m]] = v[nodes[i]]
InFront(v, nodes, i, j) == IF SameRun(v, nodes, i, j) THEN i < j ELSE j < i
NewChain(v, nodes, places) ==
  Moved(nodes, places, [i \in places |-> {j \in places : InFront(v, nodes, j, i)}])

\* Mutant: nodes are moved to the chain for the old number of chains.
RehashOldSize(v, chains, n) ==
  LET flat == FlattenSeq(chains)
  IN  [h \in 1 .. n |->
        NewChain(v, flat, {i \in DOMAIN flat : HashKey(v[flat[i]], Len(chains)) = h})]

\* Every run is put in front of the chain it now belongs to, chain by chain.
Rehash(v, chains, n) ==
  LET flat == FlattenSeq(chains)
  IN  [h \in 1 .. n |->
        NewChain(v, flat, {i \in DOMAIN flat : HashKey(v[flat[i]], n) = h})]

Grows(chains, size) == 1 + size \div AvgBucketCount > Len(chains)

\* resize(0) makes a new vector and forgets the chains that were there.
Resize(v, chains, size) ==
  IF size = 0 THEN <<<<>>>>
  ELSE IF Grows(chains, size) THEN Rehash(v, chains, 1 + size \div AvgBucketCount)
  ELSE chains

-----------------------------------------------------------------------------
(* Calls that change the table                                               *)

Usable(t) == ~trapped /\ (ClearFirst => ~Fresh(t))

Trap(t) ==
  /\ ~trapped /\ Fresh(t) /\ ~ClearFirst
  /\ trapped' = TRUE
  /\ UNCHANGED <<bucket, node_count, val, result>>

\* The keys, with that of a new node.
WithKey(n, k) == [m \in allocated \cup {n} |-> IF m = n THEN k ELSE val[m]]

\* insert(position, v).  The position points into a chain or to its head in the
\* vector; after a rehash the chain goes on elsewhere, or the vector is freed.
Insertion(t, k, n, op) ==
  LET b      == HashKey(k, Len(bucket[t]))
      place  == FindNode(t, k)
      v      == WithKey(n, k)
      chains == [bucket[t] EXCEPT ![b] = InsertAt(@, place, n)]
      size   == node_count[t] + 1
      after  == Resize(v, chains, size)
      before == bucket[t][b][place - 1]
      moved  == after[HashKey(v[before], Len(after))]
  IN  /\ val' = v
      /\ bucket' = [bucket EXCEPT ![t] = after]
      /\ node_count' = [node_count EXCEPT ![t] = size]
      /\ result' = [NoResult EXCEPT
           !.op = op, !.inserted = TRUE,
           !.it = IF ~Grows(chains, size) THEN n
                  ELSE IF place = 1 THEN Garbage
                  ELSE At(moved, Place(moved, before) + 1)]

Free == Nodes \ allocated
NewNode == CHOOSE n \in Free : TRUE

\* Mutant: insert_unique() does not look whether the key is there.
InsertUniqueAlways(t, k) ==
  /\ Usable(t) /\ ~Fresh(t) /\ Free # {}
  /\ Insertion(t, k, NewNode, "insert")
  /\ UNCHANGED trapped

InsertUnique(t, k) ==
  /\ Usable(t) /\ ~Fresh(t)
  /\ \/ /\ EqualRange(t, k) # {}
        /\ result' = Iterator("insert", At(Chain(t, k), FindNode(t, k)))
        /\ UNCHANGED <<bucket, node_count, val>>
     \/ /\ EqualRange(t, k) = {} /\ Free # {}
        /\ Insertion(t, k, NewNode, "insert")
  /\ UNCHANGED trapped

\* Mutant: insert_multiple() inserts at the head of the chain.
InsertMultipleFront(t, k) ==
  /\ Usable(t) /\ ~Fresh(t) /\ Free # {}
  /\ LET n == NewNode
         v == WithKey(n, k)
         chains == [bucket[t] EXCEPT ![HashKey(k, Len(bucket[t]))] = <<n>> \o @]
     IN  /\ val' = v
         /\ bucket' = [bucket EXCEPT ![t] = Resize(v, chains, node_count[t] + 1)]
         /\ node_count' = [node_count EXCEPT ![t] = @ + 1]
         /\ result' = [NoResult EXCEPT !.op = "insert_multiple", !.it = n, !.inserted = TRUE]
  /\ UNCHANGED trapped

InsertMultiple(t, k) ==
  /\ Usable(t) /\ ~Fresh(t) /\ Free # {}
  /\ Insertion(t, k, NewNode, "insert_multiple")
  /\ UNCHANGED trapped

SizeLeft(t, removed) == node_count[t] - Cardinality(removed)

\* Mutant: `last' is erased too.
ErasedThrough(t, first, last) ==
  LET flat == Flat(t)
      from == SelectInSeq(flat, LAMBDA n : val[n] = val[first])
      to   == IF last = End THEN Len(flat) ELSE Place(flat, last)
  IN  {flat[i] : i \in from .. to}

\* The nodes from the first one with the key of `first' up to `last' are
\* unlinked and deleted.
Erased(t, first, last) ==
  LET flat == Flat(t)
      from == SelectInSeq(flat, LAMBDA n : val[n] = val[first])
      to   == IF last = End THEN Len(flat) ELSE Place(flat, last) - 1
  IN  {flat[i] : i \in from .. to}

Without(chain, removed) ==
  LET kept == {i \in DOMAIN chain : chain[i] \notin removed}
  IN  Moved(chain, kept, [i \in kept |-> {j \in kept : j < i}])

WithoutNodes(chains, removed) == [b \in DOMAIN chains |-> Without(chains[b], removed)]

Unlink(t, removed, op) ==
  LET left == WithoutNodes(bucket[t], removed)
  IN  /\ val' = Restrict(val, allocated \ removed)
      /\ bucket' = [bucket EXCEPT ![t] = Resize(val, left, SizeLeft(t, removed))]
      /\ node_count' = [node_count EXCEPT ![t] = SizeLeft(t, removed)]
      /\ result' = Iterator(op, End)
      /\ UNCHANGED trapped

\* erase(first, last), for a range that the caller got by iterating.
EraseRange(t, first, last) ==
  /\ Usable(t)
  /\ first \in Linked(t)
  /\ last = End \/ Place(Flat(t), first) < Place(Flat(t), last)
  /\ Unlink(t, Erased(t, first, last), "erase_range")

\* hash_map::erase(key): erase(i, i + 1) for i = find(key), unless that is end().
EraseKey(t, k) ==
  /\ Usable(t) /\ ~Fresh(t)
  /\ \/ /\ EqualRange(t, k) = {}
        /\ result' = Iterator("erase", End)
        /\ UNCHANGED <<bucket, node_count, val, trapped>>
     \/ /\ EqualRange(t, k) # {}
        /\ LET i == At(Chain(t, k), FindNode(t, k))
           IN  Unlink(t, Erased(t, i, Successor(t, i)), "erase")

Clear(t) ==
  /\ ~trapped
  /\ val' = Restrict(val, allocated \ Linked(t))
  /\ bucket' = [bucket EXCEPT ![t] = Resize(val, @, 0)]
  /\ node_count' = [node_count EXCEPT ![t] = 0]
  /\ result' = NoResult
  /\ UNCHANGED trapped

-----------------------------------------------------------------------------
(* Two tables                                                                *)

Swap(t, u) ==
  /\ ~trapped /\ t # u
  /\ bucket' = [bucket EXCEPT ![t] = bucket[u], ![u] = bucket[t]]
  /\ node_count' = [node_count EXCEPT ![t] = node_count[u], ![u] = node_count[t]]
  /\ result' = NoResult
  /\ UNCHANGED <<val, trapped>>

\* copy_bucket(), for every chain.
CopyOf(chains, copy) ==
  [b \in DOMAIN chains |-> [i \in DOMAIN chains[b] |-> copy[chains[b][i]]]]

\* operator=: the copy constructor copies every node of u, the copy is
\* swapped in, and the old nodes go with the temporary.
Assign(t, u) ==
  LET old      == Flat(u)
      new      == SetToSeq(Free)
      copy     == [n \in Linked(u) |-> new[Place(old, n)]]
      original == AntiFunction(copy)
  IN  /\ ~trapped /\ Cardinality(Free) >= Len(old)
      /\ val' = [n \in DOMAIN original \cup (allocated \ Linked(t)) |->
                   val[IF n \in DOMAIN original THEN original[n] ELSE n]]
      /\ bucket' = [bucket EXCEPT ![t] = CopyOf(bucket[u], copy)]
      /\ node_count' = [node_count EXCEPT ![t] = node_count[u]]
      /\ result' = NoResult
      /\ UNCHANGED trapped

-----------------------------------------------------------------------------
(* Observers                                                                 *)

\* find(key): equal_range(key).first.
Find(t, k) ==
  /\ Usable(t) /\ ~Fresh(t)
  /\ result' = [op |-> "find", it |-> At(Chain(t, k), FindNode(t, k)),
                inserted |-> FALSE, range |-> EqualRange(t, k)]
  /\ UNCHANGED <<bucket, node_count, val, trapped>>

\* begin() goes on while the chain is NOT empty: to the end of the vector, and
\* then it reads what is behind it, or to an empty chain.
Begin(t) ==
  /\ Usable(t)
  /\ result' = Iterator("begin", IF \A b \in DOMAIN bucket[t] : bucket[t][b] # <<>>
                        THEN Garbage ELSE End)
  /\ UNCHANGED <<bucket, node_count, val, trapped>>

Next ==
  \E t \in Tables :
    \/ Trap(t) \/ Clear(t) \/ Begin(t)
    \/ \E k \in Keys : InsertUnique(t, k) \/ InsertMultiple(t, k) \/ EraseKey(t, k) \/ Find(t, k)
    \/ \E first \in Linked(t), last \in Linked(t) \cup {End} : EraseRange(t, first, last)
    \/ \E u \in Tables : Swap(t, u) \/ Assign(t, u)

Spec == Init /\ [][Next]_vars

-----------------------------------------------------------------------------
(* Properties                                                                *)

\* Every variable keeps its type.
TypeOK ==
  /\ bucket \in [Tables -> Seq(Seq(Nodes))]
  /\ node_count \in [Tables -> Nat]
  /\ allocated \subseteq Nodes /\ \A n \in allocated : val[n] \in Keys
  /\ result.it \in Nodes \cup {End, Garbage}
  /\ result.range \subseteq Nodes

\* Every node is in the chain in which find_node() looks for its key, however
\* often the table has been rehashed and whatever else has happened since.
ChainsHashed ==
  \A t \in Tables : \A b \in DOMAIN bucket[t] : \A n \in ToSet(bucket[t][b]) :
    HashKey(val[n], Len(bucket[t])) = b

\* Every node that exists is linked in one place: no node is leaked, deleted
\* twice, or reached after it was deleted.
NodesOwned ==
  /\ \A t \in Tables : IsInjective(Flat(t))
  /\ \A t, u \in Tables : t # u => Linked(t) \cap Linked(u) = {}
  /\ UNION {Linked(t) : t \in Tables} = allocated

\* size() is the number of nodes, and the chains are never longer on average
\* than they may be.
CountIsNodes ==
  \A t \in Tables :
    /\ node_count[t] = Len(Flat(t))
    /\ ~Fresh(t) => node_count[t] < AvgBucketCount * Len(bucket[t])

\* Elements with equal keys are neighbours, also after a rehash: equal_range()
\* and erase() take them to be.
KeysGrouped ==
  \A t \in Tables : LET flat == Flat(t) IN
    \A i, j \in DOMAIN flat : val[flat[i]] = val[flat[j]] =>
      \A m \in i .. j : val[flat[m]] = val[flat[i]]

\* find() and equal_range() find exactly what is there (hash_map.hh:136,
\* table.hh:159).
FindExact ==
  [][\A t \in Tables, k \in Keys : result'.op = "find" /\ Find(t, k) =>
       /\ result'.range = {n \in Linked(t) : val[n] = k}
       /\ result'.it \in result'.range \/ (result'.it = End /\ result'.range = {})]_vars

\* Going on from any element with ++ reaches all the elements behind it.
SuccessorIterates ==
  \A t \in Tables : LET flat == Flat(t) IN
    \A i \in DOMAIN flat : Successor(t, flat[i]) = At(flat, i + 1)

\* The representation is sound after every call.
WellFormed ==
  TypeOK /\ ChainsHashed /\ NodesOwned /\ CountIsNodes /\ KeysGrouped /\ SuccessorIterates

\* The elements of [first, last[, as a caller sees them.
RangeFrom(t, first, last) ==
  LET flat == Flat(t)
      to   == IF last = End THEN Len(flat) ELSE Place(flat, last) - 1
  IN  {flat[i] : i \in Place(flat, first) .. to}

\* The elements with the key of `first' that come before it.
AheadOf(t, first) ==
  LET flat == Flat(t)
  IN  {n \in Linked(t) : val[n] = val[first] /\ Place(flat, n) < Place(flat, first)}

\* erase(first, last) looks its first element up by key. So it takes [first, last[,
\* as the documentation says (table.hh:175), and with it the elements in front
\* of first with an equal key, if there are any, which nobody has asked it to
\* (table.tcc:61). Nothing else leaves the table, and nothing comes in.
RangeErased ==
  [][\A t \in Tables : \A first \in Linked(t), last \in Linked(t) \cup {End} :
       result'.op = "erase_range" /\ EraseRange(t, first, last) =>
         /\ Linked(t) \ Linked(t)' = RangeFrom(t, first, last) \cup AheadOf(t, first)
         /\ Linked(t)' \subseteq Linked(t)]_vars

\* insert returns an iterator that points to the element with the inserted key
\* (hash_map.hh:158, table.hh:186).
InsertReturnsElement ==
  result.op \in {"insert", "insert_multiple"} => result.it \in allocated

\* A table is a bag of keys, and a hash_map or a hash_set, which insert with
\* insert_unique() only, a set of them: see KeyBag.
contents == [t \in Tables |->
  LET linked == Linked(t) IN [k \in Keys |-> Cardinality({n \in linked : val[n] = k})]]
answer   == [op |-> result.op,
             said |-> result.inserted \/ (result.op = "find" /\ result.it # End)]
Bag == INSTANCE KeyBag WITH contents <- contents, answer <- answer
ImplementsKeyBag == Bag!Spec

=============================================================================
