------------------------- MODULE UndirectedDfsProofs -------------------------
(***************************************************************************)
(* Proofs about the depth first visit, for any graph, any terminators and  *)
(* any order of the calls: the visit is sound, edges are classified right, *)
(* and undirected_dfs() leaves a spanning forest.  The first section is    *)
(* about the iterators that the visit uses: an iterator_sequence makes one *)
(* sequence of two.  The last one is about the other views of the graph:   *)
(* degrees, edges, neighbours and edge() are of one undirected graph.      *)
(***************************************************************************)
EXTENDS GraphViews, FiniteSetTheorems, SequenceTheorems, TLAPS

-----------------------------------------------------------------------------
(* The two ranges of an iterator_sequence act as one, for ranges of any    *)
(* length.                                                                 *)

It(f, e, b, c) == [m_first |-> f, m_first_end |-> e, m_second_begin |-> b, m_second |-> c]

\* What the moves do to each field.
LEMMA Steps ==
  ASSUME NEW f, NEW e, NEW b, NEW c
  PROVE  /\ Increment(It(f, e, b, c)) = IF f # e THEN It(f + 1, e, b, c) ELSE It(f, e, b, c + 1)
         /\ Decrement(It(f, e, b, c)) = IF c = b THEN It(f - 1, e, b, c) ELSE It(f, e, b, c - 1)
  BY DEF Increment, InFirst, Decrement, To, It

LEMMA Moves ==
  ASSUME NEW f, NEW e, NEW b, NEW c, NEW n
  PROVE  /\ Forward(It(f, e, b, c), n) =
              IF e - f > n THEN It(f + n, e, b, c) ELSE It(e, e, b, c + (n - (e - f)))
         /\ Backward(It(f, e, b, c), n) =
              IF b - c < n THEN It(f, e, b, c + n) ELSE It(f + (n - (b - c)), e, b, b)
  BY DEF Forward, Backward, To, It

\* The two halves of At.
LEMMA AtFirst ==
  ASSUME NEW s, NEW t, NEW k, k < Len(s)
  PROVE  At(s, t, k) = It(k + 1, Len(s) + 1, 1, 1)
  BY DEF At, It

LEMMA AtSecond ==
  ASSUME NEW s, NEW t, NEW k, ~(k < Len(s))
  PROVE  At(s, t, k) = It(Len(s) + 1, Len(s) + 1, 1, k - Len(s) + 1)
  BY DEF At, It

\* advance() takes any position to any other one.
LEMMA AdvanceReaches ==
  ASSUME NEW S, NEW s \in Seq(S), NEW t \in Seq(S),
         NEW k \in 0 .. Len(s) + Len(t), NEW m \in 0 .. Len(s) + Len(t)
  PROVE  Advance(At(s, t, k), m - k) = At(s, t, m)
<1> DEFINE a == Len(s)
           n == m - k
<1>1. a \in Int /\ k \in Int /\ m \in Int /\ n \in Int
  OBVIOUS
<1>2. n = m - k
  OBVIOUS
<1>3. k < a => At(s, t, k) = It(k + 1, a + 1, 1, 1)
  BY <1>1, AtFirst
<1>4. ~(k < a) => At(s, t, k) = It(a + 1, a + 1, 1, k - a + 1)
  BY <1>1, AtSecond
<1>5. m < a => At(s, t, m) = It(m + 1, a + 1, 1, 1)
  BY <1>1, AtFirst
<1>6. ~(m < a) => At(s, t, m) = It(a + 1, a + 1, 1, m - a + 1)
  BY <1>1, AtSecond
<1> HIDE DEF a, n
<1>7. CASE n > 0 /\ k < a /\ m < a
  <2>1. a + 1 - (k + 1) > n /\ k + 1 + n = m + 1
    BY <1>1, <1>2, <1>7
  <2>2. Forward(It(k + 1, a + 1, 1, 1), n) = It(m + 1, a + 1, 1, 1)
    BY <1>1, <2>1, Moves
  <2> QED
    BY <1>2, <1>3, <1>4, <1>5, <1>6, <1>7, <2>1, <2>2 DEF Advance
<1>8. CASE n > 0 /\ k < a /\ ~(m < a)
  <2>1. ~(a + 1 - (k + 1) > n) /\ 1 + (n - (a + 1 - (k + 1))) = m - a + 1
    BY <1>1, <1>2, <1>8
  <2>2. Forward(It(k + 1, a + 1, 1, 1), n) = It(a + 1, a + 1, 1, m - a + 1)
    BY <1>1, <2>1, Moves
  <2> QED
    BY <1>2, <1>3, <1>4, <1>5, <1>6, <1>8, <2>1, <2>2 DEF Advance
<1>9. CASE n > 0 /\ ~(k < a)
  <2>1. ~(a + 1 - (a + 1) > n) /\ k - a + 1 + (n - (a + 1 - (a + 1))) = m - a + 1 /\ ~(m < a)
    BY <1>1, <1>2, <1>9
  <2>2. Forward(It(a + 1, a + 1, 1, k - a + 1), n) = It(a + 1, a + 1, 1, m - a + 1)
    BY <1>1, <2>1, Moves
  <2> QED
    BY <1>2, <1>3, <1>4, <1>5, <1>6, <1>9, <2>1, <2>2 DEF Advance
<1>10. CASE ~(n > 0) /\ k < a
  <2>1. ~(1 - 1 < n) /\ k + 1 + (n - (1 - 1)) = m + 1 /\ m < a
    BY <1>1, <1>2, <1>10
  <2>2. Backward(It(k + 1, a + 1, 1, 1), n) = It(m + 1, a + 1, 1, 1)
    BY <1>1, <2>1, Moves
  <2> QED
    BY <1>2, <1>3, <1>4, <1>5, <1>6, <1>10, <2>1, <2>2 DEF Advance
<1>11. CASE ~(n > 0) /\ ~(k < a) /\ m < a
  <2>1. ~(1 - (k - a + 1) < n) /\ a + 1 + (n - (1 - (k - a + 1))) = m + 1
    BY <1>1, <1>2, <1>11
  <2>2. Backward(It(a + 1, a + 1, 1, k - a + 1), n) =
          IF 1 - (k - a + 1) < n THEN It(a + 1, a + 1, 1, k - a + 1 + n)
          ELSE It(a + 1 + (n - (1 - (k - a + 1))), a + 1, 1, 1)
    BY Moves
  <2>3. Backward(It(a + 1, a + 1, 1, k - a + 1), n) = It(m + 1, a + 1, 1, 1)
    BY <1>1, <2>1, <2>2
  <2> QED
    BY <1>2, <1>3, <1>4, <1>5, <1>6, <1>11, <2>1, <2>3 DEF Advance
<1>12. CASE ~(n > 0) /\ ~(m < a)
  <2>1. ~(k < a) /\ (1 - (k - a + 1) < n => k - a + 1 + n = m - a + 1)
    BY <1>1, <1>2, <1>12
  <2>2. ~(1 - (k - a + 1) < n) => a + 1 + (n - (1 - (k - a + 1))) = a + 1 /\ 1 = m - a + 1
    BY <1>1, <1>2, <1>12
  <2>3. Backward(It(a + 1, a + 1, 1, k - a + 1), n) = It(a + 1, a + 1, 1, m - a + 1)
    BY <1>1, <2>1, <2>2, Moves
  <2> QED
    BY <1>2, <1>3, <1>4, <1>5, <1>6, <1>12, <2>1, <2>3 DEF Advance
<1> QED
  BY <1>7, <1>8, <1>9, <1>10, <1>11, <1>12

\* increment() and decrement() are the moves to the next position and back.
LEMMA IncrementReaches ==
  ASSUME NEW S, NEW s \in Seq(S), NEW t, NEW k \in Nat
  PROVE  /\ Increment(At(s, t, k)) = At(s, t, k + 1)
         /\ Decrement(At(s, t, k + 1)) = At(s, t, k)
<1> DEFINE a == Len(s)
           l == k + 1
<1>1. a \in Nat /\ k \in Nat /\ l = k + 1
  OBVIOUS
<1>2. k < a => At(s, t, k) = It(k + 1, a + 1, 1, 1)
  BY AtFirst
<1>3. ~(k < a) => At(s, t, k) = It(a + 1, a + 1, 1, k - a + 1)
  BY AtSecond
<1>4. l < a => At(s, t, l) = It(l + 1, a + 1, 1, 1)
  BY AtFirst
<1>5. ~(l < a) => At(s, t, l) = It(a + 1, a + 1, 1, l - a + 1)
  BY AtSecond
<1> HIDE DEF a, l
<1>6. CASE l < a
  <2>1. k < a /\ k + 1 # a + 1 /\ k + 1 + 1 = l + 1 /\ l + 1 - 1 = k + 1
    BY <1>1, <1>6
  <2>2. Increment(It(k + 1, a + 1, 1, 1)) = It(l + 1, a + 1, 1, 1)
    BY <1>1, <2>1, Steps
  <2>3. Decrement(It(l + 1, a + 1, 1, 1)) = It(k + 1, a + 1, 1, 1)
    BY <1>1, <2>1, Steps
  <2> QED
    BY <1>2, <1>4, <1>6, <2>1, <2>2, <2>3 DEF l
<1>7. CASE l = a
  <2>1. /\ k < a /\ ~(l < a) /\ k + 1 # a + 1 /\ k + 1 + 1 = a + 1
        /\ l - a + 1 = 1 /\ a + 1 - 1 = k + 1
    BY <1>1, <1>7
  <2>2. Increment(It(k + 1, a + 1, 1, 1)) = It(a + 1, a + 1, 1, l - a + 1)
    BY <1>1, <2>1, Steps
  <2>3. Decrement(It(a + 1, a + 1, 1, l - a + 1)) = It(k + 1, a + 1, 1, 1)
    BY <1>1, <2>1, Steps
  <2> QED
    BY <1>2, <1>5, <2>1, <2>2, <2>3 DEF l
<1>8. CASE l > a
  <2>1. /\ ~(k < a) /\ ~(l < a) /\ l - a + 1 # 1
        /\ k - a + 1 + 1 = l - a + 1 /\ l - a + 1 - 1 = k - a + 1
    BY <1>1, <1>8
  <2>2. Increment(It(a + 1, a + 1, 1, k - a + 1)) = It(a + 1, a + 1, 1, l - a + 1)
    BY <1>1, <2>1, Steps
  <2>3. Decrement(It(a + 1, a + 1, 1, l - a + 1)) = It(a + 1, a + 1, 1, k - a + 1)
    BY <1>1, <2>1, Steps
  <2> QED
    BY <1>3, <1>5, <2>1, <2>2, <2>3 DEF l
<1> QED
  BY <1>1, <1>6, <1>7, <1>8

\* What an iterator stands for is an element of the concatenation.
LEMMA DereferenceElement ==
  ASSUME NEW S, NEW s \in Seq(S), NEW t \in Seq(S), NEW k \in 0 .. Len(s) + Len(t) - 1
  PROVE  Dereference(At(s, t, k), s, t) = (s \o t)[k + 1]
<1>1. Len(s) \in Nat /\ Len(t) \in Nat /\ k \in Int
  OBVIOUS
<1>2. CASE k < Len(s)
  <2>1. k + 1 \in 1 .. Len(s) /\ k + 1 # Len(s) + 1
    BY <1>1, <1>2
  <2>2. Dereference(It(k + 1, Len(s) + 1, 1, 1), s, t) = s[k + 1]
    BY <2>1 DEF Dereference, InFirst, It
  <2>3. (s \o t)[k + 1] = s[k + 1]
    BY <2>1
  <2> QED
    BY <1>2, <2>2, <2>3, AtFirst
<1>3. CASE ~(k < Len(s))
  <2>1. k + 1 \in 1 .. Len(s) + Len(t) /\ k + 1 > Len(s) /\ (k + 1) - Len(s) = k - Len(s) + 1
    BY <1>1, <1>3
  <2>2. Dereference(It(Len(s) + 1, Len(s) + 1, 1, k - Len(s) + 1), s, t) = t[k - Len(s) + 1]
    BY DEF Dereference, InFirst, It
  <2>3. (s \o t)[k + 1] = t[k - Len(s) + 1]
    BY <2>1
  <2> QED
    BY <1>3, <2>2, <2>3, AtSecond
<1> QED
  BY <1>2, <1>3

\* Whichever way an iterator_sequence is moved, it goes through its first range
\* and then through its second one (iterator_sequence.hh:9, its increment(),
\* decrement(), advance() and distance_to()).
THEOREM OneSequence ==
  ASSUME NEW S, NEW s \in Seq(S), NEW t \in Seq(S)
  PROVE  ActsAsOne(s, t)
<1>1. Len(s) \in Nat /\ Len(t) \in Nat
  OBVIOUS
<1>2. ASSUME NEW k \in 0 .. Len(s) + Len(t)
      PROVE  /\ k < Len(s) + Len(t) =>
                  /\ Increment(At(s, t, k)) = At(s, t, k + 1)
                  /\ Dereference(At(s, t, k), s, t) = (s \o t)[k + 1]
             /\ k > 0 => Decrement(At(s, t, k)) = At(s, t, k - 1)
  <2>1. k \in Nat /\ (k < Len(s) + Len(t) => k \in 0 .. Len(s) + Len(t) - 1)
    BY <1>1
  <2>2. k > 0 => k - 1 \in Nat /\ (k - 1) + 1 = k
    BY <2>1
  <2>3. Increment(At(s, t, k)) = At(s, t, k + 1)
    BY <2>1, IncrementReaches
  <2>4. k < Len(s) + Len(t) => Dereference(At(s, t, k), s, t) = (s \o t)[k + 1]
    BY <2>1, DereferenceElement
  <2>5. ASSUME k > 0
        PROVE  Decrement(At(s, t, k)) = At(s, t, k - 1)
    <3>1. Decrement(At(s, t, (k - 1) + 1)) = At(s, t, k - 1)
      BY <2>2, <2>5, IncrementReaches
    <3> QED
      BY <2>2, <2>5, <3>1
  <2> QED
    BY <2>3, <2>4, <2>5
<1>3. ASSUME NEW k \in 0 .. Len(s) + Len(t)
      PROVE  Equal(At(s, t, k), End(s, t)) <=> k = Len(s) + Len(t)
  BY <1>1 DEF Equal, End, At
<1>4. ASSUME NEW k \in 0 .. Len(s) + Len(t), NEW m \in 0 .. Len(s) + Len(t)
      PROVE  /\ DistanceTo(At(s, t, k), At(s, t, m)) = m - k
             /\ Equal(At(s, t, k), At(s, t, m)) <=> k = m
  BY <1>1 DEF DistanceTo, Equal, At
<1> QED
  BY <1>2, <1>3, <1>4, AdvanceReaches DEF ActsAsOne

-----------------------------------------------------------------------------
(* What has been seen                                                        *)

\* An edge has two halves, each of which is an edge of the vertex it is seen
\* from.
Halves  == [edge : Edges, reverse : BOOLEAN]
HalvesOf(v) == {d \in Halves : Source(d) = v}

\* The iterators that the visit of v uses, and the halves in front of one.
IteratorOf(v, at) ==
  /\ at.m_first_end = Len(InEdges(v)) + 1
  /\ at.m_first \in 1 .. Len(InEdges(v)) + 1
  /\ at.m_second \in 1 .. Len(OutEdges(v)) + 1
  /\ InFirst(at) => at.m_second = 1
Before(v, at) ==
  {InEdges(v)[j] : j \in 1 .. at.m_first - 1} \cup {OutEdges(v)[j] : j \in 1 .. at.m_second - 1}

\* The frames of the visit with the current one on top.
FramesOf(st, v, at) == IF v = NoVertex THEN st ELSE Append(st, Frame(v, at))
Frames == FramesOf(stack, u, ei)

\* The halves that the visits have seen: all those of a vertex that is finished,
\* and some of those on the path, but none where a visit has stopped.
SeenIn(fr, colour, known) ==
  {d \in Halves :
     /\ Source(d) \notin known
     /\ \/ colour[Source(d)] = "black"
        \/ \E i \in 1 .. Len(fr) : fr[i].vertex = Source(d) /\ d \in Before(Source(d), fr[i].at)}

-----------------------------------------------------------------------------
(* The inductive invariant                                                   *)

Positions == [m_first : Nat, m_first_end : Nat, m_second_begin : Nat, m_second : Nat]
FrameType == [vertex : Vertices, at : Positions]
Colours == [Vertices -> {"white", "gray", "black"}]

\* Only the last vertex of the path may have been told to stop.
FramesOK(fr, known) ==
  \A i \in 1 .. Len(fr) :
    IF fr[i].vertex \in known THEN i = Len(fr) /\ Equal(fr[i].at, LastEdge(fr[i].vertex))
    ELSE IteratorOf(fr[i].vertex, fr[i].at)

\* The vertices of the frames are the gray ones.
GrayInFrames(fr, colour) ==
  /\ \A v \in Vertices : colour[v] = "gray" <=> \E i \in 1 .. Len(fr) : fr[i].vertex = v
  /\ \A i, j \in 1 .. Len(fr) : fr[i].vertex = fr[j].vertex => i = j

StoppedKnown(colour, known) == \A v \in known : colour[v] # "white"

\* v comes before w on the path, or right before.
Above(v, w, fr) == \E i, j \in 1 .. Len(fr) : i < j /\ fr[i].vertex = v /\ fr[j].vertex = w
RightAbove(v, w, fr) ==
  \E i, j \in 1 .. Len(fr) : j = i + 1 /\ fr[i].vertex = v /\ fr[j].vertex = w

\* What the visitor has been told of an edge of which one half has been seen,
\* from v, but not the other, at w.
TreeHalf(told, v, w, fr, colour) ==
  /\ told = <<"tree">> /\ v # w /\ colour[w] # "white"
  /\ colour[w] = "gray" => RightAbove(v, w, fr)
BackHalf(told, v, w, fr, colour, known) ==
  /\ told = <<"back">> /\ colour[w] = "gray" /\ w \notin known
  /\ v # w /\ colour[v] = "gray" => Above(w, v, fr)
StopHalf(told, v, w, colour, known) ==
  told = <<"forward_or_cross">> /\ v # w /\ colour[w] = "black" /\ w \in known
HalfSound(told, v, w, fr, colour, known) ==
  \/ TreeHalf(told, v, w, fr, colour) \/ BackHalf(told, v, w, fr, colour, known)
  \/ StopHalf(told, v, w, colour, known)

\* The two halves of an edge.
Out(e) == [edge |-> e, reverse |-> FALSE]
In(e)  == [edge |-> e, reverse |-> TRUE]

\* What the visitor has been told of an edge whose halves are d and f.
HalvesSound(d, f, seen, fr, told, mark, colour, known) ==
  /\ d \notin seen /\ f \notin seen => told = <<>> /\ mark = "white"
  /\ d \in seen \/ f \in seen => mark = "black"
  /\ d \in seen /\ f \notin seen => HalfSound(told, Source(d), Source(f), fr, colour, known)
  /\ d \notin seen /\ f \in seen => HalfSound(told, Source(f), Source(d), fr, colour, known)
  /\ d \in seen /\ f \in seen => \/ told = <<"tree">> /\ Source(d) # Source(f)
                                \/ told \in {<<"back">>, <<"back", "forward_or_cross">>}

EdgesSound(fr, colour, known, told, marks) ==
  \A e \in Edges : HalvesSound(Out(e), In(e), SeenIn(fr, colour, known), fr,
                              told[e], marks[e], colour, known)

\* Going down the path is going down the tree.
TreeIn(told) == {e \in Edges : told[e] = <<"tree">>}
TreePath(fr, tree) ==
  \A i, j \in 1 .. Len(fr) : j = i + 1 => \E e \in tree : Ends(e) = {fr[i].vertex, fr[j].vertex}

VisitIs(fr, colour, known, told, marks) ==
  /\ FramesOK(fr, known) /\ GrayInFrames(fr, colour) /\ StoppedKnown(colour, known)
  /\ EdgesSound(fr, colour, known, told, marks) /\ TreePath(fr, TreeIn(told))

Typed == TypeOK /\ stack \in Seq(FrameType) /\ ei \in Positions
VisitInv ==
  /\ Typed
  /\ VisitIs(Frames, vertex_color, stopped, calls, edge_color)

-----------------------------------------------------------------------------
(* The forest                                                                *)

Closed(S, es) == \A e \in es : Ends(e) \cap S # {} => Ends(e) \subseteq S
Joined(v, w, es) == \A S \in SUBSET Vertices : Closed(S, es) => (v \in S <=> w \in S)

\* The vertices on one side of a tree edge.
Side(S, e, es) == Closed(S, es \ {e}) /\ (graph[e][1] \in S <=> graph[e][2] \notin S)

ForestIs(fr, colour, told) ==
  /\ \A i, j \in 1 .. Len(fr) : Joined(fr[i].vertex, fr[j].vertex, TreeIn(told))
  /\ \A e \in Edges : told[e] \in {<<>>, <<"forward_or_cross">>}
                      \/ Joined(graph[e][1], graph[e][2], TreeIn(told))
  /\ \A e \in TreeIn(told) : \E S \in SUBSET Vertices :
       Side(S, e, TreeIn(told)) /\ \A v \in S : colour[v] # "white"
ForestInv == ForestIs(Frames, vertex_color, calls)

\* What undirected_dfs() has passed has been discovered, and nothing stops it.
LoopInv == ui # 0 => func = {} /\ stopped = {} /\ \A v \in 1 .. ui - 1 : vertex_color[v] # "white"

DfsInv == VisitInv /\ ForestInv /\ LoopInv

-----------------------------------------------------------------------------
(* The halves of a vertex, and the iterators over them                       *)

\* Numbers of edges and of vertices.
LEMMA EdgesFinite == IsFiniteSet(Edges) /\ Edges \subseteq Nat /\ Vertices \subseteq Nat
                     /\ NoVertex \notin Vertices
  BY UndirectedDfsAssumption, FS_Interval DEF Edges, Vertices, NoVertex

\* s is a sequence in which each element of S is once.
Once(s, S) ==
  s \in Seq(S) /\ ToSet(s) = S /\ \A i, j \in DOMAIN s : s[i] = s[j] => i = j

\* Every element of a finite set is in the sequence of it, once.
LEMMA SetToSeqOnce == ASSUME NEW S, IsFiniteSet(S) PROVE Once(SetToSeq(S), S)
<1> DEFINE n == Cardinality(S)
<1>1. n \in Nat /\ \E f \in [1 .. n -> S] : IsInjective(f)
  BY FS_CardinalityType DEF ExistsBijection, Bijection, Injection
<1>2. SetToSeq(S) \in [1 .. n -> S] /\ IsInjective(SetToSeq(S))
  BY <1>1 DEF SetToSeq
<1>3. SetToSeq(S) \in Injection(1 .. n, S)
  BY <1>2 DEF Injection
<1>4. IsFiniteSet(1 .. n) /\ Cardinality(1 .. n) = n
  BY <1>1, FS_Interval
<1>5. SetToSeq(S) \in Surjection(1 .. n, S)
  BY <1>3, <1>4, FS_Injection
<1> HIDE DEF n
<1> QED
  BY <1>1, <1>2, <1>5 DEF Once, IsInjective, Surjection, ToSet

\* So does its image under a function that keeps its elements apart.
MapSeq(f, es) == [i \in DOMAIN es |-> f[es[i]]]

LEMMA MapOnce ==
  ASSUME NEW S, NEW T, NEW f \in [S -> T], \A x, y \in S : f[x] = f[y] => x = y,
         NEW E \in SUBSET S, IsFiniteSet(E)
  PROVE  Once(MapSeq(f, SetToSeq(E)), {f[e] : e \in E})
<1>1. PICK es : es = SetToSeq(E)
  OBVIOUS
<1>2. Once(es, E)
  BY <1>1, SetToSeqOnce
<1>3. DOMAIN es = 1 .. Len(es) /\ Len(es) \in Nat /\ \A i \in 1 .. Len(es) : es[i] \in E /\ es[i] \in S
  BY <1>2 DEF Once
<1> DEFINE ds == MapSeq(f, es)
           D == {f[e] : e \in E}
<1>4. \A i \in 1 .. Len(es) : ds[i] = f[es[i]] /\ ds[i] \in D
  BY <1>3 DEF MapSeq
<1>5. ds \in Seq(D) /\ Len(ds) = Len(es) /\ DOMAIN ds = 1 .. Len(es)
  BY <1>3, <1>4 DEF MapSeq
<1> HIDE DEF ds
<1>6. \A i, j \in DOMAIN ds : ds[i] = ds[j] => i = j
  BY <1>2, <1>3, <1>4, <1>5 DEF Once
<1>7. ToSet(ds) = D
  BY <1>2, <1>3, <1>4, <1>5 DEF ToSet, Once
<1> HIDE DEF D
<1>8. Once(ds, D)
  BY <1>5, <1>6, <1>7 DEF Once
<1> QED
  BY <1>1, <1>8 DEF ds, D

\* The edges of a vertex are its halves, the reversed ones first.
LEMMA HalvesInOrder ==
  ASSUME graph \in Graphs, NEW v
  PROVE  /\ Once(InEdges(v), {d \in HalvesOf(v) : d.reverse})
         /\ Once(OutEdges(v), {d \in HalvesOf(v) : ~d.reverse})
<1> DEFINE Ins  == {e \in Edges : graph[e][2] = v}
           Outs == {e \in Edges : graph[e][1] = v}
           f == [e \in Edges |-> [edge |-> e, reverse |-> TRUE]]
           g == [e \in Edges |-> [edge |-> e, reverse |-> FALSE]]
<1>1. IsFiniteSet(Ins) /\ IsFiniteSet(Outs) /\ Ins \in SUBSET Edges /\ Outs \in SUBSET Edges
  BY EdgesFinite, FS_Subset
<1>2. /\ f \in [Edges -> Halves] /\ g \in [Edges -> Halves]
      /\ \A e \in Edges : f[e] = [edge |-> e, reverse |-> TRUE] /\ g[e] = [edge |-> e, reverse |-> FALSE]
  BY DEF Halves
<1>3. /\ \A d \in Halves : d.edge \in Edges /\ d = [edge |-> d.edge, reverse |-> d.reverse]
      /\ \A d \in Halves : d.reverse => d = [edge |-> d.edge, reverse |-> TRUE]
      /\ \A d \in Halves : ~d.reverse => d = [edge |-> d.edge, reverse |-> FALSE]
  BY DEF Halves
<1> HIDE DEF f, g
<1>4. InEdges(v) = MapSeq(f, SetToSeq(Ins))
  <2>1. PICK es \in Seq(Ins) : es = SetToSeq(Ins)
    <3> HIDE DEF Ins
    <3> QED
      BY <1>1, SetToSeqOnce DEF Once
  <2>2. ASSUME NEW i \in DOMAIN es PROVE f[es[i]] = [edge |-> es[i], reverse |-> TRUE]
    <3> HIDE DEF Ins
    <3>1. es[i] \in Ins /\ Ins \subseteq Edges
      BY <1>1
    <3> QED
      BY <1>2, <3>1
  <2>3. InEdges(v) = [i \in DOMAIN es |-> [edge |-> es[i], reverse |-> TRUE]]
    BY <2>1, Zenon DEF InEdges
  <2> HIDE DEF Ins
  <2> QED
    BY <2>1, <2>2, <2>3, Zenon DEF MapSeq
<1>5. OutEdges(v) = MapSeq(g, SetToSeq(Outs))
  <2>1. PICK es \in Seq(Outs) : es = SetToSeq(Outs)
    <3> HIDE DEF Outs
    <3> QED
      BY <1>1, SetToSeqOnce DEF Once
  <2>2. ASSUME NEW i \in DOMAIN es PROVE g[es[i]] = [edge |-> es[i], reverse |-> FALSE]
    <3> HIDE DEF Outs
    <3>1. es[i] \in Outs /\ Outs \subseteq Edges
      BY <1>1
    <3> QED
      BY <1>2, <3>1
  <2>3. OutEdges(v) = [i \in DOMAIN es |-> [edge |-> es[i], reverse |-> FALSE]]
    BY <2>1, Zenon DEF OutEdges
  <2> HIDE DEF Outs
  <2> QED
    BY <2>1, <2>2, <2>3, Zenon DEF MapSeq
<1>6. ASSUME NEW d PROVE (\E e \in Ins : d = f[e]) <=> d \in HalvesOf(v) /\ d.reverse
  <2>1. ASSUME NEW e \in Ins, d = f[e] PROVE d \in HalvesOf(v) /\ d.reverse
    BY <1>1, <1>2, <2>1 DEF HalvesOf, Source, Halves
  <2>2. ASSUME d \in HalvesOf(v), d.reverse PROVE d.edge \in Ins /\ d = f[d.edge]
    <3>1. d \in Halves /\ Source(d) = v
      BY <2>2 DEF HalvesOf
    <3>2. graph[d.edge][2] = v /\ d.edge \in Edges
      BY <1>3, <2>2, <3>1 DEF Source
    <3> QED
      BY <1>2, <1>3, <2>2, <3>1, <3>2, Zenon
  <2> QED
    BY <2>1, <2>2
<1>7. ASSUME NEW d PROVE (\E e \in Outs : d = g[e]) <=> d \in HalvesOf(v) /\ ~d.reverse
  <2>1. ASSUME NEW e \in Outs, d = g[e] PROVE d \in HalvesOf(v) /\ ~d.reverse
    BY <1>1, <1>2, <2>1 DEF HalvesOf, Source, Halves
  <2>2. ASSUME d \in HalvesOf(v), ~d.reverse PROVE d.edge \in Outs /\ d = g[d.edge]
    <3>1. d \in Halves /\ Source(d) = v
      BY <2>2 DEF HalvesOf
    <3>2. graph[d.edge][1] = v /\ d.edge \in Edges
      BY <1>3, <2>2, <3>1 DEF Source
    <3> QED
      BY <1>2, <1>3, <2>2, <3>1, <3>2, Zenon
  <2> QED
    BY <2>1, <2>2
<1> HIDE DEF Ins, Outs
<1>8. (\A x, y \in Edges : f[x] = f[y] => x = y) /\ \A x, y \in Edges : g[x] = g[y] => x = y
  BY <1>2
<1>9. Once(InEdges(v), {f[e] : e \in Ins})
  <2>1. f \in [Edges -> Halves] /\ \A x, y \in Edges : f[x] = f[y] => x = y
    BY <1>2, <1>8
  <2> QED
    BY <1>1, <1>4, <2>1, MapOnce
<1>10. Once(OutEdges(v), {g[e] : e \in Outs})
  <2>1. g \in [Edges -> Halves] /\ \A x, y \in Edges : g[x] = g[y] => x = y
    BY <1>2, <1>8
  <2> QED
    BY <1>1, <1>5, <2>1, MapOnce
<1>11. {f[e] : e \in Ins} = {d \in HalvesOf(v) : d.reverse}
  BY <1>6
<1>12. {g[e] : e \in Outs} = {d \in HalvesOf(v) : ~d.reverse}
  BY <1>7
<1> QED
  BY <1>9, <1>10, <1>11, <1>12

\* The halves of a vertex are in one of the two sequences, in one place.
LEMMA HalfPlaces ==
  ASSUME graph \in Graphs, NEW v
  PROVE  /\ Len(InEdges(v)) \in Nat /\ Len(OutEdges(v)) \in Nat
         /\ \A i \in 1 .. Len(InEdges(v)) : InEdges(v)[i] \in HalvesOf(v) /\ InEdges(v)[i].reverse
         /\ \A i \in 1 .. Len(OutEdges(v)) : OutEdges(v)[i] \in HalvesOf(v) /\ ~OutEdges(v)[i].reverse
         /\ \A i, j \in 1 .. Len(InEdges(v)) : InEdges(v)[i] = InEdges(v)[j] => i = j
         /\ \A i, j \in 1 .. Len(OutEdges(v)) : OutEdges(v)[i] = OutEdges(v)[j] => i = j
         /\ \A d \in HalvesOf(v) : \/ \E i \in 1 .. Len(InEdges(v)) : d = InEdges(v)[i]
                                   \/ \E i \in 1 .. Len(OutEdges(v)) : d = OutEdges(v)[i]
<1>1. PICK s, D : s = InEdges(v) /\ D = {d \in HalvesOf(v) : d.reverse} /\ Once(s, D)
  BY HalvesInOrder
<1>2. PICK t, E : t = OutEdges(v) /\ E = {d \in HalvesOf(v) : ~d.reverse} /\ Once(t, E)
  BY HalvesInOrder
<1>3. /\ DOMAIN s = 1 .. Len(s) /\ Len(s) \in Nat /\ \A i \in 1 .. Len(s) : s[i] \in D
      /\ \A i, j \in 1 .. Len(s) : s[i] = s[j] => i = j
      /\ \A d \in D : \E i \in 1 .. Len(s) : d = s[i]
  BY <1>1 DEF Once, ToSet
<1>4. /\ DOMAIN t = 1 .. Len(t) /\ Len(t) \in Nat /\ \A i \in 1 .. Len(t) : t[i] \in E
      /\ \A i, j \in 1 .. Len(t) : t[i] = t[j] => i = j
      /\ \A d \in E : \E i \in 1 .. Len(t) : d = t[i]
  BY <1>2 DEF Once, ToSet
<1>5. /\ \A d \in D : d \in HalvesOf(v) /\ d.reverse
      /\ \A d \in E : d \in HalvesOf(v) /\ ~d.reverse
      /\ \A d \in HalvesOf(v) : d \in D \/ d \in E
  BY <1>1, <1>2
<1> QED
  BY <1>1, <1>2, <1>3, <1>4, <1>5

\* Nothing is in front of the first iterator.
LEMMA FirstIterator ==
  ASSUME graph \in Graphs, NEW v
  PROVE  /\ IteratorOf(v, FirstEdge(v)) /\ FirstEdge(v) \in Positions
         /\ Before(v, FirstEdge(v)) = {}
<1>1. Len(InEdges(v)) \in Nat /\ Len(OutEdges(v)) \in Nat
  BY HalfPlaces
<1>2. /\ FirstEdge(v).m_first = 1 /\ FirstEdge(v).m_second = 1
      /\ FirstEdge(v).m_first_end = Len(InEdges(v)) + 1 /\ FirstEdge(v) \in Positions
  BY <1>1 DEF FirstEdge, Begin, Positions
<1>3. 1 .. 1 - 1 = {}
  OBVIOUS
<1> QED
  BY <1>1, <1>2, <1>3 DEF IteratorOf, Before, InFirst

\* The end iterators of the two sequences.
LEMMA LastPosition ==
  ASSUME graph \in Graphs, NEW v
  PROVE  /\ LastEdge(v) \in Positions
         /\ LastEdge(v).m_first = Len(InEdges(v)) + 1 /\ LastEdge(v).m_second = Len(OutEdges(v)) + 1
<1>1. Len(InEdges(v)) \in Nat /\ Len(OutEdges(v)) \in Nat
  BY HalfPlaces
<1> QED
  BY <1>1 DEF LastEdge, End, Positions

\* Everything is in front of the last one.
LEMMA LastIterator ==
  ASSUME graph \in Graphs, NEW v, NEW at, IteratorOf(v, at), Equal(at, LastEdge(v))
  PROVE  HalvesOf(v) \subseteq Before(v, at)
<1>1. at.m_first = Len(InEdges(v)) + 1 /\ at.m_second = Len(OutEdges(v)) + 1
  BY LastPosition DEF Equal
<1>2. PICK m, n \in Nat : m = Len(InEdges(v)) /\ n = Len(OutEdges(v))
  BY HalfPlaces
<1>3. at.m_first - 1 = m /\ at.m_second - 1 = n
  BY <1>1, <1>2
<1>4. \A d \in HalvesOf(v) : (\E i \in 1 .. m : d = InEdges(v)[i]) \/ \E i \in 1 .. n : d = OutEdges(v)[i]
  BY <1>2, HalfPlaces
<1> QED
  BY <1>3, <1>4 DEF Before

\* What is in front of an iterator are halves of the vertex.
LEMMA BeforeWhat ==
  ASSUME graph \in Graphs, NEW v, NEW at, IteratorOf(v, at)
  PROVE  Before(v, at) \subseteq HalvesOf(v)
<1>1. PICK m, n \in Nat : m = Len(InEdges(v)) /\ n = Len(OutEdges(v))
  BY HalfPlaces
<1>2. at.m_first \in 1 .. m + 1 /\ at.m_second \in 1 .. n + 1
  BY <1>1 DEF IteratorOf
<1>3. \A j \in 1 .. at.m_first - 1 : j \in 1 .. m
  BY <1>2
<1>4. \A j \in 1 .. at.m_second - 1 : j \in 1 .. n
  BY <1>2
<1>5. (\A i \in 1 .. m : InEdges(v)[i] \in HalvesOf(v)) /\ \A i \in 1 .. n : OutEdges(v)[i] \in HalvesOf(v)
  BY <1>1, HalfPlaces
<1> QED
  BY <1>3, <1>4, <1>5 DEF Before

\* Another iterator has one more half of the vertex in front of it.
LEMMA NextIterator ==
  ASSUME graph \in Graphs, NEW v, NEW at \in Positions, IteratorOf(v, at), ~Equal(at, LastEdge(v)),
         NEW d, d = Dereference(at, InEdges(v), OutEdges(v))
  PROVE  /\ d \in HalvesOf(v) /\ d \notin Before(v, at)
         /\ IteratorOf(v, Increment(at)) /\ Increment(at) \in Positions
         /\ Before(v, Increment(at)) = Before(v, at) \cup {d}
<1>1. PICK m, n \in Nat : m = Len(InEdges(v)) /\ n = Len(OutEdges(v))
  BY HalfPlaces
<1>2. PICK a, b \in Nat : a = at.m_first /\ b = at.m_second
  BY DEF Positions
<1>3. /\ a \in 1 .. m + 1 /\ b \in 1 .. n + 1 /\ (a # m + 1 => b = 1)
      /\ at.m_first_end = m + 1 /\ (InFirst(at) <=> a # m + 1)
  BY <1>1, <1>2 DEF IteratorOf, InFirst
<1>4. a # m + 1 \/ b # n + 1
  BY <1>1, <1>2, LastPosition DEF Equal
<1>5. /\ \A i \in 1 .. m : InEdges(v)[i] \in HalvesOf(v) /\ InEdges(v)[i].reverse
      /\ \A i \in 1 .. n : OutEdges(v)[i] \in HalvesOf(v) /\ ~OutEdges(v)[i].reverse
      /\ \A i, j \in 1 .. m : InEdges(v)[i] = InEdges(v)[j] => i = j
      /\ \A i, j \in 1 .. n : OutEdges(v)[i] = OutEdges(v)[j] => i = j
  BY <1>1, HalfPlaces
<1>6. Before(v, at) = {InEdges(v)[j] : j \in 1 .. a - 1} \cup {OutEdges(v)[j] : j \in 1 .. b - 1}
  BY <1>2 DEF Before
<1>7. CASE a # m + 1
  <2>1. a \in 1 .. m /\ b = 1 /\ d = InEdges(v)[a]
    BY <1>2, <1>3, <1>7 DEF Dereference
  <2>2. d \in HalvesOf(v) /\ d.reverse
    BY <1>5, <2>1
  <2>3. d \notin Before(v, at)
    <3>1. \A j \in 1 .. a - 1 : j \in 1 .. m /\ j # a
      BY <2>1
    <3>2. 1 .. b - 1 = {}
      BY <2>1
    <3> QED
      BY <1>5, <1>6, <2>1, <3>1, <3>2
  <2>4. PICK i \in Positions : i = Increment(at)
    <3>1. /\ at.m_first \in Nat /\ at.m_second \in Nat
          /\ at.m_first_end \in Nat /\ at.m_second_begin \in Nat
      BY DEF Positions
    <3>2. To(at, at.m_first + 1, at.m_second) \in Positions
      BY <3>1 DEF To, Positions
    <3>3. Increment(at) = To(at, at.m_first + 1, at.m_second)
      BY <1>3, <1>7 DEF Increment
    <3> QED
      BY <3>2, <3>3
  <2>5. i.m_first = a + 1 /\ i.m_second = 1 /\ i.m_first_end = m + 1
    BY <1>2, <1>3, <1>7, <2>1, <2>4 DEF Increment, To
  <2>6. IteratorOf(v, i)
    BY <1>1, <2>1, <2>5 DEF IteratorOf
  <2>7. Before(v, i) = Before(v, at) \cup {d}
    <3>1. 1 .. (a + 1) - 1 = (1 .. a - 1) \cup {a} /\ 1 .. b - 1 = {} /\ 1 .. 1 - 1 = {}
      BY <2>1
    <3>2. Before(v, i) = {InEdges(v)[j] : j \in 1 .. (a + 1) - 1} \cup {OutEdges(v)[j] : j \in 1 .. 1 - 1}
      BY <2>5 DEF Before
    <3> QED
      BY <1>6, <2>1, <3>1, <3>2
  <2> QED
    BY <2>2, <2>3, <2>4, <2>6, <2>7
<1>8. CASE a = m + 1
  <2>1. b \in 1 .. n /\ d = OutEdges(v)[b]
    BY <1>2, <1>3, <1>4, <1>8 DEF Dereference
  <2>2. d \in HalvesOf(v) /\ ~d.reverse
    BY <1>5, <2>1
  <2>3. d \notin Before(v, at)
    <3>1. \A j \in 1 .. b - 1 : j \in 1 .. n /\ j # b
      BY <2>1
    <3>2. \A j \in 1 .. a - 1 : InEdges(v)[j].reverse
      BY <1>3, <1>5, <1>8
    <3> QED
      BY <1>5, <1>6, <2>1, <2>2, <3>1, <3>2
  <2>4. PICK i \in Positions : i = Increment(at)
    <3>1. /\ at.m_first \in Nat /\ at.m_second \in Nat
          /\ at.m_first_end \in Nat /\ at.m_second_begin \in Nat
      BY DEF Positions
    <3>2. To(at, at.m_first, at.m_second + 1) \in Positions
      BY <3>1 DEF To, Positions
    <3>3. Increment(at) = To(at, at.m_first, at.m_second + 1)
      BY <1>3, <1>8 DEF Increment
    <3> QED
      BY <3>2, <3>3
  <2>5. i.m_first = m + 1 /\ i.m_second = b + 1 /\ i.m_first_end = m + 1
    BY <1>2, <1>3, <1>8, <2>1, <2>4 DEF Increment, To
  <2>6. IteratorOf(v, i)
    BY <1>1, <2>1, <2>5 DEF IteratorOf, InFirst
  <2>7. Before(v, i) = Before(v, at) \cup {d}
    <3>1. 1 .. (b + 1) - 1 = (1 .. b - 1) \cup {b}
      BY <2>1
    <3>2. Before(v, i) = {InEdges(v)[j] : j \in 1 .. (m + 1) - 1} \cup {OutEdges(v)[j] : j \in 1 .. (b + 1) - 1}
      BY <2>5 DEF Before
    <3> QED
      BY <1>6, <1>8, <2>1, <3>1, <3>2
  <2> QED
    BY <2>2, <2>3, <2>4, <2>6, <2>7
<1> QED
  BY <1>7, <1>8

-----------------------------------------------------------------------------
(* What the steps do to the frames                                           *)

\* The three changes: the iterator on top goes on, a vertex is put on top, and
\* the one on top goes.
Moved(fr) ==
  [i \in 1 .. Len(fr) |->
     IF i = Len(fr) THEN Frame(fr[i].vertex, Increment(fr[i].at)) ELSE fr[i]]
Dropped(fr) == SubSeq(fr, 1, Len(fr) - 1)
OnTop(fr) == Dereference(fr[Len(fr)].at, InEdges(fr[Len(fr)].vertex), OutEdges(fr[Len(fr)].vertex))
AtEnd(fr) == Equal(fr[Len(fr)].at, LastEdge(fr[Len(fr)].vertex))

\* What a sequence of frames holds.
LEMMA FrameParts ==
  ASSUME NEW fr \in Seq(FrameType)
  PROVE  /\ Len(fr) \in Nat /\ DOMAIN fr = 1 .. Len(fr)
         /\ \A i \in 1 .. Len(fr) : fr[i].vertex \in Vertices /\ fr[i].at \in Positions
         /\ fr # <<>> => Len(fr) \in 1 .. Len(fr)
<1>1. \A f \in FrameType : f.vertex \in Vertices /\ f.at \in Positions
  BY DEF FrameType
<1>2. Len(fr) \in Nat /\ DOMAIN fr = 1 .. Len(fr) /\ \A i \in 1 .. Len(fr) : fr[i] \in FrameType
  OBVIOUS
<1>3. fr # <<>> => Len(fr) # 0
  BY EmptySeq
<1> QED
  BY <1>1, <1>2, <1>3

\* A frame and its parts.
LEMMA FrameIs ==
  ASSUME NEW v \in Vertices, NEW at \in Positions
  PROVE  Frame(v, at) \in FrameType /\ Frame(v, at).vertex = v /\ Frame(v, at).at = at
  BY DEF Frame, FrameType

\* Without the frame on top.
LEMMA DroppedParts ==
  ASSUME NEW fr \in Seq(FrameType), fr # <<>>
  PROVE  /\ Dropped(fr) \in Seq(FrameType) /\ Len(Dropped(fr)) = Len(fr) - 1
         /\ \A i \in 1 .. Len(Dropped(fr)) : Dropped(fr)[i] = fr[i] /\ i \in 1 .. Len(fr) /\ i # Len(fr)
         /\ \A i \in 1 .. Len(fr) : i # Len(fr) => i \in 1 .. Len(Dropped(fr))
<1>1. PICK n \in Nat : n = Len(fr) /\ n \in 1 .. n
  BY FrameParts
<1>2. \A i \in 1 .. n : fr[i] \in FrameType
  BY <1>1
<1>3. /\ Dropped(fr) \in Seq(FrameType) /\ Len(Dropped(fr)) = n - 1
      /\ \A i \in 1 .. n - 1 : Dropped(fr)[i] = fr[i]
  BY <1>1, <1>2 DEF Dropped
<1> QED
  BY <1>1, <1>3

\* With one more frame on top.
LEMMA PushedParts ==
  ASSUME NEW fr \in Seq(FrameType), NEW f \in FrameType
  PROVE  /\ Append(fr, f) \in Seq(FrameType) /\ Len(Append(fr, f)) = Len(fr) + 1
         /\ \A i \in 1 .. Len(fr) : Append(fr, f)[i] = fr[i] /\ i \in 1 .. Len(fr) + 1 /\ i # Len(fr) + 1
         /\ Append(fr, f)[Len(fr) + 1] = f /\ Len(fr) + 1 \in 1 .. Len(fr) + 1
         /\ \A i \in 1 .. Len(fr) + 1 : i # Len(fr) + 1 => i \in 1 .. Len(fr)
  OBVIOUS

\* The vertex on top is gray and not told to stop, if there is an edge to see.
LEMMA TopEdge ==
  ASSUME graph \in Graphs, NEW fr \in Seq(FrameType), fr # <<>>, NEW known,
         FramesOK(fr, known), ~AtEnd(fr), NEW n, n = Len(fr), NEW v, v = fr[n].vertex
  PROVE  /\ v \notin known /\ v \in Vertices /\ n \in 1 .. n /\ n \in Nat
         /\ OnTop(fr) \in HalvesOf(v) /\ OnTop(fr) \notin Before(v, fr[n].at)
         /\ IteratorOf(v, fr[n].at)
         /\ IteratorOf(v, Increment(fr[n].at)) /\ Increment(fr[n].at) \in Positions
         /\ Before(v, Increment(fr[n].at)) = Before(v, fr[n].at) \cup {OnTop(fr)}
<1>1. n \in 1 .. n /\ n \in Nat /\ v \in Vertices /\ fr[n].at \in Positions
  BY FrameParts
<1>2. ~Equal(fr[n].at, LastEdge(v)) /\ OnTop(fr) = Dereference(fr[n].at, InEdges(v), OutEdges(v))
  BY DEF AtEnd, OnTop
<1>3. v \notin known /\ IteratorOf(v, fr[n].at)
  BY <1>1, <1>2 DEF FramesOK
<1> QED
  BY <1>1, <1>2, <1>3, NextIterator

\* With the iterator on top one further.
LEMMA MovedParts ==
  ASSUME graph \in Graphs, NEW fr \in Seq(FrameType), fr # <<>>, NEW known, FramesOK(fr, known), ~AtEnd(fr)
  PROVE  /\ Moved(fr) \in Seq(FrameType) /\ Len(Moved(fr)) = Len(fr) /\ Moved(fr) # <<>>
         /\ \A i \in 1 .. Len(fr) : /\ Moved(fr)[i].vertex = fr[i].vertex
                                    /\ i # Len(fr) => Moved(fr)[i] = fr[i]
         /\ Moved(fr)[Len(fr)] = Frame(fr[Len(fr)].vertex, Increment(fr[Len(fr)].at))
<1>1. PICK n \in Nat : n = Len(fr) /\ n \in 1 .. n
  BY FrameParts
<1>2. Frame(fr[n].vertex, Increment(fr[n].at)) \in FrameType
      /\ Frame(fr[n].vertex, Increment(fr[n].at)).vertex = fr[n].vertex
  BY <1>1, TopEdge, FrameIs
<1>3. \A i \in 1 .. n : fr[i] \in FrameType
  BY <1>1
<1>4. Moved(fr) = [i \in 1 .. n |-> IF i = n THEN Frame(fr[i].vertex, Increment(fr[i].at)) ELSE fr[i]]
  BY <1>1 DEF Moved
<1>5. /\ \A i \in 1 .. n : Moved(fr)[i] \in FrameType /\ Moved(fr)[i].vertex = fr[i].vertex
                           /\ (i # n => Moved(fr)[i] = fr[i])
      /\ Moved(fr)[n] = Frame(fr[n].vertex, Increment(fr[n].at))
  BY <1>1, <1>2, <1>3, <1>4
<1>6. Moved(fr) \in Seq(FrameType) /\ Len(Moved(fr)) = n /\ Moved(fr) # <<>>
  BY <1>1, <1>4, <1>5
<1> QED
  BY <1>1, <1>5, <1>6

\* The iterators stay right.
LEMMA FramesMoved ==
  ASSUME graph \in Graphs, NEW fr \in Seq(FrameType), fr # <<>>, NEW known, FramesOK(fr, known), ~AtEnd(fr)
  PROVE  /\ FramesOK(Moved(fr), known)
         /\ \A i \in 1 .. Len(fr) : Moved(fr)[i].vertex \notin known
<1>1. PICK n \in Nat : n = Len(fr) /\ n \in 1 .. n
  BY FrameParts
<1>2. PICK mv : mv = Moved(fr)
  OBVIOUS
<1>3. /\ Len(mv) = n /\ \A i \in 1 .. n : mv[i].vertex = fr[i].vertex /\ (i # n => mv[i] = fr[i])
      /\ mv[n].at = Increment(fr[n].at)
  BY <1>1, <1>2, MovedParts, TopEdge, FrameIs
<1>4. fr[n].vertex \notin known /\ IteratorOf(fr[n].vertex, Increment(fr[n].at))
  BY <1>1, TopEdge
<1>5. \A i \in 1 .. n : i # n => fr[i].vertex \notin known /\ IteratorOf(fr[i].vertex, fr[i].at)
  BY <1>1 DEF FramesOK
<1>6. FramesOK(mv, known)
  BY <1>1, <1>3, <1>4, <1>5 DEF FramesOK
<1> QED
  BY <1>1, <1>2, <1>3, <1>4, <1>5, <1>6

\* Below the top no visit has stopped.
LEMMA FramesDropped ==
  ASSUME graph \in Graphs, NEW fr \in Seq(FrameType), fr # <<>>, NEW known, FramesOK(fr, known)
  PROVE  /\ FramesOK(Dropped(fr), known)
         /\ \A i \in 1 .. Len(Dropped(fr)) : Dropped(fr)[i].vertex \notin known
<1>1. \A i \in 1 .. Len(Dropped(fr)) : fr[i].vertex \notin known /\ IteratorOf(fr[i].vertex, fr[i].at)
  BY DroppedParts DEF FramesOK
<1> QED
  BY <1>1, DroppedParts DEF FramesOK

\* A vertex has been discovered, and begins with its first edge or its end.
KnownWith(v, known, stops) == IF v \in stops THEN known \cup {v} ELSE known

LEMMA ResumeIs ==
  ASSUME graph \in Graphs, NEW v, NEW known, NEW stops, v \notin known
  PROVE  /\ Resume(v, stops) \in Positions
         /\ v \in KnownWith(v, known, stops) => Resume(v, stops) = LastEdge(v)
         /\ v \notin KnownWith(v, known, stops) => Resume(v, stops) = FirstEdge(v)
         /\ \A w : w # v => (w \in KnownWith(v, known, stops) <=> w \in known)
  BY FirstIterator, LastPosition DEF Resume, KnownWith

\* The iterators stay right with the new one.
LEMMA FramesPushed ==
  ASSUME graph \in Graphs, NEW fr \in Seq(FrameType), NEW known, FramesOK(fr, known),
         \A i \in 1 .. Len(fr) : fr[i].vertex \notin known,
         NEW v \in Vertices, v \notin known, \A i \in 1 .. Len(fr) : fr[i].vertex # v,
         NEW stops
  PROVE  FramesOK(Append(fr, Frame(v, Resume(v, stops))), KnownWith(v, known, stops))
<1>1. PICK n \in Nat : n = Len(fr)
  BY FrameParts
<1>2. PICK at \in Positions : at = Resume(v, stops)
  BY ResumeIs
<1>3. PICK up : up = Append(fr, Frame(v, at))
  OBVIOUS
<1>4. /\ Len(up) = n + 1 /\ up[n + 1].vertex = v /\ up[n + 1].at = at
      /\ \A i \in 1 .. n + 1 : i # n + 1 => up[i] = fr[i] /\ i \in 1 .. n
  BY <1>1, <1>3, FrameIs, PushedParts
<1>5. PICK k : k = KnownWith(v, known, stops)
  OBVIOUS
<1>6. \A i \in 1 .. n : fr[i].vertex \notin k /\ IteratorOf(fr[i].vertex, fr[i].at)
  BY <1>1, <1>5, ResumeIs DEF FramesOK
<1>7. IF v \in k THEN Equal(at, LastEdge(v)) ELSE IteratorOf(v, at)
  BY <1>2, <1>5, ResumeIs, FirstIterator DEF Equal
<1>8. FramesOK(up, k)
  <2>1. ASSUME NEW i \in 1 .. n + 1
        PROVE  IF up[i].vertex \in k THEN i = n + 1 /\ Equal(up[i].at, LastEdge(up[i].vertex))
               ELSE IteratorOf(up[i].vertex, up[i].at)
    <3>1. CASE i = n + 1
      BY <1>4, <1>7, <3>1
    <3>2. CASE i # n + 1
      BY <1>4, <1>6, <3>2
    <3> QED
      BY <3>1, <3>2
  <2> QED
    BY <1>4, <2>1 DEF FramesOK
<1> QED
  BY <1>2, <1>3, <1>5, <1>8

-----------------------------------------------------------------------------
(* The halves of an edge                                                     *)

\* Where a half starts and where it leads.
LEMMA HalfFacts ==
  ASSUME graph \in Graphs
  PROVE  /\ \A e \in Edges :
              /\ Out(e) \in Halves /\ In(e) \in Halves /\ Out(e).edge = e /\ In(e).edge = e
              /\ Source(Out(e)) = graph[e][1] /\ Source(In(e)) = graph[e][2]
              /\ Target(Out(e)) = graph[e][2] /\ Target(In(e)) = graph[e][1]
              /\ graph[e][1] \in Vertices /\ graph[e][2] \in Vertices /\ Out(e) # In(e)
         /\ \A d \in Halves : /\ d.edge \in Edges /\ Source(d) \in Vertices /\ Target(d) \in Vertices
                              /\ d = Out(d.edge) \/ d = In(d.edge)
<1>1. \A e \in Edges : graph[e] \in Vertices \X Vertices
  BY UndirectedDfsAssumption
<1>2. \A e \in Edges : graph[e][1] \in Vertices /\ graph[e][2] \in Vertices
  BY <1>1
<1>3. ASSUME NEW e \in Edges
      PROVE  /\ Out(e) \in Halves /\ In(e) \in Halves /\ Out(e).edge = e /\ In(e).edge = e
             /\ ~Out(e).reverse /\ In(e).reverse /\ Out(e) # In(e)
  BY DEF Out, In, Halves
<1>4. ASSUME NEW d \in Halves PROVE d.edge \in Edges /\ (d = Out(d.edge) \/ d = In(d.edge))
  <2>1. d.edge \in Edges /\ d.reverse \in BOOLEAN /\ d = [edge |-> d.edge, reverse |-> d.reverse]
    BY DEF Halves
  <2>2. CASE d.reverse
    BY <2>1, <2>2 DEF Halves, In
  <2>3. CASE ~d.reverse
    BY <2>1, <2>3 DEF Halves, Out
  <2> QED
    BY <2>1, <2>2, <2>3
<1>5. \A e \in Edges : /\ Source(Out(e)) = graph[e][1] /\ Source(In(e)) = graph[e][2]
                       /\ Target(Out(e)) = graph[e][2] /\ Target(In(e)) = graph[e][1]
  BY <1>3 DEF Source, Target
<1>6. \A d \in Halves : Source(d) \in Vertices /\ Target(d) \in Vertices
  BY <1>2, <1>4, <1>5
<1> QED
  BY <1>2, <1>3, <1>4, <1>5, <1>6

\* Two halves of one edge, in either order.
Pair(d, f) ==
  /\ d \in Halves /\ f \in Halves /\ d.edge \in Edges /\ f.edge = d.edge /\ d # f /\ Target(d) = Source(f)
  /\ \/ d = Out(d.edge) /\ f = In(d.edge)
     \/ d = In(d.edge) /\ f = Out(d.edge)

\* Every half has its other one.
LEMMA PairOf ==
  ASSUME graph \in Graphs, NEW d \in Halves
  PROVE  \E f : Pair(d, f)
<1>1. CASE d = Out(d.edge)
  BY <1>1, HalfFacts DEF Pair
<1>2. CASE d = In(d.edge)
  BY <1>2, HalfFacts DEF Pair
<1> QED
  BY <1>1, <1>2, HalfFacts

\* It does not matter which of them comes first.
LEMMA PairSound ==
  ASSUME NEW d, NEW f, NEW seen, NEW fr, NEW told, NEW mark, NEW colour, NEW known
  PROVE  HalvesSound(d, f, seen, fr, told, mark, colour, known)
           <=> HalvesSound(f, d, seen, fr, told, mark, colour, known)
  BY DEF HalvesSound

\* A half that has been seen starts at a vertex that has been discovered.
LEMMA SeenWhat ==
  ASSUME graph \in Graphs, NEW fr \in Seq(FrameType), NEW colour \in Colours, NEW known,
         GrayInFrames(fr, colour), NEW d \in SeenIn(fr, colour, known)
  PROVE  d \in Halves /\ Source(d) \in Vertices /\ Source(d) \notin known /\ colour[Source(d)] # "white"
<1>1. d \in Halves /\ Source(d) \in Vertices /\ Source(d) \notin known
  BY HalfFacts DEF SeenIn
<1>2. colour[Source(d)] = "black" \/ \E i \in 1 .. Len(fr) : fr[i].vertex = Source(d)
  BY DEF SeenIn
<1>3. colour[Source(d)] \in {"gray", "black"}
  BY <1>1, <1>2 DEF GrayInFrames
<1> QED
  BY <1>1, <1>3

-----------------------------------------------------------------------------
(* What the steps do to the colours and to what has been seen                *)

\* The top frame is the only one of its vertex.
LEMMA TopOnly ==
  ASSUME NEW fr \in Seq(FrameType), fr # <<>>, NEW colour \in Colours, GrayInFrames(fr, colour),
         NEW v, v = fr[Len(fr)].vertex
  PROVE  /\ v \in Vertices /\ colour[v] = "gray" /\ Len(fr) \in 1 .. Len(fr) /\ Len(fr) \in Nat
         /\ \A i \in 1 .. Len(fr) : fr[i].vertex = v <=> i = Len(fr)
  BY FrameParts DEF GrayInFrames

\* The gray vertices stay the path.
LEMMA GrayMoved ==
  ASSUME graph \in Graphs, NEW fr \in Seq(FrameType), fr # <<>>, NEW known, FramesOK(fr, known),
         ~AtEnd(fr), NEW colour, GrayInFrames(fr, colour)
  PROVE  GrayInFrames(Moved(fr), colour)
<1>1. PICK mv : mv = Moved(fr)
  OBVIOUS
<1>2. Len(mv) = Len(fr) /\ \A i \in 1 .. Len(fr) : mv[i].vertex = fr[i].vertex
  BY <1>1, MovedParts
<1>3. GrayInFrames(mv, colour)
  BY <1>2 DEF GrayInFrames
<1> QED
  BY <1>1, <1>3

\* All the halves at the vertex on top have been seen, when its iterator is at
\* its end.
LEMMA TopAllSeen ==
  ASSUME graph \in Graphs, NEW fr \in Seq(FrameType), fr # <<>>, NEW colour \in Colours, NEW known,
         FramesOK(fr, known), GrayInFrames(fr, colour), AtEnd(fr),
         NEW d \in Halves, Source(d) = fr[Len(fr)].vertex, Source(d) \notin known
  PROVE  d \in SeenIn(fr, colour, known)
<1>1. PICK n \in Nat : n = Len(fr) /\ n \in 1 .. n
  BY FrameParts
<1>2. IteratorOf(Source(d), fr[n].at) /\ Equal(fr[n].at, LastEdge(Source(d)))
  BY <1>1 DEF FramesOK, AtEnd
<1>3. d \in Before(Source(d), fr[n].at)
  BY <1>2, LastIterator DEF HalvesOf
<1> QED
  BY <1>1, <1>3 DEF SeenIn

\* A vertex is finished.
Finished(fr, colour) == [colour EXCEPT ![fr[Len(fr)].vertex] = "black"]

LEMMA Finishing ==
  ASSUME graph \in Graphs, NEW fr \in Seq(FrameType), fr # <<>>, NEW colour \in Colours, NEW known,
         FramesOK(fr, known), GrayInFrames(fr, colour), AtEnd(fr)
  PROVE  /\ Finished(fr, colour) \in Colours
         /\ GrayInFrames(Dropped(fr), Finished(fr, colour))
         /\ SeenIn(Dropped(fr), Finished(fr, colour), known) = SeenIn(fr, colour, known)
<1>1. PICK n, v : n = Len(fr) /\ v = fr[n].vertex
  OBVIOUS
<1>2. /\ v \in Vertices /\ colour[v] = "gray" /\ n \in 1 .. n /\ n \in Nat
      /\ \A i \in 1 .. n : fr[i].vertex = v <=> i = n
  BY <1>1, TopOnly
<1>3. PICK c : c = Finished(fr, colour)
  OBVIOUS
<1>4. c \in Colours /\ c[v] = "black" /\ \A w \in Vertices : w # v => c[w] = colour[w]
  BY <1>1, <1>2, <1>3 DEF Colours, Finished
<1>5. PICK up \in Seq(FrameType) : up = Dropped(fr) /\ Len(up) = n - 1
  BY <1>1, DroppedParts
<1>6. /\ \A i \in 1 .. Len(up) : up[i] = fr[i] /\ i \in 1 .. n /\ fr[i].vertex # v
      /\ \A i \in 1 .. n : i # n => i \in 1 .. Len(up)
  BY <1>1, <1>2, <1>5, DroppedParts
<1>7. GrayInFrames(up, c)
  <2>1. /\ \A i, j \in 1 .. n : fr[i].vertex = fr[j].vertex => i = j
        /\ \A w \in Vertices : colour[w] = "gray" <=> \E i \in 1 .. n : fr[i].vertex = w
    BY <1>1 DEF GrayInFrames
  <2>2. \A i, j \in 1 .. Len(up) : up[i].vertex = up[j].vertex => i = j
    BY <1>6, <2>1
  <2>3. ASSUME NEW w \in Vertices
        PROVE  c[w] = "gray" <=> \E i \in 1 .. Len(up) : up[i].vertex = w
    <3>1. CASE w = v
      BY <1>4, <1>6, <3>1
    <3>2. CASE w # v
      BY <1>2, <1>4, <1>6, <2>1, <3>2
    <3> QED
      BY <3>1, <3>2
  <2> QED
    BY <2>2, <2>3 DEF GrayInFrames
<1>8. ASSUME NEW d \in Halves, Source(d) \notin known
      PROVE  d \in SeenIn(up, c, known) <=> d \in SeenIn(fr, colour, known)
  <2>1. Source(d) \in Vertices
    BY HalfFacts
  <2>2. CASE Source(d) = v
    <3>1. d \in SeenIn(fr, colour, known)
      BY <1>1, <1>8, <2>2, TopAllSeen
    <3>2. d \in SeenIn(up, c, known)
      BY <1>4, <1>8, <2>2 DEF SeenIn
    <3> QED
      BY <3>1, <3>2
  <2>3. CASE Source(d) # v
    <3>1. c[Source(d)] = colour[Source(d)]
      BY <1>4, <2>1, <2>3
    <3>2. (\E i \in 1 .. Len(up) : up[i].vertex = Source(d) /\ d \in Before(Source(d), up[i].at))
            <=> \E i \in 1 .. Len(fr) : fr[i].vertex = Source(d) /\ d \in Before(Source(d), fr[i].at)
      BY <1>1, <1>2, <1>6, <2>3
    <3> QED
      BY <3>1, <3>2 DEF SeenIn
  <2> QED
    BY <2>2, <2>3
<1>9. SeenIn(up, c, known) = SeenIn(fr, colour, known)
  <2>1. \A d : d \in SeenIn(up, c, known) => d \in Halves /\ Source(d) \notin known
    BY DEF SeenIn
  <2>2. \A d : d \in SeenIn(fr, colour, known) => d \in Halves /\ Source(d) \notin known
    BY DEF SeenIn
  <2> QED
    BY <1>8, <2>1, <2>2
<1> QED
  BY <1>3, <1>4, <1>5, <1>7, <1>9

\* The half at the iterator is seen.
LEMMA Seeing ==
  ASSUME graph \in Graphs, NEW fr \in Seq(FrameType), fr # <<>>, NEW colour \in Colours, NEW known,
         FramesOK(fr, known), GrayInFrames(fr, colour), ~AtEnd(fr)
  PROVE  /\ OnTop(fr) \in Halves /\ Source(OnTop(fr)) = fr[Len(fr)].vertex
         /\ OnTop(fr) \notin SeenIn(fr, colour, known)
         /\ SeenIn(Moved(fr), colour, known) = SeenIn(fr, colour, known) \cup {OnTop(fr)}
<1>1. PICK n, v, x : n = Len(fr) /\ v = fr[n].vertex /\ x = OnTop(fr)
  OBVIOUS
<1>2. /\ v \in Vertices /\ colour[v] = "gray" /\ n \in 1 .. n /\ n \in Nat
      /\ \A i \in 1 .. n : fr[i].vertex = v <=> i = n
  BY <1>1, TopOnly
<1>3. /\ v \notin known /\ x \in HalvesOf(v) /\ x \notin Before(v, fr[n].at)
      /\ Before(v, Increment(fr[n].at)) = Before(v, fr[n].at) \cup {x}
      /\ Increment(fr[n].at) \in Positions
  BY <1>1, TopEdge
<1>4. x \in Halves /\ Source(x) = v
  BY <1>3 DEF HalvesOf
<1>5. x \notin SeenIn(fr, colour, known)
  BY <1>1, <1>2, <1>3, <1>4 DEF SeenIn
<1>6. PICK mv : mv = Moved(fr)
  OBVIOUS
<1>7. /\ Len(mv) = n /\ \A i \in 1 .. n : mv[i].vertex = fr[i].vertex /\ (i # n => mv[i] = fr[i])
      /\ mv[n].at = Increment(fr[n].at)
  BY <1>1, <1>2, <1>3, <1>6, MovedParts, FrameIs
<1>8. ASSUME NEW d \in Halves
      PROVE  d \in SeenIn(mv, colour, known) <=> d \in SeenIn(fr, colour, known) \/ d = x
  <2>1. CASE Source(d) = v
    <3>1. d \in SeenIn(fr, colour, known) <=> d \in Before(v, fr[n].at)
      BY <1>1, <1>2, <1>3, <2>1 DEF SeenIn
    <3>2. d \in SeenIn(mv, colour, known) <=> d \in Before(v, mv[n].at)
      BY <1>2, <1>3, <1>7, <2>1 DEF SeenIn
    <3> QED
      BY <1>3, <1>7, <3>1, <3>2
  <2>2. CASE Source(d) # v
    <3>1. (\E i \in 1 .. n : mv[i].vertex = Source(d) /\ d \in Before(Source(d), mv[i].at))
            <=> \E i \in 1 .. n : fr[i].vertex = Source(d) /\ d \in Before(Source(d), fr[i].at)
      BY <1>2, <1>7, <2>2
    <3> QED
      BY <1>1, <1>4, <1>7, <2>2, <3>1 DEF SeenIn
  <2> QED
    BY <2>1, <2>2
<1>9. SeenIn(mv, colour, known) = SeenIn(fr, colour, known) \cup {x}
  <2>1. SeenIn(mv, colour, known) \subseteq Halves /\ SeenIn(fr, colour, known) \subseteq Halves
    BY DEF SeenIn
  <2> QED
    BY <1>4, <1>8, <2>1
<1> QED
  BY <1>1, <1>4, <1>5, <1>6, <1>9

\* A vertex is discovered.
Reaches(v, colour) == [colour EXCEPT ![v] = "gray"]

LEMMA Reaching ==
  ASSUME graph \in Graphs, NEW fr \in Seq(FrameType), NEW colour \in Colours, NEW known,
         GrayInFrames(fr, colour), NEW v \in Vertices, colour[v] = "white", v \notin known, NEW stops,
         NEW f \in FrameType, f = Frame(v, Resume(v, stops)), NEW k, k = KnownWith(v, known, stops)
  PROVE  /\ Reaches(v, colour) \in Colours
         /\ GrayInFrames(Append(fr, f), Reaches(v, colour))
         /\ SeenIn(Append(fr, f), Reaches(v, colour), k) = SeenIn(fr, colour, known)
<1>1. PICK n \in Nat : n = Len(fr)
  BY FrameParts
<1>2. PICK up : up = Append(fr, f)
  OBVIOUS
<1>3. f.vertex = v /\ f.at = Resume(v, stops)
  BY ResumeIs, FrameIs
<1>4. /\ Len(up) = n + 1 /\ up[n + 1] = f /\ n + 1 \in 1 .. n + 1
      /\ \A i \in 1 .. n : up[i] = fr[i] /\ i \in 1 .. n + 1
      /\ \A i \in 1 .. n + 1 : i # n + 1 => i \in 1 .. n
  BY <1>1, <1>2, PushedParts
<1>5. PICK c : c = Reaches(v, colour)
  OBVIOUS
<1>6. c \in Colours /\ c[v] = "gray" /\ \A w \in Vertices : w # v => c[w] = colour[w]
  BY <1>5 DEF Colours, Reaches
<1>7. /\ \A i \in 1 .. n : fr[i].vertex # v
      /\ \A i, j \in 1 .. n : fr[i].vertex = fr[j].vertex => i = j
      /\ \A w \in Vertices : colour[w] = "gray" <=> \E i \in 1 .. n : fr[i].vertex = w
  BY <1>1 DEF GrayInFrames
<1>8. GrayInFrames(up, c)
  <2>1. \A i, j \in 1 .. n + 1 : up[i].vertex = up[j].vertex => i = j
    BY <1>3, <1>4, <1>7
  <2>2. ASSUME NEW w \in Vertices
        PROVE  c[w] = "gray" <=> \E i \in 1 .. n + 1 : up[i].vertex = w
    <3>1. CASE w = v
      BY <1>3, <1>4, <1>6, <3>1
    <3>2. CASE w # v
      BY <1>3, <1>4, <1>6, <1>7, <3>2
    <3> QED
      BY <3>1, <3>2
  <2> QED
    BY <1>4, <2>1, <2>2 DEF GrayInFrames
<1>9. ASSUME NEW d \in Halves
      PROVE  d \in SeenIn(up, c, k) <=> d \in SeenIn(fr, colour, known)
  <2>1. Source(d) \in Vertices
    BY HalfFacts
  <2>2. CASE Source(d) = v
    <3>1. d \notin SeenIn(fr, colour, known)
      BY <1>1, <1>7, <2>2 DEF SeenIn
    <3>2. v \notin k => Before(v, f.at) = {}
      BY <1>3, ResumeIs, FirstIterator
    <3>3. \A i \in 1 .. n + 1 : up[i].vertex = v => up[i] = f
      BY <1>4, <1>7
    <3>4. d \notin SeenIn(up, c, k)
      BY <1>4, <1>6, <2>2, <3>2, <3>3 DEF SeenIn
    <3> QED
      BY <3>1, <3>4
  <2>3. CASE Source(d) # v
    <3>1. c[Source(d)] = colour[Source(d)] /\ (Source(d) \in k <=> Source(d) \in known)
      BY <1>6, <2>1, <2>3, ResumeIs
    <3>2. (\E i \in 1 .. n + 1 : up[i].vertex = Source(d) /\ d \in Before(Source(d), up[i].at))
            <=> \E i \in 1 .. n : fr[i].vertex = Source(d) /\ d \in Before(Source(d), fr[i].at)
      BY <1>3, <1>4, <2>3
    <3> QED
      BY <1>1, <1>4, <3>1, <3>2 DEF SeenIn
  <2> QED
    BY <2>2, <2>3
<1>10. SeenIn(up, c, k) = SeenIn(fr, colour, known)
  <2>1. SeenIn(up, c, k) \subseteq Halves /\ SeenIn(fr, colour, known) \subseteq Halves
    BY DEF SeenIn
  <2> QED
    BY <1>9, <2>1
<1> QED
  BY <1>2, <1>5, <1>6, <1>8, <1>10

-----------------------------------------------------------------------------
(* What the steps do to the edges                                            *)

\* A vertex is finished: what is unseen of its edges is where a visit stopped.
LEMMA HalfFinished ==
  ASSUME NEW fr \in Seq(FrameType), fr # <<>>, NEW colour \in Colours, NEW known,
         GrayInFrames(fr, colour), NEW told, NEW v \in Vertices, NEW w \in Vertices,
         HalfSound(told, v, w, fr, colour, known), w = fr[Len(fr)].vertex => w \in known
  PROVE  HalfSound(told, v, w, Dropped(fr), Finished(fr, colour), known)
<1>1. PICK n, x : n = Len(fr) /\ x = fr[n].vertex
  OBVIOUS
<1>2. /\ x \in Vertices /\ colour[x] = "gray" /\ n \in 1 .. n /\ n \in Nat
      /\ \A i \in 1 .. n : fr[i].vertex = x <=> i = n
  BY <1>1, TopOnly
<1>3. PICK c : c = Finished(fr, colour)
  OBVIOUS
<1>4. c \in Colours /\ c[x] = "black" /\ \A y \in Vertices : y # x => c[y] = colour[y]
  BY <1>1, <1>2, <1>3 DEF Colours, Finished
<1>5. PICK up \in Seq(FrameType) : up = Dropped(fr) /\ Len(up) = n - 1
  BY <1>1, DroppedParts
<1>6. /\ \A i \in 1 .. Len(up) : up[i] = fr[i] /\ i \in 1 .. n
      /\ \A i \in 1 .. n : i # n => i \in 1 .. Len(up)
  BY <1>1, <1>5, DroppedParts
<1>7. CASE TreeHalf(told, v, w, fr, colour)
  <2>1. told = <<"tree">> /\ v # w /\ colour[w] # "white"
    BY <1>7 DEF TreeHalf
  <2>2. c[w] # "white"
    BY <1>4, <2>1
  <2>3. ASSUME c[w] = "gray" PROVE RightAbove(v, w, up)
    <3>1. w # x /\ colour[w] = "gray"
      BY <1>4, <2>3
    <3>2. PICK i, j \in 1 .. n : j = i + 1 /\ fr[i].vertex = v /\ fr[j].vertex = w
      BY <1>1, <1>7, <3>1 DEF TreeHalf, RightAbove
    <3>3. j # n /\ i # n
      BY <1>2, <3>1, <3>2
    <3> QED
      BY <1>6, <3>2, <3>3 DEF RightAbove
  <2>4. TreeHalf(told, v, w, up, c)
    BY <2>1, <2>2, <2>3 DEF TreeHalf
  <2> QED
    BY <1>3, <1>5, <2>4 DEF HalfSound
<1>8. CASE BackHalf(told, v, w, fr, colour, known)
  <2>1. told = <<"back">> /\ colour[w] = "gray" /\ w \notin known /\ w # x
    BY <1>1, <1>8 DEF BackHalf
  <2>2. c[w] = "gray"
    BY <1>4, <2>1
  <2>3. ASSUME v # w, c[v] = "gray" PROVE Above(w, v, up)
    <3>1. v # x /\ colour[v] = "gray"
      BY <1>4, <2>3
    <3>2. PICK i, j \in 1 .. n : i < j /\ fr[i].vertex = w /\ fr[j].vertex = v
      BY <1>1, <1>8, <2>3, <3>1 DEF BackHalf, Above
    <3>3. j # n /\ i # n
      BY <1>2, <2>1, <3>1, <3>2
    <3> QED
      BY <1>6, <3>2, <3>3 DEF Above
  <2>4. BackHalf(told, v, w, up, c, known)
    BY <2>1, <2>2, <2>3 DEF BackHalf
  <2> QED
    BY <1>3, <1>5, <2>4 DEF HalfSound
<1>9. CASE StopHalf(told, v, w, colour, known)
  <2>1. StopHalf(told, v, w, c, known)
    BY <1>2, <1>4, <1>9 DEF StopHalf
  <2> QED
    BY <1>3, <1>5, <2>1 DEF HalfSound
<1> QED
  BY <1>7, <1>8, <1>9 DEF HalfSound

\* A vertex is discovered that is neither end of the edge.
LEMMA HalfReached ==
  ASSUME graph \in Graphs, NEW fr \in Seq(FrameType), NEW colour \in Colours, NEW known,
         NEW told, NEW v \in Vertices, NEW w \in Vertices,
         HalfSound(told, v, w, fr, colour, known), colour[v] # "white",
         NEW x \in Vertices, colour[x] = "white", x \notin known, NEW f \in FrameType, NEW stops
  PROVE  HalfSound(told, v, w, Append(fr, f), Reaches(x, colour), KnownWith(x, known, stops))
<1>1. PICK n \in Nat : n = Len(fr)
  BY FrameParts
<1>2. PICK up : up = Append(fr, f)
  OBVIOUS
<1>3. Len(up) = n + 1 /\ \A i \in 1 .. n : up[i] = fr[i] /\ i \in 1 .. n + 1
  BY <1>1, <1>2, PushedParts
<1>4. PICK c, k : c = Reaches(x, colour) /\ k = KnownWith(x, known, stops)
  OBVIOUS
<1>5. /\ \A y \in Vertices : y # x => c[y] = colour[y]
      /\ \A y : y # x => (y \in k <=> y \in known)
  BY <1>4, ResumeIs DEF Colours, Reaches
<1>6. v # x /\ w # x
  BY DEF HalfSound, TreeHalf, BackHalf, StopHalf
<1>7. c[v] = colour[v] /\ c[w] = colour[w] /\ (w \in k <=> w \in known)
  BY <1>5, <1>6
<1>8. RightAbove(v, w, fr) => RightAbove(v, w, up)
  BY <1>1, <1>3 DEF RightAbove
<1>9. Above(w, v, fr) => Above(w, v, up)
  BY <1>1, <1>3 DEF Above
<1>10. HalfSound(told, v, w, up, c, k)
  BY <1>7, <1>8, <1>9 DEF HalfSound, TreeHalf, BackHalf, StopHalf
<1> QED
  BY <1>2, <1>4, <1>10

\* The iterator on top goes on.
LEMMA HalfMoved ==
  ASSUME graph \in Graphs, NEW fr \in Seq(FrameType), fr # <<>>, NEW colour, NEW known,
         FramesOK(fr, known), ~AtEnd(fr), NEW told, NEW v, NEW w,
         HalfSound(told, v, w, fr, colour, known)
  PROVE  HalfSound(told, v, w, Moved(fr), colour, known)
<1>1. PICK mv : mv = Moved(fr)
  OBVIOUS
<1>2. Len(mv) = Len(fr) /\ \A i \in 1 .. Len(fr) : mv[i].vertex = fr[i].vertex
  BY <1>1, MovedParts
<1>3. RightAbove(v, w, fr) => RightAbove(v, w, mv)
  BY <1>2 DEF RightAbove
<1>4. Above(w, v, fr) => Above(w, v, mv)
  BY <1>2 DEF Above
<1>5. HalfSound(told, v, w, mv, colour, known)
  BY <1>3, <1>4 DEF HalfSound, TreeHalf, BackHalf, StopHalf
<1> QED
  BY <1>1, <1>5

\* The path of tree edges.
LEMMA TreePathMoved ==
  ASSUME graph \in Graphs, NEW fr \in Seq(FrameType), fr # <<>>, NEW known, FramesOK(fr, known),
         ~AtEnd(fr), NEW tree, TreePath(fr, tree)
  PROVE  TreePath(Moved(fr), tree)
<1>1. PICK mv : mv = Moved(fr)
  OBVIOUS
<1>2. Len(mv) = Len(fr) /\ \A i \in 1 .. Len(fr) : mv[i].vertex = fr[i].vertex
  BY <1>1, MovedParts
<1>3. TreePath(mv, tree)
  BY <1>2 DEF TreePath
<1> QED
  BY <1>1, <1>3

\* The path without its last vertex.
LEMMA TreePathDropped ==
  ASSUME NEW fr \in Seq(FrameType), fr # <<>>, NEW tree, TreePath(fr, tree)
  PROVE  TreePath(Dropped(fr), tree)
<1>1. PICK up : up = Dropped(fr)
  OBVIOUS
<1>2. \A i \in 1 .. Len(up) : up[i] = fr[i] /\ i \in 1 .. Len(fr)
  BY <1>1, DroppedParts
<1>3. ASSUME NEW i \in 1 .. Len(up), NEW j \in 1 .. Len(up), j = i + 1
      PROVE  \E e \in tree : Ends(e) = {up[i].vertex, up[j].vertex}
  <2>1. i \in 1 .. Len(fr) /\ j \in 1 .. Len(fr) /\ up[i] = fr[i] /\ up[j] = fr[j]
    BY <1>2
  <2>2. PICK e \in tree : Ends(e) = {fr[i].vertex, fr[j].vertex}
    BY <1>3, <2>1 DEF TreePath
  <2> QED
    BY <2>1, <2>2
<1>4. TreePath(up, tree)
  BY <1>3 DEF TreePath
<1> QED
  BY <1>1, <1>4

\* The path goes on with a tree edge.
LEMMA TreePathPushed ==
  ASSUME NEW fr \in Seq(FrameType), NEW f \in FrameType, NEW tree, NEW more,
         TreePath(fr, tree), tree \subseteq more,
         fr # <<>> => \E e \in more : Ends(e) = {fr[Len(fr)].vertex, f.vertex}
  PROVE  TreePath(Append(fr, f), more)
<1>1. PICK n \in Nat : n = Len(fr) /\ (fr # <<>> => n \in 1 .. n)
  BY FrameParts
<1>2. PICK up : up = Append(fr, f)
  OBVIOUS
<1>3. /\ Len(up) = n + 1 /\ up[n + 1] = f /\ \A i \in 1 .. n : up[i] = fr[i]
      /\ \A i \in 1 .. n + 1 : i # n + 1 => i \in 1 .. n
  BY <1>1, <1>2, PushedParts
<1>4. ASSUME NEW i \in 1 .. n + 1, NEW j \in 1 .. n + 1, j = i + 1
      PROVE  \E e \in more : Ends(e) = {up[i].vertex, up[j].vertex}
  <2>1. CASE j = n + 1
    <3>1. i = n /\ i \in 1 .. n
      BY <1>1, <1>4, <2>1
    <3>2. fr # <<>>
      BY <1>1, <3>1
    <3> QED
      BY <1>1, <1>3, <2>1, <3>1, <3>2
  <2>2. CASE j # n + 1
    <3>1. i \in 1 .. n /\ j \in 1 .. n
      BY <1>1, <1>4, <2>2
    <3>2. PICK e \in tree : Ends(e) = {fr[i].vertex, fr[j].vertex}
      BY <1>1, <1>4, <3>1 DEF TreePath
    <3> QED
      BY <1>3, <3>1, <3>2
  <2> QED
    BY <2>1, <2>2
<1>5. TreePath(up, more)
  BY <1>3, <1>4 DEF TreePath
<1> QED
  BY <1>2, <1>5

-----------------------------------------------------------------------------
(* What the steps do to the invariant of the visit                           *)

CallTypes == {"tree", "back", "forward_or_cross"}
ToldType == [Edges -> Seq(CallTypes)]
MarkType == [Edges -> {"white", "black"}]

Tell(told, d, call) == [told EXCEPT ![d.edge] = Append(@, call)]
Marked(marks, d) == [marks EXCEPT ![d.edge] = "black"]

\* One edge has one more call, and the others have theirs.
LEMMA TellIs ==
  ASSUME NEW told \in ToldType, NEW d, d.edge \in Edges, NEW call \in CallTypes
  PROVE  /\ Tell(told, d, call) \in ToldType
         /\ Tell(told, d, call)[d.edge] = Append(told[d.edge], call)
         /\ \A e \in Edges : e # d.edge => Tell(told, d, call)[e] = told[e]
<1>1. \A e \in Edges : told[e] \in Seq(CallTypes)
  BY DEF ToldType
<1>2. Append(told[d.edge], call) \in Seq(CallTypes)
  BY <1>1
<1> QED
  BY <1>1, <1>2 DEF Tell, ToldType

\* One edge is black, and the others are what they were.
LEMMA MarkedIs ==
  ASSUME NEW marks \in MarkType, NEW d, d.edge \in Edges
  PROVE  /\ Marked(marks, d) \in MarkType /\ Marked(marks, d)[d.edge] = "black"
         /\ \A e \in Edges : e # d.edge => Marked(marks, d)[e] = marks[e]
  BY DEF Marked, MarkType

\* Two calls one after the other.
LEMMA TwoCalls ==
  ASSUME NEW x, NEW y PROVE Append(<<x>>, y) = <<x, y>>
<1> DEFINE S == {x, y}
<1>1. <<x>> \in Seq(S) /\ Len(<<x>>) = 1 /\ <<x>>[1] = x /\ y \in S
  OBVIOUS
<1>2. <<x, y>> \in Seq(S) /\ Len(<<x, y>>) = 2 /\ <<x, y>>[1] = x /\ <<x, y>>[2] = y
  OBVIOUS
<1> HIDE DEF S
<1>3. PICK s \in Seq(S), t \in Seq(S) : s = <<x>> /\ t = <<x, y>>
  BY <1>1, <1>2
<1>4. Len(s) = 1 /\ s[1] = x /\ Len(t) = 2 /\ t[1] = x /\ t[2] = y /\ y \in S
  BY <1>1, <1>2, <1>3
<1>5. Append(s, y) \in Seq(S) /\ Len(Append(s, y)) = 2 /\ Append(s, y)[1] = x /\ Append(s, y)[2] = y
  <2>1. Append(s, y) \in Seq(S) /\ Len(Append(s, y)) = Len(s) + 1
    BY <1>3, <1>4
  <2>2. Append(s, y)[1] = s[1]
    BY <1>3, <1>4
  <2>3. Append(s, y)[Len(s) + 1] = y
    BY <1>3, <1>4
  <2> QED
    BY <1>4, <2>1, <2>2, <2>3
<1>6. \A i \in 1 .. Len(Append(s, y)) : Append(s, y)[i] = t[i]
  BY <1>4, <1>5
<1>7. Append(s, y) = t
  BY <1>4, <1>5, <1>6, SeqEqual
<1> QED
  BY <1>3, <1>7

\* What the visitor can be told, as sequences.
LEMMA OneCall ==
  /\ Append(<<>>, "tree") = <<"tree">> /\ Append(<<>>, "back") = <<"back">>
  /\ Append(<<>>, "forward_or_cross") = <<"forward_or_cross">>
  /\ Append(<<"back">>, "forward_or_cross") = <<"back", "forward_or_cross">>
  /\ <<"tree">> # <<>> /\ <<"back">> # <<>> /\ <<"forward_or_cross">> # <<>>
  /\ <<"tree">> # <<"back">> /\ <<"tree">> # <<"forward_or_cross">> /\ <<"back">> # <<"forward_or_cross">>
  /\ <<"tree">> # <<"back", "forward_or_cross">> /\ <<>> # <<"back", "forward_or_cross">>
  /\ <<"forward_or_cross">> # <<"back", "forward_or_cross">>
<1>1. /\ Append(<<>>, "tree") = <<"tree">> /\ Append(<<>>, "back") = <<"back">>
      /\ Append(<<>>, "forward_or_cross") = <<"forward_or_cross">>
  OBVIOUS
<1>2. Append(<<"back">>, "forward_or_cross") = <<"back", "forward_or_cross">>
  BY TwoCalls
<1>3. <<"tree">> # <<>> /\ <<"back">> # <<>> /\ <<"forward_or_cross">> # <<>>
  OBVIOUS
<1>4. <<"tree">> # <<"back">> /\ <<"tree">> # <<"forward_or_cross">> /\ <<"back">> # <<"forward_or_cross">>
  OBVIOUS
<1>5. <<"tree">> # <<"back", "forward_or_cross">> /\ <<>> # <<"back", "forward_or_cross">>
  OBVIOUS
<1>6. <<"forward_or_cross">> # <<"back", "forward_or_cross">>
  OBVIOUS
<1> QED
  BY <1>1, <1>2, <1>3, <1>4, <1>5, <1>6, Zenon

\* The last vertex of the path is finished.
LEMMA VisitFinishes ==
  ASSUME graph \in Graphs, NEW fr \in Seq(FrameType), fr # <<>>, NEW colour \in Colours,
         NEW known \in SUBSET Vertices, NEW told, NEW marks,
         VisitIs(fr, colour, known, told, marks), AtEnd(fr)
  PROVE  VisitIs(Dropped(fr), Finished(fr, colour), known, told, marks)
<1>1. /\ FramesOK(fr, known) /\ GrayInFrames(fr, colour) /\ StoppedKnown(colour, known)
      /\ EdgesSound(fr, colour, known, told, marks) /\ TreePath(fr, TreeIn(told))
  BY DEF VisitIs
<1>2. PICK up, c : up = Dropped(fr) /\ c = Finished(fr, colour)
  OBVIOUS
<1>3. PICK seen : seen = SeenIn(fr, colour, known)
  OBVIOUS
<1>4. GrayInFrames(up, c) /\ SeenIn(up, c, known) = seen
  BY <1>1, <1>2, <1>3, Finishing
<1>5. FramesOK(up, known) /\ TreePath(up, TreeIn(told))
  BY <1>1, <1>2, FramesDropped, TreePathDropped
<1>6. StoppedKnown(c, known)
  BY <1>1, <1>2 DEF StoppedKnown, Finished, Colours
<1>7. ASSUME NEW e \in Edges
      PROVE  HalvesSound(Out(e), In(e), seen, up, told[e], marks[e], c, known)
  <2>1. PICK d, f : d = Out(e) /\ f = In(e)
    OBVIOUS
  <2>2. d \in Halves /\ f \in Halves /\ Source(d) \in Vertices /\ Source(f) \in Vertices
    BY <2>1, HalfFacts
  <2>3. HalvesSound(d, f, seen, fr, told[e], marks[e], colour, known)
    BY <1>1, <1>3, <2>1 DEF EdgesSound
  <2>4. ASSUME HalfSound(told[e], Source(d), Source(f), fr, colour, known), f \notin seen
        PROVE  HalfSound(told[e], Source(d), Source(f), up, c, known)
    <3>1. Source(f) = fr[Len(fr)].vertex => Source(f) \in known
      BY <1>1, <1>3, <2>2, <2>4, TopAllSeen
    <3> QED
      BY <1>1, <1>2, <2>2, <2>4, <3>1, HalfFinished
  <2>5. ASSUME HalfSound(told[e], Source(f), Source(d), fr, colour, known), d \notin seen
        PROVE  HalfSound(told[e], Source(f), Source(d), up, c, known)
    <3>1. Source(d) = fr[Len(fr)].vertex => Source(d) \in known
      BY <1>1, <1>3, <2>2, <2>5, TopAllSeen
    <3> QED
      BY <1>1, <1>2, <2>2, <2>5, <3>1, HalfFinished
  <2>6. HalvesSound(d, f, seen, up, told[e], marks[e], c, known)
    BY <2>3, <2>4, <2>5 DEF HalvesSound
  <2> QED
    BY <2>1, <2>6
<1>8. EdgesSound(up, c, known, told, marks)
  BY <1>4, <1>7 DEF EdgesSound
<1> QED
  BY <1>2, <1>4, <1>5, <1>6, <1>8 DEF VisitIs

\* An edge that a discovery leaves as it was.
LEMMA EdgeReached ==
  ASSUME graph \in Graphs, NEW fr \in Seq(FrameType), NEW colour \in Colours, NEW known,
         GrayInFrames(fr, colour), NEW v \in Vertices, colour[v] = "white", v \notin known, NEW stops,
         NEW f \in FrameType, f = Frame(v, Resume(v, stops)), NEW k, k = KnownWith(v, known, stops),
         NEW e \in Edges, NEW told, NEW mark,
         HalvesSound(Out(e), In(e), SeenIn(fr, colour, known), fr, told, mark, colour, known)
  PROVE  HalvesSound(Out(e), In(e), SeenIn(Append(fr, f), Reaches(v, colour), k), Append(fr, f),
                     told, mark, Reaches(v, colour), k)
<1>1. PICK up, c : up = Append(fr, f) /\ c = Reaches(v, colour)
  OBVIOUS
<1>2. PICK seen : seen = SeenIn(fr, colour, known)
  OBVIOUS
<1>3. SeenIn(up, c, k) = seen
  BY <1>1, <1>2, Reaching
<1>4. PICK a, b : a = Out(e) /\ b = In(e)
  OBVIOUS
<1>5. a \in Halves /\ b \in Halves /\ Source(a) \in Vertices /\ Source(b) \in Vertices
  BY <1>4, HalfFacts
<1>6. HalvesSound(a, b, seen, fr, told, mark, colour, known)
  BY <1>2, <1>4
<1>7. (a \in seen => colour[Source(a)] # "white") /\ (b \in seen => colour[Source(b)] # "white")
  BY <1>2, SeenWhat
<1>8. ASSUME HalfSound(told, Source(a), Source(b), fr, colour, known), a \in seen
      PROVE  HalfSound(told, Source(a), Source(b), up, c, k)
  BY <1>1, <1>5, <1>7, <1>8, HalfReached
<1>9. ASSUME HalfSound(told, Source(b), Source(a), fr, colour, known), b \in seen
      PROVE  HalfSound(told, Source(b), Source(a), up, c, k)
  BY <1>1, <1>5, <1>7, <1>9, HalfReached
<1>10. HalvesSound(a, b, seen, up, told, mark, c, k)
  BY <1>6, <1>8, <1>9 DEF HalvesSound
<1> QED
  BY <1>1, <1>3, <1>4, <1>10

\* A vertex where the visit stops has been discovered.
LEMMA StoppedReached ==
  ASSUME NEW colour \in Colours, NEW known \in SUBSET Vertices, StoppedKnown(colour, known),
         NEW v \in Vertices, NEW stops
  PROVE  /\ StoppedKnown(Reaches(v, colour), KnownWith(v, known, stops))
         /\ KnownWith(v, known, stops) \in SUBSET Vertices
<1>1. PICK c : c = Reaches(v, colour)
  OBVIOUS
<1>2. c[v] = "gray" /\ \A w \in Vertices : w # v => c[w] = colour[w]
  BY <1>1 DEF Colours, Reaches
<1>3. \A w \in KnownWith(v, known, stops) : w = v \/ w \in known
  BY DEF KnownWith
<1>4. StoppedKnown(c, KnownWith(v, known, stops))
  BY <1>2, <1>3 DEF StoppedKnown
<1> QED
  BY <1>1, <1>3, <1>4

\* A visit begins.
LEMMA VisitBegins ==
  ASSUME graph \in Graphs, NEW colour \in Colours, NEW known \in SUBSET Vertices,
         NEW told, NEW marks, NEW fr \in Seq(FrameType), fr = <<>>,
         VisitIs(fr, colour, known, told, marks),
         NEW v \in Vertices, colour[v] = "white", NEW stops, NEW f \in FrameType, f = Frame(v, Resume(v, stops))
  PROVE  VisitIs(Append(fr, f), Reaches(v, colour), KnownWith(v, known, stops), told, marks)
<1>1. /\ FramesOK(fr, known) /\ GrayInFrames(fr, colour) /\ StoppedKnown(colour, known)
      /\ EdgesSound(fr, colour, known, told, marks) /\ TreePath(fr, TreeIn(told))
  BY DEF VisitIs
<1>2. PICK up, c, k : up = Append(fr, f) /\ c = Reaches(v, colour) /\ k = KnownWith(v, known, stops)
  OBVIOUS
<1>3. v \notin known
  BY <1>1 DEF StoppedKnown
<1>4. GrayInFrames(up, c) /\ StoppedKnown(c, k)
  BY <1>1, <1>2, <1>3, Reaching, StoppedReached
<1>5. FramesOK(up, k)
  <2>1. \A i \in 1 .. Len(fr) : fr[i].vertex \notin known /\ fr[i].vertex # v
    OBVIOUS
  <2> QED
    BY <1>1, <1>2, <1>3, <2>1, FramesPushed
<1>6. TreePath(up, TreeIn(told))
  BY <1>1, <1>2, TreePathPushed
<1>7. ASSUME NEW e \in Edges
      PROVE  HalvesSound(Out(e), In(e), SeenIn(up, c, k), up, told[e], marks[e], c, k)
  <2>1. HalvesSound(Out(e), In(e), SeenIn(fr, colour, known), fr, told[e], marks[e], colour, known)
    BY <1>1 DEF EdgesSound
  <2> QED
    BY <1>1, <1>2, <1>3, <2>1, EdgeReached
<1>8. EdgesSound(up, c, k, told, marks)
  BY <1>7 DEF EdgesSound
<1> QED
  BY <1>2, <1>4, <1>5, <1>6, <1>8 DEF VisitIs

\* An edge of which the half at the iterator is none.
LEMMA EdgeMoved ==
  ASSUME graph \in Graphs, NEW fr \in Seq(FrameType), fr # <<>>, NEW colour \in Colours, NEW known,
         FramesOK(fr, known), GrayInFrames(fr, colour), ~AtEnd(fr),
         NEW e \in Edges, e # OnTop(fr).edge, NEW told, NEW mark,
         HalvesSound(Out(e), In(e), SeenIn(fr, colour, known), fr, told, mark, colour, known)
  PROVE  HalvesSound(Out(e), In(e), SeenIn(Moved(fr), colour, known), Moved(fr),
                     told, mark, colour, known)
<1>1. PICK x, seen : x = OnTop(fr) /\ seen = SeenIn(fr, colour, known)
  OBVIOUS
<1>2. SeenIn(Moved(fr), colour, known) = seen \cup {x}
  BY <1>1, Seeing
<1>3. PICK a, b : a = Out(e) /\ b = In(e)
  OBVIOUS
<1>4. a # x /\ b # x
  BY <1>1, <1>3, HalfFacts
<1>5. (a \in seen \cup {x} <=> a \in seen) /\ (b \in seen \cup {x} <=> b \in seen)
  BY <1>4
<1>6. HalvesSound(a, b, seen, fr, told, mark, colour, known)
  BY <1>1, <1>3
<1>7. HalfSound(told, Source(a), Source(b), fr, colour, known)
        => HalfSound(told, Source(a), Source(b), Moved(fr), colour, known)
  BY HalfMoved
<1>8. HalfSound(told, Source(b), Source(a), fr, colour, known)
        => HalfSound(told, Source(b), Source(a), Moved(fr), colour, known)
  BY HalfMoved
<1>9. HalvesSound(a, b, seen \cup {x}, Moved(fr), told, mark, colour, known)
  BY <1>5, <1>6, <1>7, <1>8 DEF HalvesSound
<1> QED
  BY <1>2, <1>3, <1>9

\* What the visitor has been told of the edge that is next, for its two halves.
LEMMA PairBefore ==
  ASSUME graph \in Graphs, NEW fr, NEW colour, NEW known, NEW told, NEW marks,
         EdgesSound(fr, colour, known, told, marks), NEW d, NEW f, Pair(d, f)
  PROVE  HalvesSound(d, f, SeenIn(fr, colour, known), fr, told[d.edge], marks[d.edge], colour, known)
<1>1. d.edge \in Edges /\ ((d = Out(d.edge) /\ f = In(d.edge)) \/ (d = In(d.edge) /\ f = Out(d.edge)))
  BY DEF Pair
<1>2. HalvesSound(Out(d.edge), In(d.edge), SeenIn(fr, colour, known), fr,
                  told[d.edge], marks[d.edge], colour, known)
  BY <1>1 DEF EdgesSound
<1> QED
  BY <1>1, <1>2, PairSound

\* One edge is seen, and the others are left as they were.
Sighted(x, f, old, fr, colour, known, told, marks, told2, marks2) ==
  /\ x = OnTop(fr) /\ Pair(x, f) /\ old = SeenIn(fr, colour, known)
  /\ FramesOK(fr, known) /\ GrayInFrames(fr, colour) /\ EdgesSound(fr, colour, known, told, marks)
  /\ \A e \in Edges : e # x.edge => told2[e] = told[e] /\ marks2[e] = marks[e]
  /\ HalvesSound(x, f, old \cup {x}, Moved(fr), told2[x.edge], marks2[x.edge], colour, known)

LEMMA SightSound ==
  ASSUME graph \in Graphs, NEW fr \in Seq(FrameType), fr # <<>>, ~AtEnd(fr), NEW colour \in Colours,
         NEW known, NEW told, NEW marks, NEW told2, NEW marks2, NEW x, NEW f, NEW old,
         Sighted(x, f, old, fr, colour, known, told, marks, told2, marks2)
  PROVE  EdgesSound(Moved(fr), colour, known, told2, marks2)
<1>0. /\ x = OnTop(fr) /\ Pair(x, f) /\ old = SeenIn(fr, colour, known)
      /\ FramesOK(fr, known) /\ GrayInFrames(fr, colour) /\ EdgesSound(fr, colour, known, told, marks)
      /\ \A e \in Edges : e # x.edge => told2[e] = told[e] /\ marks2[e] = marks[e]
      /\ HalvesSound(x, f, old \cup {x}, Moved(fr), told2[x.edge], marks2[x.edge], colour, known)
  BY DEF Sighted
<1>1. PICK seen : seen = SeenIn(Moved(fr), colour, known)
  OBVIOUS
<1>2. seen = old \cup {x}
  BY <1>0, <1>1, Seeing
<1>3. x.edge \in Edges /\ ((x = Out(x.edge) /\ f = In(x.edge)) \/ (x = In(x.edge) /\ f = Out(x.edge)))
  BY <1>0 DEF Pair
<1>4. HalvesSound(x, f, seen, Moved(fr), told2[x.edge], marks2[x.edge], colour, known)
  BY <1>0, <1>2
<1>5. HalvesSound(Out(x.edge), In(x.edge), seen, Moved(fr), told2[x.edge], marks2[x.edge], colour, known)
  BY <1>3, <1>4, PairSound
<1>6. ASSUME NEW e \in Edges
      PROVE  HalvesSound(Out(e), In(e), seen, Moved(fr), told2[e], marks2[e], colour, known)
  <2>1. CASE e = x.edge
    BY <1>5, <2>1
  <2>2. CASE e # x.edge
    <3>1. HalvesSound(Out(e), In(e), SeenIn(fr, colour, known), fr, told[e], marks[e], colour, known)
      BY <1>0 DEF EdgesSound
    <3>2. HalvesSound(Out(e), In(e), seen, Moved(fr), told[e], marks[e], colour, known)
      BY <1>0, <1>1, <2>2, <3>1, EdgeMoved
    <3>3. told2[e] = told[e] /\ marks2[e] = marks[e]
      BY <1>0, <2>2
    <3> QED
      BY <3>2, <3>3
  <2> QED
    BY <2>1, <2>2
<1> QED
  BY <1>1, <1>6 DEF EdgesSound

\* The vertices of the path before the last one are above it.
LEMMA AboveTop ==
  ASSUME graph \in Graphs, NEW fr \in Seq(FrameType), fr # <<>>, NEW colour \in Colours, NEW known,
         FramesOK(fr, known), GrayInFrames(fr, colour), ~AtEnd(fr),
         NEW v, v = fr[Len(fr)].vertex, NEW w \in Vertices, colour[w] = "gray"
  PROVE  w \notin known /\ (w # v => Above(w, v, Moved(fr)))
<1>1. PICK n : n = Len(fr) /\ n \in 1 .. n /\ n \in Nat
  BY FrameParts
<1>2. PICK i \in 1 .. n : fr[i].vertex = w
  BY <1>1 DEF GrayInFrames
<1>3. PICK mv : mv = Moved(fr)
  OBVIOUS
<1>4. Len(mv) = n /\ mv[i].vertex = w /\ mv[n].vertex = v /\ mv[i].vertex \notin known
  BY <1>1, <1>2, <1>3, MovedParts, FramesMoved
<1>5. ASSUME w # v PROVE Above(w, v, mv)
  <2>1. i < n
    BY <1>1, <1>2, <1>5
  <2> QED
    BY <1>1, <1>4, <2>1 DEF Above
<1> QED
  BY <1>3, <1>4, <1>5

\* The visit is at an edge.
Sight(x, fr, colour, known, told, marks) ==
  /\ fr \in Seq(FrameType) /\ fr # <<>> /\ colour \in Colours /\ known \in SUBSET Vertices
  /\ told \in ToldType /\ marks \in MarkType
  /\ VisitIs(fr, colour, known, told, marks) /\ ~AtEnd(fr) /\ x = OnTop(fr)

\* A back edge.
LEMMA VisitBack ==
  ASSUME graph \in Graphs, NEW fr, NEW colour, NEW known, NEW told, NEW marks, NEW x,
         Sight(x, fr, colour, known, told, marks), colour[Target(x)] = "gray",
         NEW told2, told2 = IF marks[x.edge] = "white" THEN Tell(told, x, "back") ELSE told
  PROVE  /\ VisitIs(Moved(fr), colour, known, told2, Marked(marks, x))
         /\ TreeIn(told2) = TreeIn(told) /\ told2 \in ToldType
         /\ \A e \in Edges : told2[e] # told[e] => e = x.edge
<1>0. /\ fr \in Seq(FrameType) /\ fr # <<>> /\ colour \in Colours /\ known \in SUBSET Vertices
      /\ told \in ToldType /\ marks \in MarkType
      /\ VisitIs(fr, colour, known, told, marks) /\ ~AtEnd(fr) /\ x = OnTop(fr)
  BY DEF Sight
<1>1. /\ FramesOK(fr, known) /\ GrayInFrames(fr, colour) /\ StoppedKnown(colour, known)
      /\ EdgesSound(fr, colour, known, told, marks) /\ TreePath(fr, TreeIn(told))
  BY <1>0 DEF VisitIs
<1>2. PICK v : v = fr[Len(fr)].vertex
  OBVIOUS
<1>3. PICK seen : seen = SeenIn(fr, colour, known)
  OBVIOUS
<1>4. x \in Halves /\ Source(x) = v /\ x \notin seen /\ x.edge \in Edges
  BY <1>0, <1>1, <1>2, <1>3, Seeing, HalfFacts
<1>5. PICK f : Pair(x, f)
  BY <1>0, <1>4, PairOf
<1>6. PICK w : w = Source(f)
  OBVIOUS
<1>7. w \in Vertices /\ colour[w] = "gray" /\ v \in Vertices /\ colour[v] = "gray"
  BY <1>0, <1>1, <1>2, <1>5, <1>6, HalfFacts, TopOnly DEF Pair
<1>8. HalvesSound(x, f, seen, fr, told[x.edge], marks[x.edge], colour, known)
  BY <1>0, <1>1, <1>3, <1>5, PairBefore
<1>9. w \notin known /\ (w # v => Above(w, v, Moved(fr)))
  BY <1>0, <1>1, <1>2, <1>7, AboveTop
<1>10. PICK marks2 : marks2 = Marked(marks, x)
  OBVIOUS
<1>11. marks2[x.edge] = "black" /\ \A e \in Edges : e # x.edge => marks2[e] = marks[e]
  BY <1>0, <1>4, <1>10, MarkedIs
<1>12. CASE f \notin seen
  <2>1. told[x.edge] = <<>> /\ marks[x.edge] = "white"
    BY <1>0, <1>4, <1>8, <1>12 DEF HalvesSound
  <2>2. told2 = Tell(told, x, "back")
    BY <2>1
  <2>3. /\ told2 \in ToldType /\ told2[x.edge] = <<"back">>
        /\ \A e \in Edges : e # x.edge => told2[e] = told[e]
    <3>1. "back" \in CallTypes
      BY DEF CallTypes
    <3>2. /\ told2 \in ToldType /\ told2[x.edge] = Append(told[x.edge], "back")
          /\ \A e \in Edges : e # x.edge => told2[e] = told[e]
      BY <1>0, <1>4, <2>2, <3>1, TellIs
    <3> QED
      BY <2>1, <3>2, OneCall
  <2>4. TreeIn(told2) = TreeIn(told)
    <3>1. \A e \in Edges : told2[e] = <<"tree">> <=> told[e] = <<"tree">>
      BY <2>1, <2>3, OneCall
    <3> QED
      BY <3>1 DEF TreeIn
  <2>5. BackHalf(told2[x.edge], v, w, Moved(fr), colour, known)
    BY <1>0, <1>7, <1>9, <2>3 DEF BackHalf
  <2>6. x # f
    BY <1>0, <1>5 DEF Pair
  <2>7. HalvesSound(x, f, seen \cup {x}, Moved(fr), told2[x.edge], marks2[x.edge], colour, known)
    BY <1>0, <1>4, <1>6, <1>11, <1>12, <2>5, <2>6 DEF HalvesSound, HalfSound
  <2>8. EdgesSound(Moved(fr), colour, known, told2, marks2)
    <3>1. \A e \in Edges : e # x.edge => told2[e] = told[e] /\ marks2[e] = marks[e]
      BY <1>0, <1>11, <2>3
    <3>2. Sighted(x, f, seen, fr, colour, known, told, marks, told2, marks2)
      BY <1>0, <1>1, <1>3, <1>5, <2>7, <3>1 DEF Sighted
    <3> QED
      BY <1>0, <3>2, SightSound
  <2>9. VisitIs(Moved(fr), colour, known, told2, marks2)
    BY <1>0, <1>1, <2>4, <2>8, FramesMoved, GrayMoved, TreePathMoved DEF VisitIs
  <2> QED
    BY <1>0, <1>10, <2>3, <2>4, <2>9
<1>13. CASE f \in seen
  <2>1. marks[x.edge] = "black" /\ HalfSound(told[x.edge], w, v, fr, colour, known)
    BY <1>0, <1>4, <1>6, <1>8, <1>13 DEF HalvesSound
  <2>2. told2 = told
    BY <2>1
  <2>3. (told[x.edge] = <<"tree">> /\ w # v) \/ told[x.edge] = <<"back">>
    BY <1>0, <1>7, <2>1 DEF HalfSound, TreeHalf, BackHalf, StopHalf
  <2>4. HalvesSound(x, f, seen \cup {x}, Moved(fr), told2[x.edge], marks2[x.edge], colour, known)
    BY <1>0, <1>4, <1>6, <1>11, <1>13, <2>2, <2>3 DEF HalvesSound
  <2>5. EdgesSound(Moved(fr), colour, known, told2, marks2)
    <3>1. \A e \in Edges : e # x.edge => told2[e] = told[e] /\ marks2[e] = marks[e]
      BY <1>0, <1>11, <2>2
    <3>2. Sighted(x, f, seen, fr, colour, known, told, marks, told2, marks2)
      BY <1>0, <1>1, <1>3, <1>5, <2>4, <3>1 DEF Sighted
    <3> QED
      BY <1>0, <3>2, SightSound
  <2>6. VisitIs(Moved(fr), colour, known, told2, marks2)
    BY <1>0, <1>1, <2>2, <2>5, FramesMoved, GrayMoved, TreePathMoved DEF VisitIs
  <2> QED
    BY <1>0, <1>10, <2>2, <2>6
<1> QED
  BY <1>0, <1>12, <1>13

\* An edge to a vertex that is finished.
LEMMA VisitCross ==
  ASSUME graph \in Graphs, NEW fr, NEW colour, NEW known, NEW told, NEW marks, NEW x,
         Sight(x, fr, colour, known, told, marks), colour[Target(x)] = "black",
         NEW told2, told2 = Tell(told, x, "forward_or_cross")
  PROVE  /\ VisitIs(Moved(fr), colour, known, told2, Marked(marks, x))
         /\ TreeIn(told2) = TreeIn(told) /\ told2 \in ToldType
         /\ \A e \in Edges : told2[e] # told[e]
                               => told2[e] = <<"forward_or_cross">> \/ told[e] = <<"back">>
<1>0. /\ fr \in Seq(FrameType) /\ fr # <<>> /\ colour \in Colours /\ known \in SUBSET Vertices
      /\ told \in ToldType /\ marks \in MarkType
      /\ VisitIs(fr, colour, known, told, marks) /\ ~AtEnd(fr) /\ x = OnTop(fr)
  BY DEF Sight
<1>1. /\ FramesOK(fr, known) /\ GrayInFrames(fr, colour) /\ StoppedKnown(colour, known)
      /\ EdgesSound(fr, colour, known, told, marks) /\ TreePath(fr, TreeIn(told))
  BY <1>0 DEF VisitIs
<1>2. PICK v : v = fr[Len(fr)].vertex
  OBVIOUS
<1>3. PICK seen : seen = SeenIn(fr, colour, known)
  OBVIOUS
<1>4. x \in Halves /\ Source(x) = v /\ x \notin seen /\ x.edge \in Edges
  BY <1>0, <1>1, <1>2, <1>3, Seeing, HalfFacts
<1>5. PICK f : Pair(x, f)
  BY <1>0, <1>4, PairOf
<1>6. PICK w : w = Source(f)
  OBVIOUS
<1>7. w \in Vertices /\ colour[w] = "black" /\ v \in Vertices /\ colour[v] = "gray"
  BY <1>0, <1>1, <1>2, <1>5, <1>6, HalfFacts, TopOnly DEF Pair
<1>8. HalvesSound(x, f, seen, fr, told[x.edge], marks[x.edge], colour, known)
  BY <1>0, <1>1, <1>3, <1>5, PairBefore
<1>9. PICK marks2 : marks2 = Marked(marks, x)
  OBVIOUS
<1>10. marks2[x.edge] = "black" /\ \A e \in Edges : e # x.edge => marks2[e] = marks[e]
  BY <1>0, <1>4, <1>9, MarkedIs
<1>11. /\ told2 \in ToldType /\ told2[x.edge] = Append(told[x.edge], "forward_or_cross")
       /\ \A e \in Edges : e # x.edge => told2[e] = told[e]
  BY <1>0, <1>4, TellIs DEF CallTypes
<1>12. /\ f \notin seen => told[x.edge] = <<>> /\ w \in known
       /\ f \in seen => told[x.edge] = <<"back">>
  <2>1. CASE f \notin seen
    <3>1. told[x.edge] = <<>>
      BY <1>0, <1>4, <1>8, <2>1 DEF HalvesSound
    <3>2. w \in known
      BY <1>0, <1>3, <1>5, <1>6, <1>7, <2>1 DEF SeenIn, Pair
    <3> QED
      BY <2>1, <3>1, <3>2
  <2>2. CASE f \in seen
    <3>1. HalfSound(told[x.edge], w, v, fr, colour, known)
      BY <1>0, <1>4, <1>6, <1>8, <2>2 DEF HalvesSound
    <3>2. ~TreeHalf(told[x.edge], w, v, fr, colour)
      BY <1>0, <1>1, <1>7 DEF TreeHalf, RightAbove, GrayInFrames
    <3> QED
      BY <1>0, <1>7, <2>2, <3>1, <3>2 DEF HalfSound, BackHalf, StopHalf
  <2> QED
    BY <2>1, <2>2
<1>13. x # f
  BY <1>0, <1>5 DEF Pair
<1>14. /\ f \notin seen => told2[x.edge] = <<"forward_or_cross">>
       /\ f \in seen => told2[x.edge] = <<"back", "forward_or_cross">>
  BY <1>0, <1>11, <1>12, OneCall
<1>15. HalvesSound(x, f, seen \cup {x}, Moved(fr), told2[x.edge], marks2[x.edge], colour, known)
  <2>1. CASE f \notin seen
    <3>1. StopHalf(told2[x.edge], v, w, colour, known)
      BY <1>0, <1>7, <1>12, <1>14, <2>1 DEF StopHalf
    <3> QED
      BY <1>0, <1>4, <1>6, <1>10, <1>13, <2>1, <3>1 DEF HalvesSound, HalfSound
  <2>2. CASE f \in seen
    BY <1>0, <1>4, <1>6, <1>10, <1>14, <2>2 DEF HalvesSound
  <2> QED
    BY <2>1, <2>2
<1>16. EdgesSound(Moved(fr), colour, known, told2, marks2)
  <2>1. \A e \in Edges : e # x.edge => told2[e] = told[e] /\ marks2[e] = marks[e]
    BY <1>0, <1>10, <1>11
  <2>2. Sighted(x, f, seen, fr, colour, known, told, marks, told2, marks2)
    BY <1>0, <1>1, <1>3, <1>5, <1>15, <2>1 DEF Sighted
  <2> QED
    BY <1>0, <2>2, SightSound
<1>17. TreeIn(told2) = TreeIn(told)
  <2>1. \A e \in Edges : told2[e] = <<"tree">> <=> told[e] = <<"tree">>
    BY <1>0, <1>11, <1>12, <1>14, OneCall
  <2> QED
    BY <2>1 DEF TreeIn
<1>18. VisitIs(Moved(fr), colour, known, told2, marks2)
  BY <1>0, <1>1, <1>16, <1>17, FramesMoved, GrayMoved, TreePathMoved DEF VisitIs
<1>19. \A e \in Edges : told2[e] # told[e]
                          => told2[e] = <<"forward_or_cross">> \/ told[e] = <<"back">>
  BY <1>0, <1>11, <1>12, <1>14
<1> QED
  BY <1>0, <1>9, <1>11, <1>17, <1>18, <1>19

\* The ends of an edge are where its halves start.
LEMMA PairEnds ==
  ASSUME graph \in Graphs, NEW d, NEW f, Pair(d, f)
  PROVE  Ends(d.edge) = {Source(d), Source(f)}
<1>1. /\ d.edge \in Edges
      /\ (d = Out(d.edge) /\ f = In(d.edge)) \/ (d = In(d.edge) /\ f = Out(d.edge))
  BY DEF Pair
<1>2. Source(Out(d.edge)) = graph[d.edge][1] /\ Source(In(d.edge)) = graph[d.edge][2]
  BY <1>1, HalfFacts
<1>3. CASE d = Out(d.edge) /\ f = In(d.edge)
  BY <1>2, <1>3 DEF Ends
<1>4. CASE d = In(d.edge) /\ f = Out(d.edge)
  BY <1>2, <1>4 DEF Ends
<1> QED
  BY <1>1, <1>3, <1>4

\* The edge leads to a white vertex, which is put on the stack.
TreeSight(v, w, x, fr, colour, known, told, marks, fw, stops, told2) ==
  /\ Sight(x, fr, colour, known, told, marks)
  /\ v = fr[Len(fr)].vertex /\ w = Target(x) /\ colour[w] = "white"
  /\ fw \in FrameType /\ fw = Frame(w, Resume(w, stops)) /\ told2 = Tell(told, x, "tree")

\* A tree edge.
LEMMA VisitTree ==
  ASSUME graph \in Graphs, NEW fr, NEW colour, NEW known, NEW told, NEW marks, NEW x, NEW v, NEW w,
         NEW fw, NEW stops, NEW told2,
         TreeSight(v, w, x, fr, colour, known, told, marks, fw, stops, told2)
  PROVE  /\ VisitIs(Append(Moved(fr), fw), Reaches(w, colour), KnownWith(w, known, stops),
                    told2, Marked(marks, x))
         /\ told2 \in ToldType /\ x.edge \in Edges /\ told[x.edge] = <<>> /\ told2[x.edge] = <<"tree">>
         /\ \A e \in Edges : e # x.edge => told2[e] = told[e]
         /\ Ends(x.edge) = {v, w} /\ v # w /\ v \in Vertices /\ w \in Vertices
<1>0. /\ fr \in Seq(FrameType) /\ fr # <<>> /\ colour \in Colours /\ known \in SUBSET Vertices
      /\ told \in ToldType /\ marks \in MarkType
      /\ VisitIs(fr, colour, known, told, marks) /\ ~AtEnd(fr) /\ x = OnTop(fr)
      /\ v = fr[Len(fr)].vertex /\ w = Target(x) /\ colour[w] = "white"
      /\ fw \in FrameType /\ fw = Frame(w, Resume(w, stops)) /\ told2 = Tell(told, x, "tree")
  BY DEF Sight, TreeSight
<1>1. /\ FramesOK(fr, known) /\ GrayInFrames(fr, colour) /\ StoppedKnown(colour, known)
      /\ EdgesSound(fr, colour, known, told, marks) /\ TreePath(fr, TreeIn(told))
  BY <1>0 DEF VisitIs
<1>2. PICK seen : seen = SeenIn(fr, colour, known)
  OBVIOUS
<1>3. x \in Halves /\ Source(x) = v /\ x \notin seen /\ x.edge \in Edges /\ w \in Vertices
  BY <1>0, <1>1, <1>2, Seeing, HalfFacts
<1>4. PICK f : Pair(x, f)
  BY <1>0, <1>3, PairOf
<1>5. Source(f) = w /\ x # f /\ f \in Halves
  BY <1>0, <1>4 DEF Pair
<1>6. v \in Vertices /\ colour[v] = "gray" /\ v # w /\ w \notin known
  BY <1>0, <1>1, <1>3, TopOnly DEF StoppedKnown
<1>7. f \notin seen
  BY <1>0, <1>1, <1>2, <1>5, SeenWhat
<1>8. told[x.edge] = <<>>
  <2>1. HalvesSound(x, f, seen, fr, told[x.edge], marks[x.edge], colour, known)
    BY <1>0, <1>1, <1>2, <1>4, PairBefore
  <2> QED
    BY <1>0, <1>3, <1>7, <2>1 DEF HalvesSound
<1>9. /\ told2 \in ToldType /\ told2[x.edge] = <<"tree">>
      /\ \A e \in Edges : e # x.edge => told2[e] = told[e]
  <2>1. "tree" \in CallTypes
    BY DEF CallTypes
  <2>2. /\ told2 \in ToldType /\ told2[x.edge] = Append(told[x.edge], "tree")
        /\ \A e \in Edges : e # x.edge => told2[e] = told[e]
    BY <1>0, <1>3, <2>1, TellIs
  <2> QED
    BY <1>0, <1>8, <2>2, OneCall
<1>10. PICK marks2 : marks2 = Marked(marks, x)
  OBVIOUS
<1>11. marks2[x.edge] = "black" /\ \A e \in Edges : e # x.edge => marks2[e] = marks[e]
  BY <1>0, <1>3, <1>10, MarkedIs
<1>12. PICK mv \in Seq(FrameType) : mv = Moved(fr) /\ mv # <<>> /\ Len(mv) = Len(fr)
  BY <1>0, <1>1, MovedParts
<1>13. /\ FramesOK(mv, known) /\ \A i \in 1 .. Len(mv) : mv[i].vertex \notin known
       /\ GrayInFrames(mv, colour) /\ TreePath(mv, TreeIn(told))
       /\ SeenIn(mv, colour, known) = seen \cup {x}
       /\ mv[Len(mv)].vertex = v
  <2>1. FramesOK(mv, known) /\ \A i \in 1 .. Len(mv) : mv[i].vertex \notin known
    BY <1>0, <1>1, <1>12, FramesMoved
  <2>2. GrayInFrames(mv, colour) /\ TreePath(mv, TreeIn(told))
    BY <1>0, <1>1, <1>12, GrayMoved, TreePathMoved
  <2>3. SeenIn(mv, colour, known) = seen \cup {x}
    BY <1>0, <1>1, <1>2, <1>12, Seeing
  <2>4. mv[Len(mv)].vertex = v
    BY <1>0, <1>1, <1>12, MovedParts, FrameParts
  <2> QED
    BY <2>1, <2>2, <2>3, <2>4
<1>14. PICK up, c, k : up = Append(mv, fw) /\ c = Reaches(w, colour) /\ k = KnownWith(w, known, stops)
  OBVIOUS
<1>15. GrayInFrames(up, c) /\ StoppedKnown(c, k) /\ SeenIn(up, c, k) = seen \cup {x}
  BY <1>0, <1>1, <1>3, <1>6, <1>13, <1>14, Reaching, StoppedReached
<1>16. FramesOK(up, k)
  <2>1. \A i \in 1 .. Len(mv) : mv[i].vertex # w
    BY <1>0, <1>3, <1>13 DEF GrayInFrames
  <2> QED
    BY <1>0, <1>3, <1>6, <1>13, <1>14, <2>1, FramesPushed
<1>17. Ends(x.edge) = {v, w}
  BY <1>0, <1>3, <1>4, <1>5, PairEnds
<1>18. fw.vertex = w
  BY <1>0, <1>1, <1>3, <1>6, ResumeIs, FrameIs
<1>19. TreePath(up, TreeIn(told2))
  <2>1. TreeIn(told) \subseteq TreeIn(told2) /\ x.edge \in TreeIn(told2)
    BY <1>0, <1>3, <1>8, <1>9, OneCall DEF TreeIn
  <2>2. \E e \in TreeIn(told2) : Ends(e) = {mv[Len(mv)].vertex, fw.vertex}
    BY <1>0, <1>13, <1>17, <1>18, <2>1
  <2> QED
    BY <1>0, <1>12, <1>13, <1>14, <2>1, <2>2, TreePathPushed
<1>20. HalvesSound(x, f, seen \cup {x}, up, told2[x.edge], marks2[x.edge], c, k)
  <2>1. RightAbove(v, w, up)
    <3>1. PICK n : n = Len(mv) /\ n \in 1 .. n /\ n \in Nat
      BY <1>0, <1>12, FrameParts
    <3>2. Len(up) = n + 1 /\ up[n] = mv[n] /\ up[n + 1] = fw /\ n \in 1 .. n + 1 /\ n + 1 \in 1 .. n + 1
      BY <1>0, <1>12, <1>14, <3>1, PushedParts
    <3> QED
      BY <1>0, <1>13, <1>18, <3>1, <3>2 DEF RightAbove
  <2>2. c[w] = "gray"
    BY <1>0, <1>3, <1>14 DEF Reaches, Colours
  <2>3. TreeHalf(told2[x.edge], v, w, up, c)
    BY <1>0, <1>6, <1>9, <2>1, <2>2 DEF TreeHalf
  <2> QED
    BY <1>0, <1>3, <1>5, <1>7, <1>11, <2>3 DEF HalvesSound, HalfSound
<1>21. ASSUME NEW e \in Edges
       PROVE  HalvesSound(Out(e), In(e), seen \cup {x}, up, told2[e], marks2[e], c, k)
  <2>1. CASE e = x.edge
    <3>1. (x = Out(e) /\ f = In(e)) \/ (x = In(e) /\ f = Out(e))
      BY <1>0, <1>4, <2>1 DEF Pair
    <3> QED
      BY <1>0, <1>20, <2>1, <3>1, PairSound
  <2>2. CASE e # x.edge
    <3>1. HalvesSound(Out(e), In(e), SeenIn(fr, colour, known), fr, told[e], marks[e], colour, known)
      BY <1>0, <1>1 DEF EdgesSound
    <3>2. HalvesSound(Out(e), In(e), SeenIn(mv, colour, known), mv, told[e], marks[e], colour, known)
      BY <1>0, <1>1, <1>12, <2>2, <3>1, EdgeMoved
    <3>3. HalvesSound(Out(e), In(e), SeenIn(up, c, k), up, told[e], marks[e], c, k)
      BY <1>0, <1>3, <1>6, <1>13, <1>14, <3>2, EdgeReached
    <3> QED
      BY <1>0, <1>9, <1>11, <1>15, <2>2, <3>3
  <2> QED
    BY <2>1, <2>2
<1>22. EdgesSound(up, c, k, told2, marks2)
  BY <1>0, <1>15, <1>21 DEF EdgesSound
<1>23. VisitIs(up, c, k, told2, marks2)
  BY <1>0, <1>15, <1>16, <1>19, <1>22 DEF VisitIs
<1> QED
  BY <1>0, <1>3, <1>6, <1>8, <1>9, <1>10, <1>12, <1>14, <1>17, <1>23

-----------------------------------------------------------------------------
(* What the steps do to the forest                                           *)

\* More edges join more.
LEMMA JoinedMore ==
  ASSUME NEW v, NEW w, NEW es, NEW more, es \subseteq more, Joined(v, w, es)
  PROVE  Joined(v, w, more)
  BY DEF Joined, Closed

\* To be joined is an equivalence.
LEMMA JoinedRelation ==
  ASSUME NEW es
  PROVE  /\ \A v : Joined(v, v, es)
         /\ \A v, w : Joined(v, w, es) => Joined(w, v, es)
         /\ \A v, w, x : Joined(v, w, es) /\ Joined(w, x, es) => Joined(v, x, es)
  BY DEF Joined

\* An edge joins its ends.
LEMMA JoinedBy ==
  ASSUME NEW es, NEW e \in es, NEW v, NEW w, Ends(e) = {v, w}
  PROVE  Joined(v, w, es)
<1>1. ASSUME NEW S \in SUBSET Vertices, Closed(S, es) PROVE v \in S <=> w \in S
  <2>1. Ends(e) \cap S # {} => Ends(e) \subseteq S
    BY <1>1 DEF Closed
  <2> QED
    BY <2>1
<1> QED
  BY <1>1 DEF Joined

\* Edges that have been called tree edges have ends that have been discovered.
LEMMA TreeEnds ==
  ASSUME graph \in Graphs, NEW fr \in Seq(FrameType), NEW colour \in Colours, NEW known, NEW told, NEW marks,
         VisitIs(fr, colour, known, told, marks), NEW e \in Edges, told[e] # <<>>
  PROVE  \A v \in Ends(e) : v \in Vertices /\ colour[v] # "white"
<1>1. GrayInFrames(fr, colour) /\ EdgesSound(fr, colour, known, told, marks)
  BY DEF VisitIs
<1>2. PICK seen : seen = SeenIn(fr, colour, known)
  OBVIOUS
<1>3. PICK d, f : d = Out(e) /\ f = In(e)
  OBVIOUS
<1>4. HalvesSound(d, f, seen, fr, told[e], marks[e], colour, known)
  BY <1>1, <1>2, <1>3 DEF EdgesSound
<1>5. /\ d \in seen => colour[Source(d)] # "white"
      /\ f \in seen => colour[Source(f)] # "white"
  BY <1>1, <1>2, SeenWhat
<1>6. d \in seen \/ f \in seen
  BY <1>4 DEF HalvesSound
<1>7. d \notin seen => colour[Source(d)] # "white"
  BY <1>4, <1>6 DEF HalvesSound, HalfSound, TreeHalf, BackHalf, StopHalf
<1>8. f \notin seen => colour[Source(f)] # "white"
  BY <1>4, <1>6 DEF HalvesSound, HalfSound, TreeHalf, BackHalf, StopHalf
<1>9. Source(d) = graph[e][1] /\ Source(f) = graph[e][2] /\ Source(d) \in Vertices /\ Source(f) \in Vertices
  BY <1>3, HalfFacts
<1> QED
  BY <1>5, <1>7, <1>8, <1>9 DEF Ends

\* A finished vertex stays in the forest.
LEMMA ForestFinishes ==
  ASSUME NEW fr \in Seq(FrameType), fr # <<>>, NEW colour \in Colours, NEW told, ForestIs(fr, colour, told)
  PROVE  ForestIs(Dropped(fr), Finished(fr, colour), told)
<1>1. PICK up, c : up = Dropped(fr) /\ c = Finished(fr, colour)
  OBVIOUS
<1>2. \A i \in 1 .. Len(up) : up[i] = fr[i] /\ i \in 1 .. Len(fr)
  BY <1>1, DroppedParts
<1>3. \A i, j \in 1 .. Len(up) : Joined(up[i].vertex, up[j].vertex, TreeIn(told))
  BY <1>2 DEF ForestIs
<1>4. \A v \in Vertices : colour[v] # "white" => c[v] # "white"
  BY <1>1 DEF Finished, Colours
<1>5. ASSUME NEW e \in TreeIn(told)
      PROVE  \E S \in SUBSET Vertices : Side(S, e, TreeIn(told)) /\ \A v \in S : c[v] # "white"
  <2>1. PICK S \in SUBSET Vertices : Side(S, e, TreeIn(told)) /\ \A v \in S : colour[v] # "white"
    BY DEF ForestIs
  <2>2. \A v \in S : c[v] # "white"
    BY <1>4, <2>1
  <2> QED
    BY <2>1, <2>2
<1>6. ForestIs(up, c, told)
  BY <1>3, <1>5 DEF ForestIs
<1> QED
  BY <1>1, <1>6

\* A visit begins.
LEMMA ForestBegins ==
  ASSUME NEW fr \in Seq(FrameType), fr = <<>>, NEW colour \in Colours, NEW told, ForestIs(fr, colour, told),
         NEW v \in Vertices, NEW f \in FrameType
  PROVE  ForestIs(Append(fr, f), Reaches(v, colour), told)
<1>1. PICK up, c : up = Append(fr, f) /\ c = Reaches(v, colour)
  OBVIOUS
<1>2. Len(up) = 1
  BY <1>1
<1>3. \A i, j \in 1 .. Len(up) : Joined(up[i].vertex, up[j].vertex, TreeIn(told))
  <2>1. \A i, j \in 1 .. Len(up) : i = j
    BY <1>2
  <2> QED
    BY <2>1, JoinedRelation
<1>4. \A w \in Vertices : colour[w] # "white" => c[w] # "white"
  BY <1>1 DEF Reaches, Colours
<1>5. ASSUME NEW e \in TreeIn(told)
      PROVE  \E S \in SUBSET Vertices : Side(S, e, TreeIn(told)) /\ \A w \in S : c[w] # "white"
  <2>1. PICK S \in SUBSET Vertices : Side(S, e, TreeIn(told)) /\ \A w \in S : colour[w] # "white"
    BY DEF ForestIs
  <2>2. \A w \in S : c[w] # "white"
    BY <1>4, <2>1
  <2> QED
    BY <2>1, <2>2
<1>6. ForestIs(up, c, told)
  BY <1>3, <1>5 DEF ForestIs
<1> QED
  BY <1>1, <1>6

\* An edge that adds nothing to the forest.
LEMMA ForestSees ==
  ASSUME graph \in Graphs, NEW fr \in Seq(FrameType), fr # <<>>, NEW colour \in Colours, NEW known,
         FramesOK(fr, known), ~AtEnd(fr), NEW told, ForestIs(fr, colour, told),
         NEW told2, TreeIn(told2) = TreeIn(told),
         \A e \in Edges : told2[e] # told[e] =>
           \/ told2[e] = <<"forward_or_cross">> \/ told[e] = <<"back">>
           \/ Joined(graph[e][1], graph[e][2], TreeIn(told))
  PROVE  ForestIs(Moved(fr), colour, told2)
<1>1. PICK mv : mv = Moved(fr)
  OBVIOUS
<1>2. Len(mv) = Len(fr) /\ \A i \in 1 .. Len(fr) : mv[i].vertex = fr[i].vertex
  BY <1>1, MovedParts
<1>3. \A i, j \in 1 .. Len(mv) : Joined(mv[i].vertex, mv[j].vertex, TreeIn(told2))
  BY <1>2 DEF ForestIs
<1>4. ASSUME NEW e \in Edges
      PROVE  told2[e] \in {<<>>, <<"forward_or_cross">>} \/ Joined(graph[e][1], graph[e][2], TreeIn(told2))
  <2>1. told[e] \in {<<>>, <<"forward_or_cross">>} \/ Joined(graph[e][1], graph[e][2], TreeIn(told))
    BY DEF ForestIs
  <2>2. <<"back">> \notin {<<>>, <<"forward_or_cross">>}
    BY OneCall
  <2> QED
    BY <2>1, <2>2
<1>5. ForestIs(mv, colour, told2)
  BY <1>3, <1>4 DEF ForestIs
<1> QED
  BY <1>1, <1>5

\* A tree edge: the new vertex is on the side of the one that it hangs on.
LEMMA SideGrows ==
  ASSUME graph \in Graphs, NEW tree \in SUBSET Edges, NEW x \in Edges, x \notin tree,
         NEW v \in Vertices, NEW w \in Vertices, v # w, Ends(x) = {v, w},
         \A e \in tree : w \notin Ends(e), NEW e \in tree, NEW S \in SUBSET Vertices, w \notin S,
         Side(S, e, tree), NEW T, T = IF v \in S THEN S \cup {w} ELSE S
  PROVE  T \in SUBSET Vertices /\ Side(T, e, tree \cup {x})
<1>1. T \in SUBSET Vertices /\ (\A y : y # w => (y \in T <=> y \in S)) /\ (w \in T <=> v \in S)
  OBVIOUS
<1>2. ASSUME NEW g \in (tree \cup {x}) \ {e}, Ends(g) \cap T # {}
      PROVE  Ends(g) \subseteq T
  <2>1. CASE g = x
    BY <1>1, <1>2, <2>1
  <2>2. CASE g # x
    <3>1. w \notin Ends(g) /\ g \in tree \ {e}
      BY <2>2
    <3>2. Ends(g) \cap S # {}
      BY <1>1, <1>2, <3>1
    <3>3. Ends(g) \subseteq S
      BY <3>1, <3>2 DEF Side, Closed
    <3> QED
      BY <3>3
  <2> QED
    BY <2>1, <2>2
<1>3. Closed(T, (tree \cup {x}) \ {e})
  BY <1>2 DEF Closed
<1>4. graph[e][1] # w /\ graph[e][2] # w
  BY DEF Ends
<1>5. graph[e][1] \in T <=> graph[e][2] \notin T
  BY <1>1, <1>4 DEF Side
<1> QED
  BY <1>1, <1>3, <1>5 DEF Side

\* The new vertex alone is one side of the new edge.
LEMMA SideNew ==
  ASSUME NEW tree, NEW x, x \notin tree, NEW v, NEW w, v # w, Ends(x) = {v, w}, \A e \in tree : w \notin Ends(e)
  PROVE  Side({w}, x, tree \cup {x})
<1>1. (tree \cup {x}) \ {x} = tree
  OBVIOUS
<1>2. Closed({w}, tree)
  BY DEF Closed
<1>3. graph[x][1] \in {w} <=> graph[x][2] \notin {w}
  <2>1. {graph[x][1], graph[x][2]} = {v, w}
    BY DEF Ends
  <2> QED
    BY <2>1
<1> QED
  BY <1>1, <1>2, <1>3 DEF Side

\* The forest with a new tree edge.
LEMMA ForestTree ==
  ASSUME graph \in Graphs, NEW fr \in Seq(FrameType), fr # <<>>, NEW colour \in Colours,
         NEW known, NEW told \in ToldType, NEW marks,
         VisitIs(fr, colour, known, told, marks), ~AtEnd(fr), ForestIs(fr, colour, told),
         NEW x \in Edges, told[x] = <<>>, NEW told2, told2[x] = <<"tree">>,
         \A e \in Edges : e # x => told2[e] = told[e],
         NEW v \in Vertices, v = fr[Len(fr)].vertex, NEW w \in Vertices, colour[w] = "white", v # w, Ends(x) = {v, w},
         NEW fw \in FrameType, fw.vertex = w
  PROVE  ForestIs(Append(Moved(fr), fw), Reaches(w, colour), told2)
<1>1. PICK tree, new : tree = TreeIn(told) /\ new = TreeIn(told2)
  OBVIOUS
<1>2. tree \in SUBSET Edges /\ x \notin tree /\ new = tree \cup {x}
  BY <1>1, OneCall DEF TreeIn
<1>3. \A e \in tree : w \notin Ends(e)
  <2>1. \A e \in tree : e \in Edges /\ told[e] # <<>>
    BY <1>1, OneCall DEF TreeIn
  <2> QED
    BY <2>1, TreeEnds
<1>4. PICK c : c = Reaches(w, colour)
  OBVIOUS
<1>5. c[w] # "white" /\ \A y \in Vertices : colour[y] # "white" => c[y] # "white"
  BY <1>4 DEF Reaches, Colours
<1>6. PICK mv \in Seq(FrameType) : mv = Moved(fr)
  BY MovedParts DEF VisitIs
<1>7. PICK n : n = Len(fr) /\ n \in 1 .. n /\ n \in Nat
  BY FrameParts
<1>8. Len(mv) = n /\ \A i \in 1 .. n : mv[i].vertex = fr[i].vertex
  BY <1>6, <1>7, MovedParts DEF VisitIs
<1>9. PICK up : up = Append(mv, fw)
  OBVIOUS
<1>10. /\ Len(up) = n + 1 /\ up[n + 1].vertex = w
       /\ \A i \in 1 .. n + 1 : i # n + 1 => i \in 1 .. n /\ up[i].vertex = fr[i].vertex
  BY <1>6, <1>8, <1>9, PushedParts
<1>11. \A i, j \in 1 .. n : Joined(fr[i].vertex, fr[j].vertex, new)
  <2>1. \A i, j \in 1 .. n : Joined(fr[i].vertex, fr[j].vertex, tree)
    BY <1>1, <1>7 DEF ForestIs
  <2> QED
    BY <1>2, <2>1, JoinedMore
<1>12. Joined(v, w, new)
  BY <1>2, JoinedBy
<1>13. \A i \in 1 .. n + 1 : Joined(up[i].vertex, v, new)
  BY <1>7, <1>10, <1>11, <1>12, JoinedRelation
<1>14. \A i, j \in 1 .. n + 1 : Joined(up[i].vertex, up[j].vertex, new)
  BY <1>13, JoinedRelation
<1>15. ASSUME NEW e \in Edges
       PROVE  told2[e] \in {<<>>, <<"forward_or_cross">>} \/ Joined(graph[e][1], graph[e][2], new)
  <2>1. CASE e = x
    <3>1. Ends(e) = {graph[e][1], graph[e][2]} /\ e \in new
      BY <1>2, <2>1 DEF Ends
    <3> QED
      BY <3>1, JoinedBy
  <2>2. CASE e # x
    <3>1. told2[e] = told[e]
      BY <2>2
    <3>2. told[e] \in {<<>>, <<"forward_or_cross">>} \/ Joined(graph[e][1], graph[e][2], tree)
      BY <1>1 DEF ForestIs
    <3> QED
      BY <1>2, <3>1, <3>2, JoinedMore
  <2> QED
    BY <2>1, <2>2
<1>16. ASSUME NEW e \in new
       PROVE  \E S \in SUBSET Vertices : Side(S, e, new) /\ \A y \in S : c[y] # "white"
  <2>1. CASE e = x
    <3>1. Side({w}, x, new) /\ {w} \in SUBSET Vertices
      BY <1>2, <1>3, SideNew
    <3> QED
      BY <1>5, <2>1, <3>1
  <2>2. CASE e # x
    <3>1. e \in tree
      BY <1>2, <2>2
    <3>2. PICK S \in SUBSET Vertices : Side(S, e, tree) /\ \A y \in S : colour[y] # "white"
      BY <1>1, <3>1 DEF ForestIs
    <3>3. PICK T : T = IF v \in S THEN S \cup {w} ELSE S
      OBVIOUS
    <3>4. w \notin S
      BY <3>2
    <3>5. T \in SUBSET Vertices /\ Side(T, e, new)
      BY <1>2, <1>3, <3>1, <3>2, <3>3, <3>4, SideGrows
    <3>6. \A y \in T : c[y] # "white"
      BY <1>5, <3>2, <3>3
    <3> QED
      BY <3>5, <3>6
  <2> QED
    BY <2>1, <2>2
<1>17. ForestIs(up, c, told2)
  BY <1>1, <1>10, <1>14, <1>15, <1>16 DEF ForestIs
<1> QED
  BY <1>4, <1>6, <1>9, <1>17

-----------------------------------------------------------------------------
(* The invariant after a step: the graph is the same                         *)

LEMMA SamePlaces ==
  ASSUME graph' = graph
  PROVE  /\ FramesOK(Frames, stopped)' <=> FramesOK(Frames', stopped')
         /\ GrayInFrames(Frames, vertex_color)' <=> GrayInFrames(Frames', vertex_color')
         /\ StoppedKnown(vertex_color, stopped)' <=> StoppedKnown(vertex_color', stopped')
         /\ TreePath(Frames, TreeIn(calls))' <=> TreePath(Frames', TreeIn(calls'))
<1>1. FramesOK(Frames, stopped)' <=> FramesOK(Frames', stopped')
  BY DEF FramesOK, IteratorOf, LastEdge, InEdges, OutEdges
<1>2. GrayInFrames(Frames, vertex_color)' <=> GrayInFrames(Frames', vertex_color')
  BY DEF GrayInFrames
<1>3. StoppedKnown(vertex_color, stopped)' <=> StoppedKnown(vertex_color', stopped')
  BY DEF StoppedKnown
<1>4. TreePath(Frames, TreeIn(calls))' <=> TreePath(Frames', TreeIn(calls'))
  BY DEF TreePath, TreeIn, Ends
<1> QED
  BY <1>1, <1>2, <1>3, <1>4

\* The halves that have been seen.
LEMMA SameSeen ==
  ASSUME graph' = graph
  PROVE  SeenIn(Frames, vertex_color, stopped)' = SeenIn(Frames', vertex_color', stopped')
  BY DEF SeenIn, Source, Before, InEdges, OutEdges

\* What the visitor has been told.
LEMMA SameEdges ==
  ASSUME graph' = graph
  PROVE  EdgesSound(Frames, vertex_color, stopped, calls, edge_color)'
           <=> EdgesSound(Frames', vertex_color', stopped', calls', edge_color')
  BY SameSeen DEF EdgesSound, HalvesSound, HalfSound, Source

\* The invariant of the visit.
LEMMA SameVisit ==
  ASSUME graph' = graph
  PROVE  VisitIs(Frames, vertex_color, stopped, calls, edge_color)'
           <=> VisitIs(Frames', vertex_color', stopped', calls', edge_color')
  BY SamePlaces, SameEdges DEF VisitIs

\* The invariant of the forest.
LEMMA SameForest ==
  ASSUME graph' = graph
  PROVE  ForestIs(Frames, vertex_color, calls)' <=> ForestIs(Frames', vertex_color', calls')
  BY DEF ForestIs, Joined, Closed, Side, Ends, TreeIn

-----------------------------------------------------------------------------
(* The frames before and after a step                                        *)

\* The frames while a vertex is being examined.
LEMMA FramesUp ==
  ASSUME NEW st \in Seq(FrameType), NEW v \in Vertices, NEW at \in Positions, NEW fr, fr = FramesOf(st, v, at)
  PROVE  /\ fr \in Seq(FrameType) /\ fr # <<>> /\ Len(fr) = Len(st) + 1
         /\ fr = Append(st, Frame(v, at)) /\ fr[Len(fr)] = Frame(v, at)
         /\ fr[Len(fr)].vertex = v /\ fr[Len(fr)].at = at
<1>1. fr = Append(st, Frame(v, at)) /\ Frame(v, at) \in FrameType
      /\ Frame(v, at).vertex = v /\ Frame(v, at).at = at
  BY FrameIs, EdgesFinite DEF FramesOf
<1>2. PICK f \in FrameType : f = Frame(v, at)
  BY <1>1
<1>3. fr = Append(st, f)
  BY <1>1, <1>2
<1>4. fr \in Seq(FrameType) /\ Len(fr) = Len(st) + 1 /\ fr[Len(st) + 1] = f /\ Len(st) \in Nat
  BY <1>3
<1>5. fr # <<>>
  BY <1>4, EmptySeq
<1> QED
  BY <1>1, <1>2, <1>4, <1>5

\* The three changes, in terms of the stack and the two variables.
LEMMA FramesTop ==
  ASSUME NEW st \in Seq(FrameType), NEW v \in Vertices, NEW at \in Positions, NEW fr, fr = FramesOf(st, v, at)
  PROVE  /\ OnTop(fr) = Dereference(at, InEdges(v), OutEdges(v))
         /\ AtEnd(fr) <=> Equal(at, LastEdge(v))
         /\ Dropped(fr) = st
         /\ Increment(at) \in Positions => Moved(fr) = Append(st, Frame(v, Increment(at)))
<1>1. /\ fr \in Seq(FrameType) /\ fr # <<>> /\ Len(fr) = Len(st) + 1
      /\ fr = Append(st, Frame(v, at)) /\ fr[Len(fr)] = Frame(v, at)
      /\ fr[Len(fr)].vertex = v /\ fr[Len(fr)].at = at
  BY FramesUp
<1>2. OnTop(fr) = Dereference(at, InEdges(v), OutEdges(v)) /\ (AtEnd(fr) <=> Equal(at, LastEdge(v)))
  BY <1>1 DEF OnTop, AtEnd
<1>3. PICK n : n = Len(st) /\ n \in Nat
  BY FrameParts
<1>4. \A i \in 1 .. n : fr[i] = st[i] /\ st[i] \in FrameType
  BY <1>1, <1>3, FrameIs
<1>5. Dropped(fr) = st
  <2>1. /\ Dropped(fr) \in Seq(FrameType) /\ Len(Dropped(fr)) = n
        /\ \A i \in 1 .. Len(Dropped(fr)) : Dropped(fr)[i] = fr[i]
    <3>1. fr \in Seq(FrameType) /\ fr # <<>> /\ Len(fr) = n + 1
      BY <1>1, <1>3
    <3>2. Dropped(fr) \in Seq(FrameType) /\ Len(Dropped(fr)) = Len(fr) - 1
      BY <3>1, DroppedParts
    <3>3. \A i \in 1 .. Len(Dropped(fr)) : Dropped(fr)[i] = fr[i]
      BY <3>1, DroppedParts
    <3> QED
      BY <1>3, <3>1, <3>2, <3>3
  <2>2. \A i \in 1 .. Len(Dropped(fr)) : Dropped(fr)[i] = st[i]
    BY <1>4, <2>1
  <2> QED
    BY <1>3, <2>1, <2>2, SeqEqual
<1>6. ASSUME Increment(at) \in Positions PROVE Moved(fr) = Append(st, Frame(v, Increment(at)))
  <2>1. PICK f \in FrameType : f = Frame(v, Increment(at))
    BY <1>6, FrameIs
  <2>2. Moved(fr) = [i \in 1 .. n + 1 |-> IF i = n + 1 THEN f ELSE fr[i]]
    BY <1>1, <1>3, <2>1 DEF Moved
  <2>3. PICK mv : mv = Moved(fr)
    OBVIOUS
  <2>4. \A i \in 1 .. n + 1 : mv[i] = (IF i = n + 1 THEN f ELSE st[i]) /\ mv[i] \in FrameType
    BY <1>3, <1>4, <2>2, <2>3
  <2>5. mv \in Seq(FrameType) /\ Len(mv) = n + 1
    BY <1>3, <2>2, <2>3, <2>4
  <2>6. PICK up : up = Append(st, f)
    OBVIOUS
  <2>7. up \in Seq(FrameType) /\ Len(up) = n + 1 /\ up[n + 1] = f /\ \A i \in 1 .. n : up[i] = st[i]
    BY <1>3, <2>6, PushedParts
  <2>8. \A i \in 1 .. Len(mv) : mv[i] = up[i]
    BY <1>3, <2>4, <2>5, <2>7
  <2>9. mv = up
    BY <2>5, <2>7, <2>8, SeqEqual
  <2> QED
    BY <2>1, <2>3, <2>6, <2>9
<1> QED
  BY <1>2, <1>5, <1>6

\* pop_back() changes nothing.
LEMMA FramesPopped ==
  ASSUME NEW st \in Seq(FrameType), st # <<>>
  PROVE  /\ Front(st) \in Seq(FrameType) /\ Last(st).vertex \in Vertices /\ Last(st).at \in Positions
         /\ FramesOf(Front(st), Last(st).vertex, Last(st).at) = st
<1>1. PICK n : n = Len(st) /\ n \in 1 .. n /\ n \in Nat
  BY FrameParts
<1>2. st[n] \in FrameType /\ Last(st) = st[n]
  BY <1>1 DEF Last
<1>3. /\ Last(st).vertex \in Vertices /\ Last(st).at \in Positions
      /\ Frame(Last(st).vertex, Last(st).at) = st[n]
  BY <1>2 DEF Frame, FrameType
<1>4. Front(st) = Dropped(st)
  BY DEF Front, Dropped
<1>5. PICK r \in Seq(FrameType) : r = Front(st) /\ Len(r) = n - 1 /\ \A i \in 1 .. n - 1 : r[i] = st[i]
  BY <1>1, <1>4, DroppedParts
<1>6. PICK up : up = FramesOf(r, Last(st).vertex, Last(st).at)
  OBVIOUS
<1>7. up = Append(r, st[n]) /\ up \in Seq(FrameType) /\ Len(up) = n
  BY <1>1, <1>3, <1>5, <1>6, FramesUp
<1>8. \A i \in 1 .. Len(up) : up[i] = st[i]
  BY <1>1, <1>2, <1>5, <1>7
<1>9. up = st
  BY <1>1, <1>7, <1>8, SeqEqual
<1> QED
  BY <1>3, <1>5, <1>6, <1>9

-----------------------------------------------------------------------------
(* The steps                                                                 *)

\* The types of the state after a step.
StepTypes ==
  /\ graph' \in Graphs /\ stopped' \in SUBSET Vertices /\ func' \in SUBSET Vertices
  /\ vertex_color' \in Colours /\ edge_color' \in MarkType /\ calls' \in ToldType
  /\ stack' \in Seq(FrameType) /\ ei' \in Positions /\ u' \in Vertices \cup {NoVertex}
  /\ ui' \in 0 .. VertexCount + 1

\* What a step shows about its new state is the invariant of that state.
LEMMA Concludes ==
  ASSUME StepTypes, graph' = graph,
         VisitIs(Frames', vertex_color', stopped', calls', edge_color'),
         ForestIs(Frames', vertex_color', calls'), LoopInv'
  PROVE  DfsInv'
<1>1. Typed'
  <2>1. \A i \in DOMAIN stack' : stack'[i].vertex \in Vertices
    BY FrameParts DEF StepTypes
  <2> QED
    BY <2>1 DEF StepTypes, Typed, TypeOK, Colours, MarkType, ToldType, CallTypes
<1>2. VisitIs(Frames, vertex_color, stopped, calls, edge_color)' /\ ForestIs(Frames, vertex_color, calls)'
  BY SameVisit, SameForest
<1> QED
  BY <1>1, <1>2 DEF DfsInv, VisitInv, ForestInv

\* What is true before a step, with the frames as a constant.
LEMMA Begins ==
  ASSUME DfsInv
  PROVE  /\ graph \in Graphs /\ stopped \in SUBSET Vertices /\ func \in SUBSET Vertices
         /\ vertex_color \in Colours /\ edge_color \in MarkType /\ calls \in ToldType
         /\ stack \in Seq(FrameType) /\ ei \in Positions /\ u \in Vertices \cup {NoVertex}
         /\ ui \in 0 .. VertexCount + 1
         /\ VisitIs(Frames, vertex_color, stopped, calls, edge_color)
         /\ ForestIs(Frames, vertex_color, calls) /\ LoopInv
  BY DEF DfsInv, VisitInv, ForestInv, Typed, TypeOK, Colours, MarkType, ToldType, CallTypes

\* undirected_dfs() stays where it is, and nothing turns white.
LEMMA LoopStays ==
  ASSUME LoopInv, ui' = ui, ui \in Nat, func' = func,
         \A v : vertex_color[v] # "white" => vertex_color'[v] # "white",
         func = {} /\ stopped = {} => stopped' = {}
  PROVE  LoopInv'
  BY DEF LoopInv

\* pop_back() goes back to the last vertex of the path.
LEMMA PopKeeps == ASSUME DfsInv, Pop PROVE DfsInv'
<1>1. /\ graph \in Graphs /\ stopped \in SUBSET Vertices /\ func \in SUBSET Vertices
      /\ vertex_color \in Colours /\ edge_color \in MarkType /\ calls \in ToldType
      /\ stack \in Seq(FrameType) /\ ei \in Positions /\ u \in Vertices \cup {NoVertex}
      /\ ui \in 0 .. VertexCount + 1
      /\ VisitIs(Frames, vertex_color, stopped, calls, edge_color)
      /\ ForestIs(Frames, vertex_color, calls) /\ LoopInv
  BY Begins
<1>2. /\ u = NoVertex /\ stack # <<>>
      /\ u' = Last(stack).vertex /\ ei' = Last(stack).at /\ stack' = Front(stack)
      /\ graph' = graph /\ func' = func /\ vertex_color' = vertex_color /\ edge_color' = edge_color
      /\ ui' = ui /\ calls' = calls /\ stopped' = stopped
  BY DEF Pop, colors
<1>3. stack' \in Seq(FrameType) /\ u' \in Vertices /\ ei' \in Positions /\ Frames' = stack
  BY <1>1, <1>2, FramesPopped DEF Frames
<1>4. Frames = stack
  BY <1>2 DEF Frames, FramesOf
<1>5. VisitIs(Frames', vertex_color', stopped', calls', edge_color') /\ ForestIs(Frames', vertex_color', calls')
  BY <1>1, <1>2, <1>3, <1>4
<1>6. LoopInv'
  BY <1>1, <1>2, LoopStays
<1>7. StepTypes
  BY <1>1, <1>2, <1>3 DEF StepTypes
<1> QED
  BY <1>2, <1>5, <1>6, <1>7, Concludes

\* Every edge of the vertex has been seen.
LEMMA FinishKeeps == ASSUME DfsInv, FinishVertex PROVE DfsInv'
<1>1. /\ graph \in Graphs /\ stopped \in SUBSET Vertices /\ func \in SUBSET Vertices
      /\ vertex_color \in Colours /\ edge_color \in MarkType /\ calls \in ToldType
      /\ stack \in Seq(FrameType) /\ ei \in Positions /\ u \in Vertices \cup {NoVertex}
      /\ ui \in 0 .. VertexCount + 1
      /\ VisitIs(Frames, vertex_color, stopped, calls, edge_color)
      /\ ForestIs(Frames, vertex_color, calls) /\ LoopInv
  BY Begins
<1>2. /\ u \in Vertices /\ Equal(ei, LastEdge(u))
      /\ vertex_color' = [vertex_color EXCEPT ![u] = "black"] /\ u' = NoVertex
      /\ graph' = graph /\ func' = func /\ edge_color' = edge_color /\ stack' = stack /\ ei' = ei
      /\ ui' = ui /\ calls' = calls /\ stopped' = stopped
  BY <1>1 DEF FinishVertex
<1>3. PICK fr : fr = Frames
  OBVIOUS
<1>4. /\ fr \in Seq(FrameType) /\ fr # <<>> /\ fr[Len(fr)].vertex = u
      /\ AtEnd(fr) /\ Dropped(fr) = stack
  BY <1>1, <1>2, <1>3, FramesUp, FramesTop DEF Frames
<1>5. vertex_color' = Finished(fr, vertex_color)
  BY <1>2, <1>4 DEF Finished
<1>6. Frames' = Dropped(fr)
  BY <1>2, <1>4 DEF Frames, FramesOf
<1>7. VisitIs(Dropped(fr), Finished(fr, vertex_color), stopped, calls, edge_color)
  BY <1>1, <1>3, <1>4, VisitFinishes
<1>8. ForestIs(Dropped(fr), Finished(fr, vertex_color), calls)
  BY <1>1, <1>3, <1>4, ForestFinishes
<1>9. VisitIs(Frames', vertex_color', stopped', calls', edge_color') /\ ForestIs(Frames', vertex_color', calls')
  BY <1>2, <1>5, <1>6, <1>7, <1>8
<1>10. LoopInv'
  <2>1. \A v : vertex_color[v] # "white" => vertex_color'[v] # "white"
    BY <1>1, <1>2 DEF Colours
  <2> QED
    BY <1>1, <1>2, <2>1, LoopStays
<1>11. StepTypes
  BY <1>1, <1>2 DEF StepTypes, Colours
<1> QED
  BY <1>2, <1>9, <1>10, <1>11, Concludes

\* The iterator of the current vertex is at an edge.
LEMMA AtEdgeFrames ==
  ASSUME DfsInv, AtEdge, NEW fr, fr = Frames
  PROVE  /\ u \in Vertices /\ fr \in Seq(FrameType) /\ fr # <<>> /\ fr[Len(fr)].vertex = u
         /\ ~AtEnd(fr) /\ OnTop(fr) = Edge /\ Edge.edge \in Edges /\ Edge \in Halves
         /\ Increment(ei) \in Positions /\ Moved(fr) = Append(stack, Frame(u, Increment(ei)))
         /\ Moved(fr) = FramesOf(stack, u, Increment(ei)) /\ Moved(fr) \in Seq(FrameType)
<1>1. /\ graph \in Graphs /\ u \in Vertices /\ ei \in Positions /\ stack \in Seq(FrameType)
      /\ VisitIs(fr, vertex_color, stopped, calls, edge_color) /\ vertex_color \in Colours
  BY Begins DEF AtEdge
<1>2. /\ fr \in Seq(FrameType) /\ fr # <<>> /\ fr[Len(fr)].vertex = u /\ fr[Len(fr)].at = ei
      /\ ~AtEnd(fr) /\ OnTop(fr) = Edge
  BY <1>1, FramesUp, FramesTop DEF Frames, AtEdge, Edge
<1>3. FramesOK(fr, stopped) /\ GrayInFrames(fr, vertex_color)
  BY <1>1 DEF VisitIs
<1>4. Increment(ei) \in Positions
  BY <1>1, <1>2, <1>3, TopEdge
<1>5. Edge \in Halves /\ Edge.edge \in Edges
  BY <1>1, <1>2, <1>3, Seeing, HalfFacts
<1>6. Moved(fr) = Append(stack, Frame(u, Increment(ei)))
  BY <1>1, <1>4, FramesTop DEF Frames
<1>7. Moved(fr) = FramesOf(stack, u, Increment(ei)) /\ Moved(fr) \in Seq(FrameType)
  BY <1>1, <1>4, <1>6, FramesUp
<1> QED
  BY <1>1, <1>2, <1>4, <1>5, <1>6, <1>7

\* The edge closes a cycle, or is the tree edge seen from below.
LEMMA BackKeeps == ASSUME DfsInv, BackEdge PROVE DfsInv'
<1>1. /\ graph \in Graphs /\ stopped \in SUBSET Vertices /\ func \in SUBSET Vertices
      /\ vertex_color \in Colours /\ edge_color \in MarkType /\ calls \in ToldType
      /\ stack \in Seq(FrameType) /\ ei \in Positions /\ u \in Vertices \cup {NoVertex}
      /\ ui \in 0 .. VertexCount + 1
      /\ VisitIs(Frames, vertex_color, stopped, calls, edge_color)
      /\ ForestIs(Frames, vertex_color, calls) /\ LoopInv
  BY Begins
<1>2. PICK fr, x : fr = Frames /\ x = Edge
  OBVIOUS
<1>3. /\ AtEdge /\ vertex_color[Target(x)] = "gray" /\ edge_color' = Marked(edge_color, x)
      /\ calls' = IF edge_color[x.edge] = "white" THEN Tell(calls, x, "back") ELSE calls
      /\ ei' = Increment(ei)
      /\ graph' = graph /\ func' = func /\ vertex_color' = vertex_color /\ stack' = stack /\ u' = u
      /\ ui' = ui /\ stopped' = stopped
  BY <1>2 DEF BackEdge, Blackened, Marked, Says, Tell
<1>4. /\ u \in Vertices /\ fr \in Seq(FrameType) /\ fr # <<>> /\ fr[Len(fr)].vertex = u
      /\ ~AtEnd(fr) /\ OnTop(fr) = x /\ x.edge \in Edges /\ x \in Halves
      /\ Increment(ei) \in Positions /\ Moved(fr) = FramesOf(stack, u, Increment(ei))
  BY <1>2, <1>3, AtEdgeFrames
<1>5. Frames' = Moved(fr)
  BY <1>3, <1>4 DEF Frames
<1>6. PICK told2 : told2 = IF edge_color[x.edge] = "white" THEN Tell(calls, x, "back") ELSE calls
  OBVIOUS
<1>7. /\ VisitIs(Moved(fr), vertex_color, stopped, told2, Marked(edge_color, x))
      /\ TreeIn(told2) = TreeIn(calls) /\ told2 \in ToldType
      /\ \A e \in Edges : told2[e] # calls[e] => e = x.edge
  <2>1. Sight(x, fr, vertex_color, stopped, calls, edge_color)
    BY <1>1, <1>2, <1>4 DEF Sight
  <2> QED
    BY <1>1, <1>3, <1>6, <2>1, VisitBack
<1>8. Joined(graph[x.edge][1], graph[x.edge][2], TreeIn(calls))
  <2>1. GrayInFrames(fr, vertex_color)
    BY <1>1, <1>2 DEF VisitIs
  <2>2. PICK f : Pair(x, f)
    BY <1>1, <1>4, PairOf
  <2>3. Source(f) = Target(x) /\ Source(f) \in Vertices
    BY <1>1, <2>2, HalfFacts DEF Pair
  <2>4. PICK i \in 1 .. Len(fr) : fr[i].vertex = Source(f)
    BY <1>3, <2>1, <2>3 DEF GrayInFrames
  <2>5. Source(x) = u /\ Len(fr) \in 1 .. Len(fr)
    <3>1. FramesOK(fr, stopped)
      BY <1>1, <1>2 DEF VisitIs
    <3> QED
      BY <1>1, <1>4, <2>1, <3>1, Seeing, FrameParts
  <2>6. Joined(Source(x), Source(f), TreeIn(calls)) /\ Joined(Source(f), Source(x), TreeIn(calls))
    BY <1>1, <1>2, <1>4, <2>4, <2>5 DEF ForestIs
  <2>7. Source(Out(x.edge)) = graph[x.edge][1] /\ Source(In(x.edge)) = graph[x.edge][2]
    BY <1>1, <1>4, HalfFacts
  <2>8. (x = Out(x.edge) /\ f = In(x.edge)) \/ (x = In(x.edge) /\ f = Out(x.edge))
    BY <2>2 DEF Pair
  <2> QED
    BY <2>6, <2>7, <2>8
<1>9. ForestIs(Moved(fr), vertex_color, told2)
  <2>1. FramesOK(fr, stopped)
    BY <1>1, <1>2 DEF VisitIs
  <2>2. \A e \in Edges : told2[e] # calls[e] => Joined(graph[e][1], graph[e][2], TreeIn(calls))
    BY <1>7, <1>8
  <2> QED
    BY <1>1, <1>2, <1>4, <1>7, <2>1, <2>2, ForestSees
<1>10. calls' = told2 /\ edge_color' = Marked(edge_color, x)
  BY <1>3, <1>6
<1>11. VisitIs(Frames', vertex_color', stopped', calls', edge_color') /\ ForestIs(Frames', vertex_color', calls')
  BY <1>3, <1>5, <1>7, <1>9, <1>10
<1>12. LoopInv'
  BY <1>1, <1>3, LoopStays
<1>13. StepTypes
  <2>1. Marked(edge_color, x) \in MarkType
    BY <1>1, <1>4, MarkedIs
  <2> QED
    BY <1>1, <1>3, <1>4, <1>7, <1>10, <2>1 DEF StepTypes
<1> QED
  BY <1>3, <1>11, <1>12, <1>13, Concludes

\* The edge leads to a finished vertex.
LEMMA CrossKeeps == ASSUME DfsInv, ForwardOrCrossEdge PROVE DfsInv'
<1>1. /\ graph \in Graphs /\ stopped \in SUBSET Vertices /\ func \in SUBSET Vertices
      /\ vertex_color \in Colours /\ edge_color \in MarkType /\ calls \in ToldType
      /\ stack \in Seq(FrameType) /\ ei \in Positions /\ u \in Vertices \cup {NoVertex}
      /\ ui \in 0 .. VertexCount + 1
      /\ VisitIs(Frames, vertex_color, stopped, calls, edge_color)
      /\ ForestIs(Frames, vertex_color, calls) /\ LoopInv
  BY Begins
<1>2. PICK fr, x : fr = Frames /\ x = Edge
  OBVIOUS
<1>3. /\ AtEdge /\ vertex_color[Target(x)] = "black" /\ edge_color' = Marked(edge_color, x)
      /\ calls' = Tell(calls, x, "forward_or_cross")
      /\ ei' = Increment(ei)
      /\ graph' = graph /\ func' = func /\ vertex_color' = vertex_color /\ stack' = stack /\ u' = u
      /\ ui' = ui /\ stopped' = stopped
  BY <1>2 DEF ForwardOrCrossEdge, Blackened, Marked, Says, Tell
<1>4. /\ u \in Vertices /\ fr \in Seq(FrameType) /\ fr # <<>> /\ fr[Len(fr)].vertex = u
      /\ ~AtEnd(fr) /\ OnTop(fr) = x /\ x.edge \in Edges /\ x \in Halves
      /\ Increment(ei) \in Positions /\ Moved(fr) = FramesOf(stack, u, Increment(ei))
  BY <1>2, <1>3, AtEdgeFrames
<1>5. Frames' = Moved(fr)
  BY <1>3, <1>4 DEF Frames
<1>6. PICK told2 : told2 = Tell(calls, x, "forward_or_cross")
  OBVIOUS
<1>7. /\ VisitIs(Moved(fr), vertex_color, stopped, told2, Marked(edge_color, x))
      /\ TreeIn(told2) = TreeIn(calls) /\ told2 \in ToldType
      /\ \A e \in Edges : told2[e] # calls[e]
                            => told2[e] = <<"forward_or_cross">> \/ calls[e] = <<"back">>
  <2>1. Sight(x, fr, vertex_color, stopped, calls, edge_color)
    BY <1>1, <1>2, <1>4 DEF Sight
  <2> QED
    BY <1>1, <1>3, <1>6, <2>1, VisitCross
<1>8. ForestIs(Moved(fr), vertex_color, told2)
  <2>1. FramesOK(fr, stopped)
    BY <1>1, <1>2 DEF VisitIs
  <2> QED
    BY <1>1, <1>2, <1>4, <1>7, <2>1, ForestSees
<1>9. calls' = told2 /\ edge_color' = Marked(edge_color, x)
  BY <1>3, <1>6
<1>10. VisitIs(Frames', vertex_color', stopped', calls', edge_color') /\ ForestIs(Frames', vertex_color', calls')
  BY <1>3, <1>5, <1>7, <1>8, <1>9
<1>11. LoopInv'
  BY <1>1, <1>3, LoopStays
<1>12. StepTypes
  <2>1. Marked(edge_color, x) \in MarkType
    BY <1>1, <1>4, MarkedIs
  <2> QED
    BY <1>1, <1>3, <1>4, <1>7, <1>9, <2>1 DEF StepTypes
<1> QED
  BY <1>3, <1>10, <1>11, <1>12, Concludes

\* The edge leads to a white vertex, which becomes the current one.
LEMMA TreeKeeps == ASSUME DfsInv, TreeEdge PROVE DfsInv'
<1>1. /\ graph \in Graphs /\ stopped \in SUBSET Vertices /\ func \in SUBSET Vertices
      /\ vertex_color \in Colours /\ edge_color \in MarkType /\ calls \in ToldType
      /\ stack \in Seq(FrameType) /\ ei \in Positions /\ u \in Vertices \cup {NoVertex}
      /\ ui \in 0 .. VertexCount + 1
      /\ VisitIs(Frames, vertex_color, stopped, calls, edge_color)
      /\ ForestIs(Frames, vertex_color, calls) /\ LoopInv
  BY Begins
<1>2. PICK fr, x, w : fr = Frames /\ x = Edge /\ w = Target(x)
  OBVIOUS
<1>3. PICK at : at = Resume(w, func)
  OBVIOUS
<1>4. /\ AtEdge /\ vertex_color[w] = "white" /\ edge_color' = Marked(edge_color, x)
      /\ calls' = Tell(calls, x, "tree")
      /\ stack' = Append(stack, Frame(u, Increment(ei))) /\ u' = w /\ ei' = at
      /\ vertex_color' = Reaches(w, vertex_color) /\ stopped' = KnownWith(w, stopped, func)
      /\ graph' = graph /\ func' = func /\ ui' = ui
  BY <1>2, <1>3 DEF TreeEdge, Blackened, Marked, Says, Tell, Discovers, KnownWith, Reaches
<1>5. /\ u \in Vertices /\ fr \in Seq(FrameType) /\ fr # <<>> /\ fr[Len(fr)].vertex = u
      /\ ~AtEnd(fr) /\ OnTop(fr) = x /\ x.edge \in Edges /\ x \in Halves
      /\ Moved(fr) = Append(stack, Frame(u, Increment(ei))) /\ Moved(fr) \in Seq(FrameType)
  BY <1>2, <1>4, AtEdgeFrames
<1>6. w \in Vertices
  BY <1>1, <1>2, <1>5, HalfFacts
<1>7. at \in Positions /\ w \notin stopped
  <2>1. w \notin stopped
    BY <1>1, <1>4 DEF VisitIs, StoppedKnown
  <2> QED
    BY <1>1, <1>3, <2>1, ResumeIs
<1>8. PICK fw \in FrameType : fw = Frame(w, at) /\ fw.vertex = w
  BY <1>6, <1>7, FrameIs
<1>9. Frames' = Append(Moved(fr), fw)
  BY <1>4, <1>5, <1>6, <1>8, EdgesFinite DEF Frames, FramesOf
<1>10. PICK told2 : told2 = Tell(calls, x, "tree")
  OBVIOUS
<1>11. /\ VisitIs(Append(Moved(fr), fw), Reaches(w, vertex_color), KnownWith(w, stopped, func),
                  told2, Marked(edge_color, x))
       /\ told2 \in ToldType /\ x.edge \in Edges /\ calls[x.edge] = <<>> /\ told2[x.edge] = <<"tree">>
       /\ \A e \in Edges : e # x.edge => told2[e] = calls[e]
       /\ Ends(x.edge) = {u, w} /\ u # w
  <2>1. Sight(x, fr, vertex_color, stopped, calls, edge_color) /\ u = fr[Len(fr)].vertex
    BY <1>1, <1>2, <1>5 DEF Sight
  <2>2. TreeSight(u, w, x, fr, vertex_color, stopped, calls, edge_color, fw, func, told2)
    BY <1>2, <1>3, <1>4, <1>8, <1>10, <2>1 DEF TreeSight
  <2>3. graph \in Graphs
    BY <1>1
  <2>4. told2 \in ToldType
    BY <2>2, <2>3, VisitTree
  <2>5. VisitIs(Append(Moved(fr), fw), Reaches(w, vertex_color), KnownWith(w, stopped, func),
                  told2, Marked(edge_color, x))
    BY <2>2, <2>3, VisitTree
  <2>6. Ends(x.edge) = {u, w} /\ u # w
    BY <2>2, <2>3, VisitTree
  <2>7. told2[x.edge] = <<"tree">>
    BY <2>2, <2>3, VisitTree
  <2>8. \A e \in Edges : e # x.edge => told2[e] = calls[e]
    BY <2>2, <2>3, VisitTree
  <2>9. x.edge \in Edges /\ calls[x.edge] = <<>>
    BY <2>2, <2>3, VisitTree
  <2> QED
    BY <2>4, <2>5, <2>6, <2>7, <2>8, <2>9
<1>12. ForestIs(Append(Moved(fr), fw), Reaches(w, vertex_color), told2)
  <2>1. /\ VisitIs(fr, vertex_color, stopped, calls, edge_color) /\ ForestIs(fr, vertex_color, calls)
        /\ u = fr[Len(fr)].vertex
    BY <1>1, <1>2, <1>5
  <2> QED
    BY <1>1, <1>4, <1>5, <1>6, <1>8, <1>11, <2>1, ForestTree
<1>13. VisitIs(Frames', vertex_color', stopped', calls', edge_color') /\ ForestIs(Frames', vertex_color', calls')
  BY <1>4, <1>9, <1>10, <1>11, <1>12
<1>14. LoopInv'
  <2>1. \A v : vertex_color[v] # "white" => vertex_color'[v] # "white"
    BY <1>1, <1>4, <1>6 DEF Colours, Reaches
  <2>2. func = {} /\ stopped = {} => stopped' = {}
    BY <1>4 DEF KnownWith
  <2> QED
    BY <1>1, <1>4, <2>1, <2>2, LoopStays
<1>15. StepTypes
  <2>1. Marked(edge_color, x) \in MarkType
    BY <1>1, <1>5, MarkedIs
  <2>2. Reaches(w, vertex_color) \in Colours /\ KnownWith(w, stopped, func) \in SUBSET Vertices
    BY <1>1, <1>6 DEF Reaches, Colours, KnownWith
  <2> QED
    BY <1>1, <1>4, <1>5, <1>6, <1>7, <1>10, <1>11, <2>1, <2>2 DEF StepTypes
<1> QED
  BY <1>4, <1>13, <1>14, <1>15, Concludes

-----------------------------------------------------------------------------
(* The calls                                                                 *)

NoCalls == [e \in Edges |-> <<>>]
NoMarks == [e \in Edges |-> "white"]

\* With white maps nothing has been seen.
LEMMA WhiteIs ==
  ASSUME graph \in Graphs, NEW fr \in Seq(FrameType), fr = <<>>
  PROVE  /\ VisitIs(fr, White, {}, NoCalls, NoMarks) /\ ForestIs(fr, White, NoCalls)
         /\ White \in Colours /\ NoCalls \in ToldType /\ NoMarks \in MarkType
<1>1. White \in Colours /\ \A v \in Vertices : White[v] = "white"
  BY DEF White, Colours
<1>2. NoCalls \in ToldType /\ NoMarks \in MarkType
      /\ \A e \in Edges : NoCalls[e] = <<>> /\ NoMarks[e] = "white"
  BY DEF NoCalls, NoMarks, ToldType, MarkType
<1>3. Len(fr) = 0
  OBVIOUS
<1>4. FramesOK(fr, {}) /\ GrayInFrames(fr, White) /\ StoppedKnown(White, {}) /\ TreePath(fr, TreeIn(NoCalls))
  BY <1>1, <1>3 DEF FramesOK, GrayInFrames, StoppedKnown, TreePath
<1>5. SeenIn(fr, White, {}) = {}
  <2>1. \A d \in Halves : White[Source(d)] = "white"
    BY <1>1, HalfFacts
  <2> QED
    BY <1>3, <2>1 DEF SeenIn
<1>6. EdgesSound(fr, White, {}, NoCalls, NoMarks)
  BY <1>2, <1>5 DEF EdgesSound, HalvesSound
<1>7. TreeIn(NoCalls) = {}
  BY <1>2, OneCall DEF TreeIn
<1>8. ForestIs(fr, White, NoCalls)
  BY <1>2, <1>3, <1>7 DEF ForestIs
<1> QED
  BY <1>1, <1>2, <1>4, <1>6, <1>8 DEF VisitIs

\* A visit begins, in the invariant and in the model.
LEMMA VisitKeeps ==
  ASSUME NEW colour \in Colours, NEW known \in SUBSET Vertices, NEW told \in ToldType, NEW marks \in MarkType,
         NEW fr \in Seq(FrameType), fr = <<>>,
         VisitIs(fr, colour, known, told, marks), ForestIs(fr, colour, told),
         graph \in Graphs, u = NoVertex, ei \in Positions,
         NEW v \in Vertices, colour[v] = "white", NEW stops, Visit(v, colour, stops, known)
  PROVE  /\ VisitIs(Frames', vertex_color', stopped', told, marks) /\ ForestIs(Frames', vertex_color', told)
         /\ graph' = graph /\ vertex_color' \in Colours /\ stopped' \in SUBSET Vertices
         /\ stopped' = KnownWith(v, known, stops) /\ vertex_color' = Reaches(v, colour)
         /\ stack' \in Seq(FrameType) /\ u' \in Vertices \cup {NoVertex} /\ ei' \in Positions
<1>1. v \notin known
  BY DEF VisitIs, StoppedKnown
<1>2. PICK f \in FrameType : f = Frame(v, Resume(v, stops))
  BY <1>1, ResumeIs, FrameIs
<1>3. /\ vertex_color' = Reaches(v, colour) /\ stopped' = KnownWith(v, known, stops)
      /\ stack' = <<f>> /\ graph' = graph /\ u' = u /\ ei' = ei
  BY <1>2 DEF Visit, Reaches, Discovers, KnownWith
<1>4. Append(fr, f) = <<f>> /\ <<f>> \in Seq(FrameType)
  OBVIOUS
<1>5. Frames' = Append(fr, f)
  BY <1>3, <1>4 DEF Frames, FramesOf
<1>6. VisitIs(Append(fr, f), Reaches(v, colour), KnownWith(v, known, stops), told, marks)
  BY <1>2, VisitBegins
<1>7. ForestIs(Append(fr, f), Reaches(v, colour), told)
  BY ForestBegins
<1>8. Reaches(v, colour) \in Colours /\ KnownWith(v, known, stops) \in SUBSET Vertices
  BY DEF Reaches, Colours, KnownWith
<1> QED
  BY <1>3, <1>4, <1>5, <1>6, <1>7, <1>8

\* Between two visits there is no path.
LEMMA NoFrames == ASSUME NoVisit PROVE Frames = <<>> /\ u = NoVertex /\ stack = <<>>
  BY DEF NoVisit, Frames, FramesOf

\* undirected_depth_first_visit() is called.
LEMMA DepthFirstVisitKeeps ==
  ASSUME DfsInv, NEW v \in Vertices, NEW stops \in SUBSET Vertices, DepthFirstVisit(v, stops) PROVE DfsInv'
<1>1. /\ graph \in Graphs /\ stopped \in SUBSET Vertices /\ func \in SUBSET Vertices
      /\ vertex_color \in Colours /\ edge_color \in MarkType /\ calls \in ToldType
      /\ stack \in Seq(FrameType) /\ ei \in Positions /\ u \in Vertices \cup {NoVertex}
      /\ ui \in 0 .. VertexCount + 1
      /\ VisitIs(Frames, vertex_color, stopped, calls, edge_color)
      /\ ForestIs(Frames, vertex_color, calls) /\ LoopInv
  BY Begins
<1>2. /\ NoVisit /\ vertex_color[v] = "white" /\ func' = stops /\ ui' = 0
      /\ Visit(v, vertex_color, stops, stopped) /\ edge_color' = edge_color /\ calls' = calls
  BY DEF DepthFirstVisit, Idle
<1>3. PICK fr \in Seq(FrameType) : fr = <<>> /\ fr = Frames /\ u = NoVertex
  BY <1>1, <1>2, NoFrames
<1>4. VisitIs(fr, vertex_color, stopped, calls, edge_color) /\ ForestIs(fr, vertex_color, calls)
  BY <1>1, <1>3
<1>5. /\ VisitIs(Frames', vertex_color', stopped', calls, edge_color) /\ ForestIs(Frames', vertex_color', calls)
      /\ graph' = graph /\ vertex_color' \in Colours /\ stopped' \in SUBSET Vertices
      /\ stack' \in Seq(FrameType) /\ u' \in Vertices \cup {NoVertex} /\ ei' \in Positions
  BY <1>1, <1>2, <1>3, <1>4, VisitKeeps
<1>6. LoopInv'
  BY <1>2 DEF LoopInv
<1>7. 0 \in 0 .. VertexCount + 1
  BY UndirectedDfsAssumption
<1>8. StepTypes
  BY <1>1, <1>2, <1>5, <1>7 DEF StepTypes
<1> QED
  BY <1>2, <1>5, <1>6, <1>8, Concludes

\* The loop of undirected_dfs().
LEMMA NextVertexKeeps == ASSUME DfsInv, NextVertex PROVE DfsInv'
<1>1. /\ graph \in Graphs /\ stopped \in SUBSET Vertices /\ func \in SUBSET Vertices
      /\ vertex_color \in Colours /\ edge_color \in MarkType /\ calls \in ToldType
      /\ stack \in Seq(FrameType) /\ ei \in Positions /\ u \in Vertices \cup {NoVertex}
      /\ ui \in 0 .. VertexCount + 1
      /\ VisitIs(Frames, vertex_color, stopped, calls, edge_color)
      /\ ForestIs(Frames, vertex_color, calls) /\ LoopInv
  BY Begins
<1>2. /\ NoVisit /\ ui \in Vertices /\ ui' = ui + 1 /\ func' = func
      /\ edge_color' = edge_color /\ calls' = calls
  BY DEF NextVertex
<1>3. PICK fr \in Seq(FrameType) : fr = <<>> /\ fr = Frames /\ u = NoVertex
  BY <1>1, <1>2, NoFrames
<1>4. VisitIs(fr, vertex_color, stopped, calls, edge_color) /\ ForestIs(fr, vertex_color, calls)
  BY <1>1, <1>3
<1>5. /\ ui \in Nat /\ ui # 0 /\ ui + 1 \in 0 .. VertexCount + 1
      /\ \A v \in 1 .. (ui + 1) - 1 : v \in 1 .. ui - 1 \/ v = ui
  BY <1>2, UndirectedDfsAssumption DEF Vertices
<1>6. func = {} /\ stopped = {} /\ \A v \in 1 .. ui - 1 : vertex_color[v] # "white"
  BY <1>1, <1>5 DEF LoopInv
<1>7. CASE vertex_color[ui] = "white"
  <2>1. Visit(ui, vertex_color, {}, stopped)
    BY <1>7 DEF NextVertex
  <2>2. /\ VisitIs(Frames', vertex_color', stopped', calls, edge_color) /\ ForestIs(Frames', vertex_color', calls)
        /\ graph' = graph /\ vertex_color' \in Colours /\ stopped' \in SUBSET Vertices
        /\ stopped' = KnownWith(ui, stopped, {}) /\ vertex_color' = Reaches(ui, vertex_color)
        /\ stack' \in Seq(FrameType) /\ u' \in Vertices \cup {NoVertex} /\ ei' \in Positions
    BY <1>1, <1>2, <1>3, <1>4, <1>7, <2>1, VisitKeeps
  <2>3. \A v \in 1 .. (ui + 1) - 1 : vertex_color'[v] # "white"
    BY <1>1, <1>2, <1>5, <1>6, <2>2 DEF Reaches, Colours
  <2>4. LoopInv'
    BY <1>2, <1>6, <2>2, <2>3 DEF LoopInv, KnownWith
  <2>5. StepTypes
    BY <1>1, <1>2, <1>5, <2>2 DEF StepTypes
  <2> QED
    BY <1>2, <2>2, <2>4, <2>5, Concludes
<1>8. CASE vertex_color[ui] # "white"
  <2>1. graph' = graph /\ stack' = stack /\ u' = u /\ ei' = ei /\ vertex_color' = vertex_color /\ stopped' = stopped
    BY <1>8 DEF NextVertex, place
  <2>2. Frames' = fr
    BY <1>3, <2>1 DEF Frames
  <2>3. VisitIs(Frames', vertex_color', stopped', calls', edge_color') /\ ForestIs(Frames', vertex_color', calls')
    BY <1>2, <1>4, <2>1, <2>2
  <2>4. LoopInv'
    BY <1>2, <1>5, <1>6, <1>8, <2>1 DEF LoopInv
  <2>5. StepTypes
    BY <1>1, <1>2, <1>5, <2>1 DEF StepTypes
  <2> QED
    BY <2>1, <2>3, <2>4, <2>5, Concludes
<1> QED
  BY <1>7, <1>8

\* undirected_dfs() is called: it makes everything white.
LEMMA DfsKeeps == ASSUME DfsInv, NEW start \in Vertices, Dfs(start) PROVE DfsInv'
<1>1. /\ graph \in Graphs /\ stack \in Seq(FrameType) /\ ei \in Positions /\ u \in Vertices \cup {NoVertex}
  BY Begins
<1>2. /\ NoVisit /\ func' = {} /\ edge_color' = NoMarks /\ calls' = NoCalls /\ ui' = 1
  BY DEF Dfs, Idle, NoMarks, NoCalls
<1>3. PICK fr \in Seq(FrameType) : fr = <<>> /\ fr = Frames /\ u = NoVertex
  BY <1>1, <1>2, NoFrames
<1>4. /\ VisitIs(fr, White, {}, NoCalls, NoMarks) /\ ForestIs(fr, White, NoCalls)
      /\ White \in Colours /\ NoCalls \in ToldType /\ NoMarks \in MarkType
  BY <1>1, <1>3, WhiteIs
<1>5. 1 \in 0 .. VertexCount + 1 /\ 1 .. 1 - 1 = {} /\ {} \in SUBSET Vertices
  BY UndirectedDfsAssumption
<1>6. CASE start # 1
  <2>1. Visit(start, White, {}, {}) /\ White[start] = "white"
    BY <1>6 DEF Dfs, White
  <2>2. /\ VisitIs(Frames', vertex_color', stopped', NoCalls, NoMarks) /\ ForestIs(Frames', vertex_color', NoCalls)
        /\ graph' = graph /\ vertex_color' \in Colours /\ stopped' \in SUBSET Vertices
        /\ stopped' = KnownWith(start, {}, {})
        /\ stack' \in Seq(FrameType) /\ u' \in Vertices \cup {NoVertex} /\ ei' \in Positions
    BY <1>1, <1>3, <1>4, <1>5, <2>1, VisitKeeps
  <2>3. LoopInv'
    BY <1>2, <1>5, <2>2 DEF LoopInv, KnownWith
  <2>4. StepTypes
    BY <1>1, <1>2, <1>4, <1>5, <2>2 DEF StepTypes
  <2> QED
    BY <1>2, <2>2, <2>3, <2>4, Concludes
<1>7. CASE start = 1
  <2>1. graph' = graph /\ stack' = stack /\ u' = u /\ ei' = ei /\ vertex_color' = White /\ stopped' = {}
    BY <1>7 DEF Dfs, place
  <2>2. Frames' = fr
    BY <1>3, <2>1 DEF Frames
  <2>3. VisitIs(Frames', vertex_color', stopped', calls', edge_color') /\ ForestIs(Frames', vertex_color', calls')
    BY <1>2, <1>4, <2>1, <2>2
  <2>4. LoopInv'
    BY <1>2, <1>5, <2>1 DEF LoopInv
  <2>5. StepTypes
    BY <1>1, <1>2, <1>4, <1>5, <2>1 DEF StepTypes
  <2> QED
    BY <2>1, <2>3, <2>4, <2>5, Concludes
<1> QED
  BY <1>6, <1>7

\* The caller's maps are white.
LEMMA InitInv == Init => DfsInv
<1> SUFFICES ASSUME Init PROVE DfsInv
  OBVIOUS
<1>1. /\ graph \in Graphs /\ func = {} /\ vertex_color = White /\ edge_color = NoMarks
      /\ stack = <<>> /\ u = NoVertex /\ ei = Begin(<<>>, <<>>) /\ ui = 0 /\ calls = NoCalls /\ stopped = {}
  BY DEF Init, NoMarks, NoCalls
<1>2. PICK fr \in Seq(FrameType) : fr = <<>> /\ fr = Frames
  <2>1. <<>> \in Seq(FrameType)
    OBVIOUS
  <2>2. Frames = <<>>
    BY <1>1 DEF Frames, FramesOf
  <2> QED
    BY <2>1, <2>2
<1>3. /\ VisitIs(fr, White, {}, NoCalls, NoMarks) /\ ForestIs(fr, White, NoCalls)
      /\ White \in Colours /\ NoCalls \in ToldType /\ NoMarks \in MarkType
  BY <1>1, <1>2, WhiteIs
<1>4. Begin(<<>>, <<>>) \in Positions
  BY DEF Begin, Positions
<1>5. 0 \in 0 .. VertexCount + 1
  BY UndirectedDfsAssumption
<1>6. Typed
  BY <1>1, <1>3, <1>4, <1>5 DEF Typed, TypeOK, Colours, ToldType, MarkType, CallTypes
<1>7. LoopInv
  BY <1>1 DEF LoopInv
<1> QED
  BY <1>1, <1>2, <1>3, <1>6, <1>7 DEF DfsInv, VisitInv, ForestInv

\* Nothing happens.
LEMMA StutterKeeps == ASSUME DfsInv, UNCHANGED vars PROVE DfsInv'
<1>1. /\ graph \in Graphs /\ stopped \in SUBSET Vertices /\ func \in SUBSET Vertices
      /\ vertex_color \in Colours /\ edge_color \in MarkType /\ calls \in ToldType
      /\ stack \in Seq(FrameType) /\ ei \in Positions /\ u \in Vertices \cup {NoVertex}
      /\ ui \in 0 .. VertexCount + 1
      /\ VisitIs(Frames, vertex_color, stopped, calls, edge_color)
      /\ ForestIs(Frames, vertex_color, calls) /\ LoopInv
  BY Begins
<1>2. /\ graph' = graph /\ func' = func /\ vertex_color' = vertex_color /\ edge_color' = edge_color
      /\ stack' = stack /\ u' = u /\ ei' = ei /\ ui' = ui /\ calls' = calls /\ stopped' = stopped
  BY DEF vars, colors, place
<1>3. Frames' = Frames
  BY <1>2 DEF Frames
<1>4. VisitIs(Frames', vertex_color', stopped', calls', edge_color') /\ ForestIs(Frames', vertex_color', calls')
  BY <1>1, <1>2, <1>3
<1>5. LoopInv'
  BY <1>1, <1>2 DEF LoopInv
<1>6. StepTypes
  BY <1>1, <1>2 DEF StepTypes
<1> QED
  BY <1>2, <1>4, <1>5, <1>6, Concludes

\* The invariant is inductive.
THEOREM DfsInvariant == Spec => []DfsInv
<1>1. DfsInv /\ [Next]_vars => DfsInv'
  <2> SUFFICES ASSUME DfsInv, [Next]_vars PROVE DfsInv'
    OBVIOUS
  <2>1. CASE Pop
    BY <2>1, PopKeeps
  <2>2. CASE TreeEdge
    BY <2>2, TreeKeeps
  <2>3. CASE BackEdge
    BY <2>3, BackKeeps
  <2>4. CASE ForwardOrCrossEdge
    BY <2>4, CrossKeeps
  <2>5. CASE FinishVertex
    BY <2>5, FinishKeeps
  <2>6. CASE NextVertex
    BY <2>6, NextVertexKeeps
  <2>7. ASSUME NEW v \in Vertices, Dfs(v) PROVE DfsInv'
    BY <2>7, DfsKeeps
  <2>8. ASSUME NEW v \in Vertices, NEW stops \in SUBSET Vertices, DepthFirstVisit(v, stops) PROVE DfsInv'
    BY <2>8, DepthFirstVisitKeeps
  <2>9. CASE UNCHANGED vars
    BY <2>9, StutterKeeps
  <2> QED
    BY <2>1, <2>2, <2>3, <2>4, <2>5, <2>6, <2>7, <2>8, <2>9 DEF Next, Step
<1> QED
  BY InitInv, <1>1, PTL DEF Spec

-----------------------------------------------------------------------------
(* What the invariant means                                                  *)

\* The path is the vertices of the frames.
LEMMA PathIs ==
  ASSUME Typed, NEW fr, fr = Frames
  PROVE  /\ Path \in Seq(Vertices) /\ Len(Path) = Len(fr) /\ Len(fr) \in Nat
         /\ \A i \in 1 .. Len(fr) : Path[i] = fr[i].vertex
<1>1. stack \in Seq(FrameType) /\ ei \in Positions /\ u \in Vertices \cup {NoVertex}
  BY DEF Typed, TypeOK
<1>2. PICK n : n = Len(stack) /\ n \in Nat /\ DOMAIN stack = 1 .. n
  BY <1>1, FrameParts
<1>3. PICK p : p = [i \in DOMAIN stack |-> stack[i].vertex]
  OBVIOUS
<1>4. \A i \in 1 .. n : p[i] = stack[i].vertex /\ p[i] \in Vertices
  BY <1>1, <1>2, <1>3, FrameParts
<1>5. p \in Seq(Vertices) /\ Len(p) = n
  BY <1>2, <1>3, <1>4
<1>6. CASE u = NoVertex
  <2>1. fr = stack
    BY <1>6 DEF Frames, FramesOf
  <2>2. Path = p
    BY <1>3, <1>5, <1>6, ConcatEmptySeq DEF Path
  <2> QED
    BY <1>2, <1>4, <1>5, <2>1, <2>2
<1>7. CASE u \in Vertices
  <2>1. u # NoVertex
    BY <1>7, EdgesFinite
  <2>2. PICK f \in FrameType : f = Frame(u, ei) /\ f.vertex = u
    BY <1>1, <1>7, FrameIs
  <2>3. fr = Append(stack, f)
    BY <2>1, <2>2 DEF Frames, FramesOf
  <2>4. /\ Len(fr) = n + 1 /\ fr[n + 1] = f
        /\ \A i \in 1 .. n : fr[i] = stack[i]
    BY <1>1, <1>2, <2>3, PushedParts
  <2>5. Path = p \o <<u>>
    BY <1>3, <2>1 DEF Path
  <2>6. Path \in Seq(Vertices) /\ Len(Path) = n + 1
    BY <1>2, <1>5, <1>7, <2>5
  <2>7. Path[n + 1] = u /\ \A i \in 1 .. n : Path[i] = p[i]
    BY <1>2, <1>5, <1>7, <2>5
  <2>8. ASSUME NEW i \in 1 .. n + 1 PROVE Path[i] = fr[i].vertex
    <3>1. CASE i = n + 1
      BY <2>2, <2>4, <2>7, <3>1
    <3>2. CASE i # n + 1
      <4>1. i \in 1 .. n
        BY <1>2, <3>2
      <4> QED
        BY <1>4, <2>4, <2>7, <4>1
    <3> QED
      BY <3>1, <3>2
  <2> QED
    BY <1>2, <2>4, <2>6, <2>8
<1> QED
  BY <1>1, <1>6, <1>7

\* The gray vertices are the path.
LEMMA PathSound == DfsInv => GrayIsPath
<1> SUFFICES ASSUME DfsInv PROVE GrayIsPath
  OBVIOUS
<1>1. PICK fr : fr = Frames
  OBVIOUS
<1>2. Typed /\ VisitIs(fr, vertex_color, stopped, calls, edge_color)
  BY <1>1 DEF DfsInv, VisitInv
<1>3. PICK p, n : p = Path /\ n = Len(fr)
  OBVIOUS
<1>4. /\ p \in Seq(Vertices) /\ Len(p) = n /\ n \in Nat /\ DOMAIN p = 1 .. n
      /\ \A i \in 1 .. n : p[i] = fr[i].vertex /\ p[i] \in Vertices
  BY <1>1, <1>2, <1>3, PathIs
<1>5. /\ \A v \in Vertices : vertex_color[v] = "gray" <=> \E i \in 1 .. n : fr[i].vertex = v
      /\ \A i, j \in 1 .. n : fr[i].vertex = fr[j].vertex => i = j
  BY <1>2, <1>3 DEF VisitIs, GrayInFrames
<1>6. ToSet(p) = {v \in Vertices : vertex_color[v] = "gray"}
  BY <1>4, <1>5 DEF ToSet
<1>7. IsInjective(p)
  BY <1>4, <1>5 DEF IsInjective
<1>8. ASSUME NEW i \in 1 .. n - 1
      PROVE  \E e \in Edges : calls[e] = <<"tree">> /\ Ends(e) = {p[i], p[i + 1]}
  <2>1. i \in 1 .. n /\ i + 1 \in 1 .. n
    BY <1>4
  <2>2. PICK e \in TreeIn(calls) : Ends(e) = {fr[i].vertex, fr[i + 1].vertex}
    BY <1>2, <1>3, <2>1 DEF VisitIs, TreePath
  <2> QED
    BY <1>4, <2>1, <2>2 DEF TreeIn
<1> QED
  BY <1>3, <1>4, <1>6, <1>7, <1>8 DEF GrayIsPath

\* A finished vertex has had all its edges seen.
LEMMA NoneLeft == DfsInv => NoneLeftBehind
<1> SUFFICES ASSUME DfsInv PROVE NoneLeftBehind
  OBVIOUS
<1>1. PICK fr, seen : fr = Frames /\ seen = SeenIn(fr, vertex_color, stopped)
  OBVIOUS
<1>2. /\ graph \in Graphs /\ VisitIs(fr, vertex_color, stopped, calls, edge_color) /\ vertex_color \in Colours
      /\ stack \in Seq(FrameType) /\ ei \in Positions /\ u \in Vertices \cup {NoVertex}
  BY <1>1, Begins
<1>3. SUFFICES ASSUME NEW e \in Edges, NEW v \in Vertices, v \in Ends(e), vertex_color[v] = "black", v \notin stopped
               PROVE  edge_color[e] = "black" /\ \A w \in Ends(e) : vertex_color[w] # "white"
  BY DEF NoneLeftBehind
<1>4. PICK d, f : d = Out(e) /\ f = In(e)
  OBVIOUS
<1>5. HalvesSound(d, f, seen, fr, calls[e], edge_color[e], vertex_color, stopped)
  BY <1>1, <1>2, <1>4 DEF VisitIs, EdgesSound
<1>6. /\ d \in Halves /\ f \in Halves /\ Source(d) = graph[e][1] /\ Source(f) = graph[e][2]
  BY <1>2, <1>4, HalfFacts
<1>7. d \in seen \/ f \in seen
  <2>1. Source(d) = v \/ Source(f) = v
    BY <1>3, <1>6 DEF Ends
  <2> QED
    BY <1>1, <1>3, <1>6, <2>1 DEF SeenIn
<1>8. edge_color[e] = "black" /\ calls[e] # <<>>
  BY <1>5, <1>7, OneCall DEF HalvesSound, HalfSound, TreeHalf, BackHalf, StopHalf
<1>9. fr \in Seq(FrameType)
  <2>1. CASE u = NoVertex
    BY <1>1, <1>2, <2>1 DEF Frames, FramesOf
  <2>2. CASE u \in Vertices
    BY <1>1, <1>2, <2>2, FramesUp DEF Frames
  <2> QED
    BY <1>2, <2>1, <2>2
<1> QED
  BY <1>2, <1>8, <1>9, TreeEnds

\* At every step of any sequence of calls the gray vertices are a path of tree
\* edges without repetition, and nothing that can be reached from a finished
\* vertex is left behind.
THEOREM UndirectedVisitSound == Spec => []VisitSound
<1>1. DfsInv => VisitSound
  BY PathSound, NoneLeft DEF VisitSound, DfsInv, VisitInv, Typed
<1> QED
  BY DfsInvariant, <1>1, PTL

\* Every edge gets one classification, once from each end at most, and one that
\* is neither a tree edge nor a back edge leads to where a visit has stopped.
THEOREM UndirectedEdgesClassified == Spec => []EdgesClassified
<1>1. DfsInv => EdgesClassified
  <2> SUFFICES ASSUME DfsInv, NEW e \in Edges
               PROVE  \/ calls[e] \in {<<>>, <<"tree">>, <<"back">>, <<"back", "forward_or_cross">>}
                      \/ calls[e] = <<"forward_or_cross">> /\ Ends(e) \cap stopped # {}
    BY DEF EdgesClassified
  <2>1. PICK seen : seen = SeenIn(Frames, vertex_color, stopped)
    OBVIOUS
  <2>2. PICK d, f : d = Out(e) /\ f = In(e)
    OBVIOUS
  <2>3. HalvesSound(d, f, seen, Frames, calls[e], edge_color[e], vertex_color, stopped)
    BY <2>1, <2>2, Begins DEF VisitIs, EdgesSound
  <2>4. Source(d) \in Ends(e) /\ Source(f) \in Ends(e)
    BY <2>2, Begins, HalfFacts DEF Ends
  <2> QED
    BY <2>3, <2>4 DEF HalvesSound, HalfSound, TreeHalf, BackHalf, StopHalf
<1> QED
  BY DfsInvariant, <1>1, PTL

\* When undirected_dfs() has returned, its tree edges join what edges join.
LEMMA ForestJoins ==
  ASSUME DfsInv, stopped = {}, \A v \in Vertices : vertex_color[v] = "black", NEW S \in SUBSET Vertices
  PROVE  Closed(S, TreeEdges) <=> Closed(S, Edges)
<1>1. graph \in Graphs /\ VisitIs(Frames, vertex_color, stopped, calls, edge_color)
      /\ ForestIs(Frames, vertex_color, calls)
  BY Begins
<1>2. TreeEdges = TreeIn(calls) /\ TreeEdges \subseteq Edges
  BY DEF TreeEdges, TreeIn
<1>3. Closed(S, Edges) => Closed(S, TreeEdges)
  BY <1>2 DEF Closed
<1>4. ASSUME Closed(S, TreeEdges), NEW e \in Edges, Ends(e) \cap S # {} PROVE Ends(e) \subseteq S
  <2>1. PICK seen : seen = SeenIn(Frames, vertex_color, stopped)
    OBVIOUS
  <2>2. PICK d, f : d = Out(e) /\ f = In(e)
    OBVIOUS
  <2>3. HalvesSound(d, f, seen, Frames, calls[e], edge_color[e], vertex_color, stopped)
    BY <1>1, <2>1, <2>2 DEF VisitIs, EdgesSound
  <2>4. d \in seen /\ f \in seen
    <3>1. d \in Halves /\ f \in Halves /\ Source(d) \in Vertices /\ Source(f) \in Vertices
      BY <1>1, <2>2, HalfFacts
    <3> QED
      BY <2>1, <3>1 DEF SeenIn
  <2>5. calls[e] \notin {<<>>, <<"forward_or_cross">>}
    BY <2>3, <2>4, OneCall DEF HalvesSound
  <2>6. Joined(graph[e][1], graph[e][2], TreeEdges)
    BY <1>1, <1>2, <2>5 DEF ForestIs
  <2>7. graph[e][1] \in S <=> graph[e][2] \in S
    BY <1>4, <2>6 DEF Joined
  <2> QED
    BY <1>4, <2>7 DEF Ends
<1> QED
  BY <1>3, <1>4 DEF Closed

\* None of the tree edges can be spared.
LEMMA ForestSparse ==
  ASSUME graph \in Graphs, NEW es, es \subseteq Edges, NEW e \in Edges, NEW S \in SUBSET Vertices, Side(S, e, es)
  PROVE  graph[e][2] \notin Reached(graph[e][1], es \ {e})
<1>1. graph[e][1] \in Vertices /\ graph[e][2] \in Vertices
  BY HalfFacts
<1>2. PICK a, b : a = graph[e][1] /\ b = graph[e][2]
  OBVIOUS
<1>3. Closed(S, es \ {e}) /\ (a \in S <=> b \notin S)
  BY <1>2 DEF Side
<1>4. CASE a \in S
  BY <1>2, <1>3, <1>4 DEF Reached, Closed
<1>5. CASE a \notin S
  <2>1. PICK T : T = Vertices \ S
    OBVIOUS
  <2>2. a \in T /\ b \notin T /\ T \in SUBSET Vertices /\ \A v : v \in T <=> v \in Vertices /\ v \notin S
    BY <1>1, <1>2, <1>3, <1>5, <2>1
  <2>3. ASSUME NEW g \in es \ {e}, Ends(g) \cap T # {} PROVE Ends(g) \subseteq T
    <3>1. Ends(g) \subseteq Vertices
      BY HalfFacts DEF Ends
    <3>2. Ends(g) \cap S # {} => Ends(g) \subseteq S
      BY <1>3 DEF Closed
    <3> QED
      BY <2>2, <2>3, <3>1, <3>2
  <2> QED
    BY <1>2, <2>2, <2>3 DEF Reached
<1> QED
  BY <1>4, <1>5

\* When undirected_dfs() has returned every vertex is black, and the tree edges
\* are a spanning forest of the graph.
THEOREM UndirectedSpanningForest == Spec => []SpanningForest
<1>1. DfsInv => SpanningForest
  <2> SUFFICES ASSUME DfsInv, Idle, ui # 0
               PROVE  /\ \A v \in Vertices : vertex_color[v] = "black"
                      /\ \A v \in Vertices : Reached(v, TreeEdges) = Reached(v, Edges)
                      /\ \A e \in TreeEdges : graph[e][2] \notin Reached(graph[e][1], TreeEdges \ {e})
    BY DEF SpanningForest
  <2>1. /\ graph \in Graphs /\ vertex_color \in Colours /\ LoopInv
        /\ VisitIs(Frames, vertex_color, stopped, calls, edge_color)
        /\ ForestIs(Frames, vertex_color, calls)
    BY Begins
  <2>2. ui = VertexCount + 1 /\ Frames = <<>>
    BY NoFrames DEF Idle
  <2>3. stopped = {} /\ \A v \in Vertices : vertex_color[v] # "white"
    BY <2>1, <2>2, UndirectedDfsAssumption DEF LoopInv, Vertices
  <2>4. ASSUME NEW v \in Vertices PROVE vertex_color[v] = "black"
    <3>1. vertex_color[v] # "gray"
      BY <2>1, <2>2 DEF VisitIs, GrayInFrames
    <3> QED
      BY <2>1, <2>3, <3>1 DEF Colours
  <2>5. \A S \in SUBSET Vertices : Closed(S, TreeEdges) <=> Closed(S, Edges)
    BY <2>3, <2>4, ForestJoins
  <2>6. ASSUME NEW v \in Vertices PROVE Reached(v, TreeEdges) = Reached(v, Edges)
    BY <2>5 DEF Reached, Closed
  <2>7. ASSUME NEW e \in TreeEdges PROVE graph[e][2] \notin Reached(graph[e][1], TreeEdges \ {e})
    <3>1. TreeEdges = TreeIn(calls) /\ TreeEdges \subseteq Edges
      BY DEF TreeEdges, TreeIn
    <3>2. PICK S \in SUBSET Vertices : Side(S, e, TreeEdges)
      BY <2>1, <3>1 DEF ForestIs
    <3> QED
      BY <2>1, <3>1, <3>2, ForestSparse
  <2> QED
    BY <2>4, <2>6, <2>7
<1> QED
  BY DfsInvariant, <1>1, PTL

-----------------------------------------------------------------------------
(* The other views of the graph                                              *)

\* As many places of a sequence that has every element of S once as elements.
LEMMA OnceCounted ==
  ASSUME NEW S, IsFiniteSet(S), NEW s, Once(s, S), NEW X \in SUBSET S
  PROVE  Cardinality({i \in 1 .. Len(s) : s[i] \in X}) = Cardinality(X)
<1> DEFINE I == {i \in 1 .. Len(s) : s[i] \in X}
           f == [i \in I |-> s[i]]
<1>1. /\ DOMAIN s = 1 .. Len(s) /\ Len(s) \in Nat
      /\ \A i, j \in 1 .. Len(s) : s[i] = s[j] => i = j
      /\ \A x \in S : \E i \in 1 .. Len(s) : x = s[i]
  BY DEF Once, ToSet
<1>2. f \in Bijection(I, X)
  <2>1. f \in [I -> X]
    OBVIOUS
  <2>2. \A i, j \in I : f[i] = f[j] => i = j
    BY <1>1
  <2>3. \A x \in X : \E i \in I : f[i] = x
    BY <1>1
  <2> QED
    BY <2>1, <2>2, <2>3 DEF Bijection, Injection, Surjection, IsInjective
<1>3. IsFiniteSet(1 .. Len(s)) /\ I \in SUBSET (1 .. Len(s))
  BY <1>1, FS_Interval
<1>4. IsFiniteSet(I)
  BY <1>3, FS_Subset
<1> HIDE DEF I, f
<1>5. Cardinality(X) = Cardinality(I)
  BY <1>2, <1>4, FS_Bijection DEF ExistsBijection
<1> QED
  BY <1>5 DEF I

\* Two such sequences one after the other have the elements of both.
Parts(H, S, T) == S \subseteq H /\ T \subseteq H /\ S \cap T = {} /\ S \cup T = H
BothOnce(s, t, H) ==
  /\ Once(s \o t, H) /\ Len(s \o t) = Len(s) + Len(t)
  /\ s \in Seq(H) /\ t \in Seq(H) /\ Len(s) \in Nat /\ Len(t) \in Nat

LEMMA OnceBoth ==
  ASSUME NEW H, NEW S, NEW T, Parts(H, S, T), NEW s, NEW t, Once(s, S), Once(t, T)
  PROVE  BothOnce(s, t, H)
<1>0. S \subseteq H /\ T \subseteq H /\ S \cap T = {} /\ S \cup T = H
  BY DEF Parts
<1>1. /\ DOMAIN s = 1 .. Len(s) /\ Len(s) \in Nat /\ \A i \in 1 .. Len(s) : s[i] \in S
      /\ \A i, j \in 1 .. Len(s) : s[i] = s[j] => i = j
      /\ \A x \in S : \E i \in 1 .. Len(s) : x = s[i]
  BY DEF Once, ToSet
<1>2. /\ DOMAIN t = 1 .. Len(t) /\ Len(t) \in Nat /\ \A i \in 1 .. Len(t) : t[i] \in T
      /\ \A i, j \in 1 .. Len(t) : t[i] = t[j] => i = j
      /\ \A x \in T : \E i \in 1 .. Len(t) : x = t[i]
  BY DEF Once, ToSet
<1>3. s \in Seq(H) /\ t \in Seq(H)
  <2>1. s \in Seq(S) /\ t \in Seq(T)
    BY DEF Once
  <2> QED
    BY <1>0, <2>1
<1>4. PICK r : r = s \o t
  OBVIOUS
<1>5. /\ r \in Seq(H) /\ Len(r) = Len(s) + Len(t) /\ DOMAIN r = 1 .. Len(s) + Len(t)
      /\ \A i \in 1 .. Len(s) + Len(t) : r[i] = IF i <= Len(s) THEN s[i] ELSE t[i - Len(s)]
  BY <1>3, <1>4
<1>6. PICK m, n \in Nat : m = Len(s) /\ n = Len(t)
  BY <1>1, <1>2
<1>7. /\ \A i \in 1 .. m : i \in 1 .. m + n /\ r[i] = s[i]
      /\ \A i \in 1 .. n : m + i \in 1 .. m + n /\ r[m + i] = t[i]
      /\ \A i \in 1 .. m + n : i \in 1 .. m \/ \E j \in 1 .. n : i = m + j
  <2>1. \A i \in 1 .. m + n : r[i] = IF i <= m THEN s[i] ELSE t[i - m]
    BY <1>5, <1>6
  <2>2. ASSUME NEW i \in 1 .. m PROVE i \in 1 .. m + n /\ r[i] = s[i]
    BY <2>1
  <2>3. ASSUME NEW i \in 1 .. n PROVE m + i \in 1 .. m + n /\ r[m + i] = t[i]
    <3>1. m + i \in 1 .. m + n /\ ~(m + i <= m) /\ (m + i) - m = i
      OBVIOUS
    <3> QED
      BY <2>1, <3>1
  <2>4. ASSUME NEW i \in 1 .. m + n PROVE i \in 1 .. m \/ \E j \in 1 .. n : i = m + j
    <3>1. i \in 1 .. m \/ (i - m \in 1 .. n /\ i = m + (i - m))
      OBVIOUS
    <3> QED
      BY <3>1
  <2> QED
    BY <2>2, <2>3, <2>4
<1>8. \A i, j \in 1 .. m + n : r[i] = r[j] => i = j
  <2> SUFFICES ASSUME NEW i \in 1 .. m + n, NEW j \in 1 .. m + n, r[i] = r[j] PROVE i = j
    OBVIOUS
  <2>1. \A k \in 1 .. m : r[k] \in S
    BY <1>1, <1>6, <1>7
  <2>2. \A k \in 1 .. n : r[m + k] \in T
    BY <1>2, <1>6, <1>7
  <2>3. CASE i \in 1 .. m /\ j \in 1 .. m
    BY <1>1, <1>6, <1>7, <2>3
  <2>4. CASE i \in 1 .. m /\ \E k \in 1 .. n : j = m + k
    BY <1>0, <2>1, <2>2, <2>4
  <2>5. CASE j \in 1 .. m /\ \E k \in 1 .. n : i = m + k
    BY <1>0, <2>1, <2>2, <2>5
  <2>6. ASSUME NEW k \in 1 .. n, NEW l \in 1 .. n, i = m + k, j = m + l PROVE i = j
    BY <1>2, <1>6, <1>7, <2>6
  <2> QED
    BY <1>7, <2>3, <2>4, <2>5, <2>6
<1>9. ASSUME NEW x \in H PROVE \E i \in 1 .. m + n : r[i] = x
  <2>1. CASE x \in S
    BY <1>1, <1>6, <1>7, <2>1
  <2>2. CASE x \in T
    <3>1. PICK i \in 1 .. n : x = t[i]
      BY <1>2, <1>6, <2>2
    <3> QED
      BY <1>7, <3>1
  <2> QED
    BY <1>0, <2>1, <2>2
<1>10. ToSet(r) = H
  <2>1. \A i \in 1 .. m + n : r[i] \in H
    BY <1>5, <1>6
  <2>2. ToSet(r) = {r[i] : i \in 1 .. m + n}
    BY <1>5, <1>6 DEF ToSet
  <2> QED
    BY <1>9, <2>1, <2>2
<1>11. Once(r, H)
  BY <1>5, <1>6, <1>8, <1>10 DEF Once
<1> QED
  BY <1>1, <1>2, <1>3, <1>4, <1>5, <1>11 DEF BothOnce

\* The elements that the iterators of two ranges give are those of both.
LEMMA ElementsBoth ==
  ASSUME NEW S, NEW s \in Seq(S), NEW t \in Seq(S)
  PROVE  /\ Elements(Begin(s, t), s, t) = [k \in 1 .. Len(s) + Len(t) |-> (s \o t)[k]]
<1>1. Len(s) \in Nat /\ Len(t) \in Nat
  OBVIOUS
<1>2. Begin(s, t) = At(s, t, 0)
  BY <1>1 DEF Begin, At
<1>3. ActsAsOne(s, t)
  BY OneSequence
<1>4. DistanceTo(Begin(s, t), End(s, t)) = Len(s) + Len(t)
  BY <1>1 DEF DistanceTo, Begin, End
<1>5. ASSUME NEW k \in 1 .. Len(s) + Len(t)
      PROVE  Dereference(Advance(Begin(s, t), k - 1), s, t) = (s \o t)[k]
  <2>1. PICK l \in 0 .. Len(s) + Len(t) : l = k - 1 /\ l < Len(s) + Len(t) /\ l + 1 = k
    BY <1>1
  <2>2. 0 \in 0 .. Len(s) + Len(t) /\ l - 0 = k - 1
    BY <1>1, <2>1
  <2>3. Advance(At(s, t, 0), l - 0) = At(s, t, l)
    BY <2>2, AdvanceReaches
  <2>4. Dereference(At(s, t, l), s, t) = (s \o t)[l + 1]
    BY <1>3, <2>1 DEF ActsAsOne
  <2> QED
    BY <1>2, <2>1, <2>2, <2>3, <2>4
<1> QED
  BY <1>4, <1>5 DEF Elements

\* Every edge has two halves.
LEMMA HalvesCounted == IsFiniteSet(Halves) /\ Cardinality(Halves) = 2 * EdgeCount
<1> DEFINE n == EdgeCount
           f == [k \in 1 .. 2 * n |-> IF k <= n THEN Out(k) ELSE In(k - n)]
<1>1. n \in Nat /\ Edges = 1 .. n /\ 2 * n \in Nat
  BY UndirectedDfsAssumption DEF Edges
<1>2. /\ \A e \in Edges : Out(e) \in Halves /\ In(e) \in Halves /\ Out(e).edge = e /\ In(e).edge = e
      /\ \A e, g \in Edges : Out(e) # In(g)
      /\ \A d \in Halves : d.edge \in Edges /\ (d = Out(d.edge) \/ d = In(d.edge))
  BY DEF Halves, Out, In
<1> HIDE DEF n
<1>3. \A k \in 1 .. 2 * n : k \in 1 .. n \/ (~(k <= n) /\ k - n \in 1 .. n)
  BY <1>1
<1>4. \A k \in 1 .. 2 * n : f[k] = IF k <= n THEN Out(k) ELSE In(k - n)
  OBVIOUS
<1>5. f \in [1 .. 2 * n -> Halves]
  BY <1>1, <1>2, <1>3
<1> HIDE DEF f
<1>6. \A i, j \in 1 .. 2 * n : f[i] = f[j] => i = j
  <2> SUFFICES ASSUME NEW i \in 1 .. 2 * n, NEW j \in 1 .. 2 * n, f[i] = f[j] PROVE i = j
    OBVIOUS
  <2>1. CASE i <= n /\ j <= n
    <3>1. i \in Edges /\ j \in Edges /\ Out(i) = Out(j)
      BY <1>1, <1>3, <1>4, <2>1
    <3> QED
      BY <1>2, <3>1
  <2>2. CASE ~(i <= n) /\ ~(j <= n)
    <3>1. i - n \in Edges /\ j - n \in Edges /\ In(i - n) = In(j - n)
      BY <1>1, <1>3, <1>4, <2>2
    <3>2. i - n = j - n
      BY <1>2, <3>1
    <3> QED
      BY <1>1, <3>2
  <2>3. CASE i <= n /\ ~(j <= n)
    <3>1. i \in Edges /\ j - n \in Edges /\ Out(i) = In(j - n)
      BY <1>1, <1>3, <1>4, <2>3
    <3> QED
      BY <1>2, <3>1
  <2>4. CASE ~(i <= n) /\ j <= n
    <3>1. i - n \in Edges /\ j \in Edges /\ Out(j) = In(i - n)
      BY <1>1, <1>3, <1>4, <2>4
    <3> QED
      BY <1>2, <3>1
  <2> QED
    BY <2>1, <2>2, <2>3, <2>4
<1>7. ASSUME NEW d \in Halves PROVE \E k \in 1 .. 2 * n : f[k] = d
  <2>1. PICK e \in 1 .. n : d = Out(e) \/ d = In(e)
    BY <1>1, <1>2
  <2>2. CASE d = Out(e)
    <3>1. e \in 1 .. 2 * n /\ e <= n
      BY <1>1
    <3> QED
      BY <1>4, <2>2, <3>1
  <2>3. CASE d = In(e)
    <3>1. e + n \in 1 .. 2 * n /\ ~(e + n <= n) /\ (e + n) - n = e
      BY <1>1
    <3> QED
      BY <1>4, <2>3, <3>1
  <2> QED
    BY <2>1, <2>2, <2>3
<1>8. ExistsBijection(1 .. 2 * n, Halves)
  BY <1>5, <1>6, <1>7 DEF ExistsBijection, Bijection, Injection, Surjection, IsInjective
<1>9. Cardinality(Halves) = 2 * n
  BY <1>1, <1>8, FS_CountingElements
<1>10. IsFiniteSet(Halves)
  BY <1>1, <1>8, FS_NatBijection
<1> QED
  BY <1>9, <1>10 DEF n

\* What out_edges() gives: every half of the vertex, once.
LEMMA OutEdgesAre ==
  ASSUME graph \in Graphs, NEW v
  PROVE  \E b : /\ Once(b, HalvesOf(v)) /\ Len(b) = OutDegree(v)
                /\ b = InEdges(v) \o OutEdges(v)
                /\ OutEdgesOf(v) = [k \in 1 .. Len(b) |-> b[k]]
<1>1. PICK s, S : /\ s = InEdges(v) /\ S = {d \in HalvesOf(v) : d.reverse} /\ Once(s, S)
  BY HalvesInOrder
<1>2. PICK t, T : /\ t = OutEdges(v) /\ T = {d \in HalvesOf(v) : ~d.reverse} /\ Once(t, T)
  BY HalvesInOrder
<1>3. Parts(HalvesOf(v), S, T)
  BY <1>1, <1>2 DEF Parts
<1>10. BothOnce(s, t, HalvesOf(v))
  BY <1>1, <1>2, <1>3, OnceBoth, Zenon
<1>4. /\ Once(s \o t, HalvesOf(v)) /\ Len(s \o t) = Len(s) + Len(t)
      /\ s \in Seq(HalvesOf(v)) /\ t \in Seq(HalvesOf(v))
  BY <1>10 DEF BothOnce
<1>5. Elements(Begin(s, t), s, t) = [k \in 1 .. Len(s) + Len(t) |-> (s \o t)[k]]
  BY <1>4, ElementsBoth
<1>6. OutEdgesOf(v) = Elements(Begin(s, t), s, t) /\ OutDegree(v) = Len(s) + Len(t)
  BY <1>1, <1>2 DEF OutEdgesOf, FirstEdge, OutDegree
<1>7. PICK b : b = s \o t
  OBVIOUS
<1>8. Once(b, HalvesOf(v)) /\ Len(b) = OutDegree(v) /\ b = InEdges(v) \o OutEdges(v)
  BY <1>1, <1>2, <1>4, <1>6, <1>7
<1>9. OutEdgesOf(v) = [k \in 1 .. Len(b) |-> b[k]]
  BY <1>4, <1>5, <1>6, <1>7, Zenon
<1> QED
  BY <1>8, <1>9, Zenon

\* What adjacent_vertices() gives: where every half of the vertex leads to.
LEMMA NeighboursAre ==
  ASSUME graph \in Graphs, NEW v
  PROVE  \E c : /\ Once(c, HalvesOf(v)) /\ Len(c) = OutDegree(v)
                /\ AdjacentVertices(v) = [k \in 1 .. Len(c) |-> Target(c[k])]
<1>1. PICK s, S : /\ s = InEdges(v) /\ S = {d \in HalvesOf(v) : d.reverse} /\ Once(s, S)
  BY HalvesInOrder
<1>2. PICK t, T : /\ t = OutEdges(v) /\ T = {d \in HalvesOf(v) : ~d.reverse} /\ Once(t, T)
  BY HalvesInOrder
<1>3. Parts(HalvesOf(v), T, S)
  BY <1>1, <1>2 DEF Parts
<1>15. BothOnce(t, s, HalvesOf(v))
  BY <1>1, <1>2, <1>3, OnceBoth, Zenon
<1>4. /\ Once(t \o s, HalvesOf(v)) /\ Len(t \o s) = Len(t) + Len(s)
      /\ s \in Seq(HalvesOf(v)) /\ t \in Seq(HalvesOf(v)) /\ Len(s) \in Nat /\ Len(t) \in Nat
  BY <1>15 DEF BothOnce
<1>5. /\ DOMAIN s = 1 .. Len(s) /\ \A k \in 1 .. Len(s) : s[k] \in Halves /\ s[k].reverse
      /\ DOMAIN t = 1 .. Len(t) /\ \A k \in 1 .. Len(t) : t[k] \in Halves /\ ~t[k].reverse
  BY <1>1, <1>2, <1>4, HalfPlaces DEF HalvesOf
<1>6. \A d \in Halves : Target(d) \in Vertices
  BY UndirectedDfsAssumption DEF Target, Halves
<1>7. PICK a : a = Adjacency(v)
  OBVIOUS
<1>8. PICK b : b = InvAdjacency(v)
  OBVIOUS
<1>9. /\ a \in Seq(Vertices) /\ Len(a) = Len(t)
      /\ \A k \in 1 .. Len(t) : a[k] = Target(t[k])
  <2>1. a = [i \in 1 .. Len(t) |-> graph[t[i].edge][2]]
    BY <1>2, <1>5, <1>7 DEF Adjacency
  <2>2. \A k \in 1 .. Len(t) : a[k] = Target(t[k]) /\ a[k] \in Vertices
    BY <1>5, <1>6, <2>1 DEF Target
  <2> QED
    BY <1>4, <2>1, <2>2
<1>10. /\ b \in Seq(Vertices) /\ Len(b) = Len(s)
       /\ \A k \in 1 .. Len(s) : b[k] = Target(s[k])
  <2>1. b = [i \in 1 .. Len(s) |-> graph[s[i].edge][1]]
    BY <1>1, <1>5, <1>8 DEF InvAdjacency
  <2>2. \A k \in 1 .. Len(s) : b[k] = Target(s[k]) /\ b[k] \in Vertices
    BY <1>5, <1>6, <2>1 DEF Target
  <2> QED
    BY <1>4, <2>1, <2>2
<1>11. Elements(Begin(a, b), a, b) = [k \in 1 .. Len(a) + Len(b) |-> (a \o b)[k]]
  BY <1>9, <1>10, ElementsBoth
<1>12. ASSUME NEW k \in 1 .. Len(t) + Len(s) PROVE (a \o b)[k] = Target((t \o s)[k])
  <2>1. CASE k \in 1 .. Len(t)
    <3>1. (a \o b)[k] = a[k] /\ (t \o s)[k] = t[k]
      BY <1>4, <1>9, <1>10, <2>1
    <3> QED
      BY <1>9, <2>1, <3>1
  <2>2. CASE ~(k \in 1 .. Len(t))
    <3>1. k - Len(t) \in 1 .. Len(s)
      BY <1>4, <2>2
    <3>2. (a \o b)[k] = b[k - Len(t)] /\ (t \o s)[k] = s[k - Len(t)]
      BY <1>4, <1>9, <1>10, <2>2
    <3> QED
      BY <1>10, <3>1, <3>2
  <2> QED
    BY <2>1, <2>2
<1>13. AdjacentVertices(v) = [k \in 1 .. Len(t) + Len(s) |-> Target((t \o s)[k])]
  BY <1>7, <1>8, <1>9, <1>10, <1>11, <1>12 DEF AdjacentVertices
<1>14. OutDegree(v) = Len(t) + Len(s)
  BY <1>1, <1>2, <1>4 DEF OutDegree
<1> QED
  BY <1>4, <1>13, <1>14

\* The halves of v that lead to w, and those that lead back.
LeadTo(v, w) == {d \in HalvesOf(v) : Target(d) = w}

LEMMA LeadToFinite == ASSUME NEW v, NEW w PROVE IsFiniteSet(LeadTo(v, w)) /\ IsFiniteSet(HalvesOf(v))
<1>1. LeadTo(v, w) \subseteq Halves /\ HalvesOf(v) \subseteq Halves
  BY DEF LeadTo, HalvesOf
<1> QED
  BY <1>1, HalvesCounted, FS_Subset

LEMMA LeadToBack ==
  ASSUME NEW v, NEW w
  PROVE  Cardinality(LeadTo(v, w)) = Cardinality(LeadTo(w, v))
<1> DEFINE A == LeadTo(v, w)
           B == LeadTo(w, v)
           Flip(d) == [edge |-> d.edge, reverse |-> ~d.reverse]
           f == [d \in A |-> Flip(d)]
<1>1. ASSUME NEW d \in Halves
      PROVE  /\ Flip(d) \in Halves /\ Flip(Flip(d)) = d
             /\ Source(Flip(d)) = Target(d) /\ Target(Flip(d)) = Source(d)
  <2>1. d.edge \in Edges /\ d.reverse \in BOOLEAN /\ d = [edge |-> d.edge, reverse |-> d.reverse]
    BY DEF Halves
  <2>2. CASE d.reverse = TRUE
    BY <2>1, <2>2 DEF Halves, Source, Target
  <2>3. CASE d.reverse = FALSE
    BY <2>1, <2>3 DEF Halves, Source, Target
  <2> QED
    BY <2>1, <2>2, <2>3
<1> HIDE DEF Flip
<1>2. \A d : d \in A <=> d \in Halves /\ Source(d) = v /\ Target(d) = w
  BY DEF LeadTo, HalvesOf
<1>3. \A d : d \in B <=> d \in Halves /\ Source(d) = w /\ Target(d) = v
  BY DEF LeadTo, HalvesOf
<1> HIDE DEF A, B
<1>4. (\A d \in A : Flip(d) \in B) /\ \A d \in B : Flip(d) \in A
  BY <1>1, <1>2, <1>3
<1>5. f \in [A -> B] /\ \A d \in A : f[d] = Flip(d)
  BY <1>4
<1> HIDE DEF f
<1>6. \A c, d \in A : f[c] = f[d] => c = d
  BY <1>1, <1>2, <1>5
<1>7. \A d \in B : \E c \in A : f[c] = d
  BY <1>1, <1>3, <1>4, <1>5
<1>8. ExistsBijection(A, B)
  BY <1>5, <1>6, <1>7 DEF ExistsBijection, Bijection, Injection, Surjection, IsInjective
<1>9. IsFiniteSet(A)
  BY LeadToFinite DEF A
<1>10. Cardinality(B) = Cardinality(A)
  BY <1>8, <1>9, FS_Bijection
<1> QED
  BY <1>10 DEF A, B

\* What the views of v say of w.
LEMMA ViewsOf ==
  ASSUME graph \in Graphs, NEW v, NEW w
  PROVE  /\ Count(AdjacentVertices(v), w) = Cardinality(LeadTo(v, w))
         /\ Cardinality({i \in DOMAIN OutEdgesOf(v) : Target(OutEdgesOf(v)[i]) = w}) =
              Cardinality(LeadTo(v, w))
<1>1. PICK b : Once(b, HalvesOf(v)) /\ OutEdgesOf(v) = [k \in 1 .. Len(b) |-> b[k]]
  BY OutEdgesAre
<1>2. PICK c : Once(c, HalvesOf(v)) /\ AdjacentVertices(v) = [k \in 1 .. Len(c) |-> Target(c[k])]
  BY NeighboursAre
<1> DEFINE X == LeadTo(v, w)
<1>3. /\ \A k \in 1 .. Len(b) : b[k] \in HalvesOf(v)
      /\ \A k \in 1 .. Len(c) : c[k] \in HalvesOf(v)
      /\ \A d \in HalvesOf(v) : \E k \in 1 .. Len(c) : d = c[k]
  <2>1. PICK H : H = HalvesOf(v)
    OBVIOUS
  <2>2. Once(b, H) /\ Once(c, H)
    BY <1>1, <1>2, <2>1
  <2>3. \A k \in 1 .. Len(b) : b[k] \in H
    BY <2>2 DEF Once
  <2>4. (\A k \in 1 .. Len(c) : c[k] \in H) /\ \A d \in H : \E k \in 1 .. Len(c) : d = c[k]
    BY <2>2 DEF Once, ToSet
  <2> QED
    BY <2>1, <2>3, <2>4
<1>4. \A d \in HalvesOf(v) : d \in X <=> Target(d) = w
  BY DEF LeadTo
<1>5. X \in SUBSET HalvesOf(v) /\ IsFiniteSet(HalvesOf(v))
  BY LeadToFinite DEF LeadTo
<1> HIDE DEF X
<1>6. {i \in DOMAIN OutEdgesOf(v) : Target(OutEdgesOf(v)[i]) = w} = {i \in 1 .. Len(b) : b[i] \in X}
  BY <1>1, <1>3, <1>4
<1>7. {i \in DOMAIN AdjacentVertices(v) : AdjacentVertices(v)[i] = w} = {i \in 1 .. Len(c) : c[i] \in X}
  BY <1>2, <1>3, <1>4
<1>8. Cardinality({i \in 1 .. Len(b) : b[i] \in X}) = Cardinality(X)
  BY <1>1, <1>5, OnceCounted
<1>9. Cardinality({i \in 1 .. Len(c) : c[i] \in X}) = Cardinality(X)
  BY <1>2, <1>5, OnceCounted
<1> QED
  BY <1>6, <1>7, <1>8, <1>9 DEF Count, X

\* The places of all vertices are those of all halves.
LEMMA DegreesCounted ==
  ASSUME graph \in Graphs
  PROVE  Cardinality(UNION {{<<v, i>> : i \in 1 .. OutDegree(v)} : v \in Vertices}) = 2 * EdgeCount
<1> DEFINE P == UNION {{<<v, i>> : i \in 1 .. OutDegree(v)} : v \in Vertices}
           All(v) == InEdges(v) \o OutEdges(v)
           f == [p \in P |-> All(p[1])[p[2]]]
<1>1. ASSUME NEW v
      PROVE  Once(All(v), HalvesOf(v)) /\ Len(All(v)) = OutDegree(v)
  BY OutEdgesAre
<1> HIDE DEF All
<1>2. ASSUME NEW v
      PROVE  /\ \A i \in 1 .. OutDegree(v) : All(v)[i] \in Halves /\ Source(All(v)[i]) = v
             /\ \A i, j \in 1 .. OutDegree(v) : All(v)[i] = All(v)[j] => i = j
             /\ \A d \in Halves : Source(d) = v => \E i \in 1 .. OutDegree(v) : All(v)[i] = d
  <2>1. /\ \A i \in 1 .. OutDegree(v) : All(v)[i] \in HalvesOf(v)
        /\ \A i, j \in 1 .. OutDegree(v) : All(v)[i] = All(v)[j] => i = j
        /\ \A d \in HalvesOf(v) : \E i \in 1 .. OutDegree(v) : All(v)[i] = d
    BY <1>1 DEF Once, ToSet
  <2> QED
    BY <2>1 DEF HalvesOf
<1>3. \A d \in Halves : Source(d) \in Vertices
  BY UndirectedDfsAssumption DEF Source, Halves
<1>4. \A p \in P : p[1] \in Vertices /\ p[2] \in 1 .. OutDegree(p[1]) /\ p = <<p[1], p[2]>>
  OBVIOUS
<1>5. \A v \in Vertices : \A i \in 1 .. OutDegree(v) : <<v, i>> \in P
  OBVIOUS
<1> HIDE DEF P
<1>6. f \in [P -> Halves] /\ \A p \in P : f[p] = All(p[1])[p[2]]
  BY <1>2, <1>4
<1> HIDE DEF f
<1>7. ASSUME NEW p \in P, NEW q \in P, f[p] = f[q] PROVE p = q
  <2>1. p[1] = q[1]
    BY <1>2, <1>4, <1>6, <1>7
  <2>2. p[2] = q[2]
    BY <1>2, <1>4, <1>6, <1>7, <2>1
  <2> QED
    BY <1>4, <2>1, <2>2
<1>8. ASSUME NEW d \in Halves PROVE \E p \in P : f[p] = d
  <2>1. PICK i \in 1 .. OutDegree(Source(d)) : All(Source(d))[i] = d
    BY <1>2
  <2>2. <<Source(d), i>> \in P
    BY <1>3, <1>5
  <2> QED
    BY <1>6, <2>1, <2>2
<1>9. f \in Bijection(P, Halves)
  BY <1>6, <1>7, <1>8 DEF Bijection, Injection, Surjection, IsInjective
<1>10. IsFiniteSet(P)
  <2>1. f \in Injection(P, Halves)
    BY <1>9 DEF Bijection
  <2> QED
    BY <2>1, HalvesCounted, FS_Injection
<1>11. Cardinality(Halves) = Cardinality(P)
  BY <1>9, <1>10, FS_Bijection DEF ExistsBijection
<1>12. Cardinality(P) = 2 * EdgeCount
  BY <1>11, HalvesCounted
<1> QED
  BY <1>12 DEF P

\* Degrees, edges and neighbours are of one undirected graph, and edge(v, w) finds
\* the edges between v and w in one of their two directions only
\* (undirected_graph.hh:225-232).
THEOREM ViewsAreOne == Spec => []ViewsAgree
<1>1. ASSUME graph \in Graphs, NEW v \in Vertices
      PROVE  /\ Len(OutEdgesOf(v)) = OutDegree(v) /\ Len(AdjacentVertices(v)) = InDegree(v)
             /\ \A i \in DOMAIN OutEdgesOf(v) : Source(OutEdgesOf(v)[i]) = v
  <2>1. PICK b : /\ Once(b, HalvesOf(v)) /\ Len(b) = OutDegree(v)
                 /\ OutEdgesOf(v) = [k \in 1 .. Len(b) |-> b[k]]
    BY <1>1, OutEdgesAre
  <2>2. PICK c : /\ Once(c, HalvesOf(v)) /\ Len(c) = OutDegree(v)
                 /\ AdjacentVertices(v) = [k \in 1 .. Len(c) |-> Target(c[k])]
    BY <1>1, NeighboursAre
  <2>3. Len(b) \in Nat /\ Len(c) \in Nat /\ \A k \in 1 .. Len(b) : b[k] \in HalvesOf(v)
    BY <2>1, <2>2 DEF Once, ToSet
  <2>4. \A d \in HalvesOf(v) : Source(d) = v
    BY DEF HalvesOf, Source
  <2> QED
    BY <2>1, <2>2, <2>3, <2>4 DEF InDegree
<1>2. ASSUME graph \in Graphs, NEW v \in Vertices, NEW w \in Vertices
      PROVE  EdgeBetween(v, w) = TurnedRound(v, w)
  <2>1. PICK b : Once(b, HalvesOf(v)) /\ OutEdgesOf(v) = [k \in 1 .. Len(b) |-> b[k]]
    BY <1>2, OutEdgesAre
  <2>2. /\ \A k \in 1 .. Len(b) : b[k] \in HalvesOf(v)
        /\ \A d \in HalvesOf(v) : \E k \in 1 .. Len(b) : d = b[k]
    BY <2>1 DEF Once, ToSet
  <2>3. ASSUME NEW e
        PROVE  e \in TurnedRound(v, w) <=>
                 \E k \in 1 .. Len(b) : b[k].reverse /\ Target(b[k]) = w /\ e = b[k].edge
    BY <2>1 DEF TurnedRound
  <2>4. ASSUME NEW d \in HalvesOf(v), d.reverse, Target(d) = w
        PROVE  d.edge \in EdgeBetween(v, w)
    <3>1. d.edge \in Edges /\ graph[d.edge] \in Vertices \X Vertices
      BY <1>2, UndirectedDfsAssumption DEF HalvesOf, Halves
    <3>2. graph[d.edge][2] = v /\ graph[d.edge][1] = w
      BY <2>4 DEF HalvesOf, Source, Target
    <3> QED
      BY <3>1, <3>2 DEF EdgeBetween
  <2>5. ASSUME NEW e \in EdgeBetween(v, w)
        PROVE  In(e) \in HalvesOf(v) /\ In(e).reverse /\ Target(In(e)) = w /\ In(e).edge = e
    BY DEF EdgeBetween, In, HalvesOf, Halves, Source, Target
  <2>6. EdgeBetween(v, w) \subseteq TurnedRound(v, w)
    BY <2>2, <2>3, <2>5
  <2>7. TurnedRound(v, w) \subseteq EdgeBetween(v, w)
    BY <2>2, <2>3, <2>4
  <2> QED
    BY <2>6, <2>7
<1>3. ASSUME graph \in Graphs, NEW v \in Vertices, NEW w \in Vertices
      PROVE  /\ Count(AdjacentVertices(v), w) =
                  Cardinality({i \in DOMAIN OutEdgesOf(v) : Target(OutEdgesOf(v)[i]) = w})
             /\ Count(AdjacentVertices(v), w) = Count(AdjacentVertices(w), v)
             /\ EdgeBetween(v, w) = TurnedRound(v, w)
  <2>1. /\ Count(AdjacentVertices(v), w) = Cardinality(LeadTo(v, w))
        /\ Cardinality({i \in DOMAIN OutEdgesOf(v) : Target(OutEdgesOf(v)[i]) = w}) =
             Cardinality(LeadTo(v, w))
    BY <1>3, ViewsOf
  <2>2. Count(AdjacentVertices(w), v) = Cardinality(LeadTo(w, v))
    BY <1>3, ViewsOf
  <2>3. Cardinality(LeadTo(v, w)) = Cardinality(LeadTo(w, v))
    BY LeadToBack
  <2> QED
    BY <1>2, <1>3, <2>1, <2>2, <2>3
<1>4. graph \in Graphs => ViewsAgree
  BY <1>1, <1>3, DegreesCounted DEF ViewsAgree
<1>5. DfsInv => ViewsAgree
  BY <1>4 DEF DfsInv, VisitInv, Typed, TypeOK
<1> QED
  BY DfsInvariant, <1>5, PTL

=============================================================================
