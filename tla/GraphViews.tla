----------------------------- MODULE GraphViews ------------------------------
(***************************************************************************)
(* The other functions of undirected_graph: how what they answer about the *)
(* base graph fits together.                                               *)
(***************************************************************************)
EXTENDS UndirectedDfs

Source(d) == IF d.reverse THEN graph[d.edge][2] ELSE graph[d.edge][1]

\* in_degree(u, m_g) + out_degree(u, m_g), and in_degree() is out_degree().
OutDegree(v) == Len(InEdges(v)) + Len(OutEdges(v))
InDegree(v)  == OutDegree(v)

\* The elements from the iterator i of the ranges s and t to their end.
Elements(i, s, t) ==
  LET n == DistanceTo(i, End(s, t)) IN [k \in 1 .. n |-> Dereference(Advance(i, k - 1), s, t)]

OutEdgesOf(v) == Elements(FirstEdge(v), InEdges(v), OutEdges(v))
InEdgesOf(v)  == OutEdgesOf(v)

\* boost's adjacent_vertices() and inv_adjacent_vertices() of the base graph.
Adjacency(v)    == [i \in DOMAIN OutEdges(v) |-> graph[OutEdges(v)[i].edge][2]]
InvAdjacency(v) == [i \in DOMAIN InEdges(v) |-> graph[InEdges(v)[i].edge][1]]

\* Mutant: the second range begins at its end.
AdjacentVerticesFirst(v) == Elements(Begin(Adjacency(v), <<>>), Adjacency(v), <<>>)

AdjacentVertices(v) ==
  Elements(Begin(Adjacency(v), InvAdjacency(v)), Adjacency(v), InvAdjacency(v))

\* edge(u, v) asks the base graph for an edge from v to u.
EdgeBetween(v, w) == {e \in Edges : graph[e] = <<w, v>>}

-----------------------------------------------------------------------------
Count(s, x) == Cardinality({i \in DOMAIN s : s[i] = x})

\* The edges of v that lead to w and are turned round, whose direction in the
\* base graph is from w to v.
TurnedRound(v, w) ==
  LET here == OutEdgesOf(v)
  IN  {here[i].edge : i \in {j \in DOMAIN here : here[j].reverse /\ Target(here[j]) = w}}

\* The degrees, edges and neighbours are of one undirected graph: the degree of a
\* vertex counts its edges and its neighbours, its edges begin there and its
\* neighbours are where they lead to, whoever is a neighbour has it as a neighbour
\* as often, and an edge has two ends.  edge() is not: edge(v, w) finds the edges of
\* v to w that out_edges() turns round and misses the others, so that it may find
\* none between neighbours (undirected_graph.hh:231, against hh:27).
\* (All this depends on the graph alone: one state of each is enough.)
ViewsAgree ==
  vertex_color = White /\ Idle =>
    /\ \A v \in Vertices :
         /\ Len(OutEdgesOf(v)) = OutDegree(v) /\ Len(AdjacentVertices(v)) = InDegree(v)
         /\ \A i \in DOMAIN OutEdgesOf(v) : Source(OutEdgesOf(v)[i]) = v
         /\ \A w \in Vertices :
              /\ Count(AdjacentVertices(v), w) =
                   Cardinality({i \in DOMAIN OutEdgesOf(v) : Target(OutEdgesOf(v)[i]) = w})
              /\ Count(AdjacentVertices(v), w) = Count(AdjacentVertices(w), v)
              /\ EdgeBetween(v, w) = TurnedRound(v, w)
    /\ Cardinality(UNION {{<<v, i>> : i \in 1 .. OutDegree(v)} : v \in Vertices}) = 2 * EdgeCount
=============================================================================
