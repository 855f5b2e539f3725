---------------------------- MODULE UndirectedDfs ----------------------------
(***************************************************************************)
(* utilmm::undirected_dfs and undirected_depth_first_visit on an           *)
(* undirected_graph, which makes every edge of a directed graph one of     *)
(* both its ends: the edges of a vertex are its in-edges, reversed, and    *)
(* then its out-edges, and a property map knows no direction.              *)
(*                                                                         *)
(* One action per call of the visitor: it sees what is coloured how.       *)
(***************************************************************************)
EXTENDS IteratorSequence, FiniteSets, SequencesExt

CONSTANTS
  VertexCount,
  EdgeCount,
  Graphs        \* the base graphs: the source and the target of each edge

Vertices == 1 .. VertexCount
Edges    == 1 .. EdgeCount
NoVertex == 0

\* undirected_dfs() reads *vertices(g).first: there is a vertex.
ASSUME UndirectedDfsAssumption ==
  /\ VertexCount \in Nat \ {0}
  /\ EdgeCount \in Nat
  /\ Graphs \subseteq [Edges -> Vertices \X Vertices]

VARIABLES
  graph,
  func,           \* the vertices at which the terminator of this call says stop
  vertex_color,
  edge_color,
  stack,          \* pairs of a vertex and the iterator to go on with
  u, ei,          \* the vertex whose edges are being examined, and the next one
  ui,             \* the loop of undirected_dfs(): its next vertex, 0 outside
  calls,          \* ghost: the visitor's calls for each edge
  stopped         \* ghost: the vertices at which the visits have stopped

colors == <<vertex_color, edge_color>>
place  == <<stack, u, ei>>
vars   == <<graph, func, colors, place, ui, calls, stopped>>

-----------------------------------------------------------------------------
(* undirected_graph                                                          *)

\* An edge with its `reverse' flag.  The order in which the base graph gives
\* them is always the same.
InEdges(v)  == LET es == SetToSeq({e \in Edges : graph[e][2] = v})
               IN  [i \in DOMAIN es |-> [edge |-> es[i], reverse |-> TRUE]]
OutEdges(v) == LET es == SetToSeq({e \in Edges : graph[e][1] = v})
               IN  [i \in DOMAIN es |-> [edge |-> es[i], reverse |-> FALSE]]

Target(d) == IF d.reverse THEN graph[d.edge][1] ELSE graph[d.edge][2]

FirstEdge(v) == Begin(InEdges(v), OutEdges(v))
LastEdge(v)  == End(InEdges(v), OutEdges(v))

-----------------------------------------------------------------------------
(* undir_dfv_impl_term()                                                     *)

Frame(v, at) == [vertex |-> v, at |-> at]

\* Mutant: an edge is not marked.
BlackenedNone(d) == edge_color

\* put(edge_color, *ei, black).
Blackened(d) == [edge_color EXCEPT ![d.edge] = "black"]

\* Where to begin with a vertex that has been discovered.
Resume(v, stops) == IF v \in stops THEN LastEdge(v) ELSE FirstEdge(v)

Says(d, call) == calls' = [calls EXCEPT ![d.edge] = Append(@, call)]
Discovers(v, known, stops) == stopped' = IF v \in stops THEN known \cup {v} ELSE known

\* A visit of v begins, with the colours that are given.
Visit(v, colour, stops, known) ==
  /\ vertex_color' = [colour EXCEPT ![v] = "gray"]
  /\ Discovers(v, known, stops)
  /\ stack' = <<Frame(v, Resume(v, stops))>>
  /\ UNCHANGED <<graph, u, ei>>

\* The outer loop: pop_back().
Pop ==
  /\ u = NoVertex /\ stack # <<>>
  /\ u' = Last(stack).vertex
  /\ ei' = Last(stack).at
  /\ stack' = Front(stack)
  /\ UNCHANGED <<graph, func, colors, ui, calls, stopped>>

AtEdge == u # NoVertex /\ ~Equal(ei, LastEdge(u))
Edge   == Dereference(ei, InEdges(u), OutEdges(u))

\* The inner loop: *ei leads to a vertex that is white, gray or black.
TreeEdge ==
  /\ AtEdge /\ vertex_color[Target(Edge)] = "white"
  /\ LET v == Target(Edge)
     IN  /\ edge_color' = Blackened(Edge)
         /\ Says(Edge, "tree")
         /\ stack' = Append(stack, Frame(u, Increment(ei)))
         /\ u' = v
         /\ vertex_color' = [vertex_color EXCEPT ![v] = "gray"]
         /\ Discovers(v, stopped, func)
         /\ ei' = Resume(v, func)
  /\ UNCHANGED <<graph, func, ui>>

\* Mutant: ++ei is missing.
BackEdgeStays ==
  /\ AtEdge /\ vertex_color[Target(Edge)] = "gray"
  /\ edge_color' = Blackened(Edge)
  /\ IF edge_color[Edge.edge] = "white" THEN Says(Edge, "back") ELSE UNCHANGED calls
  /\ UNCHANGED <<graph, func, vertex_color, stack, u, ei, ui, stopped>>

BackEdge ==
  /\ AtEdge /\ vertex_color[Target(Edge)] = "gray"
  /\ edge_color' = Blackened(Edge)
  /\ IF edge_color[Edge.edge] = "white" THEN Says(Edge, "back") ELSE UNCHANGED calls
  /\ ei' = Increment(ei)
  /\ UNCHANGED <<graph, func, vertex_color, stack, u, ui, stopped>>

ForwardOrCrossEdge ==
  /\ AtEdge /\ vertex_color[Target(Edge)] = "black"
  /\ edge_color' = Blackened(Edge)
  /\ Says(Edge, "forward_or_cross")
  /\ ei' = Increment(ei)
  /\ UNCHANGED <<graph, func, vertex_color, stack, u, ui, stopped>>

\* Mutant: the vertex stays gray.
FinishVertexGray ==
  /\ u # NoVertex /\ Equal(ei, LastEdge(u))
  /\ u' = NoVertex
  /\ UNCHANGED <<graph, func, colors, stack, ei, ui, calls, stopped>>

FinishVertex ==
  /\ u # NoVertex /\ Equal(ei, LastEdge(u))
  /\ vertex_color' = [vertex_color EXCEPT ![u] = "black"]
  /\ u' = NoVertex
  /\ UNCHANGED <<graph, func, edge_color, stack, ei, ui, calls, stopped>>

Step == Pop \/ TreeEdge \/ BackEdge \/ ForwardOrCrossEdge \/ FinishVertex

-----------------------------------------------------------------------------
(* The calls                                                                 *)

White == [v \in Vertices |-> "white"]

\* The caller's maps are white.
Init ==
  /\ graph \in Graphs
  /\ func = {}
  /\ vertex_color = White
  /\ edge_color = [e \in Edges |-> "white"]
  /\ stack = <<>> /\ u = NoVertex /\ ei = Begin(<<>>, <<>>)
  /\ ui = 0
  /\ calls = [e \in Edges |-> <<>>]
  /\ stopped = {}

NoVisit == u = NoVertex /\ stack = <<>>
Idle    == NoVisit /\ ui \in {0, VertexCount + 1}

\* undirected_depth_first_visit(), from a vertex that no call with these maps
\* has reached.
DepthFirstVisit(v, stops) ==
  /\ Idle /\ vertex_color[v] = "white"
  /\ func' = stops
  /\ ui' = 0
  /\ Visit(v, vertex_color, stops, stopped)
  /\ UNCHANGED <<edge_color, calls>>

\* undirected_dfs() makes the maps white, visits start_vertex unless it is the
\* first vertex, and then whatever is left.
Dfs(start) ==
  /\ Idle
  /\ func' = {}
  /\ edge_color' = [e \in Edges |-> "white"]
  /\ calls' = [e \in Edges |-> <<>>]
  /\ ui' = 1
  /\ IF start # 1 THEN Visit(start, White, {}, {})
     ELSE vertex_color' = White /\ stopped' = {} /\ UNCHANGED <<graph, place>>

\* Mutant: the loop ends before the last vertex.
NextVertexButLast ==
  /\ NoVisit /\ ui \in Vertices
  /\ ui' = ui + 1
  /\ IF vertex_color[ui] = "white" /\ ui # VertexCount THEN Visit(ui, vertex_color, {}, stopped)
     ELSE UNCHANGED <<graph, place, vertex_color, stopped>>
  /\ UNCHANGED <<func, edge_color, calls>>

NextVertex ==
  /\ NoVisit /\ ui \in Vertices
  /\ ui' = ui + 1
  /\ IF vertex_color[ui] = "white" THEN Visit(ui, vertex_color, {}, stopped)
     ELSE UNCHANGED <<graph, place, vertex_color, stopped>>
  /\ UNCHANGED <<func, edge_color, calls>>

Next ==
  \/ Step \/ NextVertex
  \/ \E v \in Vertices : Dfs(v) \/ \E stops \in SUBSET Vertices : DepthFirstVisit(v, stops)

Spec == Init /\ [][Next]_vars

\* The thread that called goes on.
FairSpec == Spec /\ WF_vars(Step \/ NextVertex)

-----------------------------------------------------------------------------
(* Properties                                                                *)

Ends(e) == {graph[e][1], graph[e][2]}

\* Every variable keeps its type.
TypeOK ==
  /\ graph \in Graphs /\ func \subseteq Vertices /\ stopped \subseteq Vertices
  /\ vertex_color \in [Vertices -> {"white", "gray", "black"}]
  /\ edge_color \in [Edges -> {"white", "black"}]
  /\ u \in Vertices \cup {NoVertex} /\ ui \in 0 .. VertexCount + 1
  /\ \A i \in DOMAIN stack : stack[i].vertex \in Vertices
  /\ calls \in [Edges -> Seq({"tree", "back", "forward_or_cross"})]

\* The path from the vertex where the visit began to the current one.
Path == [i \in DOMAIN stack |-> stack[i].vertex] \o (IF u = NoVertex THEN <<>> ELSE <<u>>)

\* The gray vertices are a path of tree edges from the root to the current
\* vertex, none of them twice: a back edge closes a cycle.
GrayIsPath ==
  /\ ToSet(Path) = {v \in Vertices : vertex_color[v] = "gray"}
  /\ IsInjective(Path)
  /\ \A i \in 1 .. Len(Path) - 1 :
       \E e \in Edges : calls[e] = <<"tree">> /\ Ends(e) = {Path[i], Path[i + 1]}

\* Nothing that can be reached is left behind: whatever a finished vertex is
\* joined to has been discovered, unless the visit was told to stop there.
NoneLeftBehind ==
  \A e \in Edges, v \in Vertices :
    v \in Ends(e) /\ vertex_color[v] = "black" /\ v \notin stopped =>
      edge_color[e] = "black" /\ \A w \in Ends(e) : vertex_color[w] # "white"

\* The visit and its colours agree at every step.
VisitSound == TypeOK /\ GrayIsPath /\ NoneLeftBehind

\* Every edge is seen from both ends and is a tree edge or a back edge once; an
\* edge that is neither leads to a vertex at which a visit has stopped.
EdgesClassified ==
  \A e \in Edges :
    \/ calls[e] \in {<<>>, <<"tree">>, <<"back">>, <<"back", "forward_or_cross">>}
    \/ calls[e] = <<"forward_or_cross">> /\ Ends(e) \cap stopped # {}

\* The vertices that can be reached from v by edges of es.
Reached(v, es) ==
  {w \in Vertices :
     \A S \in SUBSET Vertices :
       v \in S /\ (\A e \in es : Ends(e) \cap S # {} => Ends(e) \subseteq S) => w \in S}

TreeEdges == {e \in Edges : calls[e] = <<"tree">>}

\* When undirected_dfs() returns, everything is black and the tree edges are a
\* spanning forest: they join what is joined, and none of them can be spared.
SpanningForest ==
  Idle /\ ui # 0 =>
    /\ \A v \in Vertices : vertex_color[v] = "black"
    /\ \A v \in Vertices : Reached(v, TreeEdges) = Reached(v, Edges)
    /\ \A e \in TreeEdges : graph[e][2] \notin Reached(graph[e][1], TreeEdges \ {e})

\* Every call returns.
CallsReturn == ~Idle ~> Idle

=============================================================================
