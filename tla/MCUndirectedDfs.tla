-------------------------- MODULE MCUndirectedDfs ----------------------------
(* Instances of GraphViews, and so of UndirectedDfs, for TLC: all graphs of   *)
(* their size, with loops and parallel edges.                                 *)
EXTENDS GraphViews

AllGraphs == [Edges -> Vertices \X Vertices]

=============================================================================
