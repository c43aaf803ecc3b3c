------------------------ MODULE MCPlanarStraightLayout ------------------------
(***************************************************************************)
(* Every partition of a small graph, and the drawing made of it.           *)
(***************************************************************************)
EXTENDS PlanarStraightLayout

SevenNodesAndLongBase == {<< 7, 2 >>, << 8, 3 >>}
==============================================================================
