--------------------------- MODULE MCDirectedGraph ---------------------------
(***************************************************************************)
(* Model checking DirectedGraph: every graph over three nodes, in every     *)
(* insertion order, with every order of walking the hash containers.  Three *)
(* nodes make every shape that matters: a cycle of one, two or three, a     *)
(* chain, and a node reached over two paths.  No symmetry: the run checks   *)
(* liveness.                                                                *)
(***************************************************************************)
EXTENDS DirectedGraph

=============================================================================
