--------------------------- MODULE TopologicalSort ---------------------------
(***************************************************************************)
(* What pbxbuild::DirectedGraph promises its callers (DirectedGraph.h): a   *)
(* graph is built by insert(), and ordered() then returns in one step       *)
(* either a topological order of all the nodes, children first, or nothing  *)
(* at all because the graph has a cycle.                                    *)
(***************************************************************************)
EXTENDS TopologicalOrder

CONSTANT Node           \* whatever the graph is instantiated over

VARIABLES
  nodes,                \* every node that was inserted, as a parent or a child
  adjacency,            \* the children of each node that was a parent
  outcome,              \* "building", "sorting", "ordered" or "cycle"
  order                 \* the returned order; empty unless outcome is "ordered"

Outcomes == {"building", "sorting", "ordered", "cycle"}

-----------------------------------------------------------------------------

Init ==
  /\ nodes = {}
  /\ adjacency = << >>
  /\ outcome = "building"
  /\ order = << >>

\* Inserting a parent twice adds to its children.
Insert(node, adjacent) ==
  /\ outcome = "building"
  /\ nodes' = nodes \cup {node} \cup adjacent
  /\ adjacency' = [n \in DOMAIN adjacency \cup {node} |->
        IF n = node THEN Children(adjacency, node) \cup adjacent ELSE adjacency[n]]
  /\ UNCHANGED <<outcome, order>>

Call ==
  /\ outcome = "building"
  /\ outcome' = "sorting"
  /\ UNCHANGED <<nodes, adjacency, order>>

ReturnOrder ==
  /\ outcome = "sorting"
  /\ outcome' = "ordered"
  /\ IsTopologicalOrder(order', nodes, adjacency)
  /\ UNCHANGED <<nodes, adjacency>>

ReturnNothing ==
  /\ outcome = "sorting"
  /\ HasCycle(adjacency)
  /\ outcome' = "cycle"
  /\ UNCHANGED <<nodes, adjacency, order>>

Next ==
  \/ \E node \in Node, adjacent \in SUBSET Node : Insert(node, adjacent)
  \/ Call
  \/ ReturnOrder
  \/ ReturnNothing

vars == <<nodes, adjacency, outcome, order>>

Spec == Init /\ [][Next]_vars

=============================================================================
