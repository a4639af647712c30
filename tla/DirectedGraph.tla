---------------------------- MODULE DirectedGraph ----------------------------
(***************************************************************************)
(* pbxbuild::DirectedGraph: the graph behind target dependencies, build     *)
(* phases, file types and tool invocations.  ordered() is an iterative      *)
(* depth-first search; one action is one pass of its loop.  The containers  *)
(* are hash sets and hash maps, so every iteration order is possible.       *)
(***************************************************************************)
EXTENDS Naturals, Sequences, FiniteSets

CONSTANT Node           \* the values the graph is instantiated over

ASSUME NodeAssumption == IsFiniteSet(Node)

VARIABLES
  nodes,                \* _nodes
  adjacency,            \* _adjacency: a function on the parents only
  pc,                   \* where the caller is; see Outcomes
  toExplore,            \* the list of ordered(); its front is the head
  inProgress,           \* nodes on the path that is being explored
  explored,             \* nodes that have been put into result
  result                \* the order so far

graph == <<nodes, adjacency>>
vars  == <<nodes, adjacency, pc, toExplore, inProgress, explored, result>>

Abstract == INSTANCE TopologicalSort WITH
  outcome <- pc,
  order   <- IF pc = "ordered" THEN result ELSE << >>

Parents == DOMAIN adjacency

\* adjacent(), and the lookup in the loop of ordered().
Adjacent(n) == IF n \in Parents THEN adjacency[n] ELSE {}

\* The orders in which a hash container with these elements can be walked.
Walks(S) ==
  {s \in [1..Cardinality(S) -> S] : \A x \in S : \E i \in 1..Cardinality(S) : s[i] = x}

Front == Head(toExplore)

-----------------------------------------------------------------------------

Init ==
  /\ nodes = {}
  /\ adjacency = << >>
  /\ pc = "building"
  /\ toExplore = << >>
  /\ inProgress = {}
  /\ explored = {}
  /\ result = << >>

InsertForgetsChildren(node, adjacent) ==
  /\ pc = "building"
  /\ nodes' = nodes \cup {node}
  /\ adjacency' = [n \in Parents \cup {node} |->
        IF n = node THEN Adjacent(node) \cup adjacent ELSE adjacency[n]]
  /\ UNCHANGED <<pc, toExplore, inProgress, explored, result>>

Insert(node, adjacent) ==
  /\ pc = "building"
  /\ nodes' = nodes \cup {node} \cup adjacent
  /\ adjacency' = [n \in Parents \cup {node} |->
        IF n = node THEN Adjacent(node) \cup adjacent ELSE adjacency[n]]
  /\ UNCHANGED <<pc, toExplore, inProgress, explored, result>>

\* ordered() is called: every parent is to be explored.
Call ==
  /\ pc = "building"
  /\ pc' = "sorting"
  /\ toExplore' \in Walks(Parents)
  /\ UNCHANGED <<graph, inProgress, explored, result>>

\* The front was reached over another path in the meantime.
SkipExplored ==
  /\ pc = "sorting" /\ toExplore # << >>
  /\ Front \in explored
  /\ toExplore' = Tail(toExplore)
  /\ UNCHANGED <<graph, pc, inProgress, explored, result>>

\* A child that is on the current path closes a cycle.
ReportCycleExceptToItself ==
  /\ pc = "sorting" /\ toExplore # << >>
  /\ Front \notin explored
  /\ inProgress' = inProgress \cup {Front}
  /\ Adjacent(Front) \cap inProgress # {}
  /\ pc' = "cycle"
  /\ UNCHANGED <<graph, toExplore, explored, result>>

ReportCycle ==
  /\ pc = "sorting" /\ toExplore # << >>
  /\ Front \notin explored
  /\ inProgress' = inProgress \cup {Front}
  /\ Adjacent(Front) \cap inProgress' # {}
  /\ pc' = "cycle"
  /\ UNCHANGED <<graph, toExplore, explored, result>>

\* The walk over the children meets an unexplored one first.
Descend(child) ==
  /\ pc = "sorting" /\ toExplore # << >>
  /\ Front \notin explored
  /\ inProgress' = inProgress \cup {Front}
  /\ child \in Adjacent(Front) \ (explored \cup inProgress')
  /\ toExplore' = <<child>> \o toExplore
  /\ UNCHANGED <<graph, pc, explored, result>>

FinishKeepsInProgress ==
  /\ pc = "sorting" /\ toExplore # << >>
  /\ Front \notin explored
  /\ Adjacent(Front) \subseteq explored
  /\ toExplore' = Tail(toExplore)
  /\ inProgress' = inProgress \cup {Front}
  /\ explored' = explored \cup {Front}
  /\ result' = Append(result, Front)
  /\ UNCHANGED <<graph, pc>>

FinishTooEarly ==
  /\ pc = "sorting" /\ toExplore # << >>
  /\ Front \notin explored
  /\ Adjacent(Front) \cap (inProgress \cup {Front}) = {}
  /\ toExplore' = Tail(toExplore)
  /\ inProgress' = inProgress \ {Front}
  /\ explored' = explored \cup {Front}
  /\ result' = Append(result, Front)
  /\ UNCHANGED <<graph, pc>>

\* Nothing was pushed: every child is explored, the front comes next in the order.
Finish ==
  /\ pc = "sorting" /\ toExplore # << >>
  /\ Front \notin explored
  /\ Adjacent(Front) \subseteq explored
  /\ toExplore' = Tail(toExplore)
  /\ inProgress' = inProgress \ {Front}
  /\ explored' = explored \cup {Front}
  /\ result' = Append(result, Front)
  /\ UNCHANGED <<graph, pc>>

Return ==
  /\ pc = "sorting" /\ toExplore = << >>
  /\ pc' = "ordered"
  /\ UNCHANGED <<graph, toExplore, inProgress, explored, result>>

Sort ==
  \/ SkipExplored
  \/ ReportCycle
  \/ \E child \in Node : Descend(child)
  \/ Finish
  \/ Return

Next ==
  \/ \E node \in Node, adjacent \in SUBSET Node : Insert(node, adjacent)
  \/ Call
  \/ Sort

Spec == Init /\ [][Next]_vars

\* The caller's thread runs ordered() to its end once it has entered it.
FairSpec == Spec /\ WF_vars(Sort)

-----------------------------------------------------------------------------

(***************************************************************************)
(* Type invariant: what the containers hold.                                *)
(***************************************************************************)
TypeOK ==
  /\ nodes \subseteq Node
  /\ Parents \subseteq nodes
  /\ adjacency \in [Parents -> SUBSET nodes]
  /\ pc \in Abstract!Outcomes
  /\ toExplore \in Seq(nodes)
  /\ inProgress \subseteq nodes
  /\ explored \subseteq nodes
  /\ result \in Seq(nodes)

(***************************************************************************)
(* The order returned by ordered() lists every node of the graph once and   *)
(* every node after its children: executors rely on it to build             *)
(* dependencies first.                                                      *)
(***************************************************************************)
OrderedIsTopological ==
  pc = "ordered" => Abstract!IsTopologicalOrder(result, nodes, adjacency)

(***************************************************************************)
(* Nothing is returned only when the graph has a cycle: a diamond or a      *)
(* second visit over another parent is no reason to refuse a build.         *)
(***************************************************************************)
NothingOnlyForCycle == pc = "cycle" => Abstract!HasCycle(adjacency)

(***************************************************************************)
(* The assertion at the end of ordered(): no node is still in progress      *)
(* when the list has run empty.                                             *)
(***************************************************************************)
NothingLeftInProgress ==
  pc = "sorting" /\ toExplore = << >> => inProgress = {}

(***************************************************************************)
(* ordered() implements the one-step sort: it answers with an order exactly *)
(* when there is one.                                                       *)
(***************************************************************************)
ImplementsTopologicalSort == Abstract!Spec

(***************************************************************************)
(* ordered() always returns, whatever cycles the graph has.                 *)
(***************************************************************************)
SortTerminates == (pc = "sorting") ~> (pc \in {"ordered", "cycle"})

=============================================================================
