--------------------------- MODULE InvocationOrder ---------------------------
(***************************************************************************)
(* pbxbuild::Tool::Invocation, and the order in which the simple executor   *)
(* puts the invocations of a target (SortInvocations): after the makers of  *)
(* the files they need, and after the invocations of the phase before.      *)
(***************************************************************************)
EXTENDS TopologicalOrder, FiniteSets

\* priority is the build phase; a phony invocation has no executable.
InvocationOver(Path) ==
  [inputs : SUBSET Path, phonyInputs : SUBSET Path, inputDependencies : SUBSET Path,
   outputs : SUBSET Path, priority : Nat, createsProductStructure : BOOLEAN, phony : BOOLEAN]

Indices(all) == 1..Len(all)

NeedsDeclaredOnly(invocation) == invocation.inputs \cup invocation.phonyInputs

Needs(invocation) ==
  invocation.inputs \cup invocation.phonyInputs \cup invocation.inputDependencies

\* outputToInvocation: the first invocation to name an output keeps it.
Makers(all, path) == {i \in Indices(all) : path \in all[i].outputs}
Maker(all, path)  == CHOOSE i \in Makers(all, path) : \A j \in Makers(all, path) : i <= j

Producers(all, i) ==
  {Maker(all, path) : path \in {p \in Needs(all[i]) : Makers(all, p) # {}}}

\* The invocations of the next smaller priority that is in use.
PreviousPhaseOf(all, i) ==
  LET smaller == {j \in Indices(all) : all[j].priority < all[i].priority}
  IN  {j \in smaller : \A k \in smaller : all[k].priority <= all[j].priority}

SortGraph(all) == [i \in Indices(all) |-> Producers(all, i) \cup PreviousPhaseOf(all, i)]

Sorts(nodes, adjacency) ==
  {s \in [1..Cardinality(nodes) -> nodes] : IsTopologicalOrder(s, nodes, adjacency)}

\* Whatever has run by the time j is done, i is among it.
Precedes(graph, i, j) ==
  \A done \in SUBSET DOMAIN graph :
    j \in done /\ (\A k \in done : graph[k] \subseteq done) => i \in done

=============================================================================
