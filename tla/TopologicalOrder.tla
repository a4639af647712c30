--------------------------- MODULE TopologicalOrder ---------------------------
(***************************************************************************)
(* What it means to sort a directed graph that is given by the children of  *)
(* its nodes.  A topological order has children first.                      *)
(***************************************************************************)
EXTENDS Naturals, Sequences

\* A node that was never a parent has no children.
Children(adj, n) == IF n \in DOMAIN adj THEN adj[n] ELSE {}

\* In a finite graph: some nodes each have a child among themselves.
HasCycle(adj) ==
  \E C \in SUBSET DOMAIN adj : C # {} /\ \A n \in C : adj[n] \cap C # {}

\* Every node of ns exactly once, and each after all of its children.
IsTopologicalOrder(s, ns, adj) ==
  /\ {s[i] : i \in 1..Len(s)} = ns
  /\ \A i, j \in 1..Len(s) : s[i] = s[j] => i = j
  /\ \A i \in 1..Len(s) : \A child \in Children(adj, s[i]) :
        \E j \in 1..(i - 1) : s[j] = child

=============================================================================
