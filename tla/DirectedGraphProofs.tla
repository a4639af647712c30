------------------------- MODULE DirectedGraphProofs -------------------------
(***************************************************************************)
(* Proofs about DirectedGraph for every finite set of nodes: the type       *)
(* invariant, the order and the cycle answer of ordered(), the assertion at *)
(* its end, and that it implements TopologicalSort.                         *)
(***************************************************************************)
EXTENDS DirectedGraph, SequenceTheorems, FiniteSetTheorems, TLAPS

\* The node set is nothing but the parents and their children.
NodesAreParentsAndChildren ==
  \A n \in nodes : n \in Parents \/ \E p \in Parents : n \in adjacency[p]

\* The order so far is closed under children and lists each explored node once.
SortedSoFar ==
  /\ explored = {result[i] : i \in 1..Len(result)}
  /\ \A i, j \in 1..Len(result) : result[i] = result[j] => i = j
  /\ \A i \in 1..Len(result) : \A child \in Adjacent(result[i]) :
        \E j \in 1..(i - 1) : result[j] = child

\* The first b entries of the list are a path that was walked from its last to
\* its first; whatever is in progress is on it.
IsPath(b) ==
  /\ \A i \in 2..b : /\ toExplore[i] \in inProgress
                     /\ toExplore[i - 1] \in Adjacent(toExplore[i])
  /\ \A i \in 1..b : toExplore[i] \notin explored
  /\ \A i, j \in 1..b : toExplore[i] = toExplore[j] => i = j
  /\ \A n \in inProgress : \E i \in 1..b : toExplore[i] = n

PathOnTop == pc = "sorting" => \E b \in 0..Len(toExplore) : IsPath(b)

\* No parent is forgotten.
ParentsAreCovered ==
  /\ pc = "sorting" =>
       \A p \in Parents : p \in explored \/ \E i \in 1..Len(toExplore) : toExplore[i] = p
  /\ pc = "ordered" => Parents \subseteq explored

BeforeTheCall ==
  pc = "building" =>
    toExplore = << >> /\ inProgress = {} /\ explored = {} /\ result = << >>

IInv ==
  /\ TypeOK
  /\ NodesAreParentsAndChildren
  /\ SortedSoFar
  /\ PathOnTop
  /\ ParentsAreCovered
  /\ BeforeTheCall
  /\ NothingOnlyForCycle

-----------------------------------------------------------------------------

\* A walk over a hash container is a sequence of its elements.
LEMMA WalksAreSequences ==
  ASSUME NEW S, IsFiniteSet(S), NEW s \in Walks(S)
  PROVE  /\ s \in Seq(S)
         /\ \A x \in S : \E i \in 1..Len(s) : s[i] = x
<1>1. Cardinality(S) \in Nat
  BY FS_CardinalityType
<1>2. s \in [1..Cardinality(S) -> S]
  BY DEF Walks
<1>3. s \in Seq(S)
  BY <1>1, <1>2, SeqDef
<1>4. Len(s) = Cardinality(S)
  BY <1>1, <1>2, <1>3, LenProperties
<1>5. QED
  BY <1>3, <1>4 DEF Walks

LEMMA InitEstablishes == Init => IInv
<1> SUFFICES ASSUME Init PROVE IInv
  OBVIOUS
<1> USE DEF Init, Parents
<1>0. Parents = {}
  OBVIOUS
<1>1. TypeOK
  BY <1>0, EmptySeq DEF TypeOK, Abstract!Outcomes
<1>2. QED
  BY <1>0, <1>1 DEF IInv, NodesAreParentsAndChildren, SortedSoFar, PathOnTop,
     ParentsAreCovered, BeforeTheCall, NothingOnlyForCycle

-----------------------------------------------------------------------------
\* One lemma per action.

LEMMA InsertPreserves ==
  ASSUME IInv, NEW node \in Node, NEW adjacent \in SUBSET Node, Insert(node, adjacent)
  PROVE  IInv'
<1> USE DEF Insert, Adjacent, Parents
<1>1. adjacency' \in [Parents \cup {node} -> SUBSET nodes']
  BY DEF IInv, TypeOK
<1>2. Parents' = Parents \cup {node}
  OBVIOUS
<1>3. TypeOK'
  BY <1>1, <1>2, EmptySeq DEF IInv, TypeOK, BeforeTheCall, Abstract!Outcomes
<1>4. NodesAreParentsAndChildren'
  BY DEF IInv, TypeOK, NodesAreParentsAndChildren
<1>5. SortedSoFar'
  BY DEF IInv, BeforeTheCall, SortedSoFar
<1>6. QED
  BY <1>3, <1>4, <1>5
  DEF IInv, PathOnTop, ParentsAreCovered, BeforeTheCall, NothingOnlyForCycle

LEMMA CallPreserves ==
  ASSUME IInv, Call
  PROVE  IInv'
<1> USE DEF Call, graph, Parents, Adjacent
<1>1. IsFiniteSet(Parents)
  BY NodeAssumption, FS_Subset DEF IInv, TypeOK
<1>2. /\ toExplore' \in Seq(Parents)
      /\ \A x \in Parents : \E i \in 1..Len(toExplore') : toExplore'[i] = x
  BY <1>1, WalksAreSequences
<1>3. toExplore' \in Seq(nodes)
  BY <1>2, SeqMonotonic DEF IInv, TypeOK
<1>4. TypeOK'
  BY <1>3 DEF IInv, TypeOK, Abstract!Outcomes
<1>5. IsPath(0)'
  BY DEF IInv, BeforeTheCall, IsPath
<1>6. PathOnTop'
  BY <1>3, <1>5, LenProperties DEF PathOnTop
<1>7. ParentsAreCovered'
  BY <1>2 DEF ParentsAreCovered
<1>8. QED
  BY <1>4, <1>6, <1>7
  DEF IInv, NodesAreParentsAndChildren, SortedSoFar, BeforeTheCall, NothingOnlyForCycle

LEMMA SkipExploredPreserves ==
  ASSUME IInv, SkipExplored
  PROVE  IInv'
<1> USE DEF SkipExplored, graph, Parents, Adjacent, Front
<1>1. /\ Front = toExplore[1]
      /\ Len(toExplore) \in Nat \ {0}
      /\ toExplore' \in Seq(nodes)
      /\ Len(toExplore') = Len(toExplore) - 1
      /\ \A i \in 1..Len(toExplore') : toExplore'[i] = toExplore[i + 1]
  BY HeadTailProperties, EmptySeq DEF IInv, TypeOK
<1>2. TypeOK'
  BY <1>1 DEF IInv, TypeOK, Abstract!Outcomes
<1>3. PICK b \in 0..Len(toExplore) : IsPath(b)
  BY DEF IInv, PathOnTop
<1>4. b = 0
  BY <1>1, <1>3 DEF IsPath
<1>5. IsPath(0)'
  BY <1>3, <1>4 DEF IsPath
<1>6. PathOnTop'
  BY <1>1, <1>5 DEF PathOnTop
<1>7. ParentsAreCovered'
  <2> SUFFICES ASSUME NEW p \in Parents, p \notin explored
               PROVE  \E i \in 1..Len(toExplore') : toExplore'[i] = p
    BY DEF ParentsAreCovered
  <2>1. PICK i \in 1..Len(toExplore) : toExplore[i] = p
    BY DEF IInv, ParentsAreCovered
  <2>2. i - 1 \in 1..Len(toExplore') /\ toExplore'[i - 1] = p
    BY <1>1, <2>1
  <2>3. QED
    BY <2>2
<1>8. QED
  BY <1>2, <1>6, <1>7
  DEF IInv, NodesAreParentsAndChildren, SortedSoFar, BeforeTheCall, NothingOnlyForCycle

LEMMA ReportCyclePreserves ==
  ASSUME IInv, ReportCycle
  PROVE  IInv'
<1> USE DEF ReportCycle, graph, Parents, Adjacent, Front
<1>1. Front = toExplore[1] /\ Len(toExplore) \in Nat \ {0} /\ Front \in nodes
  BY HeadTailProperties, EmptySeq, ElementOfSeq DEF IInv, TypeOK
<1>2. TypeOK'
  BY <1>1 DEF IInv, TypeOK, Abstract!Outcomes
<1>3. PICK b \in 0..Len(toExplore) : IsPath(b)
  BY DEF IInv, PathOnTop
<1>4. PICK child \in Adjacent(Front) : child \in inProgress'
  OBVIOUS
<1>5. PICK j \in 1..Len(toExplore) :
        /\ toExplore[j] = child
        /\ \A i \in 2..j : toExplore[i - 1] \in Adjacent(toExplore[i])
  <2>1. CASE child = Front
    BY <1>1, <2>1
  <2>2. CASE child \in inProgress
    BY <1>1, <1>3, <2>2 DEF IsPath
  <2>3. QED
    BY <1>4, <2>1, <2>2
<1> DEFINE C == {toExplore[i] : i \in 1..j}
<1>6. \A n \in C : Adjacent(n) \cap C # {}
  <2> SUFFICES ASSUME NEW i \in 1..j
               PROVE  Adjacent(toExplore[i]) \cap C # {}
    OBVIOUS
  <2>1. CASE i = 1
    BY <1>1, <1>4, <1>5, <2>1
  <2>2. CASE i # 1
    <3>1. i \in 2..j /\ i - 1 \in 1..j
      BY <2>2
    <3>2. QED
      BY <1>5, <3>1
  <2>3. QED
    BY <2>1, <2>2
<1>7. C # {} /\ \A n \in C : n \in Parents /\ adjacency[n] \cap C # {}
  <2>1. 1 \in 1..j
    BY <1>1, <1>5
  <2>2. C # {}
    BY <2>1
  <2>3. \A n \in C : Adjacent(n) = adjacency[n] /\ n \in Parents
    BY <1>6 DEF Adjacent
  <2>4. QED
    BY <1>6, <2>2, <2>3
<1>8. NothingOnlyForCycle'
  BY <1>7 DEF NothingOnlyForCycle, Abstract!HasCycle
<1>9. QED
  BY <1>2, <1>8
  DEF IInv, NodesAreParentsAndChildren, SortedSoFar, PathOnTop, ParentsAreCovered, BeforeTheCall

LEMMA DescendPreserves ==
  ASSUME IInv, NEW child \in Node, Descend(child)
  PROVE  IInv'
<1> USE DEF Descend, graph, Parents, Adjacent, Front
<1>1. /\ Front = toExplore[1] /\ Front \in nodes /\ child \in nodes
      /\ Len(toExplore) \in Nat \ {0}
  BY HeadTailProperties, EmptySeq, ElementOfSeq DEF IInv, TypeOK
<1>2. <<child>> \in Seq(nodes) /\ Len(<<child>>) = 1 /\ <<child>>[1] = child
  BY <1>1
<1>3. /\ toExplore' \in Seq(nodes)
      /\ Len(toExplore') = Len(toExplore) + 1
      /\ toExplore'[1] = child
      /\ \A i \in 2..Len(toExplore') : toExplore'[i] = toExplore[i - 1]
  BY <1>1, <1>2, ConcatProperties DEF IInv, TypeOK
<1>4. TypeOK'
  BY <1>1, <1>3 DEF IInv, TypeOK, Abstract!Outcomes
<1>5. PICK b \in 0..Len(toExplore) : IsPath(b)
  BY DEF IInv, PathOnTop
<1>6. \E d \in 0..Len(toExplore') : IsPath(d)'
  <2>1. CASE b = 0
    <3>1. IsPath(2)'
      BY <1>1, <1>3, <1>5, <2>1 DEF IsPath
    <3>2. QED
      BY <1>1, <1>3, <3>1
  <2>2. CASE b # 0
    <3> DEFINE d == b + 1
    <3>1. d \in 2..Len(toExplore')
      BY <1>1, <1>3, <1>5, <2>2
    <3>2. \A i \in 1..b : /\ toExplore[i] \in inProgress'
                           /\ toExplore[i] # child
      BY <1>1, <1>5, <2>2 DEF IsPath
    <3>3. \A i \in 2..d : i - 1 \in 1..b /\ toExplore'[i] = toExplore[i - 1]
      BY <1>3, <3>1
    <3>4. \A i \in 2..d : /\ toExplore'[i] \in inProgress'
                           /\ toExplore'[i - 1] \in Adjacent(toExplore'[i])
      <4> SUFFICES ASSUME NEW i \in 2..d
                   PROVE  toExplore'[i - 1] \in Adjacent(toExplore'[i])
        BY <3>2, <3>3
      <4>1. CASE i = 2
        BY <1>1, <1>3, <3>3, <4>1
      <4>2. CASE i # 2
        <5>1. i - 1 \in 2..b
          BY <4>2
        <5>2. toExplore[i - 2] \in Adjacent(toExplore[i - 1])
          BY <1>5, <5>1 DEF IsPath
        <5>3. QED
          BY <3>3, <5>1, <5>2
      <4>3. QED
        BY <4>1, <4>2
    <3>5. \A i \in 1..d : toExplore'[i] \notin explored'
      BY <1>3, <1>5, <3>3 DEF IsPath
    <3>6. \A i, j \in 1..d : toExplore'[i] = toExplore'[j] => i = j
      <4> SUFFICES ASSUME NEW i \in 1..d, NEW j \in 1..d, toExplore'[i] = toExplore'[j]
                   PROVE  i = j
        OBVIOUS
      <4>1. CASE i = 1 \/ j = 1
        BY <1>3, <3>2, <3>3, <4>1
      <4>2. CASE i # 1 /\ j # 1
        <5>1. i \in 2..d /\ j \in 2..d
          BY <4>2
        <5>2. i - 1 = j - 1
          BY <1>5, <3>3, <5>1 DEF IsPath
        <5>3. QED
          BY <5>2
      <4>3. QED
        BY <4>1, <4>2
    <3>7. \A n \in inProgress' : \E i \in 1..d : toExplore'[i] = n
      <4> SUFFICES ASSUME NEW n \in inProgress'
                   PROVE  \E i \in 1..d : toExplore'[i] = n
        OBVIOUS
      <4>1. PICK i \in 1..b : toExplore[i] = n
        BY <1>1, <1>5, <2>2 DEF IsPath
      <4>2. i + 1 \in 2..d /\ toExplore'[i + 1] = n
        BY <1>3, <1>5, <4>1
      <4>3. QED
        BY <4>2
    <3>8. IsPath(d)'
      BY <3>4, <3>5, <3>6, <3>7 DEF IsPath
    <3>9. QED
      BY <3>1, <3>8
  <2>3. QED
    BY <2>1, <2>2
<1>7. ParentsAreCovered'
  <2> SUFFICES ASSUME NEW p \in Parents, p \notin explored
               PROVE  \E i \in 1..Len(toExplore') : toExplore'[i] = p
    BY DEF ParentsAreCovered
  <2>1. PICK i \in 1..Len(toExplore) : toExplore[i] = p
    BY DEF IInv, ParentsAreCovered
  <2>2. i + 1 \in 2..Len(toExplore') /\ toExplore'[i + 1] = p
    BY <1>1, <1>3, <2>1
  <2>3. QED
    BY <1>1, <1>3, <2>2
<1>8. QED
  BY <1>4, <1>6, <1>7
  DEF IInv, NodesAreParentsAndChildren, SortedSoFar, PathOnTop, BeforeTheCall, NothingOnlyForCycle

LEMMA FinishPreserves ==
  ASSUME IInv, Finish
  PROVE  IInv'
<1> USE DEF Finish, graph, Parents, Adjacent, Front
<1>1. /\ Front = toExplore[1] /\ Front \in nodes
      /\ Len(toExplore) \in Nat \ {0}
      /\ toExplore' \in Seq(nodes)
      /\ Len(toExplore') = Len(toExplore) - 1
      /\ \A i \in 1..Len(toExplore') : toExplore'[i] = toExplore[i + 1]
  BY HeadTailProperties, EmptySeq, ElementOfSeq DEF IInv, TypeOK
<1>2. /\ Len(result) \in Nat
      /\ result' \in Seq(nodes)
      /\ Len(result') = Len(result) + 1
      /\ \A i \in 1..Len(result) : result'[i] = result[i]
      /\ result'[Len(result) + 1] = Front
  BY <1>1, AppendProperties, LenProperties DEF IInv, TypeOK
<1>3. TypeOK'
  BY <1>1, <1>2 DEF IInv, TypeOK, Abstract!Outcomes
<1>4. SortedSoFar'
  <2>1. \A i \in 1..Len(result') : i \in 1..Len(result) \/ i = Len(result')
    BY <1>2
  <2>2. explored' = {result'[i] : i \in 1..Len(result')}
    BY <1>2, <2>1 DEF IInv, SortedSoFar
  <2>3. \A i, j \in 1..Len(result') : result'[i] = result'[j] => i = j
    BY <1>2, <2>1 DEF IInv, SortedSoFar
  <2>4. ASSUME NEW i \in 1..Len(result'), NEW child \in Adjacent(result'[i])
        PROVE  \E j \in 1..(i - 1) : result'[j] = child
    <3>1. CASE i = Len(result')
      <4>1. child \in explored
        BY <1>2, <3>1
      <4>2. PICK j \in 1..Len(result) : result[j] = child
        BY <4>1 DEF IInv, SortedSoFar
      <4>3. QED
        BY <1>2, <3>1, <4>2
    <3>2. CASE i \in 1..Len(result)
      BY <1>2, <3>2 DEF IInv, SortedSoFar
    <3>3. QED
      BY <2>1, <3>1, <3>2
  <2>5. QED
    BY <2>2, <2>3, <2>4 DEF SortedSoFar
<1>5. PICK b \in 0..Len(toExplore) : IsPath(b)
  BY DEF IInv, PathOnTop
<1>6. \E d \in 0..Len(toExplore') : IsPath(d)'
  <2>1. CASE b = 0
    <3>1. IsPath(0)'
      BY <1>5, <2>1 DEF IsPath
    <3>2. QED
      BY <1>1, <3>1
  <2>2. CASE b # 0
    <3> DEFINE d == b - 1
    <3>1. d \in 0..Len(toExplore')
      BY <1>1, <1>5, <2>2
    <3>2. \A i \in 1..d : /\ i + 1 \in 2..b
                           /\ toExplore'[i] = toExplore[i + 1]
                           /\ toExplore'[i] # Front
      BY <1>1, <1>5, <3>1 DEF IsPath
    <3>3. ASSUME NEW i \in 2..d
          PROVE  /\ toExplore'[i] \in inProgress'
                 /\ toExplore'[i - 1] \in Adjacent(toExplore'[i])
      <4>1. i \in 1..d /\ i - 1 \in 1..d /\ i + 1 \in 2..b
        OBVIOUS
      <4>2. /\ toExplore[i + 1] \in inProgress
            /\ toExplore[i] \in Adjacent(toExplore[i + 1])
        BY <1>5, <4>1 DEF IsPath
      <4>3. QED
        BY <3>2, <4>1, <4>2
    <3>4. \A i \in 1..d : toExplore'[i] \notin explored'
      BY <1>5, <3>2 DEF IsPath
    <3>5. \A i, j \in 1..d : toExplore'[i] = toExplore'[j] => i = j
      BY <1>5, <3>2 DEF IsPath
    <3>6. ASSUME NEW n \in inProgress'
          PROVE  \E i \in 1..d : toExplore'[i] = n
      <4>1. PICK i \in 1..b : toExplore[i] = n
        BY <1>5 DEF IsPath
      <4>2. i # 1
        BY <1>1, <4>1
      <4>3. i - 1 \in 1..d /\ toExplore'[i - 1] = n
        BY <3>2, <4>1, <4>2
      <4>4. QED
        BY <4>3
    <3>7. IsPath(d)'
      BY <3>3, <3>4, <3>5, <3>6 DEF IsPath
    <3>8. QED
      BY <3>1, <3>7
  <2>3. QED
    BY <2>1, <2>2
<1>7. ParentsAreCovered'
  <2> SUFFICES ASSUME NEW p \in Parents, p \notin explored'
               PROVE  \E i \in 1..Len(toExplore') : toExplore'[i] = p
    BY DEF ParentsAreCovered
  <2>1. PICK i \in 1..Len(toExplore) : toExplore[i] = p
    BY DEF IInv, ParentsAreCovered
  <2>2. i - 1 \in 1..Len(toExplore') /\ toExplore'[i - 1] = p
    BY <1>1, <2>1
  <2>3. QED
    BY <2>2
<1>8. QED
  BY <1>3, <1>4, <1>6, <1>7
  DEF IInv, NodesAreParentsAndChildren, PathOnTop, BeforeTheCall, NothingOnlyForCycle

LEMMA ReturnPreserves ==
  ASSUME IInv, Return
  PROVE  IInv'
<1> USE DEF Return, graph, Parents, Adjacent
<1>1. Len(toExplore) = 0
  BY EmptySeq
<1>2. QED
  BY <1>1
  DEF IInv, TypeOK, Abstract!Outcomes, NodesAreParentsAndChildren, SortedSoFar, PathOnTop,
      ParentsAreCovered, BeforeTheCall, NothingOnlyForCycle

LEMMA StepPreserves == IInv /\ [Next]_vars => IInv'
<1> SUFFICES ASSUME IInv, [Next]_vars PROVE IInv'
  OBVIOUS
<1>1. CASE \E node \in Node, adjacent \in SUBSET Node : Insert(node, adjacent)
  BY <1>1, InsertPreserves
<1>2. CASE Call
  BY <1>2, CallPreserves
<1>3. CASE SkipExplored
  BY <1>3, SkipExploredPreserves
<1>4. CASE ReportCycle
  BY <1>4, ReportCyclePreserves
<1>5. CASE \E child \in Node : Descend(child)
  BY <1>5, DescendPreserves
<1>6. CASE Finish
  BY <1>6, FinishPreserves
<1>7. CASE Return
  BY <1>7, ReturnPreserves
<1>8. CASE UNCHANGED vars
  BY <1>8
  DEF vars, IInv, TypeOK, Parents, Adjacent, NodesAreParentsAndChildren, SortedSoFar, PathOnTop,
      IsPath, ParentsAreCovered, BeforeTheCall, NothingOnlyForCycle
<1>9. QED
  BY <1>1, <1>2, <1>3, <1>4, <1>5, <1>6, <1>7, <1>8 DEF Next, Sort

LEMMA Invariance == Spec => []IInv
  BY InitEstablishes, StepPreserves, PTL DEF Spec

-----------------------------------------------------------------------------

(***************************************************************************)
(* The containers of the graph and of ordered() only ever hold nodes of     *)
(* the graph.                                                               *)
(***************************************************************************)
THEOREM TypeCorrect == Spec => []TypeOK
<1>1. IInv => TypeOK
  BY DEF IInv
<1>2. QED
  BY <1>1, Invariance, PTL

\* At the end of the search every node is in the order.
LEMMA EveryNodeIsExplored ==
  ASSUME IInv, Parents \subseteq explored
  PROVE  nodes = explored
<1>1. SUFFICES ASSUME NEW n \in nodes PROVE n \in explored
  BY DEF IInv, TypeOK
<1>2. CASE n \in Parents
  BY <1>2
<1>3. CASE n \notin Parents
  <2>1. PICK p \in Parents : n \in adjacency[p]
    BY <1>3 DEF IInv, NodesAreParentsAndChildren
  <2>2. PICK i \in 1..Len(result) : result[i] = p
    BY <2>1 DEF IInv, SortedSoFar
  <2>3. PICK j \in 1..(i - 1) : result[j] = n
    BY <2>1, <2>2 DEF IInv, SortedSoFar, Adjacent
  <2>4. j \in 1..Len(result)
    BY <2>2, <2>3, LenProperties DEF IInv, TypeOK
  <2>5. QED
    BY <2>3, <2>4 DEF IInv, SortedSoFar
<1>4. QED
  BY <1>2, <1>3

\* The invariant makes a complete result a topological order.
LEMMA CompleteIsTopological ==
  ASSUME IInv, Parents \subseteq explored
  PROVE  Abstract!IsTopologicalOrder(result, nodes, adjacency)
<1>1. nodes = explored
  BY EveryNodeIsExplored
<1>2. QED
  BY <1>1
  DEF IInv, SortedSoFar, Adjacent, Parents, Abstract!IsTopologicalOrder, Abstract!Children

(***************************************************************************)
(* ordered() returns only topological orders of the whole graph.            *)
(***************************************************************************)
THEOREM OrderIsTopological == Spec => []OrderedIsTopological
<1>1. IInv => OrderedIsTopological
  BY CompleteIsTopological DEF IInv, ParentsAreCovered, OrderedIsTopological
<1>2. QED
  BY <1>1, Invariance, PTL

(***************************************************************************)
(* ordered() gives up only on graphs with a cycle.                          *)
(***************************************************************************)
THEOREM CycleIsReal == Spec => []NothingOnlyForCycle
<1>1. IInv => NothingOnlyForCycle
  BY DEF IInv
<1>2. QED
  BY <1>1, Invariance, PTL

(***************************************************************************)
(* The assertion at the end of ordered() never fails.                       *)
(***************************************************************************)
THEOREM AssertionHolds == Spec => []NothingLeftInProgress
<1>1. ASSUME IInv, pc = "sorting", toExplore = << >>
      PROVE  inProgress = {}
  <2>1. Len(toExplore) = 0
    BY <1>1, EmptySeq
  <2>2. IsPath(0)
    BY <1>1, <2>1 DEF IInv, PathOnTop
  <2>3. QED
    BY <2>2 DEF IsPath
<1>2. IInv => NothingLeftInProgress
  BY <1>1 DEF NothingLeftInProgress
<1>3. QED
  BY <1>2, Invariance, PTL

(***************************************************************************)
(* Every step of the search is a step of the one-step sort or leaves it     *)
(* alone: callers may rely on TopologicalSort alone.                        *)
(***************************************************************************)
THEOREM Refinement == Spec => ImplementsTopologicalSort
<1>1. Init => Abstract!Init
  BY DEF Init, Abstract!Init
<1>2. IInv /\ IInv' /\ [Next]_vars => [Abstract!Next]_Abstract!vars
  <2> SUFFICES ASSUME IInv, IInv', [Next]_vars
               PROVE  [Abstract!Next]_Abstract!vars
    OBVIOUS
  <2> USE DEF graph, Parents, Adjacent
  <2>1. ASSUME NEW node \in Node, NEW adjacent \in SUBSET Node, Insert(node, adjacent)
        PROVE  Abstract!Insert(node, adjacent)
    BY <2>1 DEF Insert, Abstract!Insert, Abstract!Children
  <2>2. CASE Call
    BY <2>2 DEF Call, Abstract!Next, Abstract!Call
  <2>3. CASE SkipExplored
    BY <2>3 DEF SkipExplored, Abstract!vars
  <2>4. CASE ReportCycle
    <3>1. Abstract!HasCycle(adjacency)
      BY <2>4 DEF ReportCycle, IInv, NothingOnlyForCycle
    <3>2. QED
      BY <2>4, <3>1 DEF ReportCycle, Abstract!Next, Abstract!ReturnNothing
  <2>5. CASE \E child \in Node : Descend(child)
    BY <2>5 DEF Descend, Abstract!vars
  <2>6. CASE Finish
    BY <2>6 DEF Finish, Abstract!vars
  <2>7. CASE Return
    <3>1. Abstract!IsTopologicalOrder(result', nodes, adjacency)
      <4>1. Parents \subseteq explored
        BY <2>7 DEF Return, IInv, ParentsAreCovered
      <4>2. QED
        BY <2>7, <4>1, CompleteIsTopological DEF Return
    <3>2. QED
      BY <2>7, <3>1 DEF Return, Abstract!Next, Abstract!ReturnOrder
  <2>8. CASE UNCHANGED vars
    BY <2>8 DEF vars, Abstract!vars
  <2>9. QED
    BY <2>1, <2>2, <2>3, <2>4, <2>5, <2>6, <2>7, <2>8 DEF Next, Sort, Abstract!Next
<1>3. QED
  BY <1>1, <1>2, Invariance, PTL DEF Spec, ImplementsTopologicalSort, Abstract!Spec

=============================================================================
