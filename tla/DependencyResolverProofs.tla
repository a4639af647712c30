----------------------- MODULE DependencyResolverProofs -----------------------
(***************************************************************************)
(* Proofs about DependencyResolver for every finite set of targets and      *)
(* every project over them: a resolution either finds each target's         *)
(* dependencies in an acyclic graph, which orders a sequential build        *)
(* totally, or overflows the stack, and that only for a cycle.              *)
(***************************************************************************)
EXTENDS DependencyResolver, SequenceTheorems, FiniteSetTheorems, TLAPS

Frames == [target : Target, part : {"implicit", "explicit"},
           pending : SUBSET Reference, dependencies : SUBSET Target]

Resolved(refs) == {Resolve(ref) : ref \in refs} \ {Unresolved}

ImplicitOf(t) == IF implicit THEN Resolved(project.implicit[t]) ELSE {}
ExplicitOf(t) == Resolved(project.explicit[t])

\* What the call of the frame f has to go through.
PartOf(f) == IF f.part = "implicit" THEN ImplicitOf(f.target) ELSE ExplicitOf(f.target)

Typed ==
  /\ TypeOK
  /\ stack \in Seq(Frames)
  /\ adjacency \in [DOMAIN adjacency -> SUBSET Target]
  /\ DOMAIN adjacency \subseteq Target

\* A frame has still to visit what it has not noted.  The frames are a path: each
\* but the first waits for a dependency of its target.
IsPath(s) ==
  \A i \in 1..Len(s) :
    /\ PartOf(s[i]) = s[i].dependencies \cup Resolved(s[i].pending)
    /\ s[i].part = "implicit" => implicit
    /\ i > 1 => s[i - 1].target \in s[i].dependencies

StackIsPath == IsPath(stack)

\* The targets in F are done: all that a frame has noted, but for the one it waits for.
FramesAreSound(F) ==
  \A i \in 1..Len(stack) :
    /\ i = 1 => stack[i].dependencies \subseteq F
    /\ i > 1 => stack[i].dependencies \subseteq F \cup {stack[i - 1].target}
    /\ stack[i].part = "explicit" =>
         ImplicitOf(stack[i].target) \subseteq F

\* F: the targets that AddDependencies has returned for.  They have all their
\* dependencies in the graph, as do their dependencies, and no cycle.
GraphIsSound(F) ==
  /\ F \subseteq DOMAIN adjacency
  /\ \A t \in DOMAIN adjacency : adjacency[t] \subseteq F
  /\ \A t \in F : DependenciesOf(t) \subseteq adjacency[t]
  /\ \A C \in SUBSET F : C # {} => \E t \in C : adjacency[t] \cap C = {}
  /\ nodes = DOMAIN adjacency

\* The graph of a parallel build holds dependencies only; what it has of a
\* target that is not done, it has of one on the stack.
ParallelGraph(F) ==
  parallel =>
    /\ \A t \in DOMAIN adjacency : adjacency[t] \subseteq DependenciesOf(t)
    /\ DOMAIN adjacency \subseteq F \cup {stack[i].target : i \in 1..Len(stack)}
    /\ \A i \in 1..Len(stack) :
         stack[i].part = "explicit" /\ implicit =>
           /\ stack[i].target \in DOMAIN adjacency
           /\ ImplicitOf(stack[i].target) \subseteq adjacency[stack[i].target]

\* That of a sequential build holds positions: of two targets, one is before the other.
SequentialGraph(F) ==
  ~parallel =>
    /\ F = positional /\ DOMAIN adjacency = positional
    /\ \A s, t \in positional : s = t \/ s \in adjacency[t] \/ t \in adjacency[s]

Sound(F) ==
  /\ FramesAreSound(F)
  /\ GraphIsSound(F)
  /\ ParallelGraph(F)
  /\ SequentialGraph(F)

ResolvesSoFar == pc # "overflow" => \E F \in SUBSET Target : Sound(F)

Phases ==
  /\ pc = "idle" => stack = << >> /\ positional = {} /\ nodes = {} /\ adjacency = << >>
  /\ pc = "resolved" => stack = << >>
  /\ outcome # "building" => pc = "resolved"
  /\ outcome = "ordered" => order \in Seq(Target) /\ Graph!IsTopologicalOrder(order, nodes, adjacency)

IInv ==
  /\ Typed
  /\ Phases
  /\ StackIsPath
  /\ ResolvesSoFar
  /\ OverflowOnlyForCycle

-----------------------------------------------------------------------------

\* References resolve to targets, whatever the products are called.
LEMMA ReferencesResolve ==
  ASSUME TypeOK
  PROVE  /\ \A ref \in Reference : Resolve(ref) \in Target \cup {Unresolved}
         /\ \A refs \in SUBSET Reference : Resolved(refs) \subseteq Target
         /\ \A t \in Target : project.explicit[t] \subseteq Reference /\ project.implicit[t] \subseteq Reference
         /\ \A t \in Target : ImplicitOf(t) \subseteq Target /\ ExplicitOf(t) \subseteq Target
         /\ \A t \in Target : DependenciesOf(t) = ImplicitOf(t) \cup ExplicitOf(t)
<1>1. \A ref \in Reference : Resolve(ref) \in Target \cup {Unresolved}
  BY DEF Resolve, Reference, TypeOK
<1>2. \A refs \in SUBSET Reference : Resolved(refs) \subseteq Target
  BY <1>1 DEF Resolved
<1>3. \A t \in Target : project.explicit[t] \subseteq Reference /\ project.implicit[t] \subseteq Reference
  <2>1. project \in Project
    BY ResolverAssumption DEF TypeOK
  <2>2. QED
    BY <2>1 DEF Project, Reference
<1>4. \A t \in Target : ImplicitOf(t) \subseteq Target /\ ExplicitOf(t) \subseteq Target
  BY <1>2, <1>3 DEF ImplicitOf, ExplicitOf
<1>5. \A t \in Target : DependenciesOf(t) = ImplicitOf(t) \cup ExplicitOf(t)
  BY DEF DependenciesOf, ImplicitOf, ExplicitOf, Resolved
<1>6. QED
  BY <1>1, <1>2, <1>3, <1>4, <1>5

LEMMA SettingsDecide ==
  ASSUME UNCHANGED settings
  PROVE  /\ \A refs : Resolved(refs)' = Resolved(refs)
         /\ \A t : ImplicitOf(t)' = ImplicitOf(t)
         /\ \A t : ExplicitOf(t)' = ExplicitOf(t)
         /\ \A t : DependenciesOf(t)' = DependenciesOf(t)
         /\ \A f : PartOf(f)' = PartOf(f)
         /\ HasDependencyCycle' = HasDependencyCycle
  BY DEF settings, Resolved, ImplicitOf, ExplicitOf, PartOf, DependenciesOf, Resolve,
     HasDependencyCycle

\* What a step of the resolver must show of the types.
LEMMA StepIsTyped ==
  ASSUME Typed, UNCHANGED settings, entries' \subseteq entries,
         pc' \in {"idle", "resolving", "overflow", "resolved"},
         stack' \in Seq(Frames), Len(stack') <= StackLimit,
         positional' \subseteq Target, nodes' \subseteq Target, outcome' \in Graph!Outcomes,
         adjacency' \in [DOMAIN adjacency' -> SUBSET Target], DOMAIN adjacency' \subseteq Target
  PROVE  Typed'
<1>1. \A i \in 1..Len(stack') : stack'[i] \in Frames
  BY ElementOfSeq
<1>2. TypeOK'
  BY <1>1 DEF Typed, TypeOK, settings, Frames
<1>3. QED
  BY <1>2 DEF Typed

\* insert() adds to the children of one node.
LEMMA InsertAdds ==
  ASSUME Typed, NEW t \in Target, NEW d \in SUBSET Target, Graph!Insert(t, d)
  PROVE  /\ DOMAIN adjacency' = DOMAIN adjacency \cup {t}
         /\ \A n \in DOMAIN adjacency \ {t} : adjacency'[n] = adjacency[n]
         /\ t \in DOMAIN adjacency => adjacency'[t] = adjacency[t] \cup d
         /\ t \notin DOMAIN adjacency => adjacency'[t] = d
         /\ nodes' = nodes \cup {t} \cup d
         /\ adjacency' \in [DOMAIN adjacency' -> SUBSET Target]
         /\ outcome' = outcome /\ order' = order /\ outcome = "building"
  BY DEF Graph!Insert, Graph!Children, Typed

\* More children of a target that are done already leave the graph sound.
LEMMA GraphKept ==
  ASSUME Typed, NEW F \in SUBSET Target, GraphIsSound(F), UNCHANGED settings,
         NEW t \in Target, NEW d \in SUBSET F, t \in F => d \subseteq adjacency[t],
         Graph!Insert(t, d)
  PROVE  GraphIsSound(F)'
<1>0. /\ DOMAIN adjacency' = DOMAIN adjacency \cup {t}
      /\ \A n \in DOMAIN adjacency \ {t} : adjacency'[n] = adjacency[n]
      /\ t \in DOMAIN adjacency => adjacency'[t] = adjacency[t] \cup d
      /\ t \notin DOMAIN adjacency => adjacency'[t] = d
      /\ nodes' = nodes \cup {t} \cup d
  <2>1. d \in SUBSET Target
    OBVIOUS
  <2>2. QED
    BY <2>1, InsertAdds
<1>1. \A n \in F : n \in DOMAIN adjacency /\ adjacency'[n] = adjacency[n]
  BY <1>0 DEF GraphIsSound
<1>2. \A n \in DOMAIN adjacency' : adjacency'[n] \subseteq F
  BY <1>0 DEF GraphIsSound
<1>3. \A n \in F : DependenciesOf(n)' \subseteq adjacency'[n]
  BY <1>1, SettingsDecide DEF GraphIsSound
<1>4. nodes' = DOMAIN adjacency'
  BY <1>0 DEF GraphIsSound
<1>5. F \subseteq DOMAIN adjacency'
  BY <1>0 DEF GraphIsSound
<1>6. \A C \in SUBSET F : C # {} => \E n \in C : adjacency'[n] \cap C = {}
  BY <1>1 DEF GraphIsSound
<1>7. QED
  BY <1>2, <1>3, <1>4, <1>5, <1>6 DEF GraphIsSound

\* A target whose dependencies are all done can be done itself.
LEMMA GraphGrows ==
  ASSUME Typed, NEW F \in SUBSET Target, GraphIsSound(F), UNCHANGED settings,
         NEW t \in Target, t \notin F, NEW d \in SUBSET F, Graph!Insert(t, d),
         DependenciesOf(t) \subseteq adjacency'[t]
  PROVE  GraphIsSound(F \cup {t})'
<1> DEFINE G == F \cup {t}
<1>0. /\ DOMAIN adjacency' = DOMAIN adjacency \cup {t}
      /\ \A n \in DOMAIN adjacency \ {t} : adjacency'[n] = adjacency[n]
      /\ t \in DOMAIN adjacency => adjacency'[t] = adjacency[t] \cup d
      /\ t \notin DOMAIN adjacency => adjacency'[t] = d
      /\ nodes' = nodes \cup {t} \cup d
  <2>1. d \in SUBSET Target
    OBVIOUS
  <2>2. QED
    BY <2>1, InsertAdds
<1>1. \A n \in F : n \in DOMAIN adjacency /\ adjacency'[n] = adjacency[n]
  BY <1>0 DEF GraphIsSound
<1>2. \A n \in DOMAIN adjacency' : adjacency'[n] \subseteq F
  BY <1>0 DEF GraphIsSound
<1>3. \A n \in G : DependenciesOf(n)' \subseteq adjacency'[n]
  BY <1>1, SettingsDecide DEF GraphIsSound
<1>4. nodes' = DOMAIN adjacency' /\ G \subseteq DOMAIN adjacency'
  BY <1>0 DEF GraphIsSound
<1>5. ASSUME NEW C \in SUBSET G, C # {}
      PROVE  \E n \in C : adjacency'[n] \cap C = {}
  <2>1. CASE C = {t}
    BY <2>1, <1>2, <1>4
  <2>2. CASE C # {t}
    <3>1. C \cap F \in SUBSET F /\ C \cap F # {}
      BY <1>5, <2>2
    <3>2. PICK n \in C \cap F : adjacency[n] \cap (C \cap F) = {}
      BY <3>1 DEF GraphIsSound
    <3>3. adjacency'[n] \cap C = {}
      BY <3>2, <1>1, <1>2, <1>4
    <3>4. QED
      BY <3>3
  <2>3. QED
    BY <2>1, <2>2
<1>6. QED
  BY <1>2, <1>3, <1>4, <1>5 DEF GraphIsSound

\* A stack that is full and must grow holds some target twice.
LEMMA DeepStackHasCycle ==
  ASSUME Typed, StackIsPath, stack # << >>, Len(stack) >= StackLimit,
         NEW d \in Target, d \in DependenciesOf(stack[1].target)
  PROVE  HasDependencyCycle
<1> DEFINE n == Len(stack)
           f == [k \in 0..n |-> IF k = 0 THEN d ELSE stack[k].target]
<1>1. n \in Nat /\ n >= 1 /\ \A k \in 1..n : stack[k] \in Frames
  BY ElementOfSeq, LenProperties, EmptySeq DEF Typed
<1>2. f \in [0..n -> Target]
  BY <1>1 DEF Frames
<1>3. \A k \in 1..n : f[k - 1] \in DependenciesOf(f[k])
  <2>1. TAKE k \in 1..n
  <2>2. CASE k = 1
    BY <2>2, <1>1
  <2>3. CASE k > 1
    <3>1. stack[k - 1].target \in PartOf(stack[k]) /\ stack[k].target \in Target
      BY <2>3, <1>1 DEF StackIsPath, IsPath, Frames
    <3>2. stack[k].part = "implicit" => implicit
      BY DEF StackIsPath, IsPath
    <3>3. PartOf(stack[k]) \subseteq DependenciesOf(stack[k].target)
      BY <3>1, <3>2, ReferencesResolve DEF PartOf, Typed
    <3>4. QED
      BY <3>1, <3>3, <2>3, <1>1
  <2>4. QED
    BY <2>2, <2>3
<1>4. IsFiniteSet(0..n) /\ Cardinality(0..n) = n + 1
  BY <1>1, FS_Interval
<1>5. IsFiniteSet(Target) /\ Cardinality(Target) < n + 1
  BY ResolverAssumption, FS_CardinalityType, <1>1
<1> HIDE DEF f, n
<1>6. PICK i, j \in 0..n : i < j /\ f[i] = f[j]
  <2>1. \E i, j \in 0..n : i # j /\ f[i] = f[j]
    BY <1>2, <1>4, <1>5, FS_PigeonHole
  <2>2. QED
    BY <2>1, <1>1
<1> DEFINE C == {f[k] : k \in (i + 1)..j}
<1>7. C \in SUBSET Target /\ C # {}
  BY <1>1, <1>2, <1>6
<1>8. \A t \in C : DependenciesOf(t) \cap C # {}
  <2>1. TAKE t \in C
  <2>2. PICK k \in (i + 1)..j : t = f[k]
    OBVIOUS
  <2>3. f[k - 1] \in DependenciesOf(t)
    BY <1>1, <1>3, <1>6, <2>2
  <2>4. f[k - 1] \in C
    <3>1. CASE k = i + 1
      BY <1>1, <1>6, <3>1
    <3>2. CASE k # i + 1
      BY <1>1, <1>6, <3>2
    <3>3. QED
      BY <3>1, <3>2
  <2>5. QED
    BY <2>3, <2>4
<1>9. QED
  BY <1>7, <1>8 DEF HasDependencyCycle

LEMMA TopOfStack ==
  ASSUME Typed, stack # << >>
  PROVE  /\ Frame = stack[1] /\ Frame \in Frames
         /\ Len(stack) \in Nat /\ 1 \in 1..Len(stack)
<1>1. Len(stack) \in Nat \ {0}
  BY EmptySeq DEF Typed
<1>2. stack[1] \in Frames
  BY <1>1, ElementOfSeq DEF Typed
<1>3. QED
  BY <1>1, <1>2 DEF Frame

\* A change of the running frame that keeps what it has to go through.
LEMMA ChangedTop ==
  ASSUME Typed, StackIsPath, stack # << >>,
         NEW f \in Frames, f.target = stack[1].target, f.part = "implicit" => implicit,
         PartOf(f) = f.dependencies \cup Resolved(f.pending)
  PROVE  LET s == [stack EXCEPT ![1] = f]
         IN  /\ s \in Seq(Frames) /\ Len(s) = Len(stack)
             /\ s[1] = f /\ \A i \in 2..Len(stack) : s[i] = stack[i]
             /\ IsPath(s)
<1> DEFINE s == [stack EXCEPT ![1] = f]
<1>1. 1 \in 1..Len(stack) /\ Len(stack) \in Nat
  BY TopOfStack
<1>2. /\ s \in Seq(Frames) /\ Len(s) = Len(stack)
      /\ s[1] = f /\ \A i \in 2..Len(stack) : s[i] = stack[i]
  BY <1>1, ExceptSeq DEF Typed
<1> HIDE DEF s
<1>3. IsPath(s)
  <2>1. ASSUME NEW i \in 1..Len(stack)
        PROVE  /\ PartOf(s[i]) = s[i].dependencies \cup Resolved(s[i].pending)
               /\ s[i].part = "implicit" => implicit
               /\ i > 1 => s[i - 1].target \in s[i].dependencies
    <3>1. CASE i = 1
      BY <1>2, <3>1
    <3>2. CASE i > 1
      <4>1. s[i] = stack[i] /\ s[i - 1].target = stack[i - 1].target
        BY <1>1, <1>2, <3>2
      <4>2. QED
        BY <3>2, <4>1 DEF StackIsPath, IsPath
    <3>3. QED
      BY <1>1, <3>1, <3>2
  <2>2. QED
    BY <1>2, <2>1 DEF IsPath
<1>4. QED
  BY <1>2, <1>3 DEF s

\* A call of AddDependencies for what the running frame has just noted.
LEMMA Called ==
  ASSUME Typed, NEW s \in Seq(Frames), IsPath(s), Len(s) <= StackLimit, NEW t \in Target,
         s # << >> => t \in s[1].dependencies,
         AddDependencies(t, s), UNCHANGED settings
  PROVE  /\ stack' \in Seq(Frames) /\ Len(stack') <= StackLimit
         /\ StackIsPath'
         /\ pc' # "overflow" =>
              /\ Len(stack') = Len(s) + 1
              /\ stack'[1] = NewFrame(t)
              /\ \A i \in 2..(Len(s) + 1) : stack'[i] = s[i - 1]
         /\ pc' \in {pc, "overflow"}
<1>0. Len(s) \in Nat /\ StackLimit \in Nat
  BY LenProperties, ResolverAssumption
<1>1. NewFrame(t) \in Frames
  BY ReferencesResolve DEF NewFrame, ImplicitFrame, ExplicitFrame, Frames, Typed
<1>2. /\ PartOf(NewFrame(t)) = NewFrame(t).dependencies \cup Resolved(NewFrame(t).pending)
      /\ NewFrame(t).part = "implicit" => implicit
      /\ NewFrame(t).target = t
  BY DEF NewFrame, ImplicitFrame, ExplicitFrame, PartOf, ImplicitOf, ExplicitOf
<1>3. CASE Len(s) < StackLimit
  <2>1. stack' = <<NewFrame(t)>> \o s /\ pc' = pc
    BY <1>3 DEF AddDependencies
  <2>2. <<NewFrame(t)>> \in Seq(Frames) /\ Len(<<NewFrame(t)>>) = 1
    BY <1>1
  <2>3. /\ stack' \in Seq(Frames) /\ Len(stack') = Len(s) + 1
        /\ stack'[1] = NewFrame(t)
        /\ \A i \in 2..(Len(s) + 1) : stack'[i] = s[i - 1]
    BY <1>0, <2>1, <2>2, ConcatProperties
  <2>4. \A i \in 1..Len(stack') :
          /\ PartOf(stack'[i]) = stack'[i].dependencies \cup Resolved(stack'[i].pending)
          /\ stack'[i].part = "implicit" => implicit
          /\ i > 1 => stack'[i - 1].target \in stack'[i].dependencies
    <3>1. TAKE i \in 1..Len(stack')
    <3>2. CASE i = 1
      BY <3>2, <1>2, <2>3
    <3>3. CASE i = 2
      BY <3>3, <1>0, <1>2, <2>3, EmptySeq DEF IsPath
    <3>4. CASE i > 2
      <4>1. i - 1 \in 1..Len(s) /\ i - 1 > 1
        BY <3>4, <1>0, <2>3
      <4>2. stack'[i] = s[i - 1] /\ stack'[i - 1] = s[(i - 1) - 1]
        BY <3>4, <1>0, <2>3
      <4>3. QED
        BY <4>1, <4>2 DEF IsPath
    <3>5. QED
      BY <3>2, <3>3, <3>4, <2>3, <1>0
  <2>5. StackIsPath'
    BY <2>4, SettingsDecide DEF StackIsPath, IsPath, settings
  <2>6. QED
    BY <1>0, <1>3, <2>1, <2>3, <2>5
<1>4. CASE ~(Len(s) < StackLimit)
  <2>1. stack' = s /\ pc' = "overflow"
    BY <1>4 DEF AddDependencies
  <2>2. StackIsPath'
    BY <2>1, SettingsDecide DEF StackIsPath, IsPath, settings
  <2>3. QED
    BY <2>1, <2>2
<1>5. QED
  BY <1>3, <1>4

-----------------------------------------------------------------------------

LEMMA ResolveSchemeKeeps ==
  ASSUME IInv, NEW s \in Schemes, ResolveScheme(s)
  PROVE  IInv'
<1> USE DEF IInv, ResolveScheme, graph
<1>1. s \in Scheme /\ s.entries \subseteq Entry
  BY ResolverAssumption DEF Scheme
<1>2. Typed'
  <2>1. /\ DOMAIN productNameToTarget' \subseteq ProductName
        /\ \A n \in DOMAIN productNameToTarget' : productNameToTarget'[n] \in Target
    BY ResolverAssumption DEF ProductMaps, Typed, TypeOK, Project
  <2>2. QED
    BY <1>1, <2>1 DEF Typed, TypeOK, Scheme
<1>3. Phases'
  BY DEF Phases
<1>4. StackIsPath'
  BY DEF Phases, StackIsPath, IsPath
<1>5. Sound({})'
  BY DEF Phases, Sound, FramesAreSound, GraphIsSound, ParallelGraph, SequentialGraph
<1>6. QED
  BY <1>2, <1>3, <1>4, <1>5 DEF ResolvesSoFar, OverflowOnlyForCycle

LEMMA ResolveLegacyKeeps ==
  ASSUME IInv, NEW roots \in SUBSET Target, ResolveLegacy(roots)
  PROVE  IInv'
<1> USE DEF IInv, ResolveLegacy, graph
<1>1. entries' \subseteq Entry
  <2>1. \A t \in Target : [buildForRunning |-> TRUE, byIdentifier |-> t, byName |-> t] \in Entry
    BY DEF Entry
  <2>2. QED
    BY <2>1
<1>2. Typed'
  <2>1. /\ DOMAIN productNameToTarget' \subseteq ProductName
        /\ \A n \in DOMAIN productNameToTarget' : productNameToTarget'[n] \in Target
    BY ResolverAssumption DEF ProductMaps, Typed, TypeOK, Project
  <2>2. QED
    BY <1>1, <2>1 DEF Typed, TypeOK
<1>3. Phases'
  BY DEF Phases
<1>4. StackIsPath'
  BY DEF Phases, StackIsPath, IsPath
<1>5. Sound({})'
  BY DEF Phases, Sound, FramesAreSound, GraphIsSound, ParallelGraph, SequentialGraph
<1>6. QED
  BY <1>2, <1>3, <1>4, <1>5 DEF ResolvesSoFar, OverflowOnlyForCycle

\* Steps that leave the stack and the graph alone.
LEMMA NothingChanges ==
  ASSUME IInv, UNCHANGED <<settings, stack, positional, nodes, adjacency>>,
         pc # "overflow", pc' # "overflow", Typed', Phases'
  PROVE  IInv'
<1>1. PICK F \in SUBSET Target : Sound(F)
  BY DEF IInv, ResolvesSoFar
<1>2. Sound(F)'
  BY <1>1, SettingsDecide DEF settings, Sound, FramesAreSound, GraphIsSound, ParallelGraph, SequentialGraph
<1>3. StackIsPath'
  BY SettingsDecide DEF IInv, settings, StackIsPath, IsPath
<1>4. QED
  BY <1>2, <1>3 DEF IInv, ResolvesSoFar, OverflowOnlyForCycle

LEMMA ResolveNothingKeeps ==
  ASSUME IInv, ResolveNothing
  PROVE  IInv'
<1>1. Typed'
  BY StepIsTyped DEF IInv, ResolveNothing, Typed, TypeOK, graph
<1>2. Phases'
  BY DEF IInv, ResolveNothing, Phases, graph
<1>3. QED
  BY <1>1, <1>2, NothingChanges DEF ResolveNothing, graph

LEMMA FinishKeeps ==
  ASSUME IInv, Finish
  PROVE  IInv'
<1>1. Typed'
  BY StepIsTyped DEF IInv, Finish, Typed, TypeOK, graph
<1>2. Phases'
  BY DEF IInv, Finish, Phases, graph
<1>3. QED
  BY <1>1, <1>2, NothingChanges DEF Finish, graph

LEMMA SkipEntryKeeps ==
  ASSUME IInv, NEW e \in entries, SkipEntry(e)
  PROVE  IInv'
<1>1. Typed'
  BY StepIsTyped DEF IInv, SkipEntry, Typed, TypeOK, graph
<1>2. Phases'
  BY DEF IInv, SkipEntry, Phases, graph
<1>3. QED
  BY <1>1, <1>2, NothingChanges DEF SkipEntry, graph

LEMMA OrderTargetsKeeps ==
  ASSUME IInv, OrderTargets
  PROVE  IInv'
<1> USE DEF IInv, OrderTargets
<1>1. Typed'
  BY StepIsTyped DEF Typed, TypeOK, Graph!Outcomes
<1>2. Phases'
  <2>1. ASSUME outcome' = "ordered"
        PROVE  order' \in Seq(Target) /\ Graph!IsTopologicalOrder(order', nodes, adjacency)
    <3>1. order' \in Orders
      BY <2>1
    <3>2. Cardinality(nodes) \in Nat /\ nodes \subseteq Target
      BY FS_Subset, FS_CardinalityType, ResolverAssumption DEF Typed, TypeOK
    <3>3. order' \in [1..Cardinality(nodes) -> Target]
      BY <3>1, <3>2 DEF Orders
    <3>4. QED
      BY <3>1, <3>2, <3>3, SeqDef DEF Orders
  <2>2. QED
    BY <2>1 DEF Phases, Graph!IsTopologicalOrder, Graph!Children
<1>3. QED
  BY <1>1, <1>2, NothingChanges

LEMMA VisitEntryKeeps ==
  ASSUME IInv, NEW e \in entries, VisitEntry(e)
  PROVE  IInv'
<1> USE DEF IInv, graph
<1> DEFINE t == EntryTarget(e)
<1>1. t \in Target /\ stack = << >> /\ AddDependencies(t, << >>) /\ pc = "resolving"
  BY DEF VisitEntry, EntryTarget, Typed, TypeOK, Entry
<1>2. UNCHANGED <<settings, positional, nodes, adjacency, outcome, order>>
  BY DEF VisitEntry
<1>3. << >> \in Seq(Frames) /\ Len(<< >>) = 0 /\ IsPath(<< >>)
  BY EmptySeq DEF IsPath
<1>4. StackLimit \in Nat /\ 0 < StackLimit
  <2>1. Cardinality(Target) \in Nat /\ Cardinality(Target) # 0
    BY <1>1, ResolverAssumption, FS_CardinalityType, FS_EmptySet
  <2>2. QED
    BY <2>1, ResolverAssumption
<1>5. pc' = "resolving"
  BY <1>1, <1>3, <1>4 DEF AddDependencies
<1>6. /\ stack' \in Seq(Frames) /\ Len(stack') <= StackLimit /\ StackIsPath'
      /\ Len(stack') = 1 /\ stack'[1] = NewFrame(t)
  <2> HIDE DEF t
  <2>1. Len(<< >>) <= StackLimit
    BY <1>3, <1>4
  <2>2. /\ stack' \in Seq(Frames) /\ Len(stack') <= StackLimit /\ StackIsPath'
        /\ pc' # "overflow" => Len(stack') = Len(<< >>) + 1 /\ stack'[1] = NewFrame(t)
    BY <1>1, <1>2, <1>3, <2>1, Called
  <2>3. QED
    BY <1>3, <1>5, <2>2
<1>7. Typed'
  BY <1>2, <1>5, <1>6, StepIsTyped DEF VisitEntry, Typed, TypeOK
<1>8. Phases'
  BY <1>2, <1>5, <1>1 DEF Phases
<1>9. PICK F \in SUBSET Target : Sound(F)
  BY <1>1 DEF ResolvesSoFar
<1>10. FramesAreSound(F)'
  BY <1>2, <1>6, SettingsDecide
  DEF FramesAreSound, NewFrame, ImplicitFrame, ExplicitFrame, ImplicitOf, settings
<1>11. GraphIsSound(F)' /\ SequentialGraph(F)'
  BY <1>2, <1>9, SettingsDecide DEF Sound, GraphIsSound, SequentialGraph, settings
<1>12. ParallelGraph(F)'
  BY <1>1, <1>2, <1>6, <1>9, EmptySeq, SettingsDecide
  DEF Sound, ParallelGraph, NewFrame, ImplicitFrame, ExplicitFrame, settings
<1>13. QED
  BY <1>5, <1>6, <1>7, <1>8, <1>9, <1>10, <1>11, <1>12 DEF ResolvesSoFar, Sound, OverflowOnlyForCycle

LEMMA SkipReferenceKeeps ==
  ASSUME IInv, NEW ref \in Reference, SkipReference(ref)
  PROVE  IInv'
<1> USE DEF IInv, graph
<1> DEFINE f == [stack[1] EXCEPT !.pending = @ \ {ref}]
<1>1. /\ pc = "resolving" /\ stack # << >> /\ ref \in stack[1].pending
      /\ Resolve(ref) = Unresolved /\ stack' = [stack EXCEPT ![1] = f]
  BY TopOfStack DEF SkipReference
<1>2. UNCHANGED <<settings, pc, entries, positional, nodes, adjacency, outcome, order>>
  BY DEF SkipReference
<1>3. /\ stack[1] \in Frames /\ Len(stack) \in Nat /\ 1 \in 1..Len(stack)
  BY <1>1, TopOfStack
<1>4. f \in Frames /\ f.target = stack[1].target /\ f.part = stack[1].part
      /\ f.pending = stack[1].pending \ {ref} /\ f.dependencies = stack[1].dependencies
  BY <1>3 DEF Frames
<1>5. PartOf(f) = f.dependencies \cup Resolved(f.pending) /\ (f.part = "implicit" => implicit)
  <2>1. PartOf(f) = PartOf(stack[1])
    BY <1>4 DEF PartOf
  <2>2. Resolved(stack[1].pending) = Resolved(f.pending)
    BY <1>1, <1>4 DEF Resolved
  <2>3. QED
    BY <1>3, <1>4, <2>1, <2>2 DEF StackIsPath, IsPath
<1> HIDE DEF f
<1>6. /\ stack' \in Seq(Frames) /\ Len(stack') = Len(stack)
      /\ stack'[1] = f /\ \A i \in 2..Len(stack) : stack'[i] = stack[i]
      /\ IsPath(stack')
  BY <1>1, <1>4, <1>5, ChangedTop
<1>7. Typed'
  BY <1>2, <1>6, StepIsTyped DEF Typed, TypeOK
<1>8. Phases'
  BY <1>1, <1>2 DEF Phases
<1>9. StackIsPath'
  BY <1>2, <1>6, SettingsDecide DEF StackIsPath, IsPath, settings
<1>10. PICK F \in SUBSET Target : Sound(F)
  BY <1>1 DEF ResolvesSoFar
<1>11. \A i \in 1..Len(stack) :
         /\ stack'[i].target = stack[i].target /\ stack'[i].part = stack[i].part
         /\ stack'[i].dependencies = stack[i].dependencies
  BY <1>4, <1>6
<1>12. FramesAreSound(F)'
  BY <1>2, <1>3, <1>6, <1>10, <1>11, SettingsDecide DEF Sound, FramesAreSound
<1>13. GraphIsSound(F)' /\ SequentialGraph(F)'
  BY <1>2, <1>10, SettingsDecide DEF Sound, GraphIsSound, SequentialGraph, settings
<1>14. ParallelGraph(F)'
  BY <1>2, <1>6, <1>10, <1>11, SettingsDecide DEF Sound, ParallelGraph, settings
<1>15. QED
  BY <1>1, <1>2, <1>7, <1>8, <1>9, <1>10, <1>12, <1>13, <1>14 DEF ResolvesSoFar, Sound, OverflowOnlyForCycle

LEMMA VisitReferenceKeeps ==
  ASSUME IInv, NEW ref \in Reference, VisitReference(ref)
  PROVE  IInv'
<1> USE DEF IInv, graph
<1> DEFINE d == Resolve(ref)
           f == [stack[1] EXCEPT !.pending = @ \ {ref}, !.dependencies = @ \cup {d}]
           s == [stack EXCEPT ![1] = f]
<1>1. /\ pc = "resolving" /\ stack # << >> /\ ref \in stack[1].pending /\ d # Unresolved
  BY TopOfStack DEF VisitReference
<1>2. UNCHANGED <<settings, positional, nodes, adjacency, outcome, order>> /\ entries' = entries
  BY DEF VisitReference
<1>3. /\ stack[1] \in Frames /\ Len(stack) \in Nat /\ 1 \in 1..Len(stack)
  BY <1>1, TopOfStack
<1>4. d \in Target
  BY <1>1, ReferencesResolve DEF Typed
<1>5. f \in Frames /\ f.target = stack[1].target /\ f.part = stack[1].part
      /\ f.pending = stack[1].pending \ {ref} /\ f.dependencies = stack[1].dependencies \cup {d}
  BY <1>3, <1>4 DEF Frames
<1>6. PartOf(f) = f.dependencies \cup Resolved(f.pending) /\ (f.part = "implicit" => implicit)
  <2>1. PartOf(f) = PartOf(stack[1])
    BY <1>5 DEF PartOf
  <2>2. Resolved(stack[1].pending) = Resolved(f.pending) \cup {d}
    BY <1>1, <1>5 DEF Resolved
  <2>3. QED
    BY <1>3, <1>5, <2>1, <2>2 DEF StackIsPath, IsPath
<1>7. s = [stack EXCEPT ![1].pending = @ \ {ref}, ![1].dependencies = @ \cup {d}]
  BY <1>3 DEF Frames, Typed
<1>8. AddDependencies(d, s)
  BY <1>7 DEF VisitReference
<1> HIDE DEF f, d
<1>9. /\ s \in Seq(Frames) /\ Len(s) = Len(stack)
      /\ s[1] = f /\ \A i \in 2..Len(stack) : s[i] = stack[i]
      /\ IsPath(s)
  BY <1>1, <1>5, <1>6, ChangedTop
<1> HIDE DEF s
<1>10. Len(s) <= StackLimit /\ d \in s[1].dependencies
  BY <1>5, <1>9 DEF Typed, TypeOK
<1>11. /\ stack' \in Seq(Frames) /\ Len(stack') <= StackLimit /\ StackIsPath'
       /\ pc' # "overflow" =>
            /\ Len(stack') = Len(s) + 1
            /\ stack'[1] = NewFrame(d)
            /\ \A i \in 2..(Len(s) + 1) : stack'[i] = s[i - 1]
       /\ pc' \in {"resolving", "overflow"}
  BY <1>1, <1>2, <1>4, <1>8, <1>9, <1>10, Called
<1>12. Typed'
  BY <1>2, <1>11, StepIsTyped DEF Typed, TypeOK
<1>13. Phases'
  BY <1>1, <1>2, <1>11 DEF Phases
<1>14. OverflowOnlyForCycle'
  <2>1. ASSUME pc' = "overflow"
        PROVE  HasDependencyCycle
    <3>1. Len(stack) >= StackLimit
      BY <1>1, <1>3, <1>8, <1>9, <2>1, ResolverAssumption DEF AddDependencies
    <3>2. d \in DependenciesOf(stack[1].target)
      <4>1. d \in PartOf(f) /\ f.target \in Target
        BY <1>5, <1>6, <1>3 DEF Frames
      <4>2. QED
        BY <4>1, <1>5, <1>6, ReferencesResolve DEF PartOf, Typed
    <3>3. QED
      BY <1>1, <1>4, <3>1, <3>2, DeepStackHasCycle
  <2>2. QED
    BY <2>1, <1>2, SettingsDecide DEF OverflowOnlyForCycle
<1>15. ASSUME pc' # "overflow"
       PROVE  ResolvesSoFar'
  <2>1. PICK F \in SUBSET Target : Sound(F)
    BY <1>1 DEF ResolvesSoFar
  <2>2. /\ Len(stack') = Len(stack) + 1 /\ stack'[1] = NewFrame(d)
        /\ stack'[2] = f /\ \A i \in 3..Len(stack') : stack'[i] = stack[i - 1]
    BY <1>3, <1>9, <1>11, <1>15
  <2>3. /\ NewFrame(d).target = d /\ NewFrame(d).dependencies = {}
        /\ NewFrame(d).part = "explicit" => ~implicit
    BY DEF NewFrame, ImplicitFrame, ExplicitFrame
  <2>4. FramesAreSound(F)'
    <3>1. ASSUME NEW i \in 1..Len(stack')
          PROVE  /\ i = 1 => stack'[i].dependencies \subseteq F
                 /\ i > 1 => stack'[i].dependencies \subseteq F \cup {stack'[i - 1].target}
                 /\ stack'[i].part = "explicit" => ImplicitOf(stack'[i].target) \subseteq F
      <4>1. CASE i = 1
        BY <4>1, <2>2, <2>3 DEF ImplicitOf
      <4>2. CASE i = 2
        BY <4>2, <1>3, <1>5, <2>1, <2>2, <2>3 DEF Sound, FramesAreSound
      <4>3. CASE i = 3
        <5>1. stack'[3] = stack[2] /\ stack'[2].target = stack[1].target /\ 2 \in 1..Len(stack)
          BY <4>3, <1>3, <1>5, <2>2
        <5>2. QED
          BY <4>3, <5>1, <2>1 DEF Sound, FramesAreSound
      <4>4. CASE i > 3
        <5>1. stack'[i] = stack[i - 1] /\ stack'[i - 1] = stack[(i - 1) - 1]
          BY <4>4, <1>3, <2>2
        <5>2. i - 1 \in 1..Len(stack) /\ i - 1 > 1
          BY <4>4, <1>3, <2>2
        <5>3. QED
          BY <4>4, <5>1, <5>2, <2>1 DEF Sound, FramesAreSound
      <4>5. QED
        BY <4>1, <4>2, <4>3, <4>4, <2>2, <1>3
    <3>2. QED
      BY <3>1, <1>2, SettingsDecide DEF FramesAreSound
  <2>5. GraphIsSound(F)' /\ SequentialGraph(F)'
    BY <1>2, <2>1, SettingsDecide DEF Sound, GraphIsSound, SequentialGraph, settings
  <2>6. ParallelGraph(F)'
    <3>1. \A i \in 1..Len(stack) : i + 1 \in 1..Len(stack') /\ stack'[i + 1].target = stack[i].target
      BY <1>3, <1>5, <2>2
    <3>2. \A i \in 1..Len(stack') :
            stack'[i].part = "explicit" /\ implicit =>
              \E j \in 1..Len(stack) : stack'[i].target = stack[j].target /\ stack[j].part = "explicit"
      <4>1. TAKE i \in 1..Len(stack')
      <4>2. CASE i = 1
        BY <4>2, <2>2, <2>3
      <4>3. CASE i = 2
        BY <4>3, <1>3, <1>5, <2>2
      <4>4. CASE i > 2
        <5>1. i - 1 \in 1..Len(stack) /\ stack'[i] = stack[i - 1]
          BY <4>4, <1>3, <2>2
        <5>2. QED
          BY <5>1
      <4>5. QED
        BY <4>2, <4>3, <4>4, <2>2, <1>3
    <3>3. parallel => DOMAIN adjacency \subseteq F \cup {stack'[i].target : i \in 1..Len(stack')}
      BY <3>1, <2>1 DEF Sound, ParallelGraph
    <3>4. QED
      BY <1>2, <2>1, <3>2, <3>3, SettingsDecide DEF Sound, ParallelGraph, settings
  <2>7. QED
    BY <2>4, <2>5, <2>6 DEF ResolvesSoFar, Sound
<1>16. QED
  BY <1>11, <1>12, <1>13, <1>14, <1>15 DEF ResolvesSoFar

\* AddImplicitDependencies returns.
LEMMA EndImplicitKeeps ==
  ASSUME IInv, EndImplicit
  PROVE  IInv'
<1> USE DEF IInv
<1> DEFINE t == stack[1].target
           d == stack[1].dependencies
           f == ExplicitFrame(t)
<1>1. /\ pc = "resolving" /\ stack # << >> /\ stack[1].part = "implicit" /\ stack[1].pending = {}
      /\ stack' = [stack EXCEPT ![1] = f]
      /\ IF parallel THEN Graph!Insert(t, d) ELSE UNCHANGED graph
  BY TopOfStack DEF EndImplicit, InsertDependencies
<1>2. UNCHANGED <<settings, pc, entries, positional>>
  BY DEF EndImplicit
<1>3. stack[1] \in Frames /\ Len(stack) \in Nat /\ 1 \in 1..Len(stack)
  BY <1>1, TopOfStack
<1>4. t \in Target /\ d \in SUBSET Target
  BY <1>3 DEF Frames
<1>5. implicit /\ d = ImplicitOf(t)
  <2>1. implicit /\ PartOf(stack[1]) = d \cup Resolved({})
    BY <1>1, <1>3 DEF StackIsPath, IsPath
  <2>2. PartOf(stack[1]) = ImplicitOf(t) /\ Resolved({}) = {}
    BY <1>1 DEF PartOf, Resolved
  <2>3. QED
    BY <2>1, <2>2
<1>6. /\ f \in Frames /\ f.target = t /\ f.part = "explicit" /\ f.dependencies = {}
      /\ PartOf(f) = f.dependencies \cup Resolved(f.pending)
  <2>1. f.pending = project.explicit[t] /\ f.target = t /\ f.part = "explicit" /\ f.dependencies = {}
    BY DEF ExplicitFrame
  <2>2. f \in Frames
    BY <1>4, ReferencesResolve DEF ExplicitFrame, Frames, Typed
  <2>3. QED
    BY <2>1, <2>2 DEF PartOf, ExplicitOf
<1> HIDE DEF f, t, d
<1>7. /\ stack' \in Seq(Frames) /\ Len(stack') = Len(stack)
      /\ stack'[1] = f /\ \A i \in 2..Len(stack) : stack'[i] = stack[i]
      /\ IsPath(stack')
  BY <1>1, <1>6, ChangedTop DEF t
<1>8. /\ outcome' = outcome /\ order' = order /\ outcome = "building"
      /\ nodes' \subseteq Target /\ DOMAIN adjacency' \subseteq Target
      /\ adjacency' \in [DOMAIN adjacency' -> SUBSET Target]
  <2>1. outcome = "building"
    BY <1>1 DEF Phases, Typed, TypeOK, Graph!Outcomes
  <2>2. CASE parallel
    <3>1. /\ nodes' = nodes \cup {t} \cup d /\ DOMAIN adjacency' = DOMAIN adjacency \cup {t}
          /\ adjacency' \in [DOMAIN adjacency' -> SUBSET Target]
          /\ outcome' = outcome /\ order' = order
      BY <1>1, <1>4, <2>2, InsertAdds
    <3>2. QED
      BY <1>4, <2>1, <3>1 DEF Typed, TypeOK
  <2>3. CASE ~parallel
    BY <1>1, <2>1, <2>3 DEF graph, Typed, TypeOK
  <2>4. QED
    BY <2>2, <2>3 DEF Typed, TypeOK
<1>9. Typed'
  BY <1>2, <1>7, <1>8, StepIsTyped DEF Typed, TypeOK
<1>10. Phases'
  BY <1>1, <1>2, <1>8 DEF Phases
<1>11. StackIsPath'
  BY <1>2, <1>7, SettingsDecide DEF StackIsPath, IsPath, settings
<1>12. PICK F \in SUBSET Target : Sound(F)
  BY <1>1 DEF ResolvesSoFar
<1>13. d \subseteq F
  BY <1>3, <1>12 DEF Sound, FramesAreSound, d
<1>14. \A i \in 1..Len(stack) : stack'[i].target = stack[i].target
  BY <1>6, <1>7 DEF t
<1>15. FramesAreSound(F)'
  <2>1. \A i \in 1..Len(stack) :
          /\ i = 1 => stack'[i].dependencies \subseteq F
          /\ i > 1 => stack'[i].dependencies \subseteq F \cup {stack'[i - 1].target}
          /\ stack'[i].part = "explicit" => ImplicitOf(stack'[i].target) \subseteq F
    <3>1. TAKE i \in 1..Len(stack)
    <3>2. CASE i = 1
      BY <3>2, <1>5, <1>6, <1>7, <1>13
    <3>3. CASE i > 1
      <4>1. stack'[i] = stack[i] /\ stack'[i - 1].target = stack[i - 1].target
        BY <3>3, <1>3, <1>7, <1>14
      <4>2. QED
        BY <3>3, <4>1, <1>12 DEF Sound, FramesAreSound
    <3>4. QED
      BY <3>2, <3>3, <1>3
  <2>2. QED
    BY <2>1, <1>2, <1>7, SettingsDecide DEF FramesAreSound
<1>16. CASE parallel
  <2>1. /\ DOMAIN adjacency' = DOMAIN adjacency \cup {t}
        /\ \A n \in DOMAIN adjacency \ {t} : adjacency'[n] = adjacency[n]
        /\ t \in DOMAIN adjacency => adjacency'[t] = adjacency[t] \cup d
        /\ t \notin DOMAIN adjacency => adjacency'[t] = d
    BY <1>1, <1>4, <1>16, InsertAdds
  <2>2. t \in F => d \subseteq adjacency[t]
    BY <1>4, <1>5, <1>12, ReferencesResolve DEF Sound, GraphIsSound, Typed
  <2>3. GraphIsSound(F)'
    <3>1. d \in SUBSET F /\ GraphIsSound(F) /\ Graph!Insert(t, d)
      BY <1>1, <1>12, <1>13, <1>16 DEF Sound
    <3>2. QED
      BY <3>1, <1>2, <1>4, <2>2, GraphKept
  <2>4. ParallelGraph(F)'
    <3>1. \A n \in DOMAIN adjacency' : adjacency'[n] \subseteq DependenciesOf(n)
      <4>1. d \subseteq DependenciesOf(t)
        BY <1>4, <1>5, ReferencesResolve DEF Typed
      <4>2. QED
        BY <4>1, <2>1, <1>12, <1>16 DEF Sound, ParallelGraph
    <3>2. DOMAIN adjacency' \subseteq F \cup {stack'[i].target : i \in 1..Len(stack')}
      <4>1. t = stack'[1].target
        BY <1>6, <1>7
      <4>2. \A n \in DOMAIN adjacency : n \in F \/ \E i \in 1..Len(stack) : n = stack[i].target
        BY <1>12, <1>16 DEF Sound, ParallelGraph
      <4>3. QED
        BY <4>1, <4>2, <2>1, <1>3, <1>7, <1>14
    <3>3. \A i \in 1..Len(stack') :
            stack'[i].part = "explicit" =>
              /\ stack'[i].target \in DOMAIN adjacency'
              /\ ImplicitOf(stack'[i].target) \subseteq adjacency'[stack'[i].target]
      <4>1. TAKE i \in 1..Len(stack')
      <4>2. CASE i = 1
        BY <4>2, <1>5, <1>6, <1>7, <2>1
      <4>3. CASE i > 1
        <5>1. stack'[i] = stack[i] /\ i \in 1..Len(stack)
          BY <4>3, <1>3, <1>7
        <5>2. QED
          BY <5>1, <1>5, <1>12, <1>16, <2>1 DEF Sound, ParallelGraph
      <4>4. QED
        BY <4>2, <4>3, <1>3, <1>7
    <3>4. QED
      BY <3>1, <3>2, <3>3, <1>2, SettingsDecide DEF ParallelGraph, settings
  <2>5. SequentialGraph(F)'
    BY <1>2, <1>16 DEF SequentialGraph, settings
  <2>6. QED
    BY <1>1, <1>2, <1>9, <1>10, <1>11, <1>12, <1>15, <2>3, <2>4, <2>5
    DEF ResolvesSoFar, Sound, OverflowOnlyForCycle
<1>17. CASE ~parallel
  <2>1. GraphIsSound(F)' /\ SequentialGraph(F)'
    BY <1>1, <1>2, <1>12, <1>17, SettingsDecide DEF Sound, GraphIsSound, SequentialGraph, settings, graph
  <2>2. ParallelGraph(F)'
    BY <1>2, <1>17 DEF ParallelGraph, settings
  <2>3. QED
    BY <1>1, <1>2, <1>9, <1>10, <1>11, <1>12, <1>15, <2>1, <2>2
    DEF ResolvesSoFar, Sound, OverflowOnlyForCycle
<1>18. QED
  BY <1>16, <1>17

\* AddExplicitDependencies returns, and with it AddDependencies.
LEMMA EndExplicitKeeps ==
  ASSUME IInv, EndExplicit
  PROVE  IInv'
<1> USE DEF IInv
<1> DEFINE d == stack[1].dependencies
<1>0. PICK t \in Target : t = stack[1].target
  BY TopOfStack DEF EndExplicit, Frames
<1>1. /\ pc = "resolving" /\ stack # << >> /\ stack[1].part = "explicit" /\ stack[1].pending = {}
      /\ stack' = Tail(stack)
      /\ IF parallel \/ t \in positional
         THEN (IF parallel THEN Graph!Insert(t, d) ELSE UNCHANGED graph) /\ UNCHANGED positional
         ELSE Graph!Insert(t, positional) /\ positional' = positional \cup {t}
  BY <1>0, TopOfStack DEF EndExplicit, InsertDependencies
<1>2. UNCHANGED <<settings, pc, entries>>
  BY DEF EndExplicit
<1>3. stack[1] \in Frames /\ Len(stack) \in Nat /\ 1 \in 1..Len(stack)
  BY <1>1, TopOfStack
<1>4. t \in Target /\ d \in SUBSET Target /\ positional \in SUBSET Target
  BY <1>3 DEF Frames, Typed, TypeOK
<1>5. d = ExplicitOf(t)
  <2>1. PartOf(stack[1]) = d \cup Resolved({})
    BY <1>1, <1>3 DEF StackIsPath, IsPath
  <2>2. PartOf(stack[1]) = ExplicitOf(t) /\ Resolved({}) = {}
    BY <1>0, <1>1 DEF PartOf, Resolved
  <2>3. QED
    BY <2>1, <2>2
<1>6. PICK F \in SUBSET Target : Sound(F)
  BY <1>1 DEF ResolvesSoFar
<1>7. d \subseteq F /\ ImplicitOf(t) \subseteq F
  BY <1>0, <1>1, <1>3, <1>6 DEF Sound, FramesAreSound
<1>8. DependenciesOf(t) = ImplicitOf(t) \cup d
  BY <1>4, <1>5, ReferencesResolve DEF Typed
<1>9. /\ stack' \in Seq(Frames) /\ Len(stack') = Len(stack) - 1
      /\ \A i \in 1..Len(stack') : stack'[i] = stack[i + 1]
  BY <1>1, HeadTailProperties DEF Typed
<1> HIDE DEF d
<1> DEFINE G == F \cup {t}
<1>10. FramesAreSound(G)'
  <2>1. ASSUME NEW i \in 1..Len(stack')
        PROVE  /\ i = 1 => stack'[i].dependencies \subseteq G
               /\ i > 1 => stack'[i].dependencies \subseteq G \cup {stack'[i - 1].target}
               /\ stack'[i].part = "explicit" => ImplicitOf(stack'[i].target) \subseteq G
    <3>1. stack'[i] = stack[i + 1] /\ i + 1 \in 1..Len(stack) /\ i + 1 > 1
      BY <1>3, <1>9
    <3>2. /\ stack[i + 1].dependencies \subseteq F \cup {stack[(i + 1) - 1].target}
          /\ stack[i + 1].part = "explicit" => ImplicitOf(stack[i + 1].target) \subseteq F
      BY <3>1, <1>6 DEF Sound, FramesAreSound
    <3>3. CASE i = 1
      BY <1>0, <3>1, <3>2, <3>3
    <3>4. CASE i > 1
      <4>1. stack'[i - 1] = stack[(i + 1) - 1]
        BY <3>4, <1>3, <1>9
      <4>2. QED
        BY <3>1, <3>2, <3>4, <4>1
    <3>5. QED
      BY <3>3, <3>4, <1>3, <1>9
  <2>2. QED
    BY <2>1, <1>2, SettingsDecide DEF FramesAreSound
<1>11. StackIsPath'
  <2>1. ASSUME NEW i \in 1..Len(stack')
        PROVE  /\ PartOf(stack'[i]) = stack'[i].dependencies \cup Resolved(stack'[i].pending)
               /\ stack'[i].part = "implicit" => implicit
               /\ i > 1 => stack'[i - 1].target \in stack'[i].dependencies
    <3>1. stack'[i] = stack[i + 1] /\ i + 1 \in 1..Len(stack) /\ i + 1 > 1
      BY <1>3, <1>9
    <3>2. i > 1 => stack'[i - 1] = stack[(i + 1) - 1]
      BY <1>3, <1>9
    <3>3. QED
      BY <3>1, <3>2 DEF StackIsPath, IsPath
  <2>2. QED
    BY <2>1, <1>2, SettingsDecide DEF StackIsPath, IsPath, settings
<1>12. outcome = "building"
  BY <1>1 DEF Phases, Typed, TypeOK, Graph!Outcomes
\* What remains to be shown in each case.
<1>13. ASSUME UNCHANGED <<outcome, order>>, positional' \subseteq Target, nodes' \subseteq Target,
              adjacency' \in [DOMAIN adjacency' -> SUBSET Target], DOMAIN adjacency' \subseteq Target,
              GraphIsSound(G)', ParallelGraph(G)', SequentialGraph(G)'
       PROVE  IInv'
  <2>1. Len(stack') <= StackLimit
    BY <1>3, <1>9, ResolverAssumption DEF Typed, TypeOK
  <2>2. Typed'
    BY <1>2, <1>9, <1>13, <2>1, StepIsTyped DEF Typed, TypeOK
  <2>3. Phases'
    BY <1>1, <1>2, <1>12, <1>13 DEF Phases
  <2>4. G \in SUBSET Target /\ Sound(G)'
    BY <1>4, <1>10, <1>13 DEF Sound
  <2>5. ResolvesSoFar'
    BY <2>4 DEF ResolvesSoFar
  <2>6. OverflowOnlyForCycle'
    BY <1>1, <1>2 DEF OverflowOnlyForCycle
  <2>7. QED
    BY <1>11, <2>2, <2>3, <2>5, <2>6
<1>14. CASE parallel
  <2>1. /\ DOMAIN adjacency' = DOMAIN adjacency \cup {t}
        /\ \A n \in DOMAIN adjacency \ {t} : adjacency'[n] = adjacency[n]
        /\ t \in DOMAIN adjacency => adjacency'[t] = adjacency[t] \cup d
        /\ t \notin DOMAIN adjacency => adjacency'[t] = d
        /\ nodes' = nodes \cup {t} \cup d
        /\ adjacency' \in [DOMAIN adjacency' -> SUBSET Target]
        /\ outcome' = outcome /\ order' = order
        /\ Graph!Insert(t, d) /\ positional' = positional
    <3>1. Graph!Insert(t, d) /\ positional' = positional
      BY <1>1, <1>14
    <3>2. QED
      BY <3>1, <1>4, InsertAdds
  <2>2. /\ GraphIsSound(F) /\ d \in SUBSET F
        /\ implicit => t \in DOMAIN adjacency /\ ImplicitOf(t) \subseteq adjacency[t]
    BY <1>0, <1>1, <1>3, <1>6, <1>7, <1>14 DEF Sound, ParallelGraph
  <2>3. GraphIsSound(G)'
    <3>1. CASE t \in F
      <4>1. d \subseteq adjacency[t]
        BY <1>8, <2>2, <3>1 DEF GraphIsSound
      <4>2. GraphIsSound(F)'
        BY <1>2, <1>4, <2>1, <2>2, <4>1, GraphKept
      <4>3. G = F
        BY <3>1
      <4>4. QED
        BY <4>2, <4>3
    <3>2. CASE t \notin F
      <4>1. DependenciesOf(t) \subseteq adjacency'[t]
        BY <1>8, <2>1, <2>2 DEF ImplicitOf
      <4>2. QED
        BY <1>2, <1>4, <2>1, <2>2, <3>2, <4>1, GraphGrows
    <3>3. QED
      BY <3>1, <3>2
  <2>4. ParallelGraph(G)'
    <3>1. \A n \in DOMAIN adjacency' : adjacency'[n] \subseteq DependenciesOf(n)
      BY <1>6, <1>8, <1>14, <2>1 DEF Sound, ParallelGraph
    <3>2. DOMAIN adjacency' \subseteq G \cup {stack'[i].target : i \in 1..Len(stack')}
      <4>1. SUFFICES ASSUME NEW n \in DOMAIN adjacency'
                     PROVE  n \in G \/ \E i \in 1..Len(stack') : n = stack'[i].target
        OBVIOUS
      <4>2. n \in G \/ \E i \in 1..Len(stack) : n = stack[i].target
        BY <1>6, <1>14, <2>1 DEF Sound, ParallelGraph
      <4>3. ASSUME NEW i \in 1..Len(stack), n = stack[i].target, n # t
            PROVE  \E j \in 1..Len(stack') : n = stack'[j].target
        <5>1. i # 1
          BY <1>0, <4>3
        <5>2. i - 1 \in 1..Len(stack') /\ stack'[i - 1] = stack[i]
          BY <5>1, <1>3, <1>9
        <5>3. QED
          BY <4>3, <5>2
      <4>4. QED
        BY <4>2, <4>3
    <3>3. \A i \in 1..Len(stack') :
            stack'[i].part = "explicit" /\ implicit =>
              /\ stack'[i].target \in DOMAIN adjacency'
              /\ ImplicitOf(stack'[i].target) \subseteq adjacency'[stack'[i].target]
      <4>1. TAKE i \in 1..Len(stack')
      <4>2. stack'[i] = stack[i + 1] /\ i + 1 \in 1..Len(stack)
        BY <1>3, <1>9
      <4>3. QED
        BY <4>2, <1>6, <1>14, <2>1 DEF Sound, ParallelGraph
    <3>4. QED
      BY <3>1, <3>2, <3>3, <1>2, SettingsDecide DEF ParallelGraph, settings
  <2>5. SequentialGraph(G)'
    BY <1>2, <1>14 DEF SequentialGraph, settings
  <2>6. nodes' \subseteq Target /\ DOMAIN adjacency' \subseteq Target /\ positional' \subseteq Target
    BY <1>4, <2>1 DEF Typed, TypeOK
  <2>7. QED
    BY <1>13, <2>1, <2>3, <2>4, <2>5, <2>6
<1>15. CASE ~parallel
  <2>1. F = positional /\ DOMAIN adjacency = positional
        /\ \A m, n \in positional : m = n \/ m \in adjacency[n] \/ n \in adjacency[m]
    BY <1>6, <1>15 DEF Sound, SequentialGraph
  <2>2. ParallelGraph(G)'
    BY <1>2, <1>15 DEF ParallelGraph, settings
  <2>3. CASE t \in positional
    <3>1. UNCHANGED <<positional, nodes, adjacency, outcome, order>> /\ G = F
      BY <1>1, <1>15, <2>1, <2>3 DEF graph
    <3>2. GraphIsSound(G)' /\ SequentialGraph(G)'
      BY <1>2, <1>6, <3>1, SettingsDecide DEF Sound, GraphIsSound, SequentialGraph, settings
    <3>3. QED
      BY <1>13, <2>2, <3>1, <3>2 DEF Typed, TypeOK
  <2>4. CASE t \notin positional
    <3>1. Graph!Insert(t, positional) /\ positional' = positional \cup {t}
      BY <1>1, <1>15, <2>4
    <3>2. /\ DOMAIN adjacency' = DOMAIN adjacency \cup {t}
          /\ \A n \in DOMAIN adjacency \ {t} : adjacency'[n] = adjacency[n]
          /\ t \notin DOMAIN adjacency => adjacency'[t] = positional
          /\ nodes' = nodes \cup {t} \cup positional
          /\ adjacency' \in [DOMAIN adjacency' -> SUBSET Target]
          /\ outcome' = outcome /\ order' = order
      BY <3>1, <1>4, InsertAdds
    <3>3. GraphIsSound(G)'
      <4>1. positional \in SUBSET F /\ t \notin F /\ GraphIsSound(F)
        BY <1>6, <2>1, <2>4 DEF Sound
      <4>2. DependenciesOf(t) \subseteq adjacency'[t]
        BY <1>7, <1>8, <2>1, <2>4, <3>2
      <4>3. QED
        BY <1>2, <1>4, <3>1, <4>1, <4>2, GraphGrows
    <3>4. SequentialGraph(G)'
      BY <1>2, <1>15, <2>1, <2>4, <3>1, <3>2 DEF SequentialGraph, settings
    <3>5. nodes' \subseteq Target /\ DOMAIN adjacency' \subseteq Target /\ positional' \subseteq Target
      BY <1>4, <3>1, <3>2 DEF Typed, TypeOK
    <3>6. QED
      BY <1>13, <2>2, <3>2, <3>3, <3>4, <3>5
  <2>5. QED
    BY <2>3, <2>4
<1>16. QED
  BY <1>14, <1>15

LEMMA InitEstablishes == Init => IInv
<1> SUFFICES ASSUME Init PROVE IInv
  OBVIOUS
<1> USE DEF Init, Graph!Init
<1>1. Typed
  <2>1. << >> \in Seq(Frames) /\ Len(<< >>) = 0 /\ DOMAIN << >> = {}
    BY EmptySeq
  <2>2. Len(stack) <= StackLimit /\ StackLimit \in Nat
    BY <2>1, ResolverAssumption
  <2>3. adjacency \in [DOMAIN adjacency -> SUBSET Target] /\ DOMAIN adjacency \subseteq Target
    BY <2>1
  <2>4. DOMAIN productNameToTarget = {} /\ 1..Len(stack) = {} /\ outcome \in Graph!Outcomes
    BY <2>1 DEF Graph!Outcomes
  <2>5. TypeOK
    BY <2>2, <2>4 DEF TypeOK
  <2>6. QED
    BY <2>1, <2>3, <2>5 DEF Typed
<1>2. Phases /\ StackIsPath /\ OverflowOnlyForCycle
  BY DEF Phases, StackIsPath, IsPath, OverflowOnlyForCycle
<1>3. Sound({})
  BY DEF Sound, FramesAreSound, GraphIsSound, ParallelGraph, SequentialGraph
<1>4. QED
  BY <1>1, <1>2, <1>3 DEF IInv, ResolvesSoFar

LEMMA StutteringKeeps ==
  ASSUME IInv, UNCHANGED vars
  PROVE  IInv'
<1> USE DEF IInv, vars, graph
<1>1. Typed'
  BY StepIsTyped DEF Typed, TypeOK
<1>2. Phases'
  BY DEF Phases, Graph!IsTopologicalOrder, Graph!Children
<1>3. CASE pc # "overflow"
  BY <1>1, <1>2, <1>3, NothingChanges
<1>4. CASE pc = "overflow"
  BY <1>1, <1>2, <1>4, SettingsDecide
  DEF settings, StackIsPath, IsPath, ResolvesSoFar, OverflowOnlyForCycle
<1>5. QED
  BY <1>3, <1>4

LEMMA StepPreserves == IInv /\ [Next]_vars => IInv'
  BY ResolveSchemeKeeps, ResolveLegacyKeeps, ResolveNothingKeeps, SkipEntryKeeps, VisitEntryKeeps,
     SkipReferenceKeeps, VisitReferenceKeeps, EndImplicitKeeps, EndExplicitKeeps, FinishKeeps,
     OrderTargetsKeeps, StutteringKeeps DEF Next, Resolver

LEMMA Invariance == Spec => []IInv
  BY InitEstablishes, StepPreserves, PTL DEF Spec

-----------------------------------------------------------------------------

\* When the resolution is over, what is done is all of the graph.
LEMMA ResolvedGraph ==
  ASSUME IInv, pc = "resolved"
  PROVE  /\ nodes = DOMAIN adjacency
         /\ \A t \in nodes : adjacency[t] \subseteq nodes /\ DependenciesOf(t) \subseteq adjacency[t]
         /\ \A C \in SUBSET nodes : C # {} => \E t \in C : adjacency[t] \cap C = {}
         /\ ~parallel => \A s, t \in nodes : s = t \/ s \in adjacency[t] \/ t \in adjacency[s]
<1>1. PICK F \in SUBSET Target : Sound(F)
  BY DEF IInv, ResolvesSoFar
<1>2. stack = << >> /\ Len(<< >>) = 0
  BY EmptySeq DEF IInv, Phases
<1>3. F = DOMAIN adjacency
  BY <1>1, <1>2 DEF Sound, GraphIsSound, ParallelGraph, SequentialGraph, IInv, Typed, TypeOK
<1>4. QED
  BY <1>1, <1>3 DEF Sound, GraphIsSound, SequentialGraph

\* A nonempty set of naturals has a least one.
LEMMA LeastNatural ==
  ASSUME NEW T, T \subseteq Nat, T # {}
  PROVE  \E x \in T : \A y \in T : x <= y
<1>1. PICK x \in T : \A y \in T : ~(<<y, x>> \in OpToRel(<, Nat))
  BY NatLessThanWellFounded, WFMin
<1>2. \A y \in T : ~(y < x)
  BY <1>1 DEF OpToRel
<1>3. QED
  BY <1>2

\* Where every two targets are ordered there is one order for all of them.
LEMMA TotalOrderIsUnique ==
  ASSUME IInv, pc = "resolved", ~parallel, NEW s \in Orders, NEW t \in Orders
  PROVE  s = t
<1> DEFINE n == Cardinality(nodes)
<1>1. n \in Nat
  BY FS_Subset, FS_CardinalityType, ResolverAssumption DEF IInv, Typed, TypeOK
<1>2. s \in [1..n -> nodes] /\ t \in [1..n -> nodes]
  BY DEF Orders
<1>3. Len(s) = n /\ Len(t) = n
  BY <1>1, <1>2, SeqDef, LenProperties
<1> HIDE DEF n
<1> DEFINE Lists(u) ==
             /\ \A x \in nodes : \E i \in 1..n : u[i] = x
             /\ \A i, j \in 1..n : u[i] = u[j] => i = j
           Follows(u) == \A i \in 1..n : \A x \in adjacency[u[i]] : \E j \in 1..(i - 1) : u[j] = x
<1>4. Lists(s) /\ Follows(s) /\ Lists(t) /\ Follows(t)
  <2>1. ASSUME NEW u \in Orders, u \in [1..n -> nodes], Len(u) = n
        PROVE  Lists(u) /\ Follows(u)
    BY <2>1, ResolvedGraph DEF Orders, Graph!IsTopologicalOrder, Graph!Children
  <2> HIDE DEF Lists, Follows
  <2>2. QED
    BY <1>2, <1>3, <2>1
<1>5. SUFFICES ASSUME s # t PROVE FALSE
  OBVIOUS
<1> DEFINE T == {i \in 1..n : s[i] # t[i]}
<1>6. T # {} /\ T \subseteq Nat
  <2>1. \E i \in 1..n : s[i] # t[i]
    BY <1>1, <1>2, <1>3, <1>5, SeqDef, SeqEqual
  <2>2. QED
    BY <1>1, <2>1
<1>7. PICK i \in T : \A j \in T : i <= j
  BY <1>6, LeastNatural
<1>8. i \in 1..n /\ s[i] # t[i] /\ \A j \in 1..(i - 1) : s[j] = t[j]
  BY <1>1, <1>7
<1>9. s[i] \in nodes /\ t[i] \in nodes
  BY <1>2, <1>8
<1>10. CASE s[i] \in adjacency[t[i]]
  <2>0. \A x \in adjacency[t[i]] : \E j \in 1..(i - 1) : t[j] = x
    BY <1>4, <1>8
  <2>1. PICK j \in 1..(i - 1) : t[j] = s[i]
    BY <2>0, <1>10
  <2>2. s[j] = s[i] /\ j \in 1..n /\ j # i
    BY <1>1, <1>8, <2>1
  <2>3. QED
    BY <1>4, <1>8, <2>2
<1>11. CASE t[i] \in adjacency[s[i]]
  <2>0. \A x \in adjacency[s[i]] : \E j \in 1..(i - 1) : s[j] = x
    BY <1>4, <1>8
  <2>1. PICK j \in 1..(i - 1) : s[j] = t[i]
    BY <2>0, <1>11
  <2>2. t[j] = t[i] /\ j \in 1..n /\ j # i
    BY <1>1, <1>8, <2>1
  <2>3. QED
    BY <1>4, <1>8, <2>2
<1>12. QED
  BY <1>8, <1>9, <1>10, <1>11, ResolvedGraph

(***************************************************************************)
(* Whatever the project and the scheme, what is executed keeps every        *)
(* target's dependencies in front of it, a sequential build has one order,  *)
(* the graph has no cycle to be reported, and the recursion of              *)
(* AddDependencies exceeds a stack as deep as the targets are many only for *)
(* targets that depend on each other in a cycle.                            *)
(***************************************************************************)
THEOREM ResolutionIsSound == Spec => []ResolvesSoundly
<1>1. ASSUME IInv PROVE DependenciesComeFirst
  <2> SUFFICES ASSUME outcome = "ordered", NEW i \in 1..Len(order), NEW d \in DependenciesOf(order[i])
               PROVE  Before(order, d, order[i])
    BY DEF DependenciesComeFirst
  <2>1. /\ pc = "resolved" /\ order \in Seq(Target)
        /\ Graph!IsTopologicalOrder(order, nodes, adjacency)
    BY <1>1 DEF IInv, Phases, Typed, TypeOK
  <2>2. Len(order) \in Nat /\ order[i] \in nodes
    BY <2>1, LenProperties DEF Graph!IsTopologicalOrder
  <2>3. d \in adjacency[order[i]] /\ order[i] \in DOMAIN adjacency
    BY <1>1, <2>1, <2>2, ResolvedGraph
  <2>4. PICK j \in 1..(i - 1) : order[j] = d
    BY <2>1, <2>3 DEF Graph!IsTopologicalOrder, Graph!Children
  <2>5. j \in 1..Len(order) /\ j < i
    BY <2>2, <2>4
  <2>6. QED
    BY <2>4, <2>5 DEF Before
<1>2. ASSUME IInv PROVE SequentialBuildIsTotal
  BY <1>2, TotalOrderIsUnique DEF SequentialBuildIsTotal
<1>3. ASSUME IInv PROVE ResolvedGraphIsAcyclic
  BY <1>3, ResolvedGraph DEF ResolvedGraphIsAcyclic, Graph!HasCycle
<1>4. IInv => ResolvesSoundly
  BY <1>1, <1>2, <1>3 DEF IInv, Typed, ResolvesSoundly
<1>5. QED
  BY <1>4, Invariance, PTL

=============================================================================
