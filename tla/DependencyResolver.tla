-------------------------- MODULE DependencyResolver --------------------------
(***************************************************************************)
(* pbxbuild::Build::DependencyResolver: which targets a build has and which *)
(* of them must be built before which.  AddDependencies calls itself for    *)
(* every dependency it finds; the frames of those calls are the variable    *)
(* stack.  The graph it fills is a pbxbuild::DirectedGraph (TopologicalSort *)
(* gives its operations), which the executor then asks for an order.        *)
(*                                                                         *)
(* The order of the references in a project file and of the entries in a    *)
(* scheme is the author's: the model takes them in any order.               *)
(***************************************************************************)
EXTENDS Naturals, Sequences, FiniteSets

CONSTANTS
  Target,
  ProductName,
  Unresolved,     \* nullptr: a reference, project or target that is not found
  Projects,       \* workspaces that may be loaded
  Schemes,        \* schemes that may be built
  StackLimit      \* calls of AddDependencies that fit on the thread's stack

Reference == Target \cup ProductName \cup {Unresolved}

\* What a project file says of each target: its product, its dependencies
\* (through TargetDependency) and the members of its Frameworks and CopyFiles
\* phases, which are other targets' products by proxy or files by name.
Project == [product  : [Target -> ProductName \cup {Unresolved}],
            explicit : [Target -> SUBSET (Target \cup {Unresolved})],
            implicit : [Target -> SUBSET Reference]]

\* A buildable reference finds its target by identifier, else by name.
Entry  == [buildForRunning : BOOLEAN,
           byIdentifier    : Target \cup {Unresolved},
           byName          : Target \cup {Unresolved}]

Scheme == [entries                   : SUBSET Entry,
           buildImplicitDependencies : BOOLEAN,
           parallelizeBuildables     : BOOLEAN]

ASSUME ResolverAssumption ==
  /\ IsFiniteSet(Target)
  /\ Unresolved \notin Target \cup ProductName
  /\ Target \cap ProductName = {}
  /\ Projects \subseteq Project
  /\ Schemes \subseteq Scheme
  /\ StackLimit \in Nat /\ StackLimit >= Cardinality(Target)

VARIABLES
  project,              \* the loaded workspace
  pc,                   \* "idle", "resolving", "overflow" or "resolved"
  implicit,             \* whether implicit dependencies are followed
  parallel,             \* whether the real dependencies order the targets
  productNameToTarget,  \* the target that stands for each product name
  entries,              \* roots that are still to be visited
  stack,                \* frames of AddDependencies, the running one first
  positional,           \* targets seen, when they are built one by one
  nodes, adjacency,     \* the graph of targets
  outcome, order        \* the graph's answer to the executor

Graph == INSTANCE TopologicalSort WITH Node <- Target

graph    == <<nodes, adjacency, outcome, order>>
settings == <<project, implicit, parallel, productNameToTarget>>
vars     == <<settings, pc, entries, stack, positional, graph>>

-----------------------------------------------------------------------------

\* BuildProductPathsToTargets: the projects are in a hash map, and the first
\* target that makes a product of some name keeps the name.
ProductMaps ==
  LET named == {project.product[t] : t \in Target} \ {Unresolved}
  IN  {m \in [named -> Target] : \A n \in named : project.product[m[n]] = n}

\* ResolveContainerItemProxy, or the look-up of a file's name.
Resolve(ref) ==
  IF ref \in Target THEN ref
  ELSE IF ref \in DOMAIN productNameToTarget THEN productNameToTarget[ref]
  ELSE Unresolved

EntryTarget(e) == IF e.byIdentifier # Unresolved THEN e.byIdentifier ELSE e.byName

ImplicitFrame(t) ==
  [target |-> t, part |-> "implicit", pending |-> project.implicit[t], dependencies |-> {}]

ExplicitFrame(t) ==
  [target |-> t, part |-> "explicit", pending |-> project.explicit[t], dependencies |-> {}]

\* A call of AddDependencies: it begins with the implicit ones if they are wanted.
NewFrame(t) == IF implicit THEN ImplicitFrame(t) ELSE ExplicitFrame(t)

Frame == Head(stack)

\* The stack holds StackLimit calls and no more.
AddDependencies(t, frames) ==
  IF Len(frames) < StackLimit
  THEN stack' = <<NewFrame(t)>> \o frames /\ pc' = pc
  ELSE stack' = frames /\ pc' = "overflow"

-----------------------------------------------------------------------------

Init ==
  /\ project \in Projects
  /\ pc = "idle"
  /\ implicit = FALSE /\ parallel = FALSE
  /\ productNameToTarget = << >>
  /\ entries = {} /\ stack = << >> /\ positional = {}
  /\ Graph!Init

\* resolveSchemeDependencies for a workspace with the scheme s.
ResolveScheme(s) ==
  /\ pc = "idle"
  /\ pc' = "resolving"
  /\ implicit' = s.buildImplicitDependencies
  /\ parallel' = s.parallelizeBuildables
  /\ productNameToTarget' \in IF implicit' THEN ProductMaps ELSE {<< >>}
  /\ entries' = s.entries
  /\ UNCHANGED <<project, stack, positional, graph>>

\* resolveSchemeDependencies without a scheme or a build action, and
\* resolveLegacyDependencies without a project: an empty graph.
ResolveNothing ==
  /\ pc = "idle"
  /\ pc' = "resolved"
  /\ UNCHANGED <<settings, entries, stack, positional, graph>>

\* resolveLegacyDependencies: the roots are all the targets, those that were
\* named, or the first one.
ResolveLegacy(roots) ==
  /\ pc = "idle"
  /\ pc' = "resolving"
  /\ implicit' = TRUE /\ parallel' = TRUE
  /\ productNameToTarget' \in ProductMaps
  /\ entries' = {[buildForRunning |-> TRUE, byIdentifier |-> t, byName |-> t] : t \in roots}
  /\ UNCHANGED <<project, stack, positional, graph>>

SkipEntryOnlyForFlag(e) ==
  /\ pc = "resolving" /\ stack = << >>
  /\ e \in entries
  /\ ~e.buildForRunning
  /\ entries' = entries \ {e}
  /\ UNCHANGED <<settings, pc, stack, positional, graph>>

SkipEntry(e) ==
  /\ pc = "resolving" /\ stack = << >>
  /\ e \in entries
  /\ ~e.buildForRunning \/ EntryTarget(e) = Unresolved
  /\ entries' = entries \ {e}
  /\ UNCHANGED <<settings, pc, stack, positional, graph>>

VisitEntry(e) ==
  /\ pc = "resolving" /\ stack = << >>
  /\ e \in entries
  /\ e.buildForRunning /\ EntryTarget(e) # Unresolved
  /\ entries' = entries \ {e}
  /\ AddDependencies(EntryTarget(e), << >>)
  /\ UNCHANGED <<settings, positional, graph>>

SkipReference(ref) ==
  /\ pc = "resolving" /\ stack # << >>
  /\ ref \in Frame.pending /\ Resolve(ref) = Unresolved
  /\ stack' = [stack EXCEPT ![1].pending = @ \ {ref}]
  /\ UNCHANGED <<settings, pc, entries, positional, graph>>

\* A dependency is noted, and its own dependencies are added at once.
VisitReference(ref) ==
  /\ pc = "resolving" /\ stack # << >>
  /\ ref \in Frame.pending /\ Resolve(ref) # Unresolved
  /\ AddDependencies(Resolve(ref),
       [stack EXCEPT ![1].pending      = @ \ {ref},
                     ![1].dependencies = @ \cup {Resolve(ref)}])
  /\ UNCHANGED <<settings, entries, positional, graph>>

InsertDependencies ==
  IF parallel THEN Graph!Insert(Frame.target, Frame.dependencies) ELSE UNCHANGED graph

EndImplicitDropsDependencies ==
  /\ pc = "resolving" /\ stack # << >>
  /\ Frame.part = "implicit" /\ Frame.pending = {}
  /\ stack' = [stack EXCEPT ![1] = ExplicitFrame(Frame.target)]
  /\ UNCHANGED <<settings, pc, entries, positional, graph>>

\* AddImplicitDependencies returns, AddExplicitDependencies is called.
EndImplicit ==
  /\ pc = "resolving" /\ stack # << >>
  /\ Frame.part = "implicit" /\ Frame.pending = {}
  /\ InsertDependencies
  /\ stack' = [stack EXCEPT ![1] = ExplicitFrame(Frame.target)]
  /\ UNCHANGED <<settings, pc, entries, positional>>

\* AddExplicitDependencies returns.  In a sequential build the target then goes
\* after every target seen before, once.
EndExplicit ==
  /\ pc = "resolving" /\ stack # << >>
  /\ Frame.part = "explicit" /\ Frame.pending = {}
  /\ IF parallel \/ Frame.target \in positional
     THEN InsertDependencies /\ UNCHANGED positional
     ELSE /\ Graph!Insert(Frame.target, positional)
          /\ positional' = positional \cup {Frame.target}
  /\ stack' = Tail(stack)
  /\ UNCHANGED <<settings, pc, entries>>

Finish ==
  /\ pc = "resolving" /\ stack = << >> /\ entries = {}
  /\ pc' = "resolved"
  /\ UNCHANGED <<settings, entries, stack, positional, graph>>

\* The executor asks the resolved graph for an order.
Orders == {s \in [1..Cardinality(nodes) -> nodes] :
             Graph!IsTopologicalOrder(s, nodes, adjacency)}

OrderTargets ==
  /\ pc = "resolved" /\ outcome = "building"
  /\ IF Graph!HasCycle(adjacency)
     THEN outcome' = "cycle" /\ order' = << >>
     ELSE outcome' = "ordered" /\ order' \in Orders
  /\ UNCHANGED <<settings, pc, entries, stack, positional, nodes, adjacency>>

Resolver ==
  \/ \E e \in entries : SkipEntry(e) \/ VisitEntry(e)
  \/ \E ref \in Reference : SkipReference(ref) \/ VisitReference(ref)
  \/ EndImplicit
  \/ EndExplicit
  \/ Finish
  \/ OrderTargets

Next ==
  \/ \E s \in Schemes : ResolveScheme(s)
  \/ \E roots \in SUBSET Target : ResolveLegacy(roots)
  \/ ResolveNothing
  \/ Resolver

Spec == Init /\ [][Next]_vars

\* One thread runs the resolver and the sort to the end.
FairSpec == Spec /\ WF_vars(Resolver)

-----------------------------------------------------------------------------

\* What a target must be built after, with the references resolved as now.
DependenciesOf(t) ==
  {Resolve(ref) : ref \in project.explicit[t] \cup (IF implicit THEN project.implicit[t] ELSE {})}
    \ {Unresolved}

Before(s, a, b) == \E i, j \in 1..Len(s) : i < j /\ s[i] = a /\ s[j] = b

HasDependencyCycle ==
  \E C \in SUBSET Target : C # {} /\ \A t \in C : DependenciesOf(t) \cap C # {}

(***************************************************************************)
(* Type invariant.                                                          *)
(***************************************************************************)
TypeOK ==
  /\ project \in Projects
  /\ pc \in {"idle", "resolving", "overflow", "resolved"}
  /\ implicit \in BOOLEAN /\ parallel \in BOOLEAN
  /\ DOMAIN productNameToTarget \subseteq ProductName
  /\ \A n \in DOMAIN productNameToTarget : productNameToTarget[n] \in Target
  /\ entries \subseteq Entry
  /\ Len(stack) <= StackLimit
  /\ \A i \in 1..Len(stack) :
       stack[i] \in [target : Target, part : {"implicit", "explicit"},
                     pending : SUBSET Reference, dependencies : SUBSET Target]
  /\ positional \subseteq Target
  /\ nodes \subseteq Target
  /\ outcome \in Graph!Outcomes

(***************************************************************************)
(* In whatever order the executor builds, a target comes after every target *)
(* it depends on, explicitly or (when they are wanted) implicitly; also     *)
(* when targets are built one by one and the graph holds positions and not  *)
(* dependencies.                                                            *)
(***************************************************************************)
DependenciesComeFirst ==
  outcome = "ordered" =>
    \A i \in 1..Len(order) : \A d \in DependenciesOf(order[i]) : Before(order, d, order[i])

(***************************************************************************)
(* A sequential build (parallelizeBuildables = NO) leaves no choice: there  *)
(* is one order to build its targets in.                                    *)
(***************************************************************************)
SequentialBuildIsTotal ==
  pc = "resolved" /\ ~parallel => \A s, t \in Orders : s = t

(***************************************************************************)
(* The resolved graph never has a cycle, with or without cyclic             *)
(* dependencies: the executors' answer to a cycle is never given.           *)
(***************************************************************************)
ResolvedGraphIsAcyclic == pc = "resolved" => ~Graph!HasCycle(adjacency)

(***************************************************************************)
(* The recursion ends unless the targets really depend on each other in a   *)
(* cycle: the stack need be no deeper than the targets are many.            *)
(***************************************************************************)
OverflowOnlyForCycle == pc = "overflow" => HasDependencyCycle

(***************************************************************************)
(* What a resolution comes to is sound: an order that keeps dependencies and*)
(* leaves a sequential build no choice, or an overflow only for a cycle.    *)
(***************************************************************************)
ResolvesSoundly ==
  /\ TypeOK
  /\ DependenciesComeFirst
  /\ SequentialBuildIsTotal
  /\ ResolvedGraphIsAcyclic
  /\ OverflowOnlyForCycle

(***************************************************************************)
(* A build of acyclic targets gets an order to build them in.               *)
(***************************************************************************)
AcyclicBuildIsOrdered == (pc = "resolving" /\ ~HasDependencyCycle) ~> (outcome = "ordered")

(***************************************************************************)
(* What the executors announce for targets that depend on each other in a   *)
(* cycle ("error: cycle detected in target dependencies"): the resolver     *)
(* survives them, so that the graph can be asked.                           *)
(***************************************************************************)
CyclesAreDetected == pc # "overflow"

=============================================================================
