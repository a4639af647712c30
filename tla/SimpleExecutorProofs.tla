------------------------- MODULE SimpleExecutorProofs -------------------------
(***************************************************************************)
(* Proofs about SimpleExecutor for every finite set of targets, any files   *)
(* and any invocations: tools run in order, what the build reports is so,   *)
(* and nothing runs after a failure.                                        *)
(***************************************************************************)
EXTENDS SimpleExecutor, SequenceTheorems, FiniteSetTheorems, TLAPS

InTarget == pc \in {"auxiliary", "sort", "structure", "invocations"}
Running  == pc \in {"structure", "invocations"}

Waiting == {targets[i] : i \in 1..Len(targets)}
Started == IF InTarget THEN {target} ELSE {}
Done    == Target \ (Waiting \cup Started)

\* Invocation i of t is one of the first n - 1 that ran, or of all.
RanBefore(runs, n, t, i) == \E m \in 1..(n - 1) : runs[m] = <<t, i>>
HasRunYet(t, i)          == RanBefore(ran, Len(ran) + 1, t, i)

\* What the invocation i of t has to leave behind, and an auxiliary file.
IsDone(t, i) ==
  ~build.invocations[t][i].phony =>
    HasRunYet(t, i) /\ build.invocations[t][i].outputs \subseteq files

IsWritten(file) == file.path \in files /\ (file.executable => file.path \in executables)

Typed ==
  /\ TypeOK
  /\ build \in Builds
  /\ targets \in Seq(Target)
  /\ auxiliary \in Seq(AuxiliaryFile)
  /\ ordered \in Seq(Nat)
  /\ ran \in Seq(Target \X Nat)

\* What is waited for is not waiting: the targets come after their dependencies.
TargetsInOrder ==
  pc \notin {"load", "failure"} =>
    /\ \A i, j \in 1..Len(targets) : targets[i] = targets[j] => i = j
    /\ \A i \in 1..Len(targets) : \A j \in i..Len(targets) :
         targets[j] \notin build.dependencies[targets[i]]
    /\ InTarget => target \notin Waiting /\ build.dependencies[target] \subseteq Done
    /\ pc = "success" => targets = << >>

\* Only targets that were reached have run tools, and no tool ran twice.
RanSoFar ==
  /\ pc = "load" => ran = << >>
  /\ pc \notin {"load", "failure"} => \A n \in 1..Len(ran) : ran[n][1] \in Done \cup Started
  /\ pc \in {"auxiliary", "sort"} => \A n \in 1..Len(ran) : ran[n][1] # target
  /\ \A m, n \in 1..Len(ran) : ran[m] = ran[n] => m = n

TargetsAreDone ==
  pc \notin {"load", "failure"} /\ ~build.dryRun =>
    \A t \in Done :
      /\ \A i \in 1..Len(build.invocations[t]) : IsDone(t, i)
      /\ \A k \in 1..Len(build.auxiliary[t]) : IsWritten(build.auxiliary[t][k])

\* The auxiliary files of the target: those that wait are the last ones.
AuxiliaryInOrder ==
  InTarget =>
    LET all == build.auxiliary[target]
        written == IF pc = "auxiliary" THEN Len(all) - Len(auxiliary) ELSE Len(all)
    IN  /\ written \in 0..Len(all)
        /\ pc = "auxiliary" => \A j \in 1..Len(auxiliary) : auxiliary[j] = all[written + j]
        /\ ~build.dryRun => \A k \in 1..written : IsWritten(all[k])

\* The invocations that the passes over the target have been through so far.
Passed(k) ==
  /\ ~Invocations[ordered[k]].phony
  /\ IF Invocations[ordered[k]].createsProductStructure
     THEN pc = "invocations" \/ k <= position
     ELSE pc = "invocations" /\ k <= position

PassesInOrder ==
  Running =>
    /\ ordered \in Sorts(Indices(Invocations), SortGraph(Invocations))
    /\ \A n \in 1..Len(ran) : ran[n][1] = target =>
         \E k \in 1..Len(ordered) : Passed(k) /\ ran[n][2] = ordered[k]
    /\ ~build.dryRun => \A k \in 1..Len(ordered) : Passed(k) => IsDone(target, ordered[k])

\* DependenciesAreBuilt, without the number of times.
DependenciesHaveRun ==
  \A n \in 1..Len(ran) : \A d \in build.dependencies[ran[n][1]] :
    \A i \in 1..Len(build.invocations[d]) :
      ~build.invocations[d][i].phony => RanBefore(ran, n, d, i)

RanInOrder == NeededFilesAreMade /\ PhasesRunInOrder /\ DependenciesHaveRun

FailureIsLast == failed # {} => pc = "failure"

DryRun == build.dryRun => directories = {} /\ files = {} /\ executables = {} /\ ran = << >>

IInv ==
  /\ Typed
  /\ TargetsInOrder
  /\ RanSoFar
  /\ TargetsAreDone
  /\ AuxiliaryInOrder
  /\ PassesInOrder
  /\ RanInOrder
  /\ FailureIsLast
  /\ DryRun

-----------------------------------------------------------------------------

LEMMA FirstAndRest ==
  ASSUME NEW S, NEW s \in Seq(S), s # << >>
  PROVE  /\ Head(s) \in S /\ Head(s) = s[1]
         /\ Tail(s) \in Seq(S) /\ Len(Tail(s)) \in Nat
         /\ Len(Tail(s)) = Len(s) - 1
         /\ \A i \in 1..Len(Tail(s)) : Tail(s)[i] = s[i + 1]
         /\ Len(s) \in Nat \ {0}
<1>1. Len(s) \in Nat \ {0}
  BY EmptySeq
<1>2. Head(s) = s[1]
  BY <1>1
<1>3. QED
  BY <1>1, <1>2, HeadTailProperties, LenProperties

LEMMA BuildIsTyped ==
  ASSUME Typed
  PROVE  /\ build.dryRun \in BOOLEAN
         /\ build.dependencies \in [Target -> SUBSET Target]
         /\ build.auxiliary \in [Target -> Seq(AuxiliaryFile)]
         /\ build.invocations \in [Target -> Seq(Invocation)]
<1>1. build \in Build
  BY SimpleExecutorAssumption DEF Typed
<1>2. QED
  BY <1>1 DEF Build

\* A nonempty set of naturals has a least one.
LEMMA LeastNatural ==
  ASSUME NEW T, T \subseteq Nat, T # {}
  PROVE  \E x \in T : \A y \in T : x <= y
<1>1. PICK x \in T : \A y \in T : ~(<<y, x>> \in OpToRel(<, Nat))
  BY NatLessThanWellFounded, WFMin
<1>2. \A y \in T : ~(y < x)
  BY <1>1 DEF OpToRel
<1>3. QED
  BY <1>2

\* The maker of a file is the first to name it among its outputs.
LEMMA MakerIsFirst ==
  ASSUME NEW all, Len(all) \in Nat, NEW path, Makers(all, path) # {}
  PROVE  /\ Maker(all, path) \in Makers(all, path)
         /\ \A j \in Makers(all, path) : Maker(all, path) <= j
<1>1. \E i \in Makers(all, path) : \A j \in Makers(all, path) : i <= j
  <2>1. Makers(all, path) \subseteq Nat
    BY DEF Makers, Indices
  <2>2. QED
    BY <2>1, LeastNatural
<1>2. QED
  BY <1>1 DEF Maker

\* A sort lists each node once, and each after its children.
LEMMA SortsAreOrders ==
  ASSUME NEW nodes, IsFiniteSet(nodes), NEW adjacency, NEW s \in Sorts(nodes, adjacency)
  PROVE  s \in Seq(nodes) /\ IsTopologicalOrder(s, nodes, adjacency)
<1>1. Cardinality(nodes) \in Nat
  BY FS_CardinalityType
<1>2. s \in [1..Cardinality(nodes) -> nodes] /\ IsTopologicalOrder(s, nodes, adjacency)
  BY DEF Sorts
<1>3. QED
  BY <1>1, <1>2, SeqDef

\* Below a priority that is in use, some invocation of the previous phase has
\* at least the priority of any other.
LEMMA PreviousPhaseIsNext ==
  ASSUME NEW all, \A i \in Indices(all) : all[i].priority \in Nat,
         NEW i \in Indices(all), NEW j \in Indices(all), all[i].priority < all[j].priority
  PROVE  \E k \in PreviousPhaseOf(all, j) : all[i].priority <= all[k].priority
<1> DEFINE smaller == {k \in Indices(all) : all[k].priority < all[j].priority}
           values  == {all[j].priority - all[k].priority : k \in smaller}
<1>1. values # {} /\ values \subseteq Nat
  <2>1. \A k \in smaller : all[j].priority - all[k].priority \in Nat
    OBVIOUS
  <2>2. QED
    BY <2>1
<1>2. PICK v \in values : \A w \in values : v <= w
  BY <1>1, LeastNatural
<1>3. PICK k \in smaller : v = all[j].priority - all[k].priority
  OBVIOUS
<1>4. ASSUME NEW l \in smaller
      PROVE  all[l].priority <= all[k].priority
  <2>1. all[j].priority - all[k].priority <= all[j].priority - all[l].priority
    BY <1>2, <1>3
  <2>2. QED
    BY <2>1
<1>5. k \in PreviousPhaseOf(all, j)
  BY <1>4 DEF PreviousPhaseOf
<1>6. QED
  BY <1>4, <1>5

\* Of two invocations in the sorted order, the first is of no later phase: a
\* chain of previous phases leads from the later phase to every earlier one.
LEMMA SortKeepsPhases ==
  ASSUME NEW all, Len(all) \in Nat, \A i \in Indices(all) : all[i].priority \in Nat,
         NEW s \in Sorts(Indices(all), SortGraph(all)),
         NEW first \in 1..Len(s), NEW later \in 1..Len(s), first < later
  PROVE  all[s[first]].priority <= all[s[later]].priority
<1> DEFINE P(i) == all[s[i]].priority
           T    == {i \in 1..Len(s) : i < later /\ P(i) > P(later)}
<1>1. IsFiniteSet(Indices(all))
  BY FS_Interval DEF Indices
<1>2. /\ s \in Seq(Indices(all))
      /\ \A i, j \in 1..Len(s) : s[i] = s[j] => i = j
      /\ \A i \in 1..Len(s) : \A child \in Children(SortGraph(all), s[i]) : \E j \in 1..(i - 1) : s[j] = child
  <2>1. s \in Seq(Indices(all)) /\ IsTopologicalOrder(s, Indices(all), SortGraph(all))
    BY <1>1, SortsAreOrders
  <2>2. QED
    BY <2>1 DEF IsTopologicalOrder
<1>3. Len(s) \in Nat /\ \A i \in 1..Len(s) : s[i] \in Indices(all)
  BY <1>2, LenProperties, ElementOfSeq
<1>4. \A i \in 1..Len(s) : P(i) \in Nat
  BY <1>3
<1> HIDE DEF P
<1>5. SUFFICES ASSUME T # {} PROVE FALSE
  <2>1. first \in 1..Len(s) /\ first < later /\ P(first) \in Nat /\ P(later) \in Nat
    BY <1>4
  <2>2. P(first) > P(later) => first \in T
    BY <2>1
  <2>3. SUFFICES P(first) <= P(later)
    BY DEF P
  <2>4. QED
    BY <2>1, <2>2
<1>6. T \subseteq Nat
  BY <1>3
<1>7. PICK i \in T : \A j \in T : i <= j
  BY <1>5, <1>6, LeastNatural
<1>8. \E k \in PreviousPhaseOf(all, s[i]) : all[k].priority >= P(later)
  <2>1. s[later] \in Indices(all) /\ s[i] \in Indices(all)
    BY <1>3, <1>7
  <2>2. all[s[later]].priority < all[s[i]].priority
    BY <1>4, <1>7 DEF P
  <2>3. \E k \in PreviousPhaseOf(all, s[i]) : all[s[later]].priority <= all[k].priority
    BY <2>1, <2>2, PreviousPhaseIsNext
  <2>4. \A k \in PreviousPhaseOf(all, s[i]) : all[k].priority \in Nat
    BY DEF PreviousPhaseOf
  <2>5. QED
    BY <1>3, <2>1, <2>3, <2>4 DEF P
<1>9. PICK k \in PreviousPhaseOf(all, s[i]) : all[k].priority >= P(later)
  BY <1>8
<1>10. \A child \in PreviousPhaseOf(all, s[i]) : \E j \in 1..(i - 1) : s[j] = child
  BY <1>2, <1>3, <1>7 DEF Children, SortGraph
<1>11. PICK j \in 1..(i - 1) : s[j] = k
  BY <1>9, <1>10
<1>12. j \in 1..Len(s) /\ j < i /\ i < later
  BY <1>3, <1>7, <1>11
<1>13. P(j) = all[k].priority /\ P(j) = P(later)
  <2>1. P(j) = all[k].priority
    BY <1>11 DEF P
  <2>2. ~(P(j) > P(later))
    BY <1>7, <1>12
  <2>3. QED
    BY <1>4, <1>9, <1>12, <2>1, <2>2
<1>14. s[later] \in PreviousPhaseOf(all, s[i])
  BY <1>3, <1>9, <1>13 DEF PreviousPhaseOf, P
<1>15. PICK l \in 1..(i - 1) : s[l] = s[later]
  BY <1>10, <1>14
<1>16. l \in 1..Len(s) /\ l # later
  BY <1>3, <1>7, <1>15
<1>17. QED
  BY <1>2, <1>15, <1>16

\* The invocations of a target, and those of the current one.
LEMMA InvocationsAreTyped ==
  ASSUME Typed, NEW t \in Target
  PROVE  /\ Len(build.invocations[t]) \in Nat
         /\ \A i \in 1..Len(build.invocations[t]) : build.invocations[t][i] \in Invocation
<1>1. build.invocations[t] \in Seq(Invocation)
  BY BuildIsTyped
<1>2. QED
  BY <1>1, LenProperties, ElementOfSeq

\* What the order of the sorted invocations is.
LEMMA OrderIsKnown ==
  ASSUME Typed, NEW s \in Sorts(Indices(Invocations), SortGraph(Invocations))
  PROVE  /\ s \in Seq(Indices(Invocations))
         /\ s \in Seq(Nat)
         /\ Len(s) \in Nat
         /\ \A k \in 1..Len(s) : s[k] \in Indices(Invocations)
         /\ IsTopologicalOrder(s, Indices(Invocations), SortGraph(Invocations))
<1>1. Len(Invocations) \in Nat
  BY InvocationsAreTyped DEF Typed, TypeOK, Invocations
<1>2. IsFiniteSet(Indices(Invocations)) /\ Indices(Invocations) \subseteq Nat
  BY <1>1, FS_Interval DEF Indices
<1>3. s \in Seq(Indices(Invocations))
      /\ IsTopologicalOrder(s, Indices(Invocations), SortGraph(Invocations))
  BY <1>2, SortsAreOrders
<1>4. s \in Seq(Nat)
  BY <1>2, <1>3, SeqMonotonic
<1>5. QED
  BY <1>3, <1>4, LenProperties, ElementOfSeq

\* What has run has run in order, whatever else changes.
LEMMA HistoryKept ==
  ASSUME RanInOrder, build' = build, ran' = ran
  PROVE  RanInOrder'
<1>1. NeededFilesAreMade'
  <2>1. \A n, path : HasRun(n, path)' <=> HasRun(n, path)
    BY DEF HasRun, InvocationOf
  <2>2. \A n : InvocationOf(ran[n])' = InvocationOf(ran[n])
    BY DEF InvocationOf
  <2>3. ASSUME NEW n \in 1..Len(ran),
               ~InvocationOf(ran[n]).createsProductStructure,
               NEW path \in NeededAndMade(build.invocations[ran[n][1]], InvocationOf(ran[n])),
               ~build.invocations[ran[n][1]][FirstToName(build.invocations[ran[n][1]], path)].phony
        PROVE  HasRun(n, path)'
    BY <2>1, <2>3 DEF RanInOrder, NeededFilesAreMade
  <2>4. QED
    BY <2>2, <2>3 DEF NeededFilesAreMade
<1>2. PhasesRunInOrder'
  <2>1. \A n : InvocationOf(ran[n])' = InvocationOf(ran[n])
    BY DEF InvocationOf
  <2>2. QED
    BY <2>1 DEF RanInOrder, PhasesRunInOrder
<1>3. DependenciesHaveRun'
  BY DEF RanInOrder, DependenciesHaveRun
<1>4. QED
  BY <1>1, <1>2, <1>3 DEF RanInOrder

\* Nothing that is done is undone while files are added and tools run.
LEMMA DoneStays ==
  ASSUME build' = build, files \subseteq files', executables \subseteq executables',
         Len(ran) \in Nat, Len(ran') \in Nat, Len(ran) <= Len(ran'),
         \A n \in 1..Len(ran) : ran'[n] = ran[n]
  PROVE  /\ \A t, i : IsDone(t, i) => IsDone(t, i)'
         /\ \A file : IsWritten(file) => IsWritten(file)'
<1>1. ASSUME NEW t, NEW i, HasRunYet(t, i)
      PROVE  HasRunYet(t, i)'
  <2>1. PICK m \in 1..(Len(ran) + 1 - 1) : ran[m] = <<t, i>>
    BY <1>1 DEF HasRunYet, RanBefore
  <2>2. m \in 1..(Len(ran') + 1 - 1) /\ ran'[m] = <<t, i>>
    BY <2>1
  <2>3. QED
    BY <2>2 DEF HasRunYet, RanBefore
<1>2. \A t, i : IsDone(t, i) => IsDone(t, i)'
  BY <1>1 DEF IsDone
<1>3. \A file : IsWritten(file) => IsWritten(file)'
  BY DEF IsWritten
<1>4. QED
  BY <1>2, <1>3

\* The sets of targets depend on pc, targets and target only.
LEMMA TargetsStay ==
  ASSUME targets' = targets, target' = target, InTarget' <=> InTarget
  PROVE  Waiting' = Waiting /\ Started' = Started /\ Done' = Done
BY DEF Waiting, Started, Done

LEMMA TurnHasCurrent ==
  ASSUME Typed, IsTurn
  PROVE  /\ position \in Nat /\ Len(ordered) \in Nat
         /\ position + 1 \in 1..Len(ordered)
         /\ Current \in Nat
<1>1. ordered \in Seq(Nat) /\ position \in 0..Len(ordered)
  BY DEF Typed, TypeOK
<1>2. Len(ordered) \in Nat
  BY <1>1, LenProperties
<1>3. position + 1 \in 1..Len(ordered)
  BY <1>1, <1>2 DEF IsTurn
<1>4. Current \in Nat
  BY <1>1, <1>3, ElementOfSeq DEF Current
<1>5. QED
  BY <1>1, <1>2, <1>3, <1>4

LEMMA InitIsSafe == Init => IInv
<1> SUFFICES ASSUME Init PROVE IInv
  OBVIOUS
<1>1. << >> \in Seq(Target) /\ << >> \in Seq(AuxiliaryFile) /\ << >> \in Seq(Nat)
      /\ << >> \in Seq(Target \X Nat) /\ Len(<< >>) = 0
  BY EmptySeq
<1>2. target \in Target
  BY SimpleExecutorAssumption DEF Init
<1>3. TypeOK
  BY <1>1, <1>2 DEF Init, TypeOK, ToSet
<1>4. Typed
  BY <1>1, <1>3 DEF Init, Typed
<1>5. TargetsInOrder /\ TargetsAreDone /\ AuxiliaryInOrder /\ PassesInOrder /\ FailureIsLast
  BY DEF Init, TargetsInOrder, TargetsAreDone, AuxiliaryInOrder, PassesInOrder, InTarget, Running, FailureIsLast
<1>6. RanSoFar /\ DryRun
  BY <1>1 DEF Init, RanSoFar, DryRun
<1>7. RanInOrder
  <2>1. 1..Len(ran) = {}
    BY <1>1 DEF Init
  <2>2. NeededFilesAreMade
    BY <2>1 DEF NeededFilesAreMade
  <2>3. PhasesRunInOrder
    BY <2>1 DEF PhasesRunInOrder, InPhaseOrder
  <2>4. DependenciesHaveRun
    BY <2>1 DEF DependenciesHaveRun
  <2>5. QED
    BY <2>2, <2>3, <2>4 DEF RanInOrder
<1>8. QED
  BY <1>4, <1>5, <1>6, <1>7 DEF IInv

LEMMA LoadIsSafe == IInv /\ Load => IInv'
<1> SUFFICES ASSUME IInv, Load PROVE IInv'
  OBVIOUS
<1> USE DEF IInv
<1>1. targets' \in Seq(Target) /\ IsTopologicalOrder(targets', Target, build.dependencies)
  BY SimpleExecutorAssumption, SortsAreOrders DEF Load
<1>2. Len(targets') \in Nat
  BY <1>1, LenProperties
<1>3. ran = << >> /\ Len(ran) = 0
  BY EmptySeq DEF Load, RanSoFar
<1>4. ~InTarget' /\ ~Running'
  BY DEF Load, InTarget, Running
<1>5. Waiting' = Target /\ Done' = {}
  BY <1>1 DEF Waiting, Done, IsTopologicalOrder
<1>6. TypeOK'
  <2>1. ToSet(targets') \subseteq Target
    BY <1>1, LenProperties, ElementOfSeq DEF ToSet
  <2>2. QED
    BY <2>1 DEF Load, Typed, TypeOK, disk
<1>7. Typed'
  BY <1>1, <1>6 DEF Load, Typed
<1>8. TargetsInOrder'
  <2>1. \A i, j \in 1..Len(targets') : targets'[i] = targets'[j] => i = j
    BY <1>1 DEF IsTopologicalOrder
  <2>2. ASSUME NEW i \in 1..Len(targets'), NEW j \in i..Len(targets'),
               targets'[j] \in build.dependencies[targets'[i]]
        PROVE  FALSE
    <3>1. targets'[i] \in DOMAIN build.dependencies
      BY <1>1, ElementOfSeq, BuildIsTyped
    <3>2. PICK k \in 1..(i - 1) : targets'[k] = targets'[j]
      BY <1>1, <2>2, <3>1 DEF IsTopologicalOrder, Children
    <3>3. k \in 1..Len(targets') /\ j \in 1..Len(targets') /\ k # j
      BY <1>2, <3>2
    <3>4. QED
      BY <2>1, <3>2, <3>3
  <2>3. build' = build
    BY DEF Load
  <2>4. pc' # "success"
    BY DEF Load
  <2>5. QED
    BY <1>4, <2>1, <2>2, <2>3, <2>4 DEF TargetsInOrder
<1>9. RanSoFar' /\ TargetsAreDone'
  <2>1. ran' = ran /\ 1..Len(ran) = {}
    <3>1. 1..0 = {}
      OBVIOUS
    <3>2. QED
      BY <3>1, <1>3 DEF Load
  <2>2. RanSoFar'
    BY <2>1, <1>3 DEF RanSoFar
  <2>3. TargetsAreDone'
    BY <1>5 DEF TargetsAreDone
  <2>4. QED
    BY <2>2, <2>3
<1>10. AuxiliaryInOrder' /\ PassesInOrder'
  BY <1>4 DEF AuxiliaryInOrder, PassesInOrder
<1>11. RanInOrder'
  BY HistoryKept DEF Load
<1>12. FailureIsLast' /\ DryRun'
  BY DEF Load, FailureIsLast, DryRun, disk
<1>13. QED
  BY <1>7, <1>8, <1>9, <1>10, <1>11, <1>12

\* A step to the end that leaves the history alone.
LEMMA StopIsSafe ==
  ASSUME IInv, pc' = "failure", UNCHANGED <<build, progress, ran>>, Typed', DryRun'
  PROVE  IInv'
<1> USE DEF IInv
<1>1. ~InTarget' /\ ~Running'
  BY DEF InTarget, Running
<1>2. TargetsInOrder' /\ TargetsAreDone' /\ FailureIsLast'
  BY DEF TargetsInOrder, TargetsAreDone, FailureIsLast
<1>3. RanSoFar'
  BY DEF RanSoFar
<1>4. AuxiliaryInOrder' /\ PassesInOrder'
  BY <1>1 DEF AuxiliaryInOrder, PassesInOrder
<1>5. RanInOrder'
  BY HistoryKept
<1>6. QED
  BY <1>2, <1>3, <1>4, <1>5

LEMMA FailToLoadIsSafe == IInv /\ FailToLoad => IInv'
<1> SUFFICES ASSUME IInv, FailToLoad PROVE IInv'
  OBVIOUS
<1>1. Typed'
  BY DEF IInv, FailToLoad, Typed, TypeOK, progress, disk
<1>2. DryRun'
  BY DEF IInv, FailToLoad, DryRun, disk
<1>3. QED
  BY <1>1, <1>2, StopIsSafe DEF FailToLoad

LEMMA FailToBeginTargetIsSafe == IInv /\ FailToBeginTarget => IInv'
<1> SUFFICES ASSUME IInv, FailToBeginTarget PROVE IInv'
  OBVIOUS
<1>1. Typed'
  BY DEF IInv, FailToBeginTarget, Typed, TypeOK, progress, disk
<1>2. DryRun'
  BY DEF IInv, FailToBeginTarget, DryRun, disk
<1>3. QED
  BY <1>1, <1>2, StopIsSafe DEF FailToBeginTarget

LEMMA RefuseInvocationIsSafe == IInv /\ RefuseInvocation => IInv'
<1> SUFFICES ASSUME IInv, RefuseInvocation PROVE IInv'
  OBVIOUS
<1>1. <<target, Current>> \in Target \X Nat
  BY TurnHasCurrent DEF IInv, RefuseInvocation, Typed, TypeOK
<1>2. Typed'
  BY <1>1 DEF IInv, RefuseInvocation, Typed, TypeOK, progress, disk
<1>3. DryRun'
  BY DEF IInv, RefuseInvocation, DryRun, disk
<1>4. QED
  BY <1>2, <1>3, StopIsSafe DEF RefuseInvocation

LEMMA FailToWriteAuxiliaryFileIsSafe == IInv /\ FailToWriteAuxiliaryFile => IInv'
<1> SUFFICES ASSUME IInv, FailToWriteAuxiliaryFile PROVE IInv'
  OBVIOUS
<1>1. Head(auxiliary) \in AuxiliaryFile
  BY HeadTailProperties DEF IInv, FailToWriteAuxiliaryFile, Typed
<1>2. Typed'
  BY <1>1 DEF IInv, FailToWriteAuxiliaryFile, Typed, TypeOK, progress, disk, AuxiliaryFile
<1>3. DryRun'
  BY DEF IInv, FailToWriteAuxiliaryFile, DryRun
<1>4. QED
  BY <1>2, <1>3, StopIsSafe DEF FailToWriteAuxiliaryFile

LEMMA BeginTargetIsSafe == IInv /\ BeginTarget => IInv'
<1> SUFFICES ASSUME IInv, BeginTarget PROVE IInv'
  OBVIOUS
<1> USE DEF IInv
<1>1. /\ targets \in Seq(Target) /\ targets # << >> /\ Len(targets) \in Nat
      /\ pc = "next target" /\ pc' = "auxiliary" /\ build' = build /\ ran' = ran
      /\ target' = Head(targets) /\ targets' = Tail(targets)
      /\ auxiliary' = build.auxiliary[target']
      /\ UNCHANGED <<ordered, position, failed, disk>>
  BY LenProperties DEF BeginTarget, Typed
<1>2. /\ Head(targets) \in Target /\ Head(targets) = targets[1]
      /\ Tail(targets) \in Seq(Target) /\ Len(Tail(targets)) \in Nat
      /\ Len(Tail(targets)) = Len(targets) - 1
      /\ \A i \in 1..Len(Tail(targets)) : Tail(targets)[i] = targets[i + 1]
      /\ Len(targets) \in Nat \ {0}
  BY <1>1, FirstAndRest
<1> DEFINE size == Len(targets) - 1
<1>a. /\ size \in Nat /\ Len(targets') = size /\ Len(targets) = size + 1
      /\ \A i \in 1..size : targets'[i] = targets[i + 1]
  <2>1. targets' = Tail(targets)
    BY <1>1
  <2>2. QED
    BY <1>2, <2>1
<1>3. Waiting = Waiting' \cup {target'} /\ target' \notin Waiting'
  <2>1. Waiting' = {targets[i + 1] : i \in 1..(Len(targets) - 1)}
    BY <1>1, <1>2 DEF Waiting
  <2>2. ASSUME NEW i \in 1..Len(targets)
        PROVE  targets[i] \in Waiting' \cup {target'}
    <3>1. CASE i = 1
      BY <1>1, <1>2, <3>1
    <3>2. CASE i # 1
      <4>1. i - 1 \in 1..(Len(targets) - 1) /\ (i - 1) + 1 = i
        BY <1>2, <3>2
      <4>2. QED
        BY <2>1, <4>1
    <3>3. QED
      BY <3>1, <3>2
  <2>3. ASSUME NEW i \in 1..(Len(targets) - 1)
        PROVE  targets[i + 1] \in Waiting /\ targets[i + 1] # target'
    <3>1. 1 \in 1..Len(targets) /\ i + 1 \in 1..Len(targets) /\ i + 1 # 1
      BY <1>2
    <3>2. targets[i + 1] # targets[1]
      BY <1>1, <3>1 DEF TargetsInOrder
    <3>3. QED
      BY <1>1, <1>2, <3>1, <3>2 DEF Waiting
  <2>4. target' \in Waiting
    <3>1. 1 \in 1..Len(targets)
      BY <1>2
    <3>2. QED
      BY <1>1, <1>2, <3>1 DEF Waiting
  <2>5. QED
    BY <2>1, <2>2, <2>3, <2>4 DEF Waiting
<1>4. InTarget' /\ ~InTarget /\ ~Running'
  BY <1>1 DEF InTarget, Running
<1>5. Done' = Done /\ Done = Target \ Waiting /\ Started' = {target'}
  BY <1>3, <1>4 DEF Done, Started
<1>6. auxiliary' \in Seq(AuxiliaryFile)
  BY <1>1, <1>2, BuildIsTyped
<1>7. Typed'
  <2>1. ToSet(targets') \subseteq Target
    <3>1. targets' \in Seq(Target)
      BY <1>1, <1>2
    <3>2. QED
      BY <3>1, LenProperties, ElementOfSeq DEF ToSet
  <2>2. TypeOK'
    BY <1>1, <1>2, <2>1 DEF Typed, TypeOK, disk
  <2>3. QED
    BY <1>1, <1>2, <1>6, <2>2 DEF Typed
<1>8. TargetsInOrder'
  <2> HIDE DEF size
  <2>1. ASSUME NEW i \in 1..Len(targets'), NEW j \in 1..Len(targets'), targets'[i] = targets'[j]
        PROVE  i = j
    <3>1. i + 1 \in 1..Len(targets) /\ j + 1 \in 1..Len(targets) /\ targets[i + 1] = targets[j + 1]
      BY <1>a, <2>1
    <3>2. i + 1 = j + 1
      BY <1>1, <3>1 DEF TargetsInOrder
    <3>3. QED
      BY <1>a, <3>2
  <2>2. ASSUME NEW i \in 1..Len(targets'), NEW j \in i..Len(targets')
        PROVE  targets'[j] \notin build.dependencies[targets'[i]]
    <3>1. i + 1 \in 1..Len(targets) /\ j + 1 \in (i + 1)..Len(targets) /\ j \in 1..Len(targets')
      BY <1>a
    <3>2. targets[j + 1] \notin build.dependencies[targets[i + 1]]
      BY <1>1, <3>1 DEF TargetsInOrder
    <3>3. QED
      BY <1>a, <3>1, <3>2
  <2>3. build.dependencies[target'] \subseteq Done
    <3>1. build.dependencies[target'] \subseteq Target
      BY <1>1, <1>2, BuildIsTyped
    <3>2. ASSUME NEW j \in 1..Len(targets) PROVE targets[j] \notin build.dependencies[target']
      <4>1. 1 \in 1..Len(targets)
        BY <1>2
      <4>2. targets[j] \notin build.dependencies[targets[1]]
        BY <1>1, <4>1 DEF TargetsInOrder
      <4>3. QED
        BY <1>1, <1>2, <4>2
    <3>3. QED
      BY <1>5, <3>1, <3>2 DEF Waiting
  <2>4. QED
    BY <1>1, <1>3, <1>5, <2>1, <2>2, <2>3 DEF TargetsInOrder
<1>9. RanSoFar'
  <2>1. \A n \in 1..Len(ran) : ran[n][1] \in Done
    BY <1>1, <1>4 DEF RanSoFar, Started
  <2>2. target' \notin Done
    BY <1>3, <1>5
  <2>3. \A m, n \in 1..Len(ran) : ran[m] = ran[n] => m = n
    BY DEF RanSoFar
  <2>4. \A n \in 1..Len(ran) : ran[n][1] \in Done' \cup Started' /\ ran[n][1] # target'
    BY <1>5, <2>1, <2>2
  <2>5. ran' = ran /\ pc' = "auxiliary"
    BY <1>1
  <2>6. QED
    BY <2>3, <2>4, <2>5 DEF RanSoFar
<1>10. TargetsAreDone'
  BY <1>1, <1>5 DEF TargetsAreDone, IsDone, IsWritten, HasRunYet, disk
<1>11. AuxiliaryInOrder'
  <2>1. Len(auxiliary') \in Nat /\ Len(auxiliary') - Len(auxiliary') = 0
    BY <1>6, LenProperties
  <2>2. \A j \in 1..Len(auxiliary') : 0 + j = j
    BY <2>1
  <2>3. PICK all : all = build.auxiliary[target']
    OBVIOUS
  <2>4. auxiliary' = all /\ all = build'.auxiliary[target']
    BY <1>1, <2>3
  <2>5. 0 \in 0..Len(all) /\ 1..0 = {} /\ Len(all) - Len(auxiliary') = 0
    BY <2>1, <2>4
  <2>6. \A j \in 1..Len(auxiliary') : auxiliary'[j] = all[0 + j]
    BY <2>2, <2>4
  <2>7. QED
    BY <1>1, <2>4, <2>5, <2>6 DEF AuxiliaryInOrder
<1>12. PassesInOrder'
  BY <1>4 DEF PassesInOrder
<1>13. RanInOrder'
  BY <1>1, HistoryKept
<1>14. FailureIsLast' /\ DryRun'
  BY <1>1 DEF FailureIsLast, DryRun, disk
<1>15. QED
  BY <1>7, <1>8, <1>9, <1>10, <1>11, <1>12, <1>13, <1>14

LEMMA FinishBuildIsSafe == IInv /\ FinishBuild => IInv'
<1> SUFFICES ASSUME IInv, FinishBuild PROVE IInv'
  OBVIOUS
<1> USE DEF IInv
<1>1. /\ pc = "next target" /\ pc' = "success" /\ targets = << >> /\ build' = build /\ ran' = ran
      /\ UNCHANGED <<targets, target, auxiliary, ordered, position, failed, disk>>
  BY DEF FinishBuild, progress
<1>2. ~InTarget /\ ~InTarget' /\ ~Running'
  BY <1>1 DEF InTarget, Running
<1>3. Waiting' = Waiting /\ Done' = Done /\ Started' = Started
  BY <1>1, <1>2, TargetsStay
<1>4. Typed'
  BY <1>1 DEF Typed, TypeOK, disk
<1>5. TargetsInOrder'
  <2>1. /\ \A i, j \in 1..Len(targets) : targets[i] = targets[j] => i = j
        /\ \A i \in 1..Len(targets) : \A j \in i..Len(targets) :
             targets[j] \notin build.dependencies[targets[i]]
    BY <1>1 DEF TargetsInOrder
  <2>2. UNCHANGED <<targets, build>> /\ targets = << >>
    BY <1>1
  <2>3. QED
    BY <1>2, <2>1, <2>2 DEF TargetsInOrder
<1>6. RanSoFar'
  <2>1. \A n \in 1..Len(ran) : ran[n][1] \in Done \cup Started
    BY <1>1 DEF RanSoFar
  <2>2. \A m, n \in 1..Len(ran) : ran[m] = ran[n] => m = n
    BY DEF RanSoFar
  <2>3. ran' = ran /\ Done' \cup Started' = Done \cup Started /\ pc' \notin {"load", "auxiliary", "sort"}
    BY <1>1, <1>3
  <2>4. QED
    BY <2>1, <2>2, <2>3 DEF RanSoFar
<1>7. TargetsAreDone'
  BY <1>1, <1>3 DEF TargetsAreDone, IsDone, IsWritten, HasRunYet, disk
<1>8. AuxiliaryInOrder' /\ PassesInOrder'
  BY <1>2 DEF AuxiliaryInOrder, PassesInOrder
<1>9. RanInOrder'
  BY <1>1, HistoryKept
<1>10. FailureIsLast' /\ DryRun'
  BY <1>1 DEF FailureIsLast, DryRun, disk
<1>11. QED
  BY <1>4, <1>5, <1>6, <1>7, <1>8, <1>9, <1>10

LEMMA WriteAuxiliaryFileIsSafe == IInv /\ WriteAuxiliaryFile => IInv'
<1> SUFFICES ASSUME IInv, WriteAuxiliaryFile PROVE IInv'
  OBVIOUS
<1> USE DEF IInv
<1>1. /\ pc = "auxiliary" /\ pc' = "auxiliary" /\ build' = build /\ ran' = ran
      /\ auxiliary \in Seq(AuxiliaryFile) /\ auxiliary # << >> /\ auxiliary' = Tail(auxiliary)
      /\ UNCHANGED <<targets, target, ordered, position, failed>>
  BY DEF WriteAuxiliaryFile, Typed
<1> DEFINE file == Head(auxiliary)
<1>2. /\ file \in AuxiliaryFile /\ file = auxiliary[1]
      /\ Tail(auxiliary) \in Seq(AuxiliaryFile)
      /\ Len(Tail(auxiliary)) = Len(auxiliary) - 1
      /\ \A i \in 1..Len(Tail(auxiliary)) : Tail(auxiliary)[i] = auxiliary[i + 1]
      /\ Len(auxiliary) \in Nat \ {0}
  BY <1>1, HeadTailProperties, EmptySeq
<1>3. InTarget /\ InTarget' /\ ~Running'
  BY <1>1 DEF InTarget, Running
<1>4. Waiting' = Waiting /\ Done' = Done /\ Started' = Started
  BY <1>1, <1>3, TargetsStay
<1>5. /\ files \subseteq files' /\ executables \subseteq executables'
      /\ directories' \subseteq Directory /\ files' \subseteq Path /\ executables' \subseteq files'
      /\ ~build.dryRun => file.path \in files' /\ (file.executable => file.path \in executables')
  BY <1>2 DEF WriteAuxiliaryFile, Typed, TypeOK, disk, AuxiliaryFile
<1>6. /\ \A t, i : IsDone(t, i) => IsDone(t, i)'
      /\ \A f : IsWritten(f) => IsWritten(f)'
  <2>1. Len(ran) \in Nat
    BY LenProperties DEF Typed
  <2>2. QED
    BY <1>1, <1>5, <2>1, DoneStays
<1>7. Typed'
  BY <1>1, <1>2, <1>5 DEF Typed, TypeOK
<1>8. TargetsInOrder'
  BY <1>1, <1>3, <1>4 DEF TargetsInOrder
<1>9. RanSoFar'
  BY <1>1, <1>4 DEF RanSoFar
<1>10. TargetsAreDone'
  BY <1>1, <1>4, <1>6 DEF TargetsAreDone
<1>11. AuxiliaryInOrder'
  <2>1. PICK all : all = build.auxiliary[target]
    OBVIOUS
  <2>2. PICK w : w = Len(all) - Len(auxiliary)
    OBVIOUS
  <2>3. all \in Seq(AuxiliaryFile) /\ Len(all) \in Nat
    BY <2>1, BuildIsTyped, LenProperties DEF Typed, TypeOK
  <2>4. /\ w \in 0..Len(all)
        /\ \A j \in 1..Len(auxiliary) : auxiliary[j] = all[w + j]
        /\ ~build.dryRun => \A k \in 1..w : IsWritten(all[k])
    BY <1>1, <1>3, <2>1, <2>2 DEF AuxiliaryInOrder
  <2>5. w + 1 \in 0..Len(all) /\ w + 1 = Len(all) - Len(auxiliary')
    BY <1>1, <1>2, <2>2, <2>3, <2>4
  <2>6. ASSUME NEW j \in 1..Len(auxiliary')
        PROVE  auxiliary'[j] = all[(w + 1) + j]
    <3>1. j + 1 \in 1..Len(auxiliary) /\ w + (j + 1) = (w + 1) + j
      BY <1>1, <1>2, <2>4
    <3>2. auxiliary[j + 1] = all[w + (j + 1)]
      BY <2>4, <3>1
    <3>3. QED
      BY <1>1, <1>2, <3>1, <3>2
  <2>7. ASSUME ~build.dryRun, NEW k \in 1..(w + 1)
        PROVE  IsWritten(all[k])'
    <3>1. CASE k \in 1..w
      BY <1>6, <2>1, <2>4, <2>7, <3>1
    <3>2. CASE k = w + 1
      <4>1. 1 \in 1..Len(auxiliary)
        BY <1>2
      <4>2. file = all[k]
        BY <1>2, <2>4, <3>2, <4>1
      <4>3. QED
        BY <1>5, <2>7, <4>2 DEF IsWritten
    <3>3. QED
      BY <2>4, <2>7, <3>1, <3>2
  <2>8. all = build'.auxiliary[target']
    BY <1>1, <2>1
  <2>9. QED
    BY <1>1, <2>5, <2>6, <2>7, <2>8 DEF AuxiliaryInOrder
<1>12. PassesInOrder'
  BY <1>3 DEF PassesInOrder
<1>13. RanInOrder'
  BY <1>1, HistoryKept
<1>14. FailureIsLast'
  BY <1>1 DEF FailureIsLast
<1>15. DryRun'
  BY <1>1 DEF WriteAuxiliaryFile, DryRun, disk
<1>16. QED
  BY <1>7, <1>8, <1>9, <1>10, <1>11, <1>12, <1>13, <1>14, <1>15

LEMMA FinishAuxiliaryFilesIsSafe == IInv /\ FinishAuxiliaryFiles => IInv'
<1> SUFFICES ASSUME IInv, FinishAuxiliaryFiles PROVE IInv'
  OBVIOUS
<1> USE DEF IInv
<1>1. /\ pc = "auxiliary" /\ pc' = "sort" /\ build' = build /\ ran' = ran /\ auxiliary = << >>
      /\ UNCHANGED <<targets, target, auxiliary, ordered, position, failed, disk>>
  BY DEF FinishAuxiliaryFiles, progress
<1>2. InTarget /\ InTarget' /\ ~Running'
  BY <1>1 DEF InTarget, Running
<1>3. Waiting' = Waiting /\ Done' = Done /\ Started' = Started
  BY <1>1, <1>2, TargetsStay
<1>4. Typed'
  BY <1>1 DEF Typed, TypeOK, disk
<1>5. TargetsInOrder'
  BY <1>1, <1>2, <1>3 DEF TargetsInOrder
<1>6. RanSoFar'
  BY <1>1, <1>3 DEF RanSoFar
<1>7. TargetsAreDone'
  BY <1>1, <1>3 DEF TargetsAreDone, IsDone, IsWritten, HasRunYet, disk
<1>8. AuxiliaryInOrder'
  <2>1. PICK all : all = build.auxiliary[target]
    OBVIOUS
  <2>2. all \in Seq(AuxiliaryFile) /\ Len(all) \in Nat
    BY <2>1, BuildIsTyped, LenProperties DEF Typed, TypeOK
  <2>3. Len(all) - Len(auxiliary) = Len(all)
    BY <1>1, <2>2, EmptySeq
  <2>4. ~build.dryRun => \A k \in 1..Len(all) : IsWritten(all[k])
    BY <1>1, <1>2, <2>1, <2>3 DEF AuxiliaryInOrder
  <2>5. ~build.dryRun => \A k \in 1..Len(all) : IsWritten(all[k])'
    BY <1>1, <2>1, <2>4 DEF IsWritten, disk
  <2>6. all = build'.auxiliary[target']
    BY <1>1, <2>1
  <2>7. QED
    BY <1>1, <2>2, <2>5, <2>6 DEF AuxiliaryInOrder
<1>9. PassesInOrder'
  BY <1>2 DEF PassesInOrder
<1>10. RanInOrder'
  BY <1>1, HistoryKept
<1>11. FailureIsLast' /\ DryRun'
  BY <1>1 DEF FailureIsLast, DryRun, disk
<1>12. QED
  BY <1>4, <1>5, <1>6, <1>7, <1>8, <1>9, <1>10, <1>11

\* A step within a target, after its auxiliary files, that writes nothing.
LEMMA StepIsSafe ==
  ASSUME IInv, pc \in {"sort", "structure", "invocations"},
         pc' \in {"sort", "structure", "invocations"}, pc' = "sort" => pc = "sort",
         UNCHANGED <<build, targets, target, auxiliary, failed, disk, ran>>,
         Typed', PassesInOrder'
  PROVE  IInv'
<1> USE DEF IInv
<1>1. InTarget /\ InTarget'
  BY DEF InTarget
<1>2. Waiting' = Waiting /\ Done' = Done /\ Started' = Started
  BY <1>1, TargetsStay
<1>3. TargetsInOrder'
  BY <1>1, <1>2 DEF TargetsInOrder
<1>4. RanSoFar'
  BY <1>2 DEF RanSoFar
<1>5. TargetsAreDone'
  BY <1>2 DEF TargetsAreDone, IsDone, IsWritten, HasRunYet, disk
<1>6. AuxiliaryInOrder'
  BY <1>1 DEF AuxiliaryInOrder, IsWritten, disk
<1>7. RanInOrder'
  BY HistoryKept
<1>8. FailureIsLast' /\ DryRun'
  BY DEF FailureIsLast, DryRun, disk
<1>9. QED
  BY <1>3, <1>4, <1>5, <1>6, <1>7, <1>8

LEMMA SortInvocationsIsSafe == IInv /\ SortInvocations => IInv'
<1> SUFFICES ASSUME IInv, SortInvocations PROVE IInv'
  OBVIOUS
<1>1. CASE HasCycle(SortGraph(Invocations))
  <2>1. pc' = "failure" /\ UNCHANGED <<build, progress, ran, failed, disk>>
    BY <1>1 DEF SortInvocations, progress
  <2>2. Typed'
    BY <2>1 DEF IInv, Typed, TypeOK, progress, disk
  <2>3. DryRun'
    BY <2>1 DEF IInv, DryRun, disk
  <2>4. QED
    BY <2>1, <2>2, <2>3, StopIsSafe
<1>2. CASE ~HasCycle(SortGraph(Invocations))
  <2>1. /\ pc = "sort" /\ pc' = "structure" /\ position' = 0
        /\ ordered' \in Sorts(Indices(Invocations), SortGraph(Invocations))
        /\ UNCHANGED <<build, targets, target, auxiliary, failed, disk, ran>>
    BY <1>2 DEF SortInvocations
  <2>2. ordered' \in Seq(Nat) /\ Len(ordered') \in Nat
    BY <2>1, OrderIsKnown DEF IInv
  <2>3. Typed'
    BY <2>1, <2>2 DEF IInv, Typed, TypeOK, disk
  <2>4. PassesInOrder'
    <3>1. \A k \in 1..Len(ordered') : ~Passed(k)'
      BY <2>1, <2>2 DEF Passed
    <3>2. \A n \in 1..Len(ran) : ran[n][1] # target
      BY <2>1 DEF IInv, RanSoFar
    <3>3. ordered' \in Sorts(Indices(Invocations), SortGraph(Invocations))'
      BY <2>1 DEF Invocations
    <3>4. ran' = ran /\ target' = target
      BY <2>1
    <3>5. QED
      BY <3>1, <3>2, <3>3, <3>4 DEF PassesInOrder
  <2>5. QED
    BY <2>1, <2>3, <2>4, StepIsSafe
<1>3. QED
  BY <1>1, <1>2

\* Passing over an invocation keeps what is known of those that were passed.
LEMMA PassesStay ==
  ASSUME IInv, Running, Running',
         UNCHANGED <<build, target, ordered, disk, ran>>,
         \A k \in 1..Len(ordered) : Passed(k) => Passed(k)',
         ~build.dryRun => \A k \in 1..Len(ordered) : Passed(k)' => Passed(k)
  PROVE  PassesInOrder'
<1> USE DEF IInv
<1>1. ordered' \in Sorts(Indices(Invocations), SortGraph(Invocations))'
  BY DEF PassesInOrder, Invocations
<1>2. ASSUME NEW n \in 1..Len(ran), ran[n][1] = target
      PROVE  \E k \in 1..Len(ordered) : Passed(k)' /\ ran[n][2] = ordered[k]
  BY <1>2 DEF PassesInOrder
<1>3. ASSUME ~build.dryRun, NEW k \in 1..Len(ordered), Passed(k)'
      PROVE  IsDone(target, ordered[k])'
  <2>1. IsDone(target, ordered[k])
    BY <1>3 DEF PassesInOrder
  <2>2. QED
    BY <2>1 DEF IsDone, HasRunYet, disk
<1>4. QED
  BY <1>1, <1>2, <1>3 DEF PassesInOrder

LEMMA SkipInvocationIsSafe == IInv /\ SkipInvocation => IInv'
<1> SUFFICES ASSUME IInv, SkipInvocation PROVE IInv'
  OBVIOUS
<1>1. /\ pc \in {"structure", "invocations"} /\ pc' = pc /\ position' = position + 1
      /\ IsTurn /\ (IsSkipped \/ build.dryRun)
      /\ UNCHANGED <<build, targets, target, auxiliary, ordered, failed, disk, ran>>
  BY DEF SkipInvocation, IsTurn
<1>2. position \in Nat /\ Len(ordered) \in Nat /\ position + 1 \in 1..Len(ordered)
  BY <1>1, TurnHasCurrent DEF IInv
<1>3. Typed'
  <2>1. position' \in 0..Len(ordered) /\ UNCHANGED <<pc, build, targets, target, auxiliary, ordered, failed, ran>>
    BY <1>1, <1>2
  <2>2. TypeOK'
    BY <1>1, <2>1 DEF IInv, Typed, TypeOK, disk
  <2>3. QED
    BY <2>1, <2>2 DEF IInv, Typed
<1>4. ASSUME NEW k \in 1..Len(ordered), Passed(k)
      PROVE  Passed(k)'
  BY <1>1, <1>2, <1>4 DEF Passed, Invocations
<1>5. ASSUME ~build.dryRun, NEW k \in 1..Len(ordered), Passed(k)'
      PROVE  Passed(k)
  <2>1. CASE k = position + 1
    <3>1. /\ ~Invocations[ordered[k]].phony
          /\ IF Invocations[ordered[k]].createsProductStructure
             THEN pc = "invocations" \/ k <= position + 1
             ELSE pc = "invocations" /\ k <= position + 1
      BY <1>1, <1>5 DEF Passed, Invocations
    <3>2. Invocations[ordered[k]].createsProductStructure # (pc = "structure")
      BY <1>1, <1>5, <2>1, <3>1 DEF IsSkipped, Current
    <3>3. CASE pc = "structure"
      BY <3>1, <3>2, <3>3 DEF Passed
    <3>4. CASE pc = "invocations"
      <4>1. Invocations[ordered[k]].createsProductStructure \in BOOLEAN
        <5>1. ordered[k] \in 1..Len(build.invocations[target]) /\ target \in Target
          BY <1>1, OrderIsKnown DEF IInv, PassesInOrder, Running, Typed, TypeOK, Indices, Invocations
        <5>2. Invocations[ordered[k]] \in Invocation
          BY <5>1, InvocationsAreTyped DEF IInv, Invocations
        <5>3. QED
          BY <5>2 DEF Invocation, InvocationOver
      <4>2. Invocations[ordered[k]].createsProductStructure
        BY <3>2, <3>4, <4>1
      <4>3. QED
        BY <3>1, <3>4, <4>2 DEF Passed
    <3>5. QED
      BY <1>1, <3>3, <3>4
  <2>2. CASE k # position + 1
    BY <1>1, <1>2, <1>5, <2>2 DEF Passed, Invocations
  <2>3. QED
    BY <2>1, <2>2
<1>6. PassesInOrder'
  BY <1>1, <1>4, <1>5, PassesStay DEF Running
<1>7. QED
  BY <1>1, <1>3, <1>6, StepIsSafe

LEMMA FinishPassIsSafe == IInv /\ FinishPass => IInv'
<1> SUFFICES ASSUME IInv, FinishPass PROVE IInv'
  OBVIOUS
<1>1. /\ pc \in {"structure", "invocations"} /\ position = Len(ordered) /\ position' = 0
      /\ pc' = IF pc = "structure" THEN "invocations" ELSE "next target"
      /\ UNCHANGED <<build, targets, target, auxiliary, ordered, failed, disk, ran>>
  BY DEF FinishPass
<1>2. Len(ordered) \in Nat
  BY LenProperties DEF IInv, Typed
<1>3. Typed'
  <2>0. position' = 0 /\ pc' \in {"invocations", "next target"}
    BY <1>1
  <2>1. position' \in 0..Len(ordered)
    <3>1. 0 \in 0..Len(ordered)
      BY <1>2
    <3>2. QED
      BY <2>0, <3>1
  <2>2. UNCHANGED <<build, targets, target, auxiliary, ordered, failed, directories, files, executables, ran>>
    BY <1>1 DEF disk
  <2>3. TypeOK'
    BY <2>0, <2>1, <2>2 DEF IInv, Typed, TypeOK
  <2>4. QED
    BY <2>2, <2>3 DEF IInv, Typed
<1>4. CASE pc = "structure"
  <2>1. ASSUME NEW k \in 1..Len(ordered)
        PROVE  Passed(k) <=> Passed(k)'
    BY <1>1, <1>2, <1>4 DEF Passed, Invocations
  <2>2. PassesInOrder'
    BY <1>1, <1>4, <2>1, PassesStay DEF Running
  <2>3. QED
    BY <1>1, <1>3, <1>4, <2>2, StepIsSafe
<1>5. CASE pc = "invocations"
  <2> USE DEF IInv
  <2>1. InTarget /\ ~InTarget' /\ ~Running' /\ Running /\ pc' = "next target"
    BY <1>1, <1>5 DEF InTarget, Running
  <2>2. /\ Waiting' = Waiting /\ target \in Target /\ target \notin Waiting
        /\ Done' = Done \cup {target} /\ Done' \cup Started' = Done \cup Started
    <3>1. target \in Target /\ target \notin Waiting
      BY <1>5, <2>1 DEF TargetsInOrder, Typed, TypeOK
    <3>2. Waiting' = Waiting /\ Started' = {} /\ Started = {target}
      BY <1>1, <2>1 DEF Waiting, Started
    <3>3. QED
      BY <3>1, <3>2 DEF Done
  <2>3. TargetsInOrder'
    BY <1>1, <1>5, <2>1 DEF TargetsInOrder
  <2>4. RanSoFar'
    <3>1. ran' = ran /\ Done' \cup Started' = Done \cup Started
      BY <1>1, <2>2
    <3>2. /\ \A n \in 1..Len(ran) : ran[n][1] \in Done \cup Started
          /\ \A m, n \in 1..Len(ran) : ran[m] = ran[n] => m = n
      BY <1>5 DEF RanSoFar
    <3>3. pc' \notin {"load", "auxiliary", "sort"}
      BY <2>1
    <3>4. \A n \in 1..Len(ran') : ran'[n][1] \in Done' \cup Started'
      BY <3>1, <3>2
    <3>5. \A m, n \in 1..Len(ran') : ran'[m] = ran'[n] => m = n
      BY <3>1, <3>2
    <3>6. QED
      BY <3>3, <3>4, <3>5 DEF RanSoFar
  <2>5. ASSUME ~build.dryRun
        PROVE  /\ \A i \in 1..Len(build.invocations[target]) : IsDone(target, i)
               /\ \A k \in 1..Len(build.auxiliary[target]) : IsWritten(build.auxiliary[target][k])
    <3>1. ASSUME NEW i \in 1..Len(build.invocations[target])
          PROVE  IsDone(target, i)
      <4>1. ordered \in Sorts(Indices(Invocations), SortGraph(Invocations))
        BY <2>1 DEF PassesInOrder
      <4>2. IsTopologicalOrder(ordered, Indices(Invocations), SortGraph(Invocations))
        BY <4>1, OrderIsKnown
      <4>3. PICK k \in 1..Len(ordered) : ordered[k] = i
        BY <4>2 DEF IsTopologicalOrder, Indices, Invocations
      <4>4. CASE build.invocations[target][i].phony
        BY <4>4 DEF IsDone
      <4>5. CASE ~build.invocations[target][i].phony
        <5>0. position = Len(ordered)
          BY <1>1
        <5>1. ~Invocations[ordered[k]].phony /\ k <= position
          BY <1>2, <4>3, <4>5, <5>0 DEF Invocations
        <5>2. Passed(k)
          BY <1>5, <5>1 DEF Passed
        <5>3. QED
          BY <2>1, <2>5, <4>3, <5>2 DEF PassesInOrder
      <4>6. QED
        BY <4>4, <4>5
    <3>2. \A k \in 1..Len(build.auxiliary[target]) : IsWritten(build.auxiliary[target][k])
      BY <1>5, <2>1, <2>5 DEF AuxiliaryInOrder
    <3>3. QED
      BY <3>1, <3>2
  <2>6. TargetsAreDone'
    <3>1. ASSUME ~build.dryRun, NEW t \in Done'
          PROVE  /\ \A i \in 1..Len(build.invocations[t]) : IsDone(t, i)
                 /\ \A k \in 1..Len(build.auxiliary[t]) : IsWritten(build.auxiliary[t][k])
      <4>1. CASE t \in Done
        BY <1>5, <3>1, <4>1 DEF TargetsAreDone
      <4>2. CASE t = target
        BY <2>5, <3>1, <4>2
      <4>3. QED
        BY <2>2, <4>1, <4>2
    <3>2. \A t, i : IsDone(t, i) = IsDone(t, i)'
      BY <1>1 DEF IsDone, HasRunYet, disk
    <3>3. \A file : IsWritten(file) = IsWritten(file)'
      BY <1>1 DEF IsWritten, disk
    <3>4. QED
      BY <1>1, <3>1, <3>2, <3>3 DEF TargetsAreDone
  <2>7. AuxiliaryInOrder' /\ PassesInOrder'
    BY <2>1 DEF AuxiliaryInOrder, PassesInOrder
  <2>8. RanInOrder'
    BY <1>1, HistoryKept
  <2>9. FailureIsLast' /\ DryRun'
    BY <1>1 DEF FailureIsLast, DryRun, disk
  <2>10. QED
    BY <1>3, <2>3, <2>4, <2>6, <2>7, <2>8, <2>9
<1>6. QED
  BY <1>1, <1>4, <1>5

\* The invocation whose turn it is has not run, and what it waits for has.
LEMMA CurrentIsReady ==
  ASSUME IInv, IsTurn, ~IsSkipped, ~build.dryRun
  PROVE  /\ target \in Target /\ Current \in Indices(Invocations)
         /\ Invocations[Current] \in Invocation /\ ~Invocations[Current].phony
         /\ Invocations[Current].createsProductStructure <=> pc = "structure"
         /\ Invocations[Current].createsProductStructure \in BOOLEAN
         /\ Running /\ InTarget
         /\ position + 1 \in 1..Len(ordered) /\ ordered[position + 1] = Current
         /\ ~Passed(position + 1)
         /\ \A n \in 1..Len(ran) : ran[n] # <<target, Current>>
<1>1. Running /\ InTarget /\ target \in Target
  BY DEF IsTurn, Running, InTarget, IInv, Typed, TypeOK
<1>2. /\ position \in Nat /\ Len(ordered) \in Nat
      /\ position + 1 \in 1..Len(ordered) /\ ordered[position + 1] = Current
  BY TurnHasCurrent DEF IInv, Current
<1>3. ordered \in Sorts(Indices(Invocations), SortGraph(Invocations))
  BY <1>1 DEF IInv, PassesInOrder
<1>4. Current \in Indices(Invocations)
  BY <1>2, <1>3, OrderIsKnown DEF IInv
<1>5. Invocations[Current] \in Invocation
  BY <1>1, <1>4, InvocationsAreTyped DEF IInv, Invocations, Indices
<1>6. /\ Invocations[Current].createsProductStructure \in BOOLEAN
      /\ Invocations[Current].phony \in BOOLEAN
  BY <1>5 DEF Invocation, InvocationOver
<1>7. /\ ~Invocations[Current].phony
      /\ Invocations[Current].createsProductStructure = (pc = "structure")
  BY <1>6 DEF IsSkipped
<1>8. Invocations[Current].createsProductStructure <=> pc = "structure"
  BY <1>6, <1>7
<1>9. ~Passed(position + 1)
  <2>1. ~(position + 1 <= position)
    BY <1>2
  <2>2. QED
    BY <1>2, <1>8, <2>1 DEF Passed
<1>10. ASSUME NEW n \in 1..Len(ran), ran[n] = <<target, Current>>
       PROVE  FALSE
  <2>1. ran[n][1] = target /\ ran[n][2] = Current
    BY <1>10
  <2>2. PICK k \in 1..Len(ordered) : Passed(k) /\ ordered[k] = Current
    BY <1>1, <2>1 DEF IInv, PassesInOrder
  <2>3. \A i, j \in 1..Len(ordered) : ordered[i] = ordered[j] => i = j
    BY <1>3, OrderIsKnown DEF IInv, IsTopologicalOrder
  <2>4. k = position + 1
    BY <1>2, <2>2, <2>3
  <2>5. QED
    BY <1>9, <2>2, <2>4
<1>11. QED
  BY <1>1, <1>2, <1>4, <1>5, <1>6, <1>7, <1>8, <1>9, <1>10

\* Where a file is first named is its maker's index.
LEMMA FirstToNameIsMaker ==
  ASSUME NEW all, Len(all) \in Nat, NEW path, Makers(all, path) # {}
  PROVE  FirstToName(all, path) = Maker(all, path) /\ path \in all[Maker(all, path)].outputs
<1>1. /\ Maker(all, path) \in Makers(all, path)
      /\ \A j \in Makers(all, path) : Maker(all, path) <= j
  BY MakerIsFirst
<1>2. Maker(all, path) \in 1..Len(all) /\ path \in all[Maker(all, path)].outputs
  BY <1>1 DEF Makers, Indices
<1> DEFINE First(m) == /\ path \in all[m].outputs
                       /\ \A k \in 1..(m - 1) : path \notin all[k].outputs
<1>3. ASSUME NEW k \in 1..(Maker(all, path) - 1), path \in all[k].outputs
      PROVE  FALSE
  <2>1. k \in Indices(all) /\ k < Maker(all, path)
    BY <1>2 DEF Indices
  <2>2. k \in Makers(all, path)
    BY <1>3, <2>1 DEF Makers
  <2>3. QED
    BY <1>1, <1>2, <2>1, <2>2
<1>4. First(Maker(all, path))
  BY <1>2, <1>3
<1>5. ASSUME NEW m \in 1..Len(all), First(m)
      PROVE  m = Maker(all, path)
  <2>1. m \in Makers(all, path)
    BY <1>5 DEF Makers, Indices
  <2>2. Maker(all, path) <= m
    BY <1>1, <2>1
  <2>3. ~(Maker(all, path) \in 1..(m - 1))
    BY <1>2, <1>5
  <2>4. QED
    BY <1>2, <2>2, <2>3
<1>6. FirstToName(all, path) = CHOOSE m \in 1..Len(all) : First(m)
  BY DEF FirstToName
<1> HIDE DEF First
<1>7. FirstToName(all, path) \in 1..Len(all) /\ First(FirstToName(all, path))
  BY <1>2, <1>4, <1>6
<1>8. QED
  BY <1>2, <1>5, <1>7

\* Of the invocations of the target, those that come before the current one in
\* the order and belong to a pass that has been through them have run.
LEMMA EarlierHasRun ==
  ASSUME IInv, IsTurn, ~IsSkipped, ~build.dryRun,
         NEW i \in SortGraph(Invocations)[Current],
         ~Invocations[Current].createsProductStructure, ~Invocations[i].phony
  PROVE  RanBefore(ran, Len(ran) + 1, target, i)
<1>1. /\ pc = "invocations" /\ Running
      /\ position + 1 \in 1..Len(ordered) /\ ordered[position + 1] = Current
      /\ Current \in Indices(Invocations)
  BY CurrentIsReady DEF IsTurn
<1>2. ordered \in Sorts(Indices(Invocations), SortGraph(Invocations))
  BY <1>1 DEF IInv, PassesInOrder
<1>3. IsTopologicalOrder(ordered, Indices(Invocations), SortGraph(Invocations))
  BY <1>2, OrderIsKnown DEF IInv
<1>4. i \in Children(SortGraph(Invocations), Current)
  BY <1>1 DEF Children, SortGraph
<1>5. PICK k \in 1..((position + 1) - 1) : ordered[k] = i
  BY <1>1, <1>3, <1>4 DEF IsTopologicalOrder
<1>6. position \in Nat /\ Len(ordered) \in Nat
  BY TurnHasCurrent DEF IInv
<1>7. k \in 1..Len(ordered) /\ k <= position
  BY <1>1, <1>5, <1>6
<1>8. Passed(k)
  BY <1>1, <1>5, <1>7 DEF Passed
<1>9. IsDone(target, i)
  BY <1>1, <1>5, <1>7, <1>8 DEF IInv, PassesInOrder
<1>10. QED
  BY <1>9 DEF IsDone, HasRunYet, Invocations

\* Running the current invocation keeps the order of all that has run.
LEMMA RunIsInOrder ==
  ASSUME IInv, IsTurn, ~IsSkipped, ~build.dryRun,
         ran' = Append(ran, <<target, Current>>), build' = build
  PROVE  /\ Len(ran) \in Nat /\ Len(ran') = Len(ran) + 1
         /\ \A n \in 1..Len(ran) : ran'[n] = ran[n]
         /\ ran'[Len(ran) + 1] = <<target, Current>>
         /\ ran' \in Seq(Target \X Nat)
         /\ \A n \in 1..Len(ran') : /\ ran'[n][1] \in Target
                                    /\ ran'[n][2] \in 1..Len(build.invocations[ran'[n][1]])
         /\ \A m, n \in 1..Len(ran') : ran'[m] = ran'[n] => m = n
         /\ RanInOrder'
<1> USE DEF IInv
<1>0. PICK last : last = Len(ran) + 1
  OBVIOUS
<1>1. /\ target \in Target /\ Current \in Indices(Invocations) /\ Current \in Nat
      /\ Invocations = build.invocations[target]
  BY CurrentIsReady, TurnHasCurrent DEF Invocations
<1>2. ran \in Seq(Target \X Nat) /\ <<target, Current>> \in Target \X Nat /\ Len(ran) \in Nat
  BY <1>1, LenProperties DEF Typed
<1>3. /\ ran' \in Seq(Target \X Nat) /\ Len(ran') = last /\ ran'[last] = <<target, Current>>
      /\ \A n \in 1..Len(ran) : ran'[n] = ran[n]
  BY <1>0, <1>2, AppendProperties
<1>4. ASSUME NEW n \in 1..Len(ran')
      PROVE  n \in 1..Len(ran) \/ n = last
  BY <1>0, <1>2, <1>3
<1>5. ASSUME NEW n \in 1..Len(ran')
      PROVE  /\ ran'[n][1] \in Target
             /\ ran'[n][2] \in 1..Len(build.invocations[ran'[n][1]])
  <2>1. CASE n \in 1..Len(ran)
    BY <1>3, <2>1 DEF Typed, TypeOK
  <2>2. CASE n = last
    BY <1>1, <1>3, <2>2 DEF Indices
  <2>3. QED
    BY <1>4, <2>1, <2>2
<1>6. ASSUME NEW m \in 1..Len(ran'), NEW n \in 1..Len(ran'), ran'[m] = ran'[n]
      PROVE  m = n
  <2>1. \A k \in 1..Len(ran) : ran[k] # <<target, Current>>
    BY CurrentIsReady
  <2>2. \A j, k \in 1..Len(ran) : ran[j] = ran[k] => j = k
    BY DEF RanSoFar
  <2>3. QED
    BY <1>0, <1>3, <1>4, <1>6, <2>1, <2>2
<1>7. \A n \in 1..last : \A t, i : RanBefore(ran', n, t, i) <=> RanBefore(ran, n, t, i)
  <2>1. ASSUME NEW n \in 1..last, NEW t, NEW i
        PROVE  RanBefore(ran', n, t, i) <=> RanBefore(ran, n, t, i)
    <3>1. \A m \in 1..(n - 1) : ran'[m] = ran[m]
      BY <1>0, <1>2, <1>3
    <3>2. QED
      BY <3>1 DEF RanBefore
  <2>2. QED
    BY <2>1
<1>8. /\ \A n \in 1..Len(ran) : InvocationOf(ran[n])' = InvocationOf(ran[n])
      /\ InvocationOf(ran[last])' = Invocations[Current]
  BY <1>1, <1>3 DEF InvocationOf
<1>9. NeededFilesAreMade'
  <2>1. ASSUME NEW n \in 1..Len(ran), NEW path, HasRun(n, path)
        PROVE  HasRun(n, path)'
    <3>1. \A m \in 1..(n - 1) : m \in 1..Len(ran)
      BY <1>2
    <3>2. QED
      BY <1>8, <2>1, <3>1 DEF HasRun
  <2>2. ASSUME NEW n \in 1..Len(ran), ~InvocationOf(ran[n]).createsProductStructure,
               NEW path \in NeededAndMade(build.invocations[ran[n][1]], InvocationOf(ran[n])),
               ~build.invocations[ran[n][1]][FirstToName(build.invocations[ran[n][1]], path)].phony
        PROVE  HasRun(n, path)'
    <3>1. HasRun(n, path)
      BY <2>2 DEF RanInOrder, NeededFilesAreMade
    <3>2. QED
      BY <2>1, <3>1
  <2>3. ASSUME ~Invocations[Current].createsProductStructure,
               NEW path \in NeededAndMade(Invocations, Invocations[Current]),
               ~Invocations[FirstToName(Invocations, path)].phony
        PROVE  HasRun(last, path)'
    <3>1. PICK maker : maker = FirstToName(Invocations, path)
      OBVIOUS
    <3>2. Makers(Invocations, path) # {}
      BY <2>3 DEF NeededAndMade, Makers, Indices
    <3>3. Len(Invocations) \in Nat
      BY <1>1, InvocationsAreTyped
    <3>4. maker = Maker(Invocations, path) /\ path \in Invocations[maker].outputs
      BY <3>1, <3>2, <3>3, FirstToNameIsMaker
    <3>5. maker \in SortGraph(Invocations)[Current]
      <4>1. path \in Needs(Invocations[Current])
        BY <2>3 DEF NeededAndMade, Needs
      <4>2. maker \in Producers(Invocations, Current)
        BY <3>2, <3>4, <4>1 DEF Producers
      <4>3. QED
        BY <1>1, <4>2 DEF SortGraph
    <3>6. RanBefore(ran, Len(ran) + 1, target, maker)
      BY <2>3, <3>1, <3>5, EarlierHasRun
    <3>7. PICK m \in 1..(last - 1) : ran[m] = <<target, maker>>
      BY <1>0, <3>6 DEF RanBefore
    <3>8. m \in 1..Len(ran)
      BY <1>0, <1>2, <3>7
    <3>9. path \in InvocationOf(ran[m]).outputs
      BY <1>1, <3>4, <3>7 DEF InvocationOf
    <3>10. path \in InvocationOf(ran[m])'.outputs
      BY <1>8, <3>8, <3>9
    <3>11. QED
      BY <3>7, <3>10 DEF HasRun
  <2>4. QED
    <3>1. SUFFICES ASSUME NEW n \in 1..Len(ran'),
                          ~InvocationOf(ran[n])'.createsProductStructure,
                          NEW path \in NeededAndMade(build.invocations[ran'[n][1]], InvocationOf(ran[n])'),
                          ~build.invocations[ran'[n][1]][FirstToName(build.invocations[ran'[n][1]], path)].phony
                   PROVE  HasRun(n, path)'
      BY DEF NeededFilesAreMade
    <3>2. CASE n \in 1..Len(ran)
      BY <1>3, <1>8, <2>2, <3>1, <3>2
    <3>3. CASE n = last
      BY <1>1, <1>3, <1>8, <2>3, <3>1, <3>3
    <3>4. QED
      BY <1>4, <3>2, <3>3
<1>10. PhasesRunInOrder'
  <2>1. ASSUME NEW m \in 1..Len(ran), ran[m][1] = target
        PROVE  InPhaseOrder(InvocationOf(ran[m]), Invocations[Current])
    <3>0. SUFFICES IF InvocationOf(ran[m]).createsProductStructure = Invocations[Current].createsProductStructure
                   THEN InvocationOf(ran[m]).priority <= Invocations[Current].priority
                   ELSE InvocationOf(ran[m]).createsProductStructure
      BY DEF InPhaseOrder
    <3>1. /\ Running /\ position + 1 \in 1..Len(ordered) /\ ordered[position + 1] = Current
          /\ Invocations[Current].createsProductStructure <=> pc = "structure"
          /\ Invocations[Current].createsProductStructure \in BOOLEAN
      BY CurrentIsReady
    <3>2. PICK k \in 1..Len(ordered) : Passed(k) /\ ran[m][2] = ordered[k]
      BY <2>1, <3>1 DEF PassesInOrder
    <3>3. ordered \in Sorts(Indices(Invocations), SortGraph(Invocations))
      BY <3>1 DEF PassesInOrder
    <3>4. InvocationOf(ran[m]) = Invocations[ordered[k]]
      BY <1>1, <2>1, <3>2 DEF InvocationOf
    <3>5. \A i \in Indices(Invocations) : Invocations[i] \in Invocation
      BY <1>1, InvocationsAreTyped DEF Indices
    <3>6. Invocations[ordered[k]].createsProductStructure \in BOOLEAN
      BY <3>2, <3>3, <3>5, OrderIsKnown DEF Invocation, InvocationOver
    <3>7. CASE k <= position
      <4>1. position \in Nat /\ Len(ordered) \in Nat
        BY TurnHasCurrent
      <4>2. k < position + 1
        BY <3>2, <3>7, <4>1
      <4>3. Len(Invocations) \in Nat /\ \A i \in Indices(Invocations) : Invocations[i].priority \in Nat
        BY <1>1, <3>5, InvocationsAreTyped DEF Invocation, InvocationOver
      <4>4. Invocations[ordered[k]].priority <= Invocations[ordered[position + 1]].priority
        BY <3>1, <3>2, <3>3, <4>2, <4>3, SortKeepsPhases
      <4>5. pc = "structure" => Invocations[ordered[k]].createsProductStructure
        BY <3>2 DEF Passed
      <4>6. QED
        BY <3>1, <3>4, <3>6, <4>4, <4>5
    <3>8. CASE ~(k <= position)
      <4>1. Invocations[ordered[k]].createsProductStructure /\ pc = "invocations"
        BY <3>2, <3>8 DEF Passed
      <4>2. QED
        BY <3>1, <3>4, <4>1
    <3>9. QED
      BY <3>7, <3>8
  <2>2. SUFFICES ASSUME NEW m \in 1..Len(ran'), NEW n \in 1..Len(ran'), m < n, ran'[m][1] = ran'[n][1]
                 PROVE  InPhaseOrder(InvocationOf(ran[m])', InvocationOf(ran[n])')
    BY DEF PhasesRunInOrder
  <2>3. m \in 1..Len(ran)
    BY <1>0, <1>2, <1>3, <2>2
  <2>4. CASE n \in 1..Len(ran)
    <3>1. ran[m][1] = ran[n][1]
      BY <1>3, <2>2, <2>3, <2>4
    <3>2. QED
      BY <1>8, <2>2, <2>3, <2>4, <3>1 DEF RanInOrder, PhasesRunInOrder
  <2>5. CASE n = last
    <3>1. ran[m][1] = target
      BY <1>3, <2>2, <2>3, <2>5
    <3>2. QED
      BY <1>8, <2>1, <2>3, <2>5, <3>1
  <2>6. QED
    BY <1>4, <2>4, <2>5
<1>11. DependenciesHaveRun'
  <2>1. ASSUME NEW d \in build.dependencies[target], NEW i \in 1..Len(build.invocations[d]),
               ~build.invocations[d][i].phony
        PROVE  RanBefore(ran, last, d, i)
    <3>1. InTarget /\ pc \notin {"load", "failure"}
      BY CurrentIsReady DEF IsTurn
    <3>2. d \in Done
      BY <3>1 DEF TargetsInOrder
    <3>3. IsDone(d, i)
      BY <3>1, <3>2 DEF TargetsAreDone
    <3>4. QED
      BY <1>0, <2>1, <3>3 DEF IsDone, HasRunYet
  <2>2. SUFFICES ASSUME NEW n \in 1..Len(ran'), NEW d \in build.dependencies[ran'[n][1]],
                        NEW i \in 1..Len(build.invocations[d]), ~build.invocations[d][i].phony
                 PROVE  RanBefore(ran', n, d, i)
    BY DEF DependenciesHaveRun
  <2>3. CASE n \in 1..Len(ran)
    <3>1. RanBefore(ran, n, d, i)
      BY <1>3, <2>2, <2>3 DEF RanInOrder, DependenciesHaveRun
    <3>2. n \in 1..last
      BY <1>0, <1>2, <2>3
    <3>3. RanBefore(ran', n, d, i) <=> RanBefore(ran, n, d, i)
      BY <1>7, <3>2
    <3>4. QED
      BY <3>1, <3>3
  <2>4. CASE n = last
    <3>1. RanBefore(ran, last, d, i)
      BY <1>3, <2>1, <2>2, <2>4
    <3>2. n \in 1..last
      BY <1>0, <1>2, <2>4
    <3>3. RanBefore(ran', n, d, i) <=> RanBefore(ran, n, d, i)
      BY <1>7, <3>2
    <3>4. QED
      BY <3>1, <3>3, <2>4
  <2>5. QED
    BY <1>4, <2>3, <2>4
<1>12. RanInOrder'
  BY <1>9, <1>10, <1>11 DEF RanInOrder
<1>13. QED
  BY <1>0, <1>2, <1>3, <1>5, <1>6, <1>12

LEMMA RunInvocationIsSafe == IInv /\ RunInvocation => IInv'
<1> SUFFICES ASSUME IInv, RunInvocation PROVE IInv'
  OBVIOUS
<1> USE DEF IInv
<1>1. /\ IsTurn /\ ~IsSkipped /\ ~build.dryRun /\ pc \in {"structure", "invocations"}
      /\ ran' = Append(ran, <<target, Current>>)
      /\ files' = files \cup Invocations[Current].outputs
      /\ position' = position + 1
      /\ UNCHANGED <<build, pc, targets, target, auxiliary, ordered, failed, directories, executables>>
  BY DEF RunInvocation, IsTurn
<1>2. /\ target \in Target /\ Current \in Indices(Invocations)
      /\ Invocations[Current] \in Invocation /\ ~Invocations[Current].phony
      /\ Invocations[Current].createsProductStructure <=> pc = "structure"
      /\ Running /\ InTarget
      /\ position + 1 \in 1..Len(ordered) /\ ordered[position + 1] = Current
  BY <1>1, CurrentIsReady
<1>3. /\ Len(ran) \in Nat /\ Len(ran') = Len(ran) + 1
      /\ \A n \in 1..Len(ran) : ran'[n] = ran[n]
      /\ ran'[Len(ran) + 1] = <<target, Current>>
      /\ ran' \in Seq(Target \X Nat)
      /\ \A n \in 1..Len(ran') : /\ ran'[n][1] \in Target
                                 /\ ran'[n][2] \in 1..Len(build.invocations[ran'[n][1]])
      /\ \A m, n \in 1..Len(ran') : ran'[m] = ran'[n] => m = n
      /\ RanInOrder'
  BY <1>1, RunIsInOrder
<1>4. position \in Nat /\ Len(ordered) \in Nat
  BY <1>1, TurnHasCurrent
<1>5. Running' /\ InTarget'
  BY <1>1, <1>2 DEF Running, InTarget
<1>6. Waiting' = Waiting /\ Done' = Done /\ Started' = Started
  BY <1>1, <1>2, <1>5, TargetsStay
<1>7. ASSUME NEW n \in 1..Len(ran')
      PROVE  n \in 1..Len(ran) \/ n = Len(ran) + 1
  BY <1>3
<1>8. files \subseteq files' /\ executables \subseteq executables'
      /\ Invocations[Current].outputs \subseteq files' /\ Invocations[Current].outputs \subseteq Path
  BY <1>1, <1>2 DEF Invocation, InvocationOver
<1>9. /\ \A t, i : IsDone(t, i) => IsDone(t, i)'
      /\ \A file : IsWritten(file) => IsWritten(file)'
  <2>1. Len(ran') \in Nat /\ Len(ran) <= Len(ran')
    BY <1>3
  <2>2. QED
    BY <1>1, <1>3, <1>8, <2>1, DoneStays
<1>10. Typed'
  <2>1. position' \in 0..Len(ordered)
    BY <1>1, <1>2, <1>4
  <2>2. files' \subseteq Path /\ executables' \subseteq files'
    BY <1>1, <1>8 DEF Typed, TypeOK
  <2>3. \A n \in 1..Len(ran') : ran'[n][1] \in Target /\ ran'[n][2] \in 1..Len(build'.invocations[ran'[n][1]])
    BY <1>1, <1>3
  <2>4. TypeOK'
    BY <1>1, <2>1, <2>2, <2>3 DEF Typed, TypeOK
  <2>5. QED
    BY <1>1, <1>3, <2>4 DEF Typed
<1>11. TargetsInOrder'
  BY <1>1, <1>2, <1>5, <1>6 DEF TargetsInOrder
<1>12. RanSoFar'
  <2>1. \A n \in 1..Len(ran') : ran'[n][1] \in Done' \cup Started'
    <3>1. ASSUME NEW n \in 1..Len(ran')
          PROVE  ran'[n][1] \in Done \cup Started
      <4>1. CASE n \in 1..Len(ran)
        BY <1>1, <1>3, <4>1 DEF RanSoFar
      <4>2. CASE n = Len(ran) + 1
        BY <1>2, <1>3, <4>2 DEF Started
      <4>3. QED
        BY <1>7, <4>1, <4>2
    <3>2. QED
      BY <1>6, <3>1
  <2>2. pc' \in {"structure", "invocations"}
    BY <1>1
  <2>3. QED
    BY <1>3, <2>1, <2>2 DEF RanSoFar
<1>13. TargetsAreDone'
  BY <1>1, <1>6, <1>9 DEF TargetsAreDone
<1>14. AuxiliaryInOrder'
  <2>1. PICK all : all = build.auxiliary[target]
    OBVIOUS
  <2>2. pc # "auxiliary" /\ pc' # "auxiliary" /\ all = build'.auxiliary[target']
    BY <1>1, <2>1
  <2>3. Len(all) \in 0..Len(all) /\ \A k \in 1..Len(all) : IsWritten(all[k])
    BY <1>1, <1>2, <2>1, <2>2 DEF AuxiliaryInOrder
  <2>4. \A k \in 1..Len(all) : IsWritten(all[k])'
    <3>1. ASSUME NEW k \in 1..Len(all), NEW file, file = all[k]
          PROVE  IsWritten(file)'
      BY <1>9, <2>3, <3>1
    <3>2. QED
      BY <3>1
  <2>5. QED
    BY <2>2, <2>3, <2>4 DEF AuxiliaryInOrder
<1>15. PassesInOrder'
  <2>1. ordered' \in Sorts(Indices(Invocations), SortGraph(Invocations))'
    BY <1>1, <1>2 DEF PassesInOrder, Invocations
  <2>2. ASSUME NEW k \in 1..Len(ordered)
        PROVE  /\ Passed(k) => Passed(k)'
               /\ Passed(k)' => Passed(k) \/ k = position + 1
    BY <1>1, <1>4 DEF Passed, Invocations
  <2>3. ASSUME NEW k \in 1..Len(ordered), k = position + 1
        PROVE  Passed(k)'
    <3>1. k \in 1..Len(ordered) /\ k = position + 1
      BY <2>3
    <3>2. ordered'[k] = Current /\ k <= position' /\ Invocations' = Invocations
      BY <1>1, <1>2, <1>4, <3>1 DEF Invocations
    <3>3. QED
      BY <1>1, <1>2, <3>1, <3>2 DEF Passed
  <2>4. ASSUME NEW n \in 1..Len(ran'), ran'[n][1] = target'
        PROVE  \E k \in 1..Len(ordered') : Passed(k)' /\ ran'[n][2] = ordered'[k]
    <3>1. CASE n \in 1..Len(ran)
      <4>1. ran'[n] = ran[n] /\ ran[n][1] = target
        BY <1>1, <1>3, <2>4, <3>1
      <4>2. PICK k \in 1..Len(ordered) : Passed(k) /\ ran[n][2] = ordered[k]
        BY <1>2, <3>1, <4>1 DEF PassesInOrder
      <4>3. QED
        BY <1>1, <2>2, <4>1, <4>2
    <3>2. CASE n = Len(ran) + 1
      <4>1. ran'[n][2] = Current
        BY <1>3, <3>2
      <4>2. PICK k \in 1..Len(ordered) : k = position + 1
        BY <1>2
      <4>3. Passed(k)' /\ ordered[k] = Current
        BY <1>2, <2>3, <4>2
      <4>4. QED
        BY <1>1, <4>1, <4>3
    <3>3. QED
      BY <1>7, <3>1, <3>2
  <2>5. ASSUME NEW k \in 1..Len(ordered), Passed(k)'
        PROVE  IsDone(target, ordered[k])'
    <3>1. CASE Passed(k)
      <4>1. IsDone(target, ordered[k])
        BY <1>1, <1>2, <3>1 DEF PassesInOrder
      <4>2. QED
        BY <1>1, <1>9, <4>1
    <3>2. CASE k = position + 1
      <4>1. ordered'[k] = Current /\ target' = target /\ build' = build
        BY <1>1, <1>2, <3>2
      <4>2. RanBefore(ran', Len(ran') + 1, target, Current)
        <5>1. Len(ran) + 1 \in 1..((Len(ran') + 1) - 1)
          BY <1>3
        <5>2. QED
          BY <1>3, <5>1 DEF RanBefore
      <4>3. build.invocations[target][Current].outputs \subseteq files'
        BY <1>8 DEF Invocations
      <4>4. QED
        BY <4>1, <4>2, <4>3 DEF IsDone, HasRunYet
    <3>3. QED
      BY <2>2, <2>5, <3>1, <3>2
  <2>6. QED
    BY <1>1, <2>1, <2>4, <2>5 DEF PassesInOrder
<1>16. FailureIsLast' /\ DryRun'
  BY <1>1 DEF FailureIsLast, DryRun
<1>17. QED
  BY <1>3, <1>10, <1>11, <1>12, <1>13, <1>14, <1>15, <1>16

LEMMA FailInvocationIsSafe == IInv /\ FailInvocation => IInv'
<1> SUFFICES ASSUME IInv, FailInvocation PROVE IInv'
  OBVIOUS
<1> USE DEF IInv
<1>1. /\ IsTurn /\ ~IsSkipped /\ ~build.dryRun
      /\ ran' = Append(ran, <<target, Current>>)
      /\ files' \in {files \cup made : made \in SUBSET Invocations[Current].outputs}
      /\ failed' = {<<target, Current>>} /\ pc' = "failure"
      /\ UNCHANGED <<build, targets, target, auxiliary, ordered, position, directories, executables>>
  BY DEF FailInvocation, progress
<1>2. /\ Len(ran) \in Nat /\ Len(ran') = Len(ran) + 1
      /\ ran' \in Seq(Target \X Nat)
      /\ \A n \in 1..Len(ran') : /\ ran'[n][1] \in Target
                                 /\ ran'[n][2] \in 1..Len(build.invocations[ran'[n][1]])
      /\ \A m, n \in 1..Len(ran') : ran'[m] = ran'[n] => m = n
      /\ RanInOrder'
  BY <1>1, RunIsInOrder
<1>3. target \in Target /\ Current \in Nat /\ Invocations[Current].outputs \subseteq Path
  BY <1>1, CurrentIsReady, TurnHasCurrent DEF Invocation, InvocationOver
<1>4. Typed'
  <2>1. files' \subseteq Path /\ executables' \subseteq files' /\ failed' \subseteq Target \X Nat
    <3>1. files \subseteq Path /\ executables \subseteq files
      BY DEF Typed, TypeOK
    <3>2. PICK made \in SUBSET Invocations[Current].outputs : files' = files \cup made
      BY <1>1
    <3>3. failed' \subseteq Target \X Nat
      BY <1>1, <1>3
    <3>4. QED
      BY <1>1, <1>3, <3>1, <3>2, <3>3
  <2>2. \A n \in 1..Len(ran') : ran'[n][1] \in Target /\ ran'[n][2] \in 1..Len(build'.invocations[ran'[n][1]])
    BY <1>1, <1>2
  <2>3. TypeOK'
    BY <1>1, <2>1, <2>2 DEF Typed, TypeOK
  <2>4. QED
    BY <1>1, <1>2, <2>3 DEF Typed
<1>5. ~InTarget' /\ ~Running'
  BY <1>1 DEF InTarget, Running
<1>6. TargetsInOrder' /\ TargetsAreDone' /\ FailureIsLast' /\ DryRun'
  BY <1>1 DEF TargetsInOrder, TargetsAreDone, FailureIsLast, DryRun
<1>7. AuxiliaryInOrder' /\ PassesInOrder'
  BY <1>5 DEF AuxiliaryInOrder, PassesInOrder
<1>8. RanSoFar'
  BY <1>1, <1>2 DEF RanSoFar
<1>9. QED
  BY <1>2, <1>4, <1>6, <1>7, <1>8

LEMMA UnchangedIsSafe == IInv /\ UNCHANGED vars => IInv'
<1> SUFFICES ASSUME IInv, UNCHANGED vars PROVE IInv'
  OBVIOUS
<1> USE DEF IInv
<1>1. /\ UNCHANGED <<build, pc, targets, target, auxiliary, ordered, position, failed>>
      /\ UNCHANGED <<directories, files, executables, ran>>
  BY DEF vars, progress, disk
<1>2. (InTarget' <=> InTarget) /\ (Running' <=> Running)
  BY <1>1 DEF InTarget, Running
<1>3. Waiting' = Waiting /\ Done' = Done /\ Started' = Started
  BY <1>1, <1>2, TargetsStay
<1>4. Typed'
  BY <1>1 DEF Typed, TypeOK
<1>5. TargetsInOrder'
  BY <1>1, <1>2, <1>3 DEF TargetsInOrder
<1>6. RanSoFar'
  BY <1>1, <1>3 DEF RanSoFar
<1>7. TargetsAreDone'
  BY <1>1, <1>3 DEF TargetsAreDone, IsDone, IsWritten, HasRunYet
<1>8. AuxiliaryInOrder'
  BY <1>1, <1>2 DEF AuxiliaryInOrder, IsWritten
<1>9. PassesInOrder'
  <2>1. \A k : Passed(k)' <=> Passed(k)
    BY <1>1 DEF Passed, Invocations
  <2>2. CASE Running
    BY <1>1, <1>2, <2>1, <2>2, PassesStay DEF disk
  <2>3. CASE ~Running
    BY <1>2, <2>3 DEF PassesInOrder
  <2>4. QED
    BY <2>2, <2>3
<1>10. RanInOrder'
  BY <1>1, HistoryKept
<1>11. FailureIsLast' /\ DryRun'
  BY <1>1 DEF FailureIsLast, DryRun
<1>12. QED
  BY <1>4, <1>5, <1>6, <1>7, <1>8, <1>9, <1>10, <1>11

LEMMA Invariance == Spec => []IInv
<1>1. Init => IInv
  BY InitIsSafe
<1>2. IInv /\ [Next]_vars => IInv'
  <2> SUFFICES ASSUME IInv, [Next]_vars PROVE IInv'
    OBVIOUS
  <2>1. CASE Load
    BY <2>1, LoadIsSafe
  <2>2. CASE FailToLoad
    BY <2>2, FailToLoadIsSafe
  <2>3. CASE BeginTarget
    BY <2>3, BeginTargetIsSafe
  <2>4. CASE FailToBeginTarget
    BY <2>4, FailToBeginTargetIsSafe
  <2>5. CASE FinishBuild
    BY <2>5, FinishBuildIsSafe
  <2>6. CASE WriteAuxiliaryFile
    BY <2>6, WriteAuxiliaryFileIsSafe
  <2>7. CASE FailToWriteAuxiliaryFile
    BY <2>7, FailToWriteAuxiliaryFileIsSafe
  <2>8. CASE FinishAuxiliaryFiles
    BY <2>8, FinishAuxiliaryFilesIsSafe
  <2>9. CASE SortInvocations
    BY <2>9, SortInvocationsIsSafe
  <2>10. CASE SkipInvocation
    BY <2>10, SkipInvocationIsSafe
  <2>11. CASE RunInvocation
    BY <2>11, RunInvocationIsSafe
  <2>12. CASE RefuseInvocation
    BY <2>12, RefuseInvocationIsSafe
  <2>13. CASE FailInvocation
    BY <2>13, FailInvocationIsSafe
  <2>14. CASE FinishPass
    BY <2>14, FinishPassIsSafe
  <2>15. CASE UNCHANGED vars
    BY <2>15, UnchangedIsSafe
  <2>16. QED
    BY <2>1, <2>2, <2>3, <2>4, <2>5, <2>6, <2>7, <2>8, <2>9, <2>10, <2>11, <2>12, <2>13, <2>14, <2>15 DEF Next
<1>3. QED
  BY <1>1, <1>2, PTL DEF Spec

\* No tool ran twice, so one that has run has run once.
LEMMA DependenciesHaveRunOnce ==
  ASSUME IInv
  PROVE  DependenciesAreBuilt
<1>1. SUFFICES ASSUME NEW n \in 1..Len(ran), NEW d \in build.dependencies[ran[n][1]],
                      NEW i \in 1..Len(build.invocations[d]), ~build.invocations[d][i].phony
               PROVE  Cardinality({m \in 1..(n - 1) : ran[m] = <<d, i>>}) = 1
  BY DEF DependenciesAreBuilt
<1>2. RanBefore(ran, n, d, i)
  BY <1>1 DEF IInv, RanInOrder, DependenciesHaveRun
<1>3. PICK m \in 1..(n - 1) : ran[m] = <<d, i>>
  BY <1>2 DEF RanBefore
<1>4. Len(ran) \in Nat
  BY LenProperties DEF IInv, Typed
<1>5. ASSUME NEW k \in 1..(n - 1), ran[k] = <<d, i>>
      PROVE  k = m
  <2>1. k \in 1..Len(ran) /\ m \in 1..Len(ran)
    BY <1>3, <1>4
  <2>2. ran[k] = ran[m]
    BY <1>3, <1>5
  <2>3. QED
    BY <2>1, <2>2 DEF IInv, RanSoFar
<1>6. {k \in 1..(n - 1) : ran[k] = <<d, i>>} = {m}
  BY <1>3, <1>5
<1>7. QED
  BY <1>6, FS_Singleton

\* No tool is overtaken: not by the makers of its files, by an earlier phase or
\* by a target its own depends on, each of which has run once.
THEOREM ToolsRun == Spec => []ToolsRunInOrder
<1>1. IInv => ToolsRunInOrder
  BY DependenciesHaveRunOnce DEF IInv, Typed, RanInOrder, ToolsRunInOrder
<1>2. QED
  BY <1>1, Invariance, PTL

\* A build that reports success has made everything, and a dry run nothing.
THEOREM OutcomesAreTrue == Spec => []OutcomeIsTrue
<1>1. IInv => OutcomeIsTrue
  <2> SUFFICES ASSUME IInv PROVE OutcomeIsTrue
    OBVIOUS
  <2> USE DEF IInv
  <2>1. DryRunTouchesNothing
    BY DEF DryRun, DryRunTouchesNothing
  <2>2. SuccessIsComplete
    <3>1. SUFFICES ASSUME pc = "success" PROVE SuccessIsComplete
      BY DEF SuccessIsComplete
    <3>2. CASE build.dryRun
      BY <3>2 DEF DryRun, SuccessIsComplete
    <3>3. CASE ~build.dryRun
      <4>1. Done = Target
        <5>1. targets = << >> /\ 1..0 = {}
          BY <3>1 DEF TargetsInOrder
        <5>2. Waiting = {}
          BY <5>1, EmptySeq DEF Waiting
        <5>3. QED
          BY <3>1, <5>2 DEF Done, Started, InTarget
      <4>2. Len(ran) \in Nat
        BY LenProperties DEF Typed
      <4>3. ASSUME NEW t \in Target, NEW i \in 1..Len(build.invocations[t]),
                   ~build.invocations[t][i].phony
            PROVE  /\ \E n \in 1..Len(ran) : ran[n] = <<t, i>>
                   /\ build.invocations[t][i].outputs \subseteq files
        <5>1. IsDone(t, i)
          BY <3>1, <3>3, <4>1, <4>3 DEF TargetsAreDone
        <5>2. RanBefore(ran, Len(ran) + 1, t, i) /\ build.invocations[t][i].outputs \subseteq files
          BY <4>3, <5>1 DEF IsDone, HasRunYet
        <5>3. PICK n \in 1..((Len(ran) + 1) - 1) : ran[n] = <<t, i>>
          BY <5>2 DEF RanBefore
        <5>4. n \in 1..Len(ran)
          BY <4>2, <5>3
        <5>5. QED
          BY <5>2, <5>3, <5>4
      <4>4. ASSUME NEW t \in Target, NEW k \in 1..Len(build.auxiliary[t])
            PROVE  IsWritten(build.auxiliary[t][k])
        BY <3>1, <3>3, <4>1 DEF TargetsAreDone
      <4>5. QED
        BY <3>3, <4>3, <4>4 DEF SuccessIsComplete, IsWritten
    <3>4. QED
      BY <3>2, <3>3
  <2>3. QED
    BY <2>1, <2>2 DEF OutcomeIsTrue
<1>2. QED
  BY <1>1, Invariance, PTL

\* Once a tool has failed, no tool runs and nothing is written any more.
THEOREM FailureEndsTheBuild == Spec => NothingRunsAfterFailure
<1>1. IInv /\ [Next]_vars => [failed # {} => UNCHANGED <<ran, disk>>]_vars
  <2> SUFFICES ASSUME IInv, Next, failed # {} PROVE UNCHANGED <<ran, disk>>
    OBVIOUS
  <2>1. pc = "failure"
    BY DEF IInv, FailureIsLast
  <2>2. QED
    BY <2>1 DEF Next, Load, FailToLoad, BeginTarget, FailToBeginTarget, FinishBuild,
         WriteAuxiliaryFile, FailToWriteAuxiliaryFile, FinishAuxiliaryFiles, SortInvocations,
         SkipInvocation, RunInvocation, RefuseInvocation, FailInvocation, FinishPass, IsTurn
<1>2. QED
  BY <1>1, Invariance, PTL DEF Spec, NothingRunsAfterFailure

=============================================================================
