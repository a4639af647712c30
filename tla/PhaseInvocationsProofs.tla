------------------------ MODULE PhaseInvocationsProofs ------------------------
(***************************************************************************)
(* Proofs about PhaseInvocations for every list of phases, of whatever      *)
(* kinds, files and scripts: the priorities keep the order of the project,  *)
(* and an order to run the invocations in exists unless the project asks    *)
(* for what has none.                                                       *)
(***************************************************************************)
EXTENDS PhaseInvocations, SequenceTheorems, FiniteSetTheorems, TLAPS

\* A sequence, of whatever.
IsList(s) == Len(s) \in Nat /\ s \in Seq({s[i] : i \in 1..Len(s)})

\* A record with the fields of an invocation, whatever they are.
IsInvocation(r) ==
  r = [inputs |-> r.inputs, phonyInputs |-> r.phonyInputs,
       inputDependencies |-> r.inputDependencies, outputs |-> r.outputs,
       priority |-> r.priority, createsProductStructure |-> r.createsProductStructure,
       phony |-> r.phony]

Selected ==
  /\ target \in TargetDescriptions
  /\ pc = "select" => /\ number = 1 /\ invocations = << >>
                      /\ swift = {} /\ waiting = {} /\ unresolved = {}
  /\ pc # "select" => buildPhases = BuildPhases(target)

Typed ==
  /\ pc \in {"select", "phases", "target", "created"}
  /\ number \in Nat \ {0} /\ priority = number
  /\ insertionPoint \in 1..priority
  /\ IsList(invocations) /\ IsList(makers) /\ Len(makers) = Len(invocations)
  /\ \A i \in Indices(invocations) : makers[i] \in Nat /\ IsInvocation(invocations[i])
  /\ unresolved \subseteq 0..(number - 1)
  /\ waiting \subseteq Indices(invocations)

\* The priority of an invocation is the number of its phase, and those of the
\* target have the insertion point's.
PrioritiesCount ==
  \A i \in Indices(invocations) :
    /\ makers[i] # 0 =>
         /\ makers[i] \in Indices(buildPhases) /\ makers[i] < number
         /\ invocations[i].priority = makers[i]
         /\ buildPhases[makers[i]].type \in ProductPhases \cup {"ShellScript"}
    /\ makers[i] = 0 => pc = "created" /\ invocations[i].priority = insertionPoint

ProductIsBefore ==
  \A n \in 1..(number - 1) : buildPhases[n].type \in ProductPhases => n < insertionPoint

\* Invocations are listed by phase, those of the target last.
MakersInOrder ==
  \A i, j \in Indices(invocations) :
    i < j => makers[j] = 0 \/ (0 < makers[i] /\ makers[i] <= makers[j])

\* The touch needs every other file of the bundle.
TouchNeedsTheBundle ==
  \A touch \in OfTarget : <<"wrapper", "">> \in invocations[touch].outputs =>
    \A i \in Indices(invocations) \ {touch} : \A path \in invocations[i].outputs :
      InWrapper(path) => path \in Needs(invocations[touch])

\* What waits for Swift are compiles of sources in C.
CompilesWait ==
  \A i \in waiting :
    /\ makers[i] # 0 /\ HasFiles(makers[i], "C")
    /\ \A path \in invocations[i].outputs : path[1] = "object"

IsArchitecture(arch) == \E a \in Indices(Architectures) : arch = Architectures[a]

\* Modules are made of the Swift of an earlier phase.
ModulesAreMade ==
  /\ \A arch \in swift : IsArchitecture(arch) /\ Module(arch) \in MadeSoFar
  /\ swift # {} => \E l \in 1..(number - 1) : HasFiles(l, "Swift")

\* By the phase n the modules of all architectures are copied.
CopiedBy(n) ==
  \A a \in Indices(Architectures) : \E m \in Indices(invocations) \ waiting :
    makers[m] \in 1..n /\ Artifact(Architectures[a]) \in invocations[m].outputs

CopiesAreMade == \A n \in 1..(number - 1) : CopiesSwift(n) => CopiedBy(n)

\* The ways to explain why an invocation needs a file: its phase names it, ...
\* ... it is listed before (and is no object, among sources, as those that
\* wait come after all others of their phase), ...
MadeBefore(i, path) ==
  /\ \E m \in 1..(i - 1) : path \in invocations[m].outputs
  /\ IsOfPhase(i, {"Sources"}) => path[1] # "object"
  /\ makers[i] = 0 => InWrapper(path)

\* ... or it is waited for, copied by the same phase or by one before ...
CopiedInTime(i, path) ==
  \E m \in Indices(invocations) \ waiting :
    0 < makers[m] /\ makers[m] <= makers[i] /\ path \in invocations[m].outputs

\* ... or not.
SwiftIsLate ==
  \E n, m \in Positions(buildPhases, "Sources") :
    /\ n < m /\ m < number /\ HasFiles(n, "C") /\ m \notin unresolved
    /\ \E l \in 1..m : HasFiles(l, "Swift")
    /\ \A l \in 1..n : ~CopiesSwift(l)

Awaited(i, path) ==
  i \in waiting /\ path[1] # "object" /\ (CopiedInTime(i, path) \/ SwiftIsLate)

\* The target may also need what nothing makes.
Explained(i, path) ==
  \/ path \in Named(makers[i])
  \/ MadeBefore(i, path)
  \/ Awaited(i, path)
  \/ pc = "created" /\ Makers(invocations, path) = {}

NeedsAreExplained ==
  \A i \in Indices(invocations) : \A path \in Needs(invocations[i]) : Explained(i, path)

IInv ==
  /\ Selected /\ Typed /\ PrioritiesCount /\ ProductIsBefore /\ MakersInOrder
  /\ TouchNeedsTheBundle /\ CompilesWait /\ ModulesAreMade /\ CopiesAreMade
  /\ NeedsAreExplained

-----------------------------------------------------------------------------

LEMMA FunctionsAreLists ==
  ASSUME NEW s, NEW n \in Nat, s = [i \in 1..n |-> s[i]]
  PROVE  IsList(s) /\ Len(s) = n
<1> DEFINE S == {s[i] : i \in 1..n}
<1>1. s \in [1..n -> S]
  OBVIOUS
<1>2. s \in Seq(S)
  BY <1>1, SeqDef
<1>3. DOMAIN s = 1..n /\ DOMAIN s = 1..Len(s) /\ Len(s) \in Nat
  BY <1>1, <1>2, LenProperties
<1>4. Len(s) = n
  <2>1. n \in 1..n \/ n = 0
    OBVIOUS
  <2>2. Len(s) \in 1..Len(s) \/ Len(s) = 0
    BY <1>3
  <2>3. QED
    BY <1>3, <2>1, <2>2
<1>5. QED
  BY <1>2, <1>4 DEF IsList

LEMMA ShortLists ==
  /\ IsList(<< >>) /\ Len(<< >>) = 0
  /\ \A x : IsList(<<x>>) /\ Len(<<x>>) = 1
<1>1. IsList(<< >>) /\ Len(<< >>) = 0
  BY DEF IsList
<1>2. ASSUME NEW x PROVE IsList(<<x>>) /\ Len(<<x>>) = 1
  BY DEF IsList
<1>3. QED
  BY <1>1, <1>2

Joined(s, r, t) == IsList(s) /\ IsList(r) /\ t = s \o r

LEMMA JoinedLists ==
  ASSUME NEW s, NEW r, NEW t, Joined(s, r, t)
  PROVE  /\ IsList(t) /\ Len(t) = Len(s) + Len(r)
         /\ Len(s) \in Nat /\ Len(r) \in Nat
         /\ \A i \in Indices(s) : i \in Indices(t) /\ t[i] = s[i]
         /\ \A j \in Indices(r) : Len(s) + j \in Indices(t) /\ t[Len(s) + j] = r[j]
         /\ \A i \in Indices(t) : i \in Indices(s) \/ \E j \in Indices(r) : i = Len(s) + j
<1> DEFINE S == {s[i] : i \in 1..Len(s)} \cup {r[i] : i \in 1..Len(r)}
<1>0. IsList(s) /\ IsList(r) /\ t = s \o r
  BY DEF Joined
<1>1. s \in Seq(S) /\ r \in Seq(S) /\ Len(s) \in Nat /\ Len(r) \in Nat
  <2>1. s \in Seq({s[i] : i \in 1..Len(s)}) /\ r \in Seq({r[i] : i \in 1..Len(r)})
        /\ Len(s) \in Nat /\ Len(r) \in Nat
    BY <1>0 DEF IsList
  <2>2. s \in [1..Len(s) -> S] /\ r \in [1..Len(r) -> S]
    <3>1. s \in [1..Len(s) -> {s[i] : i \in 1..Len(s)}]
      BY <2>1, LenProperties
    <3>2. r \in [1..Len(r) -> {r[i] : i \in 1..Len(r)}]
      BY <2>1, LenProperties
    <3>3. QED
      BY <3>1, <3>2
  <2>3. QED
    BY <2>1, <2>2, SeqDef
<1> HIDE DEF S
<1>2. /\ t \in Seq(S) /\ Len(t) = Len(s) + Len(r)
      /\ \A i \in 1..(Len(s) + Len(r)) : t[i] = IF i <= Len(s) THEN s[i] ELSE r[i - Len(s)]
  BY <1>0, <1>1, ConcatProperties
<1>3. IsList(t)
  <2>1. t \in [1..Len(t) -> S] /\ Len(t) \in Nat
    BY <1>2, LenProperties
  <2>2. t = [i \in 1..Len(t) |-> t[i]]
    BY <2>1
  <2>3. QED
    BY <2>1, <2>2, FunctionsAreLists
<1>4. \A i \in Indices(s) : i \in Indices(t) /\ t[i] = s[i]
  BY <1>1, <1>2 DEF Indices
<1>5. \A j \in Indices(r) : Len(s) + j \in Indices(t) /\ t[Len(s) + j] = r[j]
  <2>1. ASSUME NEW j \in Indices(r)
        PROVE  Len(s) + j \in 1..(Len(s) + Len(r)) /\ ~(Len(s) + j <= Len(s)) /\ (Len(s) + j) - Len(s) = j
    BY <1>1 DEF Indices
  <2>2. QED
    BY <1>2, <2>1 DEF Indices
<1>6. ASSUME NEW i \in Indices(t) PROVE i \in Indices(s) \/ \E j \in Indices(r) : i = Len(s) + j
  <2>1. i \in 1..(Len(s) + Len(r))
    BY <1>2 DEF Indices
  <2>2. CASE i <= Len(s)
    BY <1>1, <2>1, <2>2 DEF Indices
  <2>3. CASE ~(i <= Len(s))
    <3>1. i - Len(s) \in Indices(r) /\ i = Len(s) + (i - Len(s))
      BY <1>1, <2>1, <2>3 DEF Indices
    <3>2. QED
      BY <3>1
  <2>4. QED
    BY <2>2, <2>3
<1>7. QED
  BY <1>1, <1>2, <1>3, <1>4, <1>5, <1>6

LEMMA ToolParts ==
  ASSUME NEW inputs, NEW outputs, NEW at
  PROVE  /\ Tool(inputs, outputs, at).priority = at
         /\ Tool(inputs, outputs, at).outputs = outputs
         /\ Needs(Tool(inputs, outputs, at)) = inputs
         /\ IsInvocation(Tool(inputs, outputs, at))
BY DEF Tool, Needs, IsInvocation

LEMMA ChangedParts ==
  ASSUME NEW r, IsInvocation(r), NEW x
  PROVE  /\ IsInvocation([r EXCEPT !.phonyInputs = x])
         /\ IsInvocation([r EXCEPT !.inputDependencies = x])
         /\ IsInvocation([r EXCEPT !.createsProductStructure = x])
<1>1. PICK t : t = [r EXCEPT !.phonyInputs = x]
  OBVIOUS
<1>2. PICK u : u = [r EXCEPT !.inputDependencies = x]
  OBVIOUS
<1>3. PICK v : v = [r EXCEPT !.createsProductStructure = x]
  OBVIOUS
<1>4. IsInvocation(t)
  BY <1>1 DEF IsInvocation
<1>5. IsInvocation(u)
  BY <1>2 DEF IsInvocation
<1>6. IsInvocation(v)
  BY <1>3 DEF IsInvocation
<1>7. QED
  BY <1>1, <1>2, <1>3, <1>4, <1>5, <1>6

\* To wait for files changes nothing else of an invocation.
LEMMA AwaitParts ==
  ASSUME NEW r, IsInvocation(r), NEW files, NEW t,
         t = [r EXCEPT !.inputDependencies = @ \cup files]
  PROVE  /\ t.priority = r.priority /\ t.outputs = r.outputs
         /\ Needs(t) = Needs(r) \cup files /\ IsInvocation(t)
BY DEF Needs, IsInvocation

\* Of a number below a product.
LEMMA Quotients ==
  ASSUME NEW x \in Nat, NEW e \in Nat, NEW n \in Nat, x < n * e
  PROVE  e \in Nat \ {0} /\ x % e \in 0..(e - 1) /\ x \div e \in 0..(n - 1)
<1>1. e \in Nat \ {0}
  OBVIOUS
<1>2. x % e \in 0..(e - 1) /\ x \div e \in Nat
  BY <1>1
<1>3. x \div e < n
  BY <1>1
<1>4. QED
  BY <1>1, <1>2, <1>3

LEMMA Products ==
  ASSUME NEW a \in Nat, NEW n \in Nat, a < n, NEW e \in Nat, NEW g \in 0..(e - 1)
  PROVE  /\ a * e + g \in Nat /\ a * e + g < n * e
         /\ (a * e + g) % e = g /\ (a * e + g) \div e = a
<1>1. e \in Nat \ {0} /\ g \in Nat
  OBVIOUS
<1>2. (a * e + g) % e = g /\ (a * e + g) \div e = a
  BY <1>1
<1>3. a * e + g \in Nat
  BY <1>1
<1>4. (a + 1) * e <= n * e
  BY <1>1
<1>5. (a + 1) * e = a * e + e
  BY <1>1
<1>6. a * e + g < n * e
  BY <1>1, <1>4, <1>5
<1>7. QED
  BY <1>2, <1>3, <1>6

\* A nonempty set of naturals has a least one.
LEMMA LeastNatural ==
  ASSUME NEW T, T \subseteq Nat, T # {}
  PROVE  \E x \in T : \A y \in T : x <= y
<1>1. PICK x \in T : \A y \in T : ~(<<y, x>> \in OpToRel(<, Nat))
  BY NatLessThanWellFounded, WFMin
<1>2. \A y \in T : ~(y < x)
  BY <1>1 DEF OpToRel
<1>3. QED
  BY <1>2

\* The maker of a file is the first to name it among its outputs.
LEMMA MakerIsFirst ==
  ASSUME NEW all, Len(all) \in Nat, NEW path, Makers(all, path) # {}
  PROVE  /\ Maker(all, path) \in Makers(all, path)
         /\ \A j \in Makers(all, path) : Maker(all, path) <= j
<1>1. \E i \in Makers(all, path) : \A j \in Makers(all, path) : i <= j
  <2>1. Makers(all, path) \subseteq Nat
    BY DEF Makers, Indices
  <2>2. QED
    BY <2>1, LeastNatural
<1>2. QED
  BY <1>1 DEF Maker

\* Below a priority that is in use, some invocation of the previous phase has
\* at least the priority of any other.
LEMMA PreviousPhaseIsNext ==
  ASSUME NEW all, \A i \in Indices(all) : all[i].priority \in Nat,
         NEW i \in Indices(all), NEW j \in Indices(all), all[i].priority < all[j].priority
  PROVE  \E k \in PreviousPhaseOf(all, j) : all[i].priority <= all[k].priority
<1> DEFINE smaller == {k \in Indices(all) : all[k].priority < all[j].priority}
           values  == {all[j].priority - all[k].priority : k \in smaller}
<1>1. values # {} /\ values \subseteq Nat
  <2>1. \A k \in smaller : all[j].priority - all[k].priority \in Nat
    OBVIOUS
  <2>2. QED
    BY <2>1
<1>2. PICK v \in values : \A w \in values : v <= w
  BY <1>1, LeastNatural
<1>3. PICK k \in smaller : v = all[j].priority - all[k].priority
  OBVIOUS
<1>4. ASSUME NEW l \in smaller
      PROVE  all[l].priority <= all[k].priority
  <2>1. all[j].priority - all[k].priority <= all[j].priority - all[l].priority
    BY <1>2, <1>3
  <2>2. QED
    BY <2>1
<1>5. k \in PreviousPhaseOf(all, j)
  BY <1>4 DEF PreviousPhaseOf
<1>6. QED
  BY <1>4, <1>5

\* The graph as it is kept is the graph.
LEMMA GraphIsKept ==
  ASSUME IsList(invocations)
  PROVE  Graph = SortGraph(invocations)
<1>1. PICK s : s = SortGraph(invocations)
  OBVIOUS
<1>2. s = [i \in 1..Len(invocations) |-> s[i]]
  BY <1>1 DEF SortGraph, Indices
<1>3. Len(invocations) \in Nat
  BY DEF IsList
<1>4. IsList(s)
  BY <1>2, <1>3, FunctionsAreLists
<1>5. s \o << >> = s
  BY <1>4, ConcatEmptySeq DEF IsList
<1>6. QED
  BY <1>1, <1>5 DEF Graph

\* The maker of a file precedes whoever needs it.
LEMMA MakerPrecedes ==
  ASSUME NEW all, NEW j \in Indices(all), NEW path \in Needs(all[j]), Makers(all, path) # {}
  PROVE  Precedes(SortGraph(all), Maker(all, path), j)
<1>1. Maker(all, path) \in SortGraph(all)[j]
  BY DEF SortGraph, Producers
<1>2. QED
  BY <1>1 DEF Precedes

\* An invocation of an earlier phase precedes every one of a later phase.
LEMMA EarlierPhasesPrecede ==
  ASSUME NEW all, \A i \in Indices(all) : all[i].priority \in Nat,
         NEW i \in Indices(all), NEW j \in Indices(all), all[i].priority < all[j].priority
  PROVE  Precedes(SortGraph(all), i, j)
<1>0. DOMAIN SortGraph(all) = Indices(all)
  BY DEF SortGraph
<1> SUFFICES ASSUME NEW done \in SUBSET Indices(all), j \in done,
                    \A k \in done : SortGraph(all)[k] \subseteq done
             PROVE  i \in done
  BY <1>0 DEF Precedes
<1> DEFINE T == {all[k].priority : k \in {l \in done : all[i].priority < all[l].priority}}
<1>1. T \subseteq Nat /\ T # {}
  OBVIOUS
<1>2. PICK v \in T : \A w \in T : v <= w
  BY <1>1, LeastNatural
<1>3. PICK k \in done : /\ all[i].priority < all[k].priority
                       /\ \A l \in done : all[i].priority < all[l].priority =>
                                           all[k].priority <= all[l].priority
  BY <1>2
<1>4. PICK l \in PreviousPhaseOf(all, k) : all[i].priority <= all[l].priority
  BY <1>3, PreviousPhaseIsNext
<1>5. PreviousPhaseOf(all, k) \subseteq done
  BY <1>3 DEF SortGraph
<1>6. l \in Indices(all) /\ all[l].priority < all[k].priority
  BY <1>4 DEF PreviousPhaseOf
<1>7. all[l].priority = all[i].priority
  BY <1>3, <1>4, <1>5, <1>6
<1>8. i \in PreviousPhaseOf(all, k)
  BY <1>3, <1>4, <1>7 DEF PreviousPhaseOf
<1>9. QED
  BY <1>5, <1>8

-----------------------------------------------------------------------------

\* t is r, but may wait for files when it is the i-th of the list.
IsStill(t, r, i, files) ==
  /\ t.priority = r.priority /\ t.outputs = r.outputs /\ IsInvocation(t)
  /\ Needs(r) \subseteq Needs(t)
  /\ \A path \in Needs(t) : path \in Needs(r) \/ (i \in waiting' /\ path \in files)

Kept(i, files) ==
  /\ i \in Indices(invocations) /\ i \in Indices(invocations') /\ makers'[i] = makers[i]
  /\ IsStill(invocations'[i], invocations[i], i, files)

Added(i, j, new, n, files) ==
  /\ j \in Indices(new) /\ i = Len(invocations) + j
  /\ i \in Indices(invocations') /\ makers'[i] = n
  /\ IsStill(invocations'[i], new[j], i, files)

\* The list is extended for the n-th phase, and what waits waits for files.
Extended(new, n, files) ==
  /\ IsList(invocations') /\ IsList(makers') /\ Len(makers') = Len(invocations')
  /\ \A i \in Indices(invocations) : Kept(i, files)
  /\ \A j \in Indices(new) : Added(Len(invocations) + j, j, new, n, files)
  /\ \A i \in Indices(invocations') :
       i \in Indices(invocations) \/ \E j \in Indices(new) : Added(i, j, new, n, files)

LEMMA AwaitKeeps ==
  ASSUME NEW all, IsList(all), \A i \in Indices(all) : IsInvocation(all[i]),
         NEW files, NEW t,
         (t = all /\ files = {}) \/ t = Await(all, waiting', files)
  PROVE  /\ IsList(t) /\ Len(t) = Len(all)
         /\ \A i \in Indices(all) : IsStill(t[i], all[i], i, files)
<1>1. CASE t = all /\ files = {}
  BY <1>1 DEF IsStill
<1>2. CASE t = Await(all, waiting', files)
  <2>1. t = [i \in 1..Len(all) |-> t[i]]
    BY <1>2 DEF Await
  <2>2. IsList(t) /\ Len(t) = Len(all)
    BY <2>1, FunctionsAreLists DEF IsList
  <2>3. ASSUME NEW i \in Indices(all)
        PROVE  IsStill(t[i], all[i], i, files)
    <3>1. PICK r, u : r = all[i] /\ u = t[i]
      OBVIOUS
    <3>2. IsInvocation(r)
      BY <3>1
    <3>3. u = IF i \in waiting' THEN [r EXCEPT !.inputDependencies = @ \cup files] ELSE r
      BY <1>2, <3>1 DEF Await, Indices
    <3>4. CASE i \in waiting'
      <4>1. u = [r EXCEPT !.inputDependencies = @ \cup files]
        BY <3>3, <3>4
      <4>2. /\ u.priority = r.priority /\ u.outputs = r.outputs
            /\ Needs(u) = Needs(r) \cup files /\ IsInvocation(u)
        BY <3>2, <4>1, AwaitParts
      <4>3. IsStill(u, r, i, files)
        BY <3>4, <4>2 DEF IsStill
      <4>4. QED
        BY <3>1, <4>3
    <3>5. CASE i \notin waiting'
      BY <3>1, <3>2, <3>3, <3>5 DEF IsStill
    <3>6. QED
      BY <3>4, <3>5
  <2>4. QED
    BY <2>2, <2>3
<1>3. QED
  BY <1>1, <1>2

LEMMA Extends ==
  ASSUME IsList(invocations), IsList(makers), Len(makers) = Len(invocations),
         \A i \in Indices(invocations) : IsInvocation(invocations[i]),
         NEW new, IsList(new), \A j \in Indices(new) : IsInvocation(new[j]),
         NEW n, NEW files,
         \/ invocations' = invocations \o new /\ files = {}
         \/ invocations' = Await(invocations \o new, waiting', files),
         makers' = makers \o [i \in 1..Len(new) |-> n]
  PROVE  Extended(new, n, files)
<1> DEFINE numbers == [i \in 1..Len(new) |-> n]
<1>1. IsList(numbers) /\ Len(numbers) = Len(new) /\ \A j \in Indices(new) : numbers[j] = n
  <2>1. Len(new) \in Nat
    BY DEF IsList
  <2>2. numbers = [i \in 1..Len(new) |-> numbers[i]]
    OBVIOUS
  <2>3. IsList(numbers) /\ Len(numbers) = Len(new)
    BY <2>1, <2>2, FunctionsAreLists
  <2>4. QED
    BY <2>3 DEF Indices
<1>2. makers' = makers \o numbers
  OBVIOUS
<1> HIDE DEF numbers
<1>3. PICK s, all, t : s = invocations /\ all = s \o new /\ t = invocations'
  OBVIOUS
<1>4. PICK u, v : u = makers /\ v = makers'
  OBVIOUS
<1>5. /\ IsList(all) /\ Len(all) = Len(s) + Len(new) /\ Len(s) \in Nat
      /\ \A i \in Indices(s) : i \in Indices(all) /\ all[i] = s[i]
      /\ \A j \in Indices(new) : Len(s) + j \in Indices(all) /\ all[Len(s) + j] = new[j]
      /\ \A i \in Indices(all) : i \in Indices(s) \/ \E j \in Indices(new) : i = Len(s) + j
  <2>1. Joined(s, new, all)
    BY <1>3 DEF Joined
  <2>2. QED
    BY <2>1, JoinedLists
<1>6. /\ IsList(v) /\ Len(v) = Len(u) + Len(numbers)
      /\ \A i \in Indices(u) : v[i] = u[i]
      /\ \A j \in Indices(numbers) : v[Len(u) + j] = numbers[j]
  <2>1. Joined(u, numbers, v)
    BY <1>1, <1>2, <1>4 DEF Joined
  <2>2. QED
    BY <2>1, JoinedLists
<1>7. \A i \in Indices(all) : IsInvocation(all[i])
  <2>1. \A i \in Indices(s) : IsInvocation(s[i])
    BY <1>3
  <2>2. QED
    BY <1>5, <2>1
<1>8. (t = all /\ files = {}) \/ t = Await(all, waiting', files)
  BY <1>3
<1>9. /\ IsList(t) /\ Len(t) = Len(all)
      /\ \A i \in Indices(all) : IsStill(t[i], all[i], i, files)
  BY <1>5, <1>7, <1>8, AwaitKeeps
<1>10. /\ Indices(t) = Indices(all) /\ Indices(u) = Indices(s) /\ Len(u) = Len(s)
       /\ Indices(numbers) = Indices(new)
  BY <1>1, <1>3, <1>4, <1>9 DEF Indices
<1>11. ASSUME NEW i \in Indices(invocations) PROVE Kept(i, files)
  <2>1. i \in Indices(t) /\ IsStill(t[i], s[i], i, files) /\ v[i] = u[i]
    BY <1>3, <1>5, <1>6, <1>9, <1>10
  <2>2. QED
    BY <1>3, <1>4, <2>1 DEF Kept
<1>12. ASSUME NEW j \in Indices(new), NEW i, i = Len(s) + j
       PROVE  Added(i, j, new, n, files)
  <2>1. i \in Indices(t) /\ IsStill(t[i], new[j], i, files)
    BY <1>5, <1>9, <1>10, <1>12
  <2>2. v[i] = n
    BY <1>1, <1>6, <1>10, <1>12
  <2>3. QED
    BY <1>3, <1>4, <1>12, <2>1, <2>2 DEF Added
<1>13. \A i \in Indices(t) : i \in Indices(s) \/ \E j \in Indices(new) : Added(i, j, new, n, files)
  BY <1>5, <1>10, <1>12
<1>14. IsList(v) /\ Len(v) = Len(t)
  BY <1>1, <1>5, <1>6, <1>9, <1>10
<1>15. QED
  BY <1>3, <1>4, <1>9, <1>11, <1>12, <1>13, <1>14 DEF Extended

-----------------------------------------------------------------------------

\* Why the j-th of the invocations of a phase needs a file.
NeedOf(phase, new, j, path) ==
  \/ path \in NamedBy(phase)
  \/ /\ phase.type = "Sources" => path[1] # "object"
     /\ path \in MadeSoFar \/ \E l \in 1..(j - 1) : path \in new[l].outputs

\* What the resolver of a phase adds.
AddedBy(phase, new) ==
  /\ IsList(new)
  /\ \A j \in Indices(new) :
       /\ IsInvocation(new[j]) /\ new[j].priority = priority
       /\ phase.type \in ProductPhases \cup {"ShellScript"}
       /\ \A path \in Needs(new[j]) : NeedOf(phase, new, j, path)

LEMMA NothingAdded ==
  ASSUME NEW phase
  PROVE  AddedBy(phase, << >>)
BY ShortLists DEF AddedBy, Indices

\* The lists of files of a phase.
IsPhaseRecord(phase) == Len(phase.neutral) \in Nat /\ Len(phase.groups) \in Nat

LEMMA StepParts ==
  ASSUME NEW phase, IsPhaseRecord(phase), NEW steps, steps = Steps(phase)
  PROVE  /\ Len(steps) \in Nat
         /\ \A k \in 1..Len(steps) :
              /\ steps[k].file.inputs \subseteq NamedBy(phase)
              /\ steps[k].kind \in {"C", "Swift"} =>
                   /\ IsArchitecture(steps[k].arch)
                   /\ \E g \in Indices(phase.groups) : phase.groups[g].kind = steps[k].kind
         /\ \A g \in Indices(phase.groups), a \in Indices(Architectures) :
              \E k \in 1..Len(steps) :
                steps[k].kind = phase.groups[g].kind /\ steps[k].arch = Architectures[a]
<1>1. PICK once \in Nat, each \in Nat, archs \in Nat :
        once = Len(phase.neutral) /\ each = Len(phase.groups) /\ archs = Len(Architectures)
  BY PhaseInvocationsAssumption DEF IsPhaseRecord
<1>2. PICK total \in Nat : total = archs * each
  OBVIOUS
<1> DEFINE group(k) == 1 + ((k - once - 1) % each)
           which(k) == 1 + ((k - once - 1) \div each)
           source(k) == phase.groups[group(k)]
<1>3. steps = [k \in 1..(once + total) |->
                 IF k <= once
                 THEN [file |-> phase.neutral[k], kind |-> "neutral", arch |-> ""]
                 ELSE [file |-> source(k), kind |-> source(k).kind, arch |-> Architectures[which(k)]]]
  BY <1>1, <1>2 DEF Steps
<1>4. Len(steps) = once + total
  <2>1. steps = [k \in 1..(once + total) |-> steps[k]]
    BY <1>3
  <2>2. QED
    BY <2>1, FunctionsAreLists
<1> HIDE DEF group, which, source
<1>5. ASSUME NEW k \in 1..(once + total), k <= once
      PROVE  /\ steps[k].file.inputs \subseteq NamedBy(phase)
             /\ steps[k].kind \notin {"C", "Swift"}
  <2>0. steps[k] = [file |-> phase.neutral[k], kind |-> "neutral", arch |-> ""]
    BY <1>3, <1>5
  <2>1. steps[k].file = phase.neutral[k] /\ steps[k].kind = "neutral"
    <3>1. PICK r, f, none : r = steps[k] /\ f = phase.neutral[k] /\ none = "neutral"
      OBVIOUS
    <3>2. r = [file |-> f, kind |-> none, arch |-> ""]
      BY <2>0, <3>1
    <3>3. r.file = f /\ r.kind = none
      BY <3>2
    <3>4. QED
      BY <3>1, <3>3
  <2>2. k \in Indices(phase.neutral)
    BY <1>1, <1>5 DEF Indices
  <2>3. phase.neutral[k].inputs \subseteq InputsOf(phase.neutral)
    BY <2>2 DEF InputsOf
  <2>4. QED
    BY <2>1, <2>3 DEF NamedBy
<1>6. ASSUME NEW k \in 1..(once + total), ~(k <= once)
      PROVE  /\ steps[k].file.inputs \subseteq NamedBy(phase)
             /\ IsArchitecture(steps[k].arch)
             /\ \E g \in Indices(phase.groups) : phase.groups[g].kind = steps[k].kind
  <2>1. PICK x \in Nat : x = k - once - 1 /\ x < archs * each
    BY <1>2, <1>6
  <2>2. each \in Nat \ {0} /\ x % each \in 0..(each - 1) /\ x \div each \in 0..(archs - 1)
    BY <2>1, Quotients
  <2>3. PICK g, a : g = 1 + (x % each) /\ a = 1 + (x \div each)
                   /\ g \in 1..each /\ a \in 1..archs
    <3>1. PICK y \in 0..(each - 1), z \in 0..(archs - 1) : y = x % each /\ z = x \div each
      BY <2>2
    <3>2. 1 + y \in 1..each /\ 1 + z \in 1..archs
      BY <2>2
    <3>3. QED
      BY <3>1, <3>2
  <2>4. g \in Indices(phase.groups) /\ a \in Indices(Architectures)
    BY <1>1, <2>3 DEF Indices
  <2>5. group(k) = g /\ which(k) = a
    BY <2>1, <2>3 DEF group, which
  <2>6. /\ steps[k].file = phase.groups[g] /\ steps[k].kind = phase.groups[g].kind
        /\ steps[k].arch = Architectures[a]
    <3>1. steps[k] = [file |-> source(k), kind |-> source(k).kind, arch |-> Architectures[which(k)]]
      BY <1>3, <1>6
    <3>2. source(k) = phase.groups[g]
      BY <2>5 DEF source
    <3>3. QED
      BY <2>5, <3>1, <3>2
  <2>7. phase.groups[g].inputs \subseteq InputsOf(phase.groups)
    BY <2>4 DEF InputsOf
  <2>8. QED
    BY <2>4, <2>6, <2>7 DEF NamedBy, IsArchitecture
<1>7. ASSUME NEW g \in Indices(phase.groups), NEW a \in Indices(Architectures)
      PROVE  \E k \in 1..(once + total) :
               steps[k].kind = phase.groups[g].kind /\ steps[k].arch = Architectures[a]
  <2>1. PICK b \in Nat, h \in 0..(each - 1) : b < archs /\ a = 1 + b /\ g = 1 + h
    <3>1. a - 1 \in Nat /\ a - 1 < archs /\ g - 1 \in 0..(each - 1) /\ a = 1 + (a - 1) /\ g = 1 + (g - 1)
      BY <1>1 DEF Indices
    <3>2. QED
      BY <3>1
  <2>2. PICK x \in Nat : x = b * each + h /\ x < archs * each /\ x % each = h /\ x \div each = b
    BY <2>1, Products
  <2>3. PICK k \in 1..(once + total) : k - once - 1 = x /\ ~(k <= once)
    <3>1. once + 1 + x \in 1..(once + total) /\ (once + 1 + x) - once - 1 = x /\ ~(once + 1 + x <= once)
      BY <1>2, <2>2
    <3>2. QED
      BY <3>1
  <2>4. group(k) = g /\ which(k) = a
    BY <2>1, <2>2, <2>3 DEF group, which
  <2>5. steps[k].kind = phase.groups[g].kind /\ steps[k].arch = Architectures[a]
    <3>1. steps[k] = [file |-> source(k), kind |-> source(k).kind, arch |-> Architectures[which(k)]]
      BY <1>3, <2>3
    <3>2. source(k) = phase.groups[g]
      BY <2>4 DEF source
    <3>3. QED
      BY <2>4, <3>1, <3>2
  <2>6. QED
    BY <2>5
<1>8. QED
  BY <1>4, <1>5, <1>6, <1>7

\* What a compile needs and makes.
LEMMA CompileParts ==
  ASSUME NEW step
  PROVE  /\ Compile(step).priority = priority /\ IsInvocation(Compile(step))
         /\ Needs(Compile(step)) = step.file.inputs
         /\ step.kind = "C" => \A path \in Compile(step).outputs : path[1] = "object"
         /\ step.kind = "Swift" => Module(step.arch) \in Compile(step).outputs
<1> DEFINE object == Object(step.file.name, step.arch)
           made == CASE step.kind = "C"     -> {object}
                     [] step.kind = "Swift" -> {object, Module(step.arch)}
                     [] OTHER               -> {<<"derived", step.file.name>>}
<1>1. Compile(step) = Tool(step.file.inputs, made, priority)
  BY DEF Compile
<1>2. step.kind = "C" => made = {object}
  OBVIOUS
<1>3. step.kind = "Swift" => Module(step.arch) \in made
  OBVIOUS
<1>4. object[1] = "object"
  BY DEF Object
<1> HIDE DEF object, made
<1>5. /\ Compile(step).priority = priority /\ IsInvocation(Compile(step))
      /\ Needs(Compile(step)) = step.file.inputs /\ Compile(step).outputs = made
  BY <1>1, ToolParts
<1>6. QED
  BY <1>2, <1>3, <1>4, <1>5

\* The first n steps of a phase of sources.
LEMMA CompilesAdded ==
  ASSUME NEW phase, IsPhaseRecord(phase), phase.type = "Sources",
         NEW steps, steps = Steps(phase), NEW n \in 0..Len(steps),
         NEW new, new = Compiles(steps, n)
  PROVE  /\ AddedBy(phase, new) /\ Len(new) = n
         /\ \A j \in 1..n : new[j] = Compile(steps[j])
<1>1. n \in Nat /\ Len(steps) \in Nat /\ \A k \in 1..n : k \in 1..Len(steps)
  BY StepParts
<1>2. new = [k \in 1..n |-> new[k]] /\ \A j \in 1..n : new[j] = Compile(steps[j])
  BY DEF Compiles
<1>3. IsList(new) /\ Len(new) = n
  BY <1>1, <1>2, FunctionsAreLists
<1>4. ASSUME NEW j \in Indices(new)
      PROVE  /\ IsInvocation(new[j]) /\ new[j].priority = priority
             /\ \A path \in Needs(new[j]) : NeedOf(phase, new, j, path)
  <2>1. j \in 1..n /\ new[j] = Compile(steps[j])
    BY <1>2, <1>3 DEF Indices
  <2>2. steps[j].file.inputs \subseteq NamedBy(phase)
    BY <1>1, <2>1, StepParts
  <2>3. QED
    BY <2>1, <2>2, CompileParts DEF NeedOf
<1>5. phase.type \in ProductPhases
  BY DEF ProductPhases
<1>6. QED
  BY <1>2, <1>3, <1>4, <1>5 DEF AddedBy

\* All of them, and the copies of the modules there are then.
ResolvedSources(phase, compiles, archs, new) ==
  /\ IsPhaseRecord(phase) /\ phase.type = "Sources"
  /\ compiles = Compiles(Steps(phase), Len(Steps(phase)))
  /\ \A arch \in archs : \/ Module(arch) \in MadeSoFar
                         \/ \E l \in Indices(compiles) : Module(arch) \in compiles[l].outputs
  /\ new = compiles \o CopySwiftModules(archs)

LEMMA SourcesAdded ==
  ASSUME NEW phase, NEW compiles, NEW archs, NEW new,
         ResolvedSources(phase, compiles, archs, new)
  PROVE  /\ AddedBy(phase, new) /\ Len(compiles) = Len(Steps(phase))
         /\ \A l \in Indices(compiles) : l \in Indices(new) /\ new[l] = compiles[l]
         /\ archs # {} => \E j \in Indices(new) :
                           j = Len(compiles) + 1 /\ new[j].outputs = Artifacts(archs)
<1>0. /\ IsPhaseRecord(phase) /\ phase.type = "Sources"
      /\ compiles = Compiles(Steps(phase), Len(Steps(phase)))
      /\ \A arch \in archs : \/ Module(arch) \in MadeSoFar
                             \/ \E l \in Indices(compiles) : Module(arch) \in compiles[l].outputs
      /\ new = compiles \o CopySwiftModules(archs)
  BY DEF ResolvedSources
<1>1. /\ AddedBy(phase, compiles) /\ Len(compiles) = Len(Steps(phase)) /\ Len(compiles) \in Nat
  <2>1. Len(Steps(phase)) \in Nat
    BY <1>0, StepParts
  <2>2. Len(Steps(phase)) \in 0..Len(Steps(phase))
    BY <2>1
  <2>3. QED
    BY <1>0, <2>1, <2>2, CompilesAdded
<1> DEFINE tool == Tool({Module(arch) : arch \in archs}, Artifacts(archs), priority)
<1>2. /\ tool.priority = priority /\ tool.outputs = Artifacts(archs) /\ IsInvocation(tool)
      /\ Needs(tool) = {Module(arch) : arch \in archs}
  BY ToolParts
<1>3. PICK last : last = CopySwiftModules(archs)
  OBVIOUS
<1>4. last = IF archs = {} THEN << >> ELSE <<tool>>
  BY <1>3 DEF CopySwiftModules
<1> HIDE DEF tool
<1>5. /\ IsList(last) /\ \A l \in Indices(last) : l = 1 /\ last[l] = tool
      /\ archs # {} => 1 \in Indices(last)
  BY <1>4, ShortLists DEF Indices
<1>6. Joined(compiles, last, new)
  BY <1>0, <1>1, <1>3, <1>5 DEF Joined, AddedBy
<1>7. /\ IsList(new) /\ Len(compiles) \in Nat
      /\ \A i \in Indices(compiles) : i \in Indices(new) /\ new[i] = compiles[i]
      /\ \A l \in Indices(last) : Len(compiles) + l \in Indices(new) /\ new[Len(compiles) + l] = last[l]
      /\ \A i \in Indices(new) : i \in Indices(compiles) \/ \E l \in Indices(last) : i = Len(compiles) + l
  <2>1. PICK s, t : s = compiles /\ t = new
    OBVIOUS
  <2>2. Joined(s, last, t)
    BY <1>6, <2>1
  <2>3. /\ IsList(t) /\ Len(s) \in Nat
        /\ \A i \in Indices(s) : i \in Indices(t) /\ t[i] = s[i]
        /\ \A l \in Indices(last) : Len(s) + l \in Indices(t) /\ t[Len(s) + l] = last[l]
        /\ \A i \in Indices(t) : i \in Indices(s) \/ \E l \in Indices(last) : i = Len(s) + l
    BY <2>2, JoinedLists
  <2>4. QED
    BY <2>1, <2>3
<1>8. ASSUME NEW j \in Indices(new)
      PROVE  /\ IsInvocation(new[j]) /\ new[j].priority = priority
             /\ \A path \in Needs(new[j]) : NeedOf(phase, new, j, path)
  <2>1. CASE j \in Indices(compiles)
    <3>1. new[j] = compiles[j]
      BY <1>7, <2>1
    <3>2. ASSUME NEW path \in Needs(compiles[j])
          PROVE  NeedOf(phase, new, j, path)
      <4>1. NeedOf(phase, compiles, j, path)
        BY <1>1, <2>1 DEF AddedBy
      <4>2. \A l \in 1..(j - 1) : new[l] = compiles[l]
        <5>1. \A l \in 1..(j - 1) : l \in Indices(compiles)
          BY <1>1, <2>1 DEF Indices
        <5>2. QED
          BY <1>7, <5>1
      <4>3. QED
        BY <4>1, <4>2 DEF NeedOf
    <3>3. QED
      BY <1>1, <2>1, <3>1, <3>2 DEF AddedBy
  <2>2. CASE j = Len(compiles) + 1 /\ new[j] = tool
    <3>1. ASSUME NEW path \in Needs(tool)
          PROVE  NeedOf(phase, new, j, path)
      <4>1. PICK arch \in archs : path = Module(arch)
        BY <1>2, <3>1
      <4>2. path[1] # "object"
        BY <4>1 DEF Module
      <4>3. CASE path \in MadeSoFar
        BY <4>2, <4>3 DEF NeedOf
      <4>4. ASSUME NEW l \in Indices(compiles), path \in compiles[l].outputs
            PROVE  NeedOf(phase, new, j, path)
        <5>1. l \in 1..(j - 1)
          BY <1>1, <2>2 DEF Indices
        <5>2. path \in new[l].outputs
          BY <1>7, <4>4
        <5>3. QED
          BY <4>2, <5>1, <5>2 DEF NeedOf
      <4>5. QED
        BY <1>0, <4>1, <4>3, <4>4
    <3>2. QED
      BY <1>2, <2>2, <3>1
  <2>3. QED
    BY <1>5, <1>7, <2>1, <2>2
<1>9. phase.type \in ProductPhases
  BY <1>0 DEF ProductPhases
<1>10. AddedBy(phase, new)
  BY <1>7, <1>8, <1>9 DEF AddedBy
<1>11. archs # {} => /\ Len(compiles) + 1 \in Indices(new)
                     /\ new[Len(compiles) + 1].outputs = Artifacts(archs)
  BY <1>2, <1>5, <1>7
<1>12. QED
  BY <1>1, <1>7, <1>10, <1>11

LEMMA CopiesAdded ==
  ASSUME NEW phase, IsPhaseRecord(phase),
         phase.type \in ProductPhases \ {"Sources"}, NEW n \in 0..Len(phase.groups)
  PROVE  AddedBy(phase, Copies(phase, n))
<1>1. PICK new : new = Copies(phase, n)
  OBVIOUS
<1>2. n \in Nat /\ \A k \in 1..n : k \in Indices(phase.groups)
  BY DEF IsPhaseRecord, Indices
<1>3. /\ new = [k \in 1..n |-> new[k]]
      /\ \A k \in 1..n : new[k] = Tool(phase.groups[k].inputs,
                                       {<<phase.destination, phase.groups[k].name>>}, priority)
  BY <1>1 DEF Copies
<1>4. IsList(new) /\ Len(new) = n
  BY <1>2, <1>3, FunctionsAreLists
<1>5. ASSUME NEW j \in Indices(new)
      PROVE  /\ IsInvocation(new[j]) /\ new[j].priority = priority
             /\ \A path \in Needs(new[j]) : NeedOf(phase, new, j, path)
  <2>1. j \in 1..n
    BY <1>4 DEF Indices
  <2>2. /\ IsInvocation(new[j]) /\ new[j].priority = priority
        /\ Needs(new[j]) = phase.groups[j].inputs
    <3>1. PICK inputs, outputs :
            /\ inputs = phase.groups[j].inputs
            /\ outputs = {<<phase.destination, phase.groups[j].name>>}
      OBVIOUS
    <3>2. new[j] = Tool(inputs, outputs, priority)
      BY <1>3, <2>1, <3>1
    <3>3. QED
      BY <3>1, <3>2, ToolParts
  <2>3. phase.groups[j].inputs \subseteq NamedBy(phase)
    BY <1>2, <2>1 DEF NamedBy, InputsOf
  <2>4. QED
    BY <2>2, <2>3 DEF NeedOf
<1>6. QED
  BY <1>1, <1>4, <1>5 DEF AddedBy

LEMMA FrameworksAdded ==
  ASSUME NEW phase, phase.type = "Frameworks"
  PROVE  AddedBy(phase, Link)
<1> DEFINE universal == Len(Architectures) > 1
           slice(n) == <<"slice", Architectures[n]>>
           objects(n) == {path \in MadeSoFar : path[1] = "object" /\ path[3] = Architectures[n]}
           link(n) == Tool(objects(n), {IF universal THEN slice(n) ELSE Executable}, priority)
           lipo == Tool({slice(n) : n \in 1..Len(Architectures)}, {Executable}, priority)
           links == [n \in 1..Len(Architectures) |-> link(n)]
           last == IF universal THEN <<lipo>> ELSE << >>
<1>1. phase.type \in ProductPhases /\ phase.type # "Sources"
  BY DEF ProductPhases
<1>2. Link = links \o last
  BY DEF Link
<1>3. IsList(links) /\ Len(links) = Len(Architectures) /\ \A n \in Indices(links) : links[n] = link(n)
  <2>1. links = [n \in 1..Len(Architectures) |-> links[n]]
    OBVIOUS
  <2>2. IsList(links) /\ Len(links) = Len(Architectures)
    BY <2>1, PhaseInvocationsAssumption, FunctionsAreLists
  <2>3. QED
    BY <2>2 DEF Indices
<1>4. \A n : /\ link(n).priority = priority /\ IsInvocation(link(n))
             /\ link(n).outputs = {IF universal THEN slice(n) ELSE Executable}
             /\ Needs(link(n)) \subseteq MadeSoFar
  <2>1. \A n : objects(n) \subseteq MadeSoFar
    OBVIOUS
  <2> HIDE DEF objects
  <2>2. \A n : /\ link(n).priority = priority /\ IsInvocation(link(n))
               /\ link(n).outputs = {IF universal THEN slice(n) ELSE Executable}
               /\ Needs(link(n)) = objects(n)
    BY ToolParts
  <2>3. QED
    BY <2>1, <2>2
<1>5. /\ lipo.priority = priority /\ IsInvocation(lipo)
      /\ Needs(lipo) = {slice(n) : n \in Indices(links)}
  <2>1. /\ lipo.priority = priority /\ IsInvocation(lipo)
        /\ Needs(lipo) = {slice(n) : n \in 1..Len(Architectures)}
    BY ToolParts
  <2>2. QED
    BY <1>3, <2>1 DEF Indices
<1> HIDE DEF links, link, lipo, slice
<1>6. IsList(last) /\ \A l \in Indices(last) : universal /\ l = 1 /\ last[l] = lipo
  <2>1. CASE universal
    <3>1. last = <<lipo>>
      BY <2>1
    <3> HIDE DEF last
    <3>2. IsList(last) /\ Len(last) = 1 /\ last[1] = lipo
      BY <3>1, ShortLists
    <3>3. QED
      BY <2>1, <3>2 DEF Indices
  <2>2. CASE ~universal
    <3>1. last = << >>
      BY <2>2
    <3>2. IsList(last) /\ Len(last) = 0
      BY <3>1, ShortLists
    <3>3. QED
      BY <3>2 DEF Indices
  <2>3. QED
    BY <2>1, <2>2
<1> HIDE DEF last
<1>7. Joined(links, last, Link)
  BY <1>2, <1>3, <1>6 DEF Joined
<1>8. /\ IsList(Link) /\ Len(links) \in Nat
      /\ \A i \in Indices(links) : i \in Indices(Link) /\ Link[i] = links[i]
      /\ \A l \in Indices(last) : Link[Len(links) + l] = last[l]
      /\ \A i \in Indices(Link) : i \in Indices(links) \/ \E l \in Indices(last) : i = Len(links) + l
  BY <1>7, JoinedLists
<1>9. ASSUME NEW j \in Indices(Link)
      PROVE  /\ IsInvocation(Link[j]) /\ Link[j].priority = priority
             /\ \A path \in Needs(Link[j]) :
                  path \in MadeSoFar \/ \E l \in 1..(j - 1) : path \in Link[l].outputs
  <2>1. CASE j \in Indices(links)
    <3>1. Link[j] = link(j)
      BY <1>3, <1>8, <2>1
    <3>2. QED
      BY <1>4, <3>1
  <2>2. ASSUME NEW l \in Indices(last), j = Len(links) + l
        PROVE  /\ IsInvocation(Link[j]) /\ Link[j].priority = priority
               /\ \A path \in Needs(Link[j]) : \E m \in 1..(j - 1) : path \in Link[m].outputs
    <3>1. Link[j] = lipo /\ universal /\ j - 1 = Len(links)
      BY <1>6, <1>8, <2>2
    <3>2. ASSUME NEW n \in Indices(links) PROVE slice(n) \in Link[n].outputs /\ n \in 1..(j - 1)
      <4>1. Link[n] = link(n)
        BY <1>3, <1>8
      <4>2. slice(n) \in Link[n].outputs
        BY <1>4, <3>1, <4>1
      <4>3. QED
        BY <3>1, <4>2 DEF Indices
    <3>3. QED
      BY <1>5, <3>1, <3>2
  <2>3. QED
    BY <1>8, <2>1, <2>2
<1>10. QED
  BY <1>1, <1>8, <1>9 DEF AddedBy, NeedOf

LEMMA ScriptAdded ==
  ASSUME NEW phase, phase.type = "ShellScript"
  PROVE  AddedBy(phase, Script(phase))
<1> DEFINE tool == [Tool({}, phase.outputPaths, priority) EXCEPT !.phonyInputs = phase.inputPaths]
<1>1. Script(phase) = <<tool>>
  BY DEF Script
<1>2. tool.priority = priority /\ Needs(tool) = phase.inputPaths /\ IsInvocation(tool)
  <2>1. tool.priority = priority /\ Needs(tool) = phase.inputPaths
    BY DEF Tool, Needs
  <2>2. IsInvocation(tool)
    BY ToolParts, ChangedParts
  <2>3. QED
    BY <2>1, <2>2
<1> HIDE DEF tool
<1>3. IsList(<<tool>>) /\ \A j \in Indices(<<tool>>) : <<tool>>[j] = tool
  BY ShortLists DEF Indices
<1>4. \A path \in Needs(tool) : path \in NamedBy(phase)
  BY <1>2 DEF NamedBy
<1>5. QED
  BY <1>1, <1>2, <1>3, <1>4 DEF AddedBy, NeedOf

\* Phases of other kinds than sources, resolved or not.
LEMMA PhasesAdd ==
  ASSUME NEW phase, IsPhaseRecord(phase), phase.type # "Sources",
         NEW new, new = InvocationsOf(phase) \/ new \in FailedInvocationsOf(phase)
  PROVE  AddedBy(phase, new)
<1> DEFINE copying == {"CopyFiles", "Headers", "Resources"}
<1>1. CASE new = << >>
  BY <1>1, NothingAdded
<1>2. CASE phase.type = "Frameworks" /\ new = InvocationsOf(phase)
  <2>1. InvocationsOf(phase) = Link
    BY <1>2 DEF InvocationsOf
  <2>2. QED
    BY <1>2, <2>1, FrameworksAdded
<1>3. CASE phase.type = "ShellScript" /\ new = InvocationsOf(phase)
  <2>1. InvocationsOf(phase) = Script(phase)
    BY <1>3 DEF InvocationsOf
  <2>2. QED
    BY <1>3, <2>1, ScriptAdded
<1>4. ASSUME phase.type \in copying, NEW n \in 0..Len(phase.groups), new = Copies(phase, n)
      PROVE  AddedBy(phase, new)
  <2>1. phase.type \in ProductPhases
    BY <1>4 DEF ProductPhases
  <2>2. QED
    BY <1>4, <2>1, CopiesAdded
<1>5. CASE phase.type \in copying /\ new = InvocationsOf(phase)
  <2>1. InvocationsOf(phase) = Copies(phase, Len(phase.groups))
    BY <1>5 DEF InvocationsOf
  <2>2. Len(phase.groups) \in 0..Len(phase.groups)
    BY DEF IsPhaseRecord
  <2>3. QED
    BY <1>4, <1>5, <2>1, <2>2
<1>6. CASE phase.type \in copying /\ new \in FailedInvocationsOf(phase)
  <2>1. new = << >> \/ \E n \in 0..Len(phase.groups) : new = Copies(phase, n)
    <3>1. CASE phase.type = "Resources"
      <4>1. FailedInvocationsOf(phase) = {Copies(phase, n) : n \in 0..Len(phase.groups)}
        BY <3>1 DEF FailedInvocationsOf
      <4>2. QED
        BY <1>6, <4>1
    <3>2. CASE phase.type = "CopyFiles"
      <4>1. FailedInvocationsOf(phase) = {Copies(phase, n) : n \in {0} \cup 1..(Len(phase.groups) - 1)}
        BY <3>2 DEF FailedInvocationsOf
      <4>2. \A n \in {0} \cup 1..(Len(phase.groups) - 1) : n \in 0..Len(phase.groups)
        BY DEF IsPhaseRecord
      <4>3. QED
        BY <1>6, <4>1, <4>2
    <3>3. CASE phase.type = "Headers"
      <4>1. FailedInvocationsOf(phase) = {<< >>}
        BY <3>3 DEF FailedInvocationsOf
      <4>2. QED
        BY <1>6, <4>1
    <3>4. QED
      BY <1>6, <3>1, <3>2, <3>3
  <2>2. QED
    BY <1>1, <1>4, <1>6, <2>1
<1>7. CASE phase.type \notin copying /\ new \in FailedInvocationsOf(phase)
  <2>1. \A x \in FailedInvocationsOf(phase) : x = << >>
    BY <1>7 DEF FailedInvocationsOf
  <2>2. QED
    BY <1>1, <1>7, <2>1
<1>8. CASE phase.type \notin copying \cup {"Frameworks", "ShellScript"} /\ new = InvocationsOf(phase)
  <2>1. InvocationsOf(phase) = << >>
    BY <1>8 DEF InvocationsOf
  <2>2. QED
    BY <1>1, <1>8, <2>1
<1>9. QED
  BY <1>2, <1>3, <1>5, <1>6, <1>7, <1>8

-----------------------------------------------------------------------------

\* The list grows, for a phase or for the target.
Grows(new, n, files) ==
  /\ Extended(new, n, files)
  /\ number \in Nat /\ number' \in Nat /\ number <= number' /\ Len(invocations) \in Nat
  /\ UNCHANGED <<target, buildPhases>>
  /\ \A m \in 1..(number - 1) : m \in unresolved' <=> m \in unresolved
  /\ waiting \subseteq Indices(invocations)
  /\ \A i \in Indices(invocations) : i \in waiting' <=> i \in waiting

LEMMA OldStay ==
  ASSUME NEW new, NEW n, NEW files, Grows(new, n, files), NEW i \in Indices(invocations)
  PROVE  /\ i \in Indices(invocations') /\ makers'[i] = makers[i]
         /\ invocations'[i].priority = invocations[i].priority
         /\ invocations'[i].outputs = invocations[i].outputs
         /\ IsInvocation(invocations'[i])
         /\ i \in waiting' <=> i \in waiting
BY DEF Grows, Extended, Kept, IsStill

LEMMA MadeStays ==
  ASSUME NEW new, NEW n, NEW files, Grows(new, n, files)
  PROVE  /\ MadeSoFar \subseteq MadeSoFar'
         /\ \A j \in Indices(new) : new[j].outputs \subseteq MadeSoFar'
<1>1. MadeSoFar \subseteq MadeSoFar'
  BY OldStay DEF MadeSoFar
<1>2. ASSUME NEW j \in Indices(new), NEW path \in new[j].outputs PROVE path \in MadeSoFar'
  <2>1. PICK i : i = Len(invocations) + j
    OBVIOUS
  <2>2. Added(i, j, new, n, files)
    BY <2>1 DEF Grows, Extended
  <2>3. i \in Indices(invocations') /\ path \in invocations'[i].outputs
    BY <1>2, <2>2 DEF Added, IsStill
  <2>4. QED
    BY <2>3 DEF MadeSoFar
<1>3. QED
  BY <1>1, <1>2

LEMMA PhasesStay ==
  ASSUME NEW new, NEW n, NEW files, Grows(new, n, files)
  PROVE  /\ \A k, kind : HasFiles(k, kind)' <=> HasFiles(k, kind)
         /\ \A k \in 1..(number - 1) : CopiesSwift(k)' <=> CopiesSwift(k)
         /\ \A k : Named(k)' = Named(k)
         /\ \A arch : Artifact(arch)' = Artifact(arch)
         /\ \A types : \A i \in Indices(invocations) : IsOfPhase(i, types)' <=> IsOfPhase(i, types)
<1>1. target' = target /\ buildPhases' = buildPhases
  BY DEF Grows
<1>2. \A k, kind : HasFiles(k, kind)' <=> HasFiles(k, kind)
  BY <1>1 DEF HasFiles
<1>3. \A k \in 1..(number - 1) : k \in unresolved' <=> k \in unresolved
  BY DEF Grows
<1>4. \A k : Named(k)' = Named(k)
  BY <1>1 DEF Named
<1>5. \A arch : Artifact(arch)' = Artifact(arch)
  BY <1>1 DEF Artifact
<1>6. \A types : \A i \in Indices(invocations) : IsOfPhase(i, types)' <=> IsOfPhase(i, types)
  <2>1. \A i \in Indices(invocations) : makers'[i] = makers[i]
    BY OldStay
  <2>2. QED
    BY <1>1, <2>1 DEF IsOfPhase
<1>7. \A k \in 1..(number - 1) : CopiesSwift(k)' <=> CopiesSwift(k)
  BY <1>2, <1>3 DEF CopiesSwift
<1>8. QED
  BY <1>2, <1>4, <1>5, <1>6, <1>7

LEMMA CopiedByStays ==
  ASSUME NEW new, NEW n, NEW files, Grows(new, n, files), NEW k, CopiedBy(k)
  PROVE  CopiedBy(k)'
<1> SUFFICES ASSUME NEW a \in Indices(Architectures)
             PROVE  \E m \in Indices(invocations') \ waiting' :
                      /\ makers'[m] \in 1..k
                      /\ Artifact(Architectures[a])' \in invocations'[m].outputs
  BY DEF CopiedBy
<1>1. PICK m \in Indices(invocations) \ waiting :
        makers[m] \in 1..k /\ Artifact(Architectures[a]) \in invocations[m].outputs
  BY DEF CopiedBy
<1>2. /\ m \in Indices(invocations') /\ m \notin waiting' /\ makers'[m] = makers[m]
      /\ invocations'[m].outputs = invocations[m].outputs
  BY <1>1, OldStay
<1>3. Artifact(Architectures[a])' = Artifact(Architectures[a])
  BY PhasesStay
<1>4. QED
  BY <1>1, <1>2, <1>3

LEMMA LateStaysLate ==
  ASSUME NEW new, NEW k, NEW files, Grows(new, k, files), SwiftIsLate
  PROVE  SwiftIsLate'
<1>1. PICK n, m \in Positions(buildPhases, "Sources") :
        /\ n < m /\ m < number /\ HasFiles(n, "C") /\ m \notin unresolved
        /\ \E l \in 1..m : HasFiles(l, "Swift")
        /\ \A l \in 1..n : ~CopiesSwift(l)
  BY DEF SwiftIsLate
<1>2. buildPhases' = buildPhases /\ number \in Nat /\ number' \in Nat /\ number <= number'
  BY DEF Grows
<1>3. n \in Nat \ {0} /\ m \in Nat \ {0}
  BY <1>1 DEF Positions
<1>4. m \in 1..(number - 1) /\ m < number' /\ \A l \in 1..n : l \in 1..(number - 1)
  BY <1>1, <1>2, <1>3
<1>5. m \notin unresolved'
  BY <1>1, <1>4 DEF Grows
<1>6. HasFiles(n, "C")' /\ (\E l \in 1..m : HasFiles(l, "Swift")') /\ \A l \in 1..n : ~CopiesSwift(l)'
  BY <1>1, <1>4, PhasesStay
<1>7. QED
  BY <1>1, <1>2, <1>4, <1>5, <1>6 DEF SwiftIsLate

LEMMA ExplanationsStay ==
  ASSUME NEW new, NEW n, NEW files, Grows(new, n, files), pc # "created",
         NEW i \in Indices(invocations), NEW path, Explained(i, path)
  PROVE  Explained(i, path)'
<1>1. makers'[i] = makers[i]
  BY OldStay
<1>2. CASE path \in Named(makers[i])
  BY <1>1, <1>2, PhasesStay DEF Explained
<1>3. CASE MadeBefore(i, path)
  <2>1. PICK m \in 1..(i - 1) : path \in invocations[m].outputs
    BY <1>3 DEF MadeBefore
  <2>2. m \in Indices(invocations)
    <3>1. Len(invocations) \in Nat
      BY DEF Grows
    <3>2. QED
      BY <2>1, <3>1 DEF Indices
  <2>3. path \in invocations'[m].outputs
    BY <2>1, <2>2, OldStay
  <2>4. IsOfPhase(i, {"Sources"})' => path[1] # "object"
    BY <1>3, PhasesStay DEF MadeBefore
  <2>5. makers'[i] = 0 => InWrapper(path)
    BY <1>1, <1>3 DEF MadeBefore
  <2>6. MadeBefore(i, path)'
    BY <2>1, <2>3, <2>4, <2>5 DEF MadeBefore
  <2>7. QED
    BY <2>6 DEF Explained
<1>4. CASE Awaited(i, path)
  <2>1. i \in waiting' /\ path[1] # "object"
    BY <1>4, OldStay DEF Awaited
  <2>2. ASSUME CopiedInTime(i, path) PROVE CopiedInTime(i, path)'
    <3>1. PICK m \in Indices(invocations) \ waiting :
            0 < makers[m] /\ makers[m] <= makers[i] /\ path \in invocations[m].outputs
      BY <2>2 DEF CopiedInTime
    <3>2. /\ m \in Indices(invocations') /\ m \notin waiting' /\ makers'[m] = makers[m]
          /\ invocations'[m].outputs = invocations[m].outputs
      BY <3>1, OldStay
    <3>3. QED
      BY <1>1, <3>1, <3>2 DEF CopiedInTime
  <2>3. SwiftIsLate => SwiftIsLate'
    BY LateStaysLate
  <2>4. Awaited(i, path)'
    BY <1>4, <2>1, <2>2, <2>3 DEF Awaited
  <2>5. QED
    BY <2>4 DEF Explained
<1>5. QED
  BY <1>2, <1>3, <1>4 DEF Explained

LEMMA WaitingCompilesStay ==
  ASSUME NEW new, NEW n, NEW files, Grows(new, n, files), CompilesWait, NEW i \in waiting
  PROVE  /\ makers'[i] # 0 /\ HasFiles(makers[i], "C")'
         /\ \A path \in invocations'[i].outputs : path[1] = "object"
<1>1. i \in Indices(invocations)
  BY DEF Grows
<1>2. /\ makers[i] # 0 /\ HasFiles(makers[i], "C")
      /\ \A path \in invocations[i].outputs : path[1] = "object"
  BY DEF CompilesWait
<1>3. makers'[i] = makers[i] /\ invocations'[i].outputs = invocations[i].outputs
  BY <1>1, OldStay
<1>4. HasFiles(makers[i], "C")'
  <2>1. buildPhases' = buildPhases
    BY DEF Grows
  <2>2. QED
    BY <1>2, <1>3, <2>1 DEF HasFiles
<1>5. QED
  BY <1>2, <1>3, <1>4

-----------------------------------------------------------------------------

\* What a phase adds to the modules and to what waits for them.
Waits(new) ==
  /\ waiting \subseteq waiting'
  /\ \A i \in waiting' :
       \/ i \in waiting
       \/ \E j \in Indices(new) :
            /\ i = Len(invocations) + j /\ HasFiles(number, "C")
            /\ \A path \in new[j].outputs : path[1] = "object"
  /\ \A arch \in swift' :
       \/ arch \in swift
       \/ /\ IsArchitecture(arch) /\ HasFiles(number, "Swift")
          /\ \E j \in Indices(new) : Module(arch) \in new[j].outputs

\* When all of a phase is resolved, what waits for Swift waits for files.
SwiftStep(new, files) ==
  /\ Waits(new)
  /\ files # {} =>
       Phase.type = "Sources" /\ number \notin unresolved' /\ files = {Artifact(arch) : arch \in swift'}
  /\ Phase.type = "Sources" /\ number \notin unresolved' =>
       \A arch \in swift' : \E j \in Indices(new) :
         Len(invocations) + j \notin waiting' /\ Artifact(arch) \in new[j].outputs
  /\ HasFiles(number, "Swift") /\ number \notin unresolved' =>
       \A a \in Indices(Architectures) : Architectures[a] \in swift'

\* A phase, resolved or not.
PhaseStep(new, files) ==
  /\ IInv /\ pc = "phases" /\ number \in Indices(buildPhases)
  /\ AddedBy(Phase, new) /\ Extended(new, number, files) /\ SwiftStep(new, files)
  /\ EndPhase(Phase)
  /\ unresolved \subseteq unresolved' /\ unresolved' \subseteq unresolved \cup {number}
  /\ UNCHANGED <<target, pc, buildPhases>>

LEMMA PhaseGrows ==
  ASSUME NEW new, NEW files, PhaseStep(new, files)
  PROVE  /\ Grows(new, number, files)
         /\ number \in Nat \ {0} /\ number' = number + 1 /\ number' - 1 = number
         /\ Len(invocations) \in Nat
         /\ \A i \in Indices(invocations) :
              /\ i \in 1..Len(invocations)
              /\ makers[i] \in 1..(number - 1) /\ makers[i] \in Indices(buildPhases)
         /\ \A i \in Indices(invocations') :
              i \in Indices(invocations) \/ \E j \in Indices(new) : Added(i, j, new, number, files)
<1>1. Typed /\ PrioritiesCount
  BY DEF PhaseStep, IInv
<1>2. /\ number \in Nat \ {0} /\ IsList(invocations)
      /\ unresolved \subseteq 0..(number - 1) /\ waiting \subseteq Indices(invocations)
      /\ \A i \in Indices(invocations) : makers[i] \in Nat
  BY <1>1 DEF Typed
<1>3. number' = number + 1 /\ number' - 1 = number
  BY <1>2 DEF PhaseStep, EndPhase
<1>4. Len(invocations) \in Nat
  BY <1>2 DEF IsList
<1>5. ASSUME NEW i \in Indices(invocations)
      PROVE  /\ i \in 1..Len(invocations)
             /\ makers[i] \in 1..(number - 1) /\ makers[i] \in Indices(buildPhases)
  <2>1. makers[i] # 0
    BY <1>1 DEF PrioritiesCount, PhaseStep
  <2>2. makers[i] \in Indices(buildPhases) /\ makers[i] < number
    BY <1>1, <2>1 DEF PrioritiesCount
  <2>3. makers[i] \in 1..(number - 1)
    BY <1>2, <2>1, <2>2
  <2>4. QED
    BY <2>2, <2>3 DEF Indices
<1>6. \A m \in 1..(number - 1) : m \in unresolved' <=> m \in unresolved
  <2>1. \A m \in 1..(number - 1) : m # number
    BY <1>2
  <2>2. QED
    BY <2>1 DEF PhaseStep
<1>7. ASSUME NEW i \in Indices(invocations) PROVE i \in waiting' <=> i \in waiting
  <2>1. SwiftStep(new, files)
    BY DEF PhaseStep
  <2>2. \A j \in Indices(new) : i # Len(invocations) + j
    <3>1. \A j \in Indices(new) : j \in Nat \ {0}
      BY DEF PhaseStep, AddedBy, IsList, Indices
    <3>2. QED
      BY <1>4, <1>5, <3>1
  <2>3. QED
    BY <2>1, <2>2 DEF SwiftStep, Waits
<1>8. Grows(new, number, files)
  <2>1. number <= number' /\ number' \in Nat
    BY <1>2, <1>3
  <2>2. QED
    BY <1>2, <1>4, <1>6, <1>7, <2>1 DEF Grows, PhaseStep
<1>9. \A i \in Indices(invocations') :
        i \in Indices(invocations) \/ \E j \in Indices(new) : Added(i, j, new, number, files)
  BY DEF PhaseStep, Extended
<1>10. QED
  BY <1>2, <1>3, <1>4, <1>5, <1>8, <1>9

LEMMA PhaseKeepsTypes ==
  ASSUME NEW new, NEW files, PhaseStep(new, files)
  PROVE  Selected' /\ Typed'
<1>1. Selected /\ Typed /\ pc = "phases"
  BY DEF PhaseStep, IInv
<1>2. Selected'
  BY <1>1 DEF Selected, PhaseStep
<1>3. /\ number \in Nat \ {0} /\ priority = number /\ insertionPoint \in 1..priority
      /\ unresolved \subseteq 0..(number - 1)
      /\ \A i \in Indices(invocations) : makers[i] \in Nat
  BY <1>1 DEF Typed
<1>4. /\ number' = number + 1 /\ priority' = priority + 1
      /\ insertionPoint' = IF Phase.type \in ProductPhases /\ priority' > insertionPoint
                           THEN priority' ELSE insertionPoint
  BY DEF PhaseStep, EndPhase, Increment
<1>5. number' \in Nat \ {0} /\ priority' = number' /\ insertionPoint' \in 1..priority'
  BY <1>3, <1>4
<1>6. unresolved' \subseteq 0..(number' - 1)
  BY <1>3, <1>4 DEF PhaseStep
<1>7. ASSUME NEW i \in Indices(invocations')
      PROVE  makers'[i] \in Nat /\ IsInvocation(invocations'[i])
  <2>1. CASE i \in Indices(invocations)
    BY <1>3, <2>1, PhaseGrows, OldStay
  <2>2. ASSUME NEW j \in Indices(new), Added(i, j, new, number, files)
        PROVE  makers'[i] \in Nat /\ IsInvocation(invocations'[i])
    BY <1>3, <2>2 DEF Added, IsStill
  <2>3. QED
    BY <2>1, <2>2, PhaseGrows
<1>8. waiting' \subseteq Indices(invocations')
  <2>1. SwiftStep(new, files) /\ waiting \subseteq Indices(invocations)
    BY <1>1 DEF PhaseStep, Typed
  <2>2. \A i \in Indices(invocations) : i \in Indices(invocations')
    BY PhaseGrows, OldStay
  <2>3. \A j \in Indices(new) : Len(invocations) + j \in Indices(invocations')
    BY DEF PhaseStep, Extended, Added
  <2>4. QED
    BY <2>1, <2>2, <2>3 DEF SwiftStep, Waits
<1>9. IsList(invocations') /\ IsList(makers') /\ Len(makers') = Len(invocations')
  BY DEF PhaseStep, Extended
<1>10. pc' \in {"select", "phases", "target", "created"}
  BY <1>1 DEF PhaseStep
<1>11. Typed'
  BY <1>5, <1>6, <1>7, <1>8, <1>9, <1>10 DEF Typed
<1>12. QED
  BY <1>2, <1>11

LEMMA PhaseKeepsPriorities ==
  ASSUME NEW new, NEW files, PhaseStep(new, files)
  PROVE  PrioritiesCount' /\ ProductIsBefore' /\ MakersInOrder' /\ TouchNeedsTheBundle'
<1>1. Typed /\ PrioritiesCount /\ ProductIsBefore /\ MakersInOrder
  BY DEF PhaseStep, IInv
<1>2. /\ number \in Nat \ {0} /\ priority = number /\ insertionPoint \in 1..priority
  BY <1>1 DEF Typed
<1>3. /\ number' = number + 1 /\ priority' = priority + 1 /\ buildPhases' = buildPhases
      /\ insertionPoint' = IF Phase.type \in ProductPhases /\ priority' > insertionPoint
                           THEN priority' ELSE insertionPoint
  BY DEF PhaseStep, EndPhase, Increment
<1>4. ASSUME NEW i \in Indices(invocations')
      PROVE  /\ makers'[i] # 0 /\ makers'[i] \in Indices(buildPhases) /\ makers'[i] < number'
             /\ invocations'[i].priority = makers'[i]
             /\ buildPhases[makers'[i]].type \in ProductPhases \cup {"ShellScript"}
  <2>1. CASE i \in Indices(invocations)
    <3>1. makers'[i] = makers[i] /\ invocations'[i].priority = invocations[i].priority
      BY <2>1, PhaseGrows, OldStay
    <3>2. makers[i] \in 1..(number - 1) /\ makers[i] \in Indices(buildPhases)
      BY <2>1, PhaseGrows
    <3>3. makers[i] # 0 /\ makers[i] < number'
      BY <1>2, <1>3, <3>2
    <3>4. /\ invocations[i].priority = makers[i]
          /\ buildPhases[makers[i]].type \in ProductPhases \cup {"ShellScript"}
      BY <1>1, <2>1, <3>3 DEF PrioritiesCount
    <3>5. QED
      BY <3>1, <3>2, <3>3, <3>4
  <2>2. ASSUME NEW j \in Indices(new), Added(i, j, new, number, files)
        PROVE  /\ makers'[i] = number /\ invocations'[i].priority = number
               /\ Phase.type \in ProductPhases \cup {"ShellScript"}
    <3>1. makers'[i] = number /\ invocations'[i].priority = new[j].priority
      BY <2>2 DEF Added, IsStill
    <3>2. new[j].priority = priority /\ Phase.type \in ProductPhases \cup {"ShellScript"}
      BY DEF PhaseStep, AddedBy
    <3>3. QED
      BY <1>2, <3>1, <3>2
  <2>3. number # 0 /\ number < number' /\ number \in Indices(buildPhases)
    BY <1>2, <1>3 DEF PhaseStep
  <2>4. QED
    BY <2>1, <2>2, <2>3, PhaseGrows DEF Phase
<1>5. PrioritiesCount'
  BY <1>3, <1>4 DEF PrioritiesCount
<1>6. ProductIsBefore'
  <2>1. ASSUME NEW n \in 1..number, buildPhases[n].type \in ProductPhases
        PROVE  n < insertionPoint'
    <3>1. CASE n = number
      BY <1>2, <1>3, <2>1, <3>1 DEF Phase
    <3>2. CASE n # number
      <4>1. n \in 1..(number - 1)
        BY <1>2, <3>2
      <4>2. n < insertionPoint
        BY <1>1, <2>1, <4>1 DEF ProductIsBefore
      <4>3. QED
        BY <1>2, <1>3, <4>2
    <3>3. QED
      BY <3>1, <3>2
  <2>2. number' - 1 = number
    BY <1>2, <1>3
  <2>3. QED
    BY <1>3, <2>1, <2>2 DEF ProductIsBefore
<1>7. MakersInOrder'
  <2>1. ASSUME NEW i \in Indices(invocations'), NEW k \in Indices(invocations'), i < k
        PROVE  0 < makers'[i] /\ makers'[i] <= makers'[k]
    <3>1. CASE i \in Indices(invocations) /\ k \in Indices(invocations)
      <4>1. makers'[i] = makers[i] /\ makers'[k] = makers[k]
        BY <3>1, PhaseGrows, OldStay
      <4>2. makers[k] # 0
        BY <1>2, <3>1, PhaseGrows
      <4>3. QED
        BY <1>1, <2>1, <3>1, <4>1, <4>2 DEF MakersInOrder
    <3>2. ASSUME i \in Indices(invocations), NEW j \in Indices(new), Added(k, j, new, number, files)
          PROVE  0 < makers'[i] /\ makers'[i] <= makers'[k]
      <4>1. makers'[i] \in 1..(number - 1) /\ makers'[k] = number
        BY <3>2, PhaseGrows, OldStay DEF Added
      <4>2. QED
        BY <1>2, <4>1
    <3>3. ASSUME NEW j \in Indices(new), Added(i, j, new, number, files),
                 NEW l \in Indices(new), Added(k, l, new, number, files)
          PROVE  0 < makers'[i] /\ makers'[i] <= makers'[k]
      <4>1. makers'[i] = number /\ makers'[k] = number
        BY <3>3 DEF Added
      <4>2. QED
        BY <1>2, <4>1
    <3>4. ASSUME NEW j \in Indices(new), Added(i, j, new, number, files), k \in Indices(invocations)
          PROVE  FALSE
      <4>1. i = Len(invocations) + j /\ k \in 1..Len(invocations) /\ Len(invocations) \in Nat
        BY <3>4, PhaseGrows DEF Added
      <4>2. j \in Nat
        BY DEF PhaseStep, AddedBy, IsList, Indices
      <4>3. QED
        BY <2>1, <4>1, <4>2
    <3>5. QED
      BY <3>1, <3>2, <3>3, <3>4, PhaseGrows
  <2>2. QED
    BY <2>1 DEF MakersInOrder
<1>8. TouchNeedsTheBundle'
  BY <1>4 DEF TouchNeedsTheBundle, OfTarget
<1>9. QED
  BY <1>5, <1>6, <1>7, <1>8

LEMMA PhaseKeepsSwift ==
  ASSUME NEW new, NEW files, PhaseStep(new, files)
  PROVE  CompilesWait' /\ ModulesAreMade' /\ CopiesAreMade'
<1>1. /\ CompilesWait /\ ModulesAreMade /\ CopiesAreMade /\ SwiftStep(new, files)
  BY DEF PhaseStep, IInv
<1>2. /\ Grows(new, number, files) /\ number \in Nat \ {0} /\ number' - 1 = number
  BY PhaseGrows
<1>3. buildPhases' = buildPhases
  BY DEF PhaseStep
<1>4. CompilesWait'
  <2>1. ASSUME NEW i \in waiting'
        PROVE  /\ makers'[i] # 0 /\ HasFiles(makers[i], "C")'
               /\ \A path \in invocations'[i].outputs : path[1] = "object"
    <3>1. CASE i \in waiting
      BY <1>1, <1>2, <3>1, WaitingCompilesStay
    <3>2. ASSUME NEW j \in Indices(new), i = Len(invocations) + j, HasFiles(number, "C"),
                 \A path \in new[j].outputs : path[1] = "object"
          PROVE  /\ makers'[i] # 0 /\ HasFiles(makers[i], "C")'
                 /\ \A path \in invocations'[i].outputs : path[1] = "object"
      <4>1. Added(i, j, new, number, files)
        BY <1>2, <3>2 DEF Grows, Extended
      <4>2. makers'[i] = number /\ invocations'[i].outputs = new[j].outputs
        BY <4>1 DEF Added, IsStill
      <4>3. HasFiles(makers[i], "C")'
        BY <1>3, <3>2, <4>2 DEF HasFiles
      <4>4. QED
        BY <1>2, <3>2, <4>2, <4>3
    <3>3. QED
      BY <1>1, <3>1, <3>2 DEF SwiftStep, Waits
  <2>2. QED
    BY <2>1 DEF CompilesWait
<1>5. ModulesAreMade'
  <2>1. \A arch \in swift' : IsArchitecture(arch) /\ Module(arch) \in MadeSoFar'
    <3>1. \A arch \in swift : IsArchitecture(arch) /\ Module(arch) \in MadeSoFar'
      BY <1>1, <1>2, MadeStays DEF ModulesAreMade
    <3>2. \A j \in Indices(new) : new[j].outputs \subseteq MadeSoFar'
      BY <1>2, MadeStays
    <3>3. QED
      BY <1>1, <3>1, <3>2 DEF SwiftStep, Waits
  <2>2. swift' # {} => \E l \in 1..number : HasFiles(l, "Swift")'
    <3>1. swift # {} => \E l \in 1..number : HasFiles(l, "Swift")
      <4>1. \A l \in 1..(number - 1) : l \in 1..number
        BY <1>2
      <4>2. QED
        BY <1>1, <4>1 DEF ModulesAreMade
    <3>2. swift' # {} => swift # {} \/ HasFiles(number, "Swift")
      BY <1>1 DEF SwiftStep, Waits
    <3>3. number \in 1..number
      BY <1>2
    <3>4. QED
      BY <1>2, <3>1, <3>2, <3>3, PhasesStay
  <2>3. QED
    BY <1>2, <2>1, <2>2 DEF ModulesAreMade, IsArchitecture, Module
<1>6. ASSUME NEW n \in 1..number, CopiesSwift(n)'
      PROVE  CopiedBy(n)'
  <2>1. CASE n # number
    <3>1. n \in 1..(number - 1)
      BY <1>2, <2>1
    <3>2. CopiesSwift(n)
      BY <1>2, <1>6, <3>1, PhasesStay
    <3>3. CopiedBy(n)
      BY <1>1, <3>1, <3>2 DEF CopiesAreMade
    <3>4. QED
      BY <1>2, <3>3, CopiedByStays
  <2>2. CASE n = number
    <3>1. HasFiles(number, "Swift") /\ number \notin unresolved'
      BY <1>3, <1>6, <2>2 DEF CopiesSwift, HasFiles
    <3>2. Phase.type = "Sources"
      BY <3>1 DEF HasFiles, Phase
    <3>3. SUFFICES ASSUME NEW a \in Indices(Architectures)
                   PROVE  \E m \in Indices(invocations') \ waiting' :
                            /\ makers'[m] \in 1..n
                            /\ Artifact(Architectures[a])' \in invocations'[m].outputs
      BY DEF CopiedBy
    <3>4. Architectures[a] \in swift'
      BY <1>1, <3>1 DEF SwiftStep, Waits
    <3>5. PICK j \in Indices(new) : /\ Len(invocations) + j \notin waiting'
                                   /\ Artifact(Architectures[a]) \in new[j].outputs
      BY <1>1, <3>1, <3>2, <3>4 DEF SwiftStep, Waits
    <3>6. PICK m : m = Len(invocations) + j
      OBVIOUS
    <3>7. Added(m, j, new, number, files)
      BY <1>2, <3>6 DEF Grows, Extended
    <3>8. /\ m \in Indices(invocations') /\ makers'[m] = number
          /\ invocations'[m].outputs = new[j].outputs
      BY <3>7 DEF Added, IsStill
    <3>9. Artifact(Architectures[a])' = Artifact(Architectures[a])
      BY <1>2, PhasesStay
    <3>10. number \in 1..n
      BY <1>2, <2>2
    <3>11. QED
      BY <3>5, <3>6, <3>8, <3>9, <3>10
  <2>3. QED
    BY <2>1, <2>2
<1>7. CopiesAreMade'
  BY <1>2, <1>6 DEF CopiesAreMade
<1>8. QED
  BY <1>4, <1>5, <1>7

\* What waits since an earlier phase waits for copies of its own time, or of
\* Swift that comes late.
LEMMA OldWaitForFiles ==
  ASSUME NEW new, NEW files, PhaseStep(new, files),
         NEW i \in waiting, NEW path \in files
  PROVE  CopiedInTime(i, path)' \/ SwiftIsLate'
<1>1. /\ Typed /\ CompilesWait /\ ModulesAreMade /\ CopiesAreMade /\ SwiftStep(new, files)
  BY DEF PhaseStep, IInv
<1>2. /\ Grows(new, number, files) /\ number \in Nat \ {0} /\ number' = number + 1
      /\ buildPhases' = buildPhases
  BY PhaseGrows DEF PhaseStep
<1>3. /\ Phase.type = "Sources" /\ number \notin unresolved'
      /\ files = {Artifact(arch) : arch \in swift'}
  BY <1>1 DEF SwiftStep, Waits
<1>4. PICK arch \in swift' : path = Artifact(arch)
  BY <1>3
<1>5. IsArchitecture(arch)
  BY <1>1, <1>4 DEF SwiftStep, Waits, ModulesAreMade
<1>6. PICK a \in Indices(Architectures) : path = Artifact(Architectures[a])
  BY <1>4, <1>5 DEF IsArchitecture
<1>7. i \in Indices(invocations) /\ HasFiles(makers[i], "C")
  BY <1>1 DEF Typed, CompilesWait
<1>8. PICK n \in 1..(number - 1) : n = makers[i] /\ n \in Indices(buildPhases)
  BY <1>7, PhaseGrows
<1>9. HasFiles(n, "C")
  BY <1>7, <1>8
<1>10. ASSUME NEW l \in 1..n, CopiesSwift(l)
       PROVE  CopiedInTime(i, path)'
  <2>1. l \in 1..(number - 1)
    BY <1>2, <1>8
  <2>2. CopiedBy(l)
    BY <1>1, <1>10, <2>1 DEF CopiesAreMade
  <2>3. PICK m \in Indices(invocations) \ waiting :
          makers[m] \in 1..l /\ path \in invocations[m].outputs
    BY <1>6, <2>2 DEF CopiedBy
  <2>4. /\ m \in Indices(invocations') /\ m \notin waiting' /\ makers'[m] = makers[m]
        /\ invocations'[m].outputs = invocations[m].outputs /\ makers'[i] = makers[i]
    BY <1>2, <1>7, <2>3, OldStay
  <2>5. 0 < makers[m] /\ makers[m] <= makers[i]
    BY <1>8, <2>3
  <2>6. QED
    BY <2>3, <2>4, <2>5 DEF CopiedInTime
<1>11. ASSUME \A l \in 1..n : ~CopiesSwift(l)
       PROVE  SwiftIsLate'
  <2>1. \A l \in 1..n : ~CopiesSwift(l)'
    <3>1. \A l \in 1..n : l \in 1..(number - 1)
      BY <1>2, <1>8
    <3>2. QED
      BY <1>2, <1>11, <3>1, PhasesStay
  <2>2. n \in Positions(buildPhases, "Sources") /\ number \in Positions(buildPhases, "Sources")
    BY <1>3, <1>8, <1>9 DEF Positions, HasFiles, Phase, PhaseStep, Indices
  <2>3. \E l \in 1..number : HasFiles(l, "Swift")
    <3>1. CASE HasFiles(number, "Swift")
      BY <1>2, <3>1
    <3>2. CASE arch \in swift
      <4>1. PICK l \in 1..(number - 1) : HasFiles(l, "Swift")
        BY <1>1, <3>2 DEF ModulesAreMade
      <4>2. l \in 1..number
        BY <1>2
      <4>3. QED
        BY <4>1, <4>2
    <3>3. QED
      BY <1>1, <1>4, <3>1, <3>2 DEF SwiftStep, Waits
  <2>4. HasFiles(n, "C")' /\ \E l \in 1..number : HasFiles(l, "Swift")'
    BY <1>2, <1>9, <2>3, PhasesStay
  <2>5. n < number /\ number < number'
    BY <1>2, <1>8
  <2>6. QED
    BY <1>2, <1>3, <2>1, <2>2, <2>4, <2>5 DEF SwiftIsLate
<1>12. QED
  BY <1>10, <1>11

\* What waits since this phase waits for its copies.
LEMMA NewWaitForFiles ==
  ASSUME NEW new, NEW files, PhaseStep(new, files), NEW i \in Indices(invocations'),
         makers'[i] = number, NEW path \in files
  PROVE  CopiedInTime(i, path)'
<1>1. SwiftStep(new, files) /\ Extended(new, number, files) /\ number \in Nat \ {0}
  BY PhaseGrows DEF PhaseStep
<1>2. PICK arch \in swift' : path = Artifact(arch)
  BY <1>1 DEF SwiftStep, Waits
<1>3. PICK j \in Indices(new) : Len(invocations) + j \notin waiting' /\ path \in new[j].outputs
  BY <1>1, <1>2 DEF SwiftStep, Waits
<1>4. PICK m : m = Len(invocations) + j
  OBVIOUS
<1>5. Added(m, j, new, number, files)
  BY <1>1, <1>4 DEF Extended
<1>6. /\ m \in Indices(invocations') \ waiting' /\ makers'[m] = number
      /\ path \in invocations'[m].outputs
  BY <1>3, <1>4, <1>5 DEF Added, IsStill
<1>7. 0 < makers'[m] /\ makers'[m] <= makers'[i]
  BY <1>1, <1>6
<1>8. QED
  BY <1>6, <1>7 DEF CopiedInTime

LEMMA PhaseKeepsNeeds ==
  ASSUME NEW new, NEW files, PhaseStep(new, files)
  PROVE  NeedsAreExplained'
<1>1. /\ NeedsAreExplained /\ pc = "phases" /\ SwiftStep(new, files) /\ AddedBy(Phase, new)
  BY DEF PhaseStep, IInv
<1>2. /\ Grows(new, number, files) /\ number \in Nat \ {0} /\ Len(invocations) \in Nat
      /\ buildPhases' = buildPhases /\ target' = target
  BY PhaseGrows DEF PhaseStep
<1>3. \A path \in files : path[1] # "object"
  <2>1. \A path \in files : \E arch : path = Artifact(arch)
    BY <1>1 DEF SwiftStep, Waits
  <2>2. \A arch : Artifact(arch)[1] # "object"
    BY DEF Artifact
  <2>3. QED
    BY <2>1, <2>2
<1>4. ASSUME NEW i \in Indices(invocations), NEW path \in Needs(invocations'[i])
      PROVE  Explained(i, path)'
  <2>1. path \in Needs(invocations[i]) \/ (i \in waiting' /\ path \in files)
    BY <1>2, <1>4 DEF Grows, Extended, Kept, IsStill
  <2>2. CASE path \in Needs(invocations[i])
    <3>1. Explained(i, path)
      BY <1>1, <2>2 DEF NeedsAreExplained
    <3>2. QED
      BY <1>1, <1>2, <3>1, ExplanationsStay
  <2>3. CASE i \in waiting' /\ path \in files
    <3>1. i \in waiting
      BY <1>2, <2>3 DEF Grows
    <3>2. CopiedInTime(i, path)' \/ SwiftIsLate'
      BY <2>3, <3>1, OldWaitForFiles
    <3>3. Awaited(i, path)'
      BY <1>3, <2>3, <3>2 DEF Awaited
    <3>4. QED
      BY <3>3 DEF Explained
  <2>4. QED
    BY <2>1, <2>2, <2>3
<1>5. ASSUME NEW i, NEW j \in Indices(new), Added(i, j, new, number, files),
             NEW path \in Needs(invocations'[i])
      PROVE  Explained(i, path)'
  <2>1. /\ i = Len(invocations) + j /\ i \in Indices(invocations') /\ makers'[i] = number
        /\ path \in Needs(new[j]) \/ (i \in waiting' /\ path \in files)
    BY <1>5 DEF Added, IsStill
  <2>2. CASE i \in waiting' /\ path \in files
    <3>1. CopiedInTime(i, path)'
      BY <2>1, <2>2, NewWaitForFiles
    <3>2. Awaited(i, path)'
      BY <1>3, <2>2, <3>1 DEF Awaited
    <3>3. QED
      BY <3>2 DEF Explained
  <2>3. CASE path \in Needs(new[j])
    <3>1. NeedOf(Phase, new, j, path)
      BY <1>1, <2>3 DEF AddedBy
    <3>2. CASE path \in NamedBy(Phase)
      <4>1. path \in Named(makers[i])'
        BY <1>2, <2>1, <3>2 DEF Named, Phase
      <4>2. QED
        BY <4>1 DEF Explained
    <3>3. CASE path \notin NamedBy(Phase)
      <4>1. /\ Phase.type = "Sources" => path[1] # "object"
            /\ path \in MadeSoFar \/ \E l \in 1..(j - 1) : path \in new[l].outputs
        BY <3>1, <3>3 DEF NeedOf
      <4>2. j \in Nat \ {0} /\ \A l \in 1..(j - 1) : l \in Indices(new)
        BY <1>1 DEF AddedBy, IsList, Indices
      <4>3. \E m \in 1..(i - 1) : path \in invocations'[m].outputs
        <5>1. CASE path \in MadeSoFar
          <6>1. PICK m \in Indices(invocations) : path \in invocations[m].outputs
            BY <5>1 DEF MadeSoFar
          <6>2. path \in invocations'[m].outputs
            BY <1>2, <6>1, OldStay
          <6>3. m \in 1..Len(invocations)
            BY <6>1 DEF Indices
          <6>4. m \in 1..(i - 1)
            BY <1>2, <2>1, <4>2, <6>3
          <6>5. QED
            BY <6>2, <6>4
        <5>2. ASSUME NEW l \in 1..(j - 1), path \in new[l].outputs
              PROVE  \E m \in 1..(i - 1) : path \in invocations'[m].outputs
          <6>1. PICK m : m = Len(invocations) + l
            OBVIOUS
          <6>2. Added(m, l, new, number, files)
            BY <1>2, <4>2, <6>1 DEF Grows, Extended
          <6>3. path \in invocations'[m].outputs
            BY <5>2, <6>2 DEF Added, IsStill
          <6>4. m \in 1..(i - 1)
            BY <1>2, <2>1, <4>2, <6>1
          <6>5. QED
            BY <6>3, <6>4
        <5>3. QED
          BY <4>1, <5>1, <5>2
      <4>4. IsOfPhase(i, {"Sources"})' => path[1] # "object"
        BY <1>2, <2>1, <4>1 DEF IsOfPhase, Phase
      <4>5. makers'[i] # 0
        BY <1>2, <2>1
      <4>6. MadeBefore(i, path)'
        BY <4>3, <4>4, <4>5 DEF MadeBefore
      <4>7. QED
        BY <4>6 DEF Explained
    <3>4. QED
      BY <3>2, <3>3
  <2>4. QED
    BY <2>1, <2>2, <2>3
<1>6. \A i \in Indices(invocations') :
        i \in Indices(invocations) \/ \E j \in Indices(new) : Added(i, j, new, number, files)
  BY PhaseGrows
<1>7. QED
  BY <1>4, <1>5, <1>6 DEF NeedsAreExplained

LEMMA PhaseIsSafe ==
  ASSUME NEW new, NEW files, PhaseStep(new, files)
  PROVE  IInv'
BY PhaseKeepsTypes, PhaseKeepsPriorities, PhaseKeepsSwift, PhaseKeepsNeeds DEF IInv

\* The phases of a target are records with lists of files.
LEMMA PhaseIsRecord ==
  ASSUME IInv, pc = "phases", number \in Indices(buildPhases)
  PROVE  IsPhaseRecord(Phase)
<1>1. target \in TargetDescriptions /\ buildPhases = BuildPhases(target)
  BY DEF IInv, Selected
<1>2. QED
  BY <1>1, PhaseInvocationsAssumption DEF IsPhaseRecord, Phase

\* The first n steps of a phase of sources.
StepsTaken(steps, n, new) ==
  /\ IInv /\ pc = "phases" /\ number \in Indices(buildPhases) /\ Phase.type = "Sources"
  /\ steps = Steps(Phase) /\ n \in 0..Len(steps)
  /\ waiting' = waiting \cup Waiting(steps, n) /\ swift' = swift \cup Modules(steps, n)
  /\ \A k \in 1..n : k \in Indices(new) /\ new[k] = Compile(steps[k])

LEMMA SourcesWait ==
  ASSUME NEW steps, NEW n, NEW new, StepsTaken(steps, n, new)
  PROVE  Waits(new)
<1>0. /\ Phase.type = "Sources" /\ steps = Steps(Phase) /\ n \in 0..Len(steps)
      /\ waiting' = waiting \cup Waiting(steps, n) /\ swift' = swift \cup Modules(steps, n)
      /\ \A k \in 1..n : k \in Indices(new) /\ new[k] = Compile(steps[k])
  BY DEF StepsTaken
<1>1. IsPhaseRecord(Phase)
  BY PhaseIsRecord DEF StepsTaken
<1>2. Len(steps) \in Nat /\ \A k \in 1..n : k \in 1..Len(steps)
  BY <1>0, <1>1, StepParts
<1>3. ASSUME NEW k \in 1..n, NEW kind \in {"C", "Swift"}, steps[k].kind = kind
      PROVE  IsArchitecture(steps[k].arch) /\ HasFiles(number, kind)
  <2>1. IsArchitecture(steps[k].arch) /\ \E g \in Indices(Phase.groups) : Phase.groups[g].kind = kind
    BY <1>0, <1>1, <1>2, <1>3, StepParts
  <2>2. QED
    BY <1>0, <2>1 DEF HasFiles, Phase
<1>4. ASSUME NEW i \in Waiting(steps, n)
      PROVE  \E j \in Indices(new) :
               /\ i = Len(invocations) + j /\ HasFiles(number, "C")
               /\ \A path \in new[j].outputs : path[1] = "object"
  <2>1. PICK k \in 1..n : i = Len(invocations) + k /\ steps[k].kind = "C"
    BY <1>4 DEF Waiting
  <2>2. \A path \in Compile(steps[k]).outputs : path[1] = "object"
    BY <2>1, CompileParts
  <2>3. QED
    BY <1>0, <1>3, <2>1, <2>2
<1>5. ASSUME NEW arch \in Modules(steps, n)
      PROVE  /\ IsArchitecture(arch) /\ HasFiles(number, "Swift")
             /\ \E j \in Indices(new) : Module(arch) \in new[j].outputs
  <2>1. PICK k \in 1..n : arch = steps[k].arch /\ steps[k].kind = "Swift"
    BY <1>5 DEF Modules
  <2>2. Module(arch) \in Compile(steps[k]).outputs
    BY <2>1, CompileParts
  <2>3. QED
    BY <1>0, <1>3, <2>1, <2>2
<1>6. QED
  BY <1>0, <1>4, <1>5 DEF Waits

LEMMA ResolvedSourcesAreSafe ==
  ASSUME IInv, ResolveSources
  PROVE  IInv'
<1> DEFINE steps == Steps(Phase)
           compiles == Compiles(steps, Len(steps))
           new == compiles \o CopySwiftModules(swift')
           files == Artifacts(swift')
<1>1. /\ pc = "phases" /\ number \in Indices(buildPhases) /\ Phase.type = "Sources"
      /\ swift' = swift \cup Modules(steps, Len(steps))
      /\ waiting' = waiting \cup Waiting(steps, Len(steps))
      /\ invocations' = Await(invocations \o new, waiting', files)
      /\ makers' = makers \o [i \in 1..Len(new) |-> number]
      /\ EndPhase(Phase) /\ UNCHANGED <<target, pc, buildPhases, unresolved>>
  BY DEF ResolveSources, IsPhase
<1>2. IsPhaseRecord(Phase)
  BY <1>1, PhaseIsRecord
<1>3. /\ Len(steps) \in Nat /\ Len(compiles) = Len(steps)
      /\ \A k \in 1..Len(steps) : compiles[k] = Compile(steps[k])
  <2>1. Len(steps) \in Nat
    BY <1>2, StepParts
  <2>2. Len(steps) \in 0..Len(steps)
    BY <2>1
  <2>3. QED
    BY <1>1, <1>2, <2>1, <2>2, CompilesAdded
<1>4. /\ Typed /\ ModulesAreMade
      /\ unresolved \subseteq 0..(number - 1) /\ number \in Nat \ {0}
      /\ IsList(invocations) /\ IsList(makers) /\ Len(makers) = Len(invocations)
      /\ \A i \in Indices(invocations) : IsInvocation(invocations[i])
      /\ waiting \subseteq Indices(invocations) /\ Len(invocations) \in Nat
  BY DEF IInv, Typed, IsList
<1>5. \A arch \in swift' : \/ Module(arch) \in MadeSoFar
                           \/ \E l \in Indices(compiles) : Module(arch) \in compiles[l].outputs
  <2>1. ASSUME NEW arch \in Modules(steps, Len(steps))
        PROVE  \E l \in Indices(compiles) : Module(arch) \in compiles[l].outputs
    <3>1. PICK k \in 1..Len(steps) : arch = steps[k].arch /\ steps[k].kind = "Swift"
      BY <2>1 DEF Modules
    <3>2. Module(arch) \in Compile(steps[k]).outputs
      BY <3>1, CompileParts
    <3>3. QED
      BY <1>3, <3>1, <3>2 DEF Indices
  <2>2. QED
    BY <1>1, <1>4, <2>1 DEF ModulesAreMade
<1> HIDE DEF steps, compiles
<1>6. /\ AddedBy(Phase, new)
      /\ \A l \in Indices(compiles) : l \in Indices(new) /\ new[l] = compiles[l]
      /\ swift' # {} => \E j \in Indices(new) :
                          j = Len(compiles) + 1 /\ new[j].outputs = Artifacts(swift')
  <2>1. PICK phase, archs, all : phase = Phase /\ archs = swift' /\ all = new
    OBVIOUS
  <2>2. ResolvedSources(phase, compiles, archs, all)
    BY <1>1, <1>2, <1>5, <2>1 DEF steps, compiles, ResolvedSources
  <2>3. /\ AddedBy(phase, all)
        /\ \A l \in Indices(compiles) : l \in Indices(all) /\ all[l] = compiles[l]
        /\ archs # {} => \E j \in Indices(all) :
                           j = Len(compiles) + 1 /\ all[j].outputs = Artifacts(archs)
    BY <2>2, SourcesAdded
  <2>4. QED
    BY <2>1, <2>3
<1> HIDE DEF new, files
<1>7. Extended(new, number, files)
  BY <1>1, <1>4, <1>6, Extends DEF AddedBy
<1>8. Waits(new)
  <2>1. PICK s : s = steps
    OBVIOUS
  <2>2. \A k \in 1..Len(s) : k \in Indices(new) /\ new[k] = Compile(s[k])
    BY <1>3, <1>6, <2>1 DEF Indices
  <2>3. s = Steps(Phase) /\ Len(s) \in 0..Len(s)
    BY <1>3, <2>1 DEF steps
  <2>4. waiting' = waiting \cup Waiting(s, Len(s)) /\ swift' = swift \cup Modules(s, Len(s))
    BY <1>1, <2>1
  <2>5. StepsTaken(s, Len(s), new)
    BY <1>1, <2>2, <2>3, <2>4 DEF StepsTaken
  <2>6. QED
    BY <2>5, SourcesWait
<1>9. ASSUME NEW arch \in swift'
      PROVE  \E j \in Indices(new) :
               Len(invocations) + j \notin waiting' /\ Artifact(arch) \in new[j].outputs
  <2>1. PICK j \in Indices(new) : j = Len(compiles) + 1 /\ new[j].outputs = Artifacts(swift')
    BY <1>6, <1>9
  <2>2. Artifact(arch) \in new[j].outputs
    BY <1>9, <2>1 DEF Artifacts
  <2>3. Len(invocations) + j \notin waiting
    BY <1>3, <1>4, <2>1 DEF Indices
  <2>4. Len(invocations) + j \notin Waiting(steps, Len(steps))
    BY <1>3, <1>4, <2>1 DEF Waiting
  <2>5. QED
    BY <1>1, <2>2, <2>3, <2>4
<1>10. ASSUME HasFiles(number, "Swift"), NEW a \in Indices(Architectures)
       PROVE  Architectures[a] \in swift'
  <2>1. PICK g \in Indices(Phase.groups) : Phase.groups[g].kind = "Swift"
    BY <1>10 DEF HasFiles, Phase
  <2>2. PICK k \in 1..Len(steps) : steps[k].kind = "Swift" /\ steps[k].arch = Architectures[a]
    BY <1>2, <2>1, StepParts DEF steps
  <2>3. QED
    BY <1>1, <2>2 DEF Modules
<1>11. number \notin unresolved'
  BY <1>1, <1>4
<1>12. SwiftStep(new, files)
  BY <1>1, <1>8, <1>9, <1>10, <1>11 DEF SwiftStep, files, Artifacts
<1>13. PhaseStep(new, files)
  BY <1>1, <1>6, <1>7, <1>12 DEF PhaseStep
<1>14. QED
  BY <1>13, PhaseIsSafe

LEMMA FailedSourcesAreSafe ==
  ASSUME IInv, FailSources
  PROVE  IInv'
<1>1. PICK steps : steps = Steps(Phase)
  OBVIOUS
<1>2. PICK n \in 0..Len(steps) :
        /\ pc = "phases" /\ number \in Indices(buildPhases) /\ Phase.type = "Sources"
        /\ swift' = swift \cup Modules(steps, n) /\ waiting' = waiting \cup Waiting(steps, n)
        /\ Add(Compiles(steps, n), number) /\ unresolved' = unresolved \cup {number}
        /\ EndPhase(Phase) /\ UNCHANGED <<target, pc, buildPhases>>
  BY <1>1 DEF FailSources, IsPhase
<1>3. PICK new : new = Compiles(steps, n)
  OBVIOUS
<1>4. AddedBy(Phase, new) /\ \A k \in 1..n : k \in Indices(new) /\ new[k] = Compile(steps[k])
  <2>1. IsPhaseRecord(Phase)
    BY <1>2, PhaseIsRecord
  <2>2. QED
    BY <1>1, <1>2, <1>3, <2>1, CompilesAdded DEF Indices
<1>5. Extended(new, number, {})
  <2>1. /\ IsList(invocations) /\ IsList(makers) /\ Len(makers) = Len(invocations)
        /\ \A i \in Indices(invocations) : IsInvocation(invocations[i])
    BY DEF IInv, Typed
  <2>2. invocations' = invocations \o new /\ makers' = makers \o [i \in 1..Len(new) |-> number]
    BY <1>2, <1>3 DEF Add
  <2>3. QED
    BY <1>4, <2>1, <2>2, Extends DEF AddedBy
<1>6. SwiftStep(new, {})
  <2>1. Waits(new)
    <3>1. StepsTaken(steps, n, new)
      BY <1>1, <1>2, <1>4 DEF StepsTaken
    <3>2. QED
      BY <3>1, SourcesWait
  <2>2. number \in unresolved'
    BY <1>2
  <2>3. QED
    BY <2>1, <2>2 DEF SwiftStep
<1>7. PhaseStep(new, {})
  BY <1>2, <1>4, <1>5, <1>6 DEF PhaseStep
<1>8. QED
  BY <1>7, PhaseIsSafe

LEMMA OtherPhasesAreSafe ==
  ASSUME IInv, ResolvePhase \/ FailPhase
  PROVE  IInv'
<1>1. /\ pc = "phases" /\ number \in Indices(buildPhases) /\ Phase.type \in OtherPhases
      /\ EndPhase(Phase) /\ UNCHANGED <<target, pc, buildPhases, swift, waiting>>
      /\ unresolved' = unresolved \/ unresolved' = unresolved \cup {number}
  BY DEF ResolvePhase, FailPhase, IsPhase
<1>2. Phase.type # "Sources"
  BY <1>1 DEF OtherPhases
<1>3. PICK new : /\ Add(new, number)
                 /\ new = InvocationsOf(Phase) \/ new \in FailedInvocationsOf(Phase)
  BY DEF ResolvePhase, FailPhase
<1>4. AddedBy(Phase, new)
  BY <1>1, <1>2, <1>3, PhaseIsRecord, PhasesAdd
<1>5. Extended(new, number, {})
  <2>1. /\ IsList(invocations) /\ IsList(makers) /\ Len(makers) = Len(invocations)
        /\ \A i \in Indices(invocations) : IsInvocation(invocations[i])
    BY DEF IInv, Typed
  <2>2. invocations' = invocations \o new /\ makers' = makers \o [i \in 1..Len(new) |-> number]
    BY <1>3 DEF Add
  <2>3. QED
    BY <1>4, <2>1, <2>2, Extends DEF AddedBy
<1>6. SwiftStep(new, {})
  <2>1. ~HasFiles(number, "Swift")
    BY <1>2 DEF HasFiles, Phase
  <2>2. QED
    BY <1>1, <1>2, <2>1 DEF SwiftStep, Waits
<1>7. PhaseStep(new, {})
  BY <1>1, <1>4, <1>5, <1>6 DEF PhaseStep
<1>8. QED
  BY <1>7, PhaseIsSafe

-----------------------------------------------------------------------------

Wrapper == <<"wrapper", "">>

\* What makes something of the target, of nothing but sources.
Plain(new) ==
  /\ IsList(new)
  /\ \A j \in Indices(new) :
       /\ IsInvocation(new[j]) /\ new[j].priority = insertionPoint
       /\ Needs(new[j]) \subseteq target.product.infoPlist
       /\ Executable \notin new[j].outputs /\ Wrapper \notin new[j].outputs

\* What ends the list of a target.
TargetList(new) ==
  /\ IsList(new)
  /\ \A j \in Indices(new) :
       /\ IsInvocation(new[j]) /\ new[j].priority = insertionPoint
       /\ Executable \notin new[j].outputs
       /\ \A path \in Needs(new[j]) :
            \/ path \in target.product.infoPlist
            \/ /\ InWrapper(path)
               /\ \/ path = Executable \/ path \in MadeSoFar
                  \/ \E l \in 1..(j - 1) : path \in new[l].outputs
       /\ Wrapper \in new[j].outputs =>
            /\ \A path \in MadeSoFar : InWrapper(path) => path \in Needs(new[j])
            /\ \A l \in Indices(new) \ {j} : \A path \in new[l].outputs :
                 InWrapper(path) => path \in Needs(new[j])

LEMMA NoneIsPlain == Plain(<< >>)
BY ShortLists DEF Plain, Indices

LEMMA OneIsPlain ==
  ASSUME NEW tool, IsInvocation(tool), tool.priority = insertionPoint,
         Needs(tool) \subseteq target.product.infoPlist,
         Executable \notin tool.outputs, Wrapper \notin tool.outputs
  PROVE  Plain(<<tool>>)
<1>1. IsList(<<tool>>) /\ \A j \in Indices(<<tool>>) : <<tool>>[j] = tool
  BY ShortLists DEF Indices
<1>2. QED
  BY <1>1 DEF Plain

LEMMA PlainJoined ==
  ASSUME NEW s, NEW r, Plain(s), Plain(r)
  PROVE  Plain(s \o r)
<1>1. PICK t : t = s \o r
  OBVIOUS
<1>2. Joined(s, r, t)
  BY <1>1 DEF Joined, Plain
<1>3. /\ IsList(t)
      /\ \A i \in Indices(s) : t[i] = s[i]
      /\ \A j \in Indices(r) : t[Len(s) + j] = r[j]
      /\ \A i \in Indices(t) : i \in Indices(s) \/ \E j \in Indices(r) : i = Len(s) + j
  BY <1>2, JoinedLists
<1>4. ASSUME NEW i \in Indices(t)
      PROVE  /\ IsInvocation(t[i]) /\ t[i].priority = insertionPoint
             /\ Needs(t[i]) \subseteq target.product.infoPlist
             /\ Executable \notin t[i].outputs /\ Wrapper \notin t[i].outputs
  <2>1. (\E k \in Indices(s) : t[i] = s[k]) \/ \E k \in Indices(r) : t[i] = r[k]
    BY <1>3
  <2>2. QED
    BY <2>1 DEF Plain
<1>5. Plain(t)
  BY <1>3, <1>4 DEF Plain
<1>6. QED
  BY <1>1, <1>5

LEMMA PlainEnds ==
  ASSUME NEW new, Plain(new)
  PROVE  TargetList(new)
BY DEF Plain, TargetList

LEMMA StructureIsPlain == Plain(Structure)
<1> DEFINE tool == [Tool({}, {<<"folder", "">>}, insertionPoint) EXCEPT !.createsProductStructure = TRUE]
<1>1. tool.priority = insertionPoint /\ tool.outputs = {<<"folder", "">>} /\ Needs(tool) = {}
  BY DEF Tool, Needs
<1>0. IsInvocation(tool)
  BY ToolParts, ChangedParts
<1>2. Structure = <<tool>> \/ Structure = << >>
  BY DEF Structure
<1> HIDE DEF tool
<1>3. Plain(<<tool>>)
  BY <1>0, <1>1, OneIsPlain DEF Executable, Wrapper
<1>4. QED
  BY <1>2, <1>3, NoneIsPlain

LEMMA InfoPlistIsPlain == Plain(InfoPlist)
<1> DEFINE tool == Tool(target.product.infoPlist, {<<"plist", "">>}, insertionPoint)
<1>0. IsInvocation(tool)
  BY ToolParts
<1>1. /\ tool.priority = insertionPoint /\ tool.outputs = {<<"plist", "">>}
      /\ Needs(tool) = target.product.infoPlist
  <2>1. PICK inputs, outputs : inputs = target.product.infoPlist /\ outputs = {<<"plist", "">>}
    OBVIOUS
  <2>2. tool = Tool(inputs, outputs, insertionPoint)
    BY <2>1
  <2> HIDE DEF tool
  <2>3. tool.priority = insertionPoint /\ tool.outputs = outputs /\ Needs(tool) = inputs
    BY <2>2, ToolParts
  <2>4. QED
    BY <2>1, <2>3
<1>2. InfoPlist = <<tool>> \/ InfoPlist = << >>
  BY DEF InfoPlist
<1> HIDE DEF tool
<1>3. Plain(<<tool>>)
  BY <1>0, <1>1, OneIsPlain DEF Executable, Wrapper
<1>4. QED
  BY <1>2, <1>3, NoneIsPlain

LEMMA TouchEnds ==
  ASSUME IsList(invocations), NEW before, Plain(before)
  PROVE  TargetList(before \o Touch(invocations \o before))
<1>1. PICK s, all, last, new :
        /\ s = invocations /\ all = invocations \o before
        /\ last = Touch(all) /\ new = before \o last
  OBVIOUS
<1>2. /\ Joined(s, before, all) /\ IsList(before)
  BY <1>1 DEF Joined, Plain
<1> DEFINE touch == [Tool({}, {<<"wrapper", "">>}, insertionPoint)
                       EXCEPT !.inputDependencies = WrapperOutputs(all)]
<1>3. touch.priority = insertionPoint /\ touch.outputs = {Wrapper} /\ Needs(touch) = WrapperOutputs(all)
  BY DEF Tool, Needs, Wrapper
<1>0. IsInvocation(touch)
  BY ToolParts, ChangedParts
<1>4. last = <<touch>>
  BY <1>1 DEF Touch
<1> HIDE DEF touch
<1>5. IsList(last) /\ last[1] = touch /\ Len(last) = 1
  BY <1>4, ShortLists
<1>6. Joined(before, last, new)
  BY <1>1, <1>2, <1>5 DEF Joined
<1>7. /\ IsList(new) /\ Len(before) \in Nat
      /\ \A i \in Indices(before) : new[i] = before[i]
      /\ \A j \in Indices(last) : new[Len(before) + j] = last[j]
      /\ \A i \in Indices(new) : i \in Indices(before) \/ \E j \in Indices(last) : i = Len(before) + j
  BY <1>6, JoinedLists
<1>8. /\ \A i \in Indices(s) : i \in Indices(all) /\ all[i] = s[i]
      /\ \A j \in Indices(before) : Len(s) + j \in Indices(all) /\ all[Len(s) + j] = before[j]
      /\ \A i \in Indices(all) : i \in Indices(s) \/ \E j \in Indices(before) : i = Len(s) + j
  BY <1>2, JoinedLists
<1>9. \A i \in Indices(new) : i \in Indices(before) \/ (i = Len(before) + 1 /\ new[i] = touch)
  <2>1. \A j \in Indices(last) : j = 1
    BY <1>5 DEF Indices
  <2>2. QED
    BY <1>5, <1>7, <2>1
<1>10. \A path : path \in WrapperOutputs(all) <=>
         /\ InWrapper(path)
         /\ path \in MadeSoFar \/ \E l \in Indices(before) : path \in before[l].outputs
  <2>1. \A path : (\E i \in Indices(all) : path \in all[i].outputs) <=>
          \/ \E i \in Indices(s) : path \in s[i].outputs
          \/ \E l \in Indices(before) : path \in before[l].outputs
    BY <1>8
  <2>2. \A path : path \in MadeSoFar <=> \E i \in Indices(s) : path \in s[i].outputs
    BY <1>1 DEF MadeSoFar
  <2>3. \A path : path \in WrapperOutputs(all) <=>
          InWrapper(path) /\ \E i \in Indices(all) : path \in all[i].outputs
    BY DEF WrapperOutputs
  <2>4. QED
    BY <2>1, <2>2, <2>3
<1>11. ASSUME NEW j \in Indices(new)
       PROVE  /\ IsInvocation(new[j]) /\ new[j].priority = insertionPoint
              /\ Executable \notin new[j].outputs
              /\ \A path \in Needs(new[j]) :
                   \/ path \in target.product.infoPlist
                   \/ /\ InWrapper(path)
                      /\ \/ path \in MadeSoFar
                         \/ \E l \in 1..(j - 1) : path \in new[l].outputs
              /\ Wrapper \in new[j].outputs =>
                   /\ \A path \in MadeSoFar : InWrapper(path) => path \in Needs(new[j])
                   /\ \A l \in Indices(new) \ {j} : \A path \in new[l].outputs :
                        InWrapper(path) => path \in Needs(new[j])
  <2>1. CASE j \in Indices(before)
    BY <1>7, <2>1 DEF Plain
  <2>2. CASE j = Len(before) + 1 /\ new[j] = touch
    <3>1. Executable # Wrapper
      BY DEF Executable, Wrapper
    <3>2. \A l \in Indices(before) : l \in 1..(j - 1) /\ new[l] = before[l]
      BY <1>7, <2>2 DEF Indices
    <3>3. \A l \in Indices(new) \ {j} : l \in Indices(before)
      BY <1>9, <2>2
    <3>4. /\ IsInvocation(new[j]) /\ new[j].priority = insertionPoint
          /\ Executable \notin new[j].outputs
      BY <1>0, <1>3, <2>2, <3>1
    <3>5. \A path : path \in Needs(new[j]) <=>
            /\ InWrapper(path)
            /\ path \in MadeSoFar \/ \E l \in Indices(before) : path \in before[l].outputs
      BY <1>3, <1>10, <2>2
    <3>6. \A path \in Needs(new[j]) :
            /\ InWrapper(path)
            /\ path \in MadeSoFar \/ \E l \in 1..(j - 1) : path \in new[l].outputs
      BY <3>2, <3>5
    <3>7. \A l \in Indices(new) \ {j} : \A path \in new[l].outputs :
            InWrapper(path) => path \in Needs(new[j])
      BY <3>2, <3>3, <3>5
    <3>8. QED
      BY <3>4, <3>5, <3>6, <3>7
  <2>3. QED
    BY <1>9, <2>1, <2>2
<1>12. TargetList(new)
  BY <1>7, <1>11 DEF TargetList
<1>13. QED
  BY <1>1, <1>12

LEMMA SwiftEnds ==
  ASSUME NEW new, TargetList(new)
  PROVE  TargetList(new \o SwiftLibraries)
<1> DEFINE tool == Tool({Executable}, {}, insertionPoint)
<1>1. /\ IsInvocation(tool) /\ tool.priority = insertionPoint /\ tool.outputs = {}
      /\ Needs(tool) = {Executable}
  BY ToolParts
<1>0. InWrapper(Executable)
  BY DEF InWrapper, Executable
<1>2. PICK last, all : last = SwiftLibraries /\ all = new \o last
  OBVIOUS
<1>3. last = <<tool>> \/ last = << >>
  BY <1>2 DEF SwiftLibraries
<1> HIDE DEF tool
<1>4. IsList(last) /\ \A j \in Indices(last) : last[j] = tool
  BY <1>3, ShortLists DEF Indices
<1>5. Joined(new, last, all)
  BY <1>2, <1>4 DEF Joined, TargetList
<1>6. /\ IsList(all) /\ Len(new) \in Nat
      /\ \A i \in Indices(new) : all[i] = new[i]
      /\ \A i \in Indices(all) : i \in Indices(new) \/ all[i] = tool
  <2>1. /\ IsList(all) /\ Len(new) \in Nat
        /\ \A i \in Indices(new) : all[i] = new[i]
        /\ \A j \in Indices(last) : all[Len(new) + j] = last[j]
        /\ \A i \in Indices(all) : i \in Indices(new) \/ \E j \in Indices(last) : i = Len(new) + j
    BY <1>5, JoinedLists
  <2>2. QED
    BY <1>4, <2>1
<1>7. ASSUME NEW j \in Indices(all)
      PROVE  /\ IsInvocation(all[j]) /\ all[j].priority = insertionPoint
             /\ Executable \notin all[j].outputs
             /\ \A path \in Needs(all[j]) :
                  \/ path \in target.product.infoPlist
                  \/ /\ InWrapper(path)
                     /\ \/ path = Executable \/ path \in MadeSoFar
                        \/ \E l \in 1..(j - 1) : path \in all[l].outputs
             /\ Wrapper \in all[j].outputs =>
                  /\ \A path \in MadeSoFar : InWrapper(path) => path \in Needs(all[j])
                  /\ \A l \in Indices(all) \ {j} : \A path \in all[l].outputs :
                       InWrapper(path) => path \in Needs(all[j])
  <2>1. CASE all[j] = tool
    BY <1>0, <1>1, <2>1
  <2>2. CASE j \in Indices(new)
    <3>1. all[j] = new[j] /\ \A l \in 1..(j - 1) : all[l] = new[l]
      <4>1. \A l \in 1..(j - 1) : l \in Indices(new)
        BY <1>6, <2>2 DEF Indices
      <4>2. QED
        BY <1>6, <2>2, <4>1
    <3>2. \A l \in Indices(all) : \A path \in all[l].outputs :
            l \in Indices(new) /\ path \in new[l].outputs
      BY <1>1, <1>6
    <3>3. QED
      BY <2>2, <3>1, <3>2 DEF TargetList
  <2>3. QED
    BY <1>6, <2>1, <2>2
<1>8. TargetList(all)
  BY <1>6, <1>7 DEF TargetList
<1>9. QED
  BY <1>2, <1>8

LEMMA ProductEnds ==
  ASSUME IsList(invocations)
  PROVE  TargetList(FinishProduct)
<1>1. PICK before : before = Structure \o InfoPlist
  OBVIOUS
<1>2. Plain(before)
  BY <1>1, StructureIsPlain, InfoPlistIsPlain, PlainJoined
<1>3. \/ FinishProduct = before \o Touch(invocations \o before)
      \/ FinishProduct = before \o << >>
  BY <1>1 DEF FinishProduct
<1>4. TargetList(before \o Touch(invocations \o before))
  BY <1>2, TouchEnds
<1>5. TargetList(before \o << >>)
  BY <1>2, NoneIsPlain, PlainJoined, PlainEnds
<1>6. QED
  BY <1>3, <1>4, <1>5

\* What ends the list of a target, all of it or what there are tools for.
TargetStep(new) ==
  /\ IInv /\ pc = "target" /\ TargetList(new) /\ Extended(new, 0, {}) /\ pc' = "created"
  /\ unresolved \subseteq unresolved' /\ unresolved' \subseteq unresolved \cup {0}
  /\ UNCHANGED <<target, buildPhases, number, priority, insertionPoint, swift, waiting>>

LEMMA TargetGrows ==
  ASSUME NEW new, TargetStep(new)
  PROVE  /\ Grows(new, 0, {}) /\ number \in Nat \ {0} /\ Len(invocations) \in Nat
         /\ \A i \in Indices(invocations) : i \in 1..Len(invocations) /\ makers[i] \in Nat \ {0}
         /\ \A j \in Indices(new) : j \in Nat \ {0}
         /\ \A i \in Indices(invocations') :
              \/ i \in Indices(invocations)
              \/ \E j \in Indices(new) :
                   /\ i = Len(invocations) + j /\ makers'[i] = 0
                   /\ invocations'[i].priority = new[j].priority
                   /\ invocations'[i].outputs = new[j].outputs
                   /\ IsInvocation(invocations'[i]) /\ Needs(invocations'[i]) = Needs(new[j])
<1>1. Typed /\ PrioritiesCount
  BY DEF TargetStep, IInv
<1>2. /\ number \in Nat \ {0} /\ IsList(invocations) /\ Len(invocations) \in Nat
      /\ waiting \subseteq Indices(invocations)
      /\ \A i \in Indices(invocations) : makers[i] \in Nat
  BY <1>1 DEF Typed, IsList
<1>3. \A i \in Indices(invocations) : i \in 1..Len(invocations) /\ makers[i] \in Nat \ {0}
  <2>1. \A i \in Indices(invocations) : makers[i] # 0
    BY <1>1 DEF PrioritiesCount, TargetStep
  <2>2. QED
    BY <1>2, <2>1 DEF Indices
<1>4. Grows(new, 0, {})
  <2>1. number' = number /\ number <= number'
    BY <1>2 DEF TargetStep
  <2>2. \A m \in 1..(number - 1) : m \in unresolved' <=> m \in unresolved
    <3>1. \A m \in 1..(number - 1) : m # 0
      BY <1>2
    <3>2. QED
      BY <3>1 DEF TargetStep
  <2>3. QED
    BY <1>2, <2>1, <2>2 DEF Grows, TargetStep
<1>5. \A j \in Indices(new) : j \in Nat \ {0}
  BY DEF TargetStep, TargetList, IsList, Indices
<1>6. ASSUME NEW i, NEW j \in Indices(new), Added(i, j, new, 0, {})
      PROVE  /\ i = Len(invocations) + j /\ makers'[i] = 0
             /\ invocations'[i].priority = new[j].priority
             /\ invocations'[i].outputs = new[j].outputs
             /\ IsInvocation(invocations'[i]) /\ Needs(invocations'[i]) = Needs(new[j])
  BY <1>6 DEF Added, IsStill
<1>7. \A i \in Indices(invocations') :
        i \in Indices(invocations) \/ \E j \in Indices(new) : Added(i, j, new, 0, {})
  BY DEF TargetStep, Extended
<1>8. QED
  BY <1>2, <1>3, <1>4, <1>5, <1>6, <1>7

LEMMA TargetKeepsOrder ==
  ASSUME NEW new, TargetStep(new)
  PROVE  /\ Selected' /\ Typed' /\ PrioritiesCount' /\ ProductIsBefore' /\ MakersInOrder'
         /\ TouchNeedsTheBundle'
<1>1. Selected /\ Typed /\ PrioritiesCount /\ ProductIsBefore /\ MakersInOrder
  BY DEF TargetStep, IInv
<1>2. /\ number \in Nat \ {0} /\ priority = number /\ insertionPoint \in 1..priority
      /\ unresolved \subseteq 0..(number - 1) /\ waiting \subseteq Indices(invocations)
  BY <1>1 DEF Typed
<1>3. Selected'
  BY <1>1 DEF Selected, TargetStep
<1>4. Typed'
  <2>1. ASSUME NEW i \in Indices(invocations')
        PROVE  makers'[i] \in Nat /\ IsInvocation(invocations'[i])
    <3>1. CASE i \in Indices(invocations)
      BY <3>1, TargetGrows, OldStay
    <3>2. QED
      BY <3>1, TargetGrows
  <2>2. waiting' \subseteq Indices(invocations')
    BY <1>2, TargetGrows, OldStay DEF TargetStep
  <2>3. unresolved' \subseteq 0..(number' - 1)
    BY <1>2 DEF TargetStep
  <2>4. IsList(invocations') /\ IsList(makers') /\ Len(makers') = Len(invocations')
    BY DEF TargetStep, Extended
  <2>5. QED
    BY <1>2, <2>1, <2>2, <2>3, <2>4 DEF Typed, TargetStep
<1>5. ASSUME NEW i \in Indices(invocations')
      PROVE  /\ makers'[i] # 0 =>
                  /\ makers'[i] \in Indices(buildPhases) /\ makers'[i] < number
                  /\ invocations'[i].priority = makers'[i]
                  /\ buildPhases[makers'[i]].type \in ProductPhases \cup {"ShellScript"}
             /\ makers'[i] = 0 => invocations'[i].priority = insertionPoint
  <2>1. CASE i \in Indices(invocations)
    <3>1. /\ makers'[i] = makers[i] /\ makers[i] # 0
          /\ invocations'[i].priority = invocations[i].priority
      BY <2>1, TargetGrows, OldStay
    <3>2. QED
      BY <1>1, <2>1, <3>1 DEF PrioritiesCount
  <2>2. ASSUME NEW j \in Indices(new), makers'[i] = 0, invocations'[i].priority = new[j].priority
        PROVE  makers'[i] = 0 /\ invocations'[i].priority = insertionPoint
    BY <2>2 DEF TargetStep, TargetList
  <2>3. QED
    BY <2>1, <2>2, TargetGrows
<1>6. PrioritiesCount'
  BY <1>5 DEF PrioritiesCount, TargetStep
<1>7. ProductIsBefore'
  BY <1>1 DEF ProductIsBefore, TargetStep
<1>8. MakersInOrder'
  <2>1. ASSUME NEW i \in Indices(invocations'), NEW k \in Indices(invocations'), i < k
        PROVE  makers'[k] = 0 \/ (0 < makers'[i] /\ makers'[i] <= makers'[k])
    <3>1. CASE i \in Indices(invocations) /\ k \in Indices(invocations)
      <4>1. makers'[i] = makers[i] /\ makers'[k] = makers[k]
        BY <3>1, TargetGrows, OldStay
      <4>2. QED
        BY <1>1, <2>1, <3>1, <4>1 DEF MakersInOrder
    <3>2. CASE k \notin Indices(invocations)
      BY <3>2, TargetGrows
    <3>3. CASE i \notin Indices(invocations) /\ k \in Indices(invocations)
      <4>1. PICK j \in Nat \ {0} : i = Len(invocations) + j
        BY <3>3, TargetGrows
      <4>2. k \in 1..Len(invocations) /\ Len(invocations) \in Nat
        BY <3>3, TargetGrows
      <4>3. QED
        BY <2>1, <4>1, <4>2
    <3>4. QED
      BY <3>1, <3>2, <3>3
  <2>2. QED
    BY <2>1 DEF MakersInOrder
<1>9. /\ \A i \in Indices(invocations) :
           makers'[i] # 0 /\ invocations'[i].outputs = invocations[i].outputs
      /\ \A i \in Indices(invocations') :
           \/ i \in Indices(invocations)
           \/ \E j \in Indices(new) :
                /\ i = Len(invocations) + j /\ invocations'[i].outputs = new[j].outputs
                /\ Needs(invocations'[i]) = Needs(new[j])
  <2>1. ASSUME NEW i \in Indices(invocations)
        PROVE  makers'[i] # 0 /\ invocations'[i].outputs = invocations[i].outputs
    BY TargetGrows, OldStay
  <2>2. QED
    BY <2>1, TargetGrows
<1>10. ASSUME NEW touch \in Indices(invocations'), makers'[touch] = 0,
              Wrapper \in invocations'[touch].outputs,
              NEW i \in Indices(invocations'), i # touch,
              NEW path, path \in invocations'[i].outputs, InWrapper(path)
       PROVE  path \in Needs(invocations'[touch])
  <2>1. PICK j \in Indices(new) :
          /\ touch = Len(invocations) + j
          /\ invocations'[touch].outputs = new[j].outputs
          /\ Needs(invocations'[touch]) = Needs(new[j])
    BY <1>9, <1>10
  <2>2. /\ \A x \in MadeSoFar : InWrapper(x) => x \in Needs(new[j])
        /\ \A l \in Indices(new) \ {j} : \A x \in new[l].outputs :
             InWrapper(x) => x \in Needs(new[j])
    BY <1>10, <2>1 DEF TargetStep, TargetList
  <2>3. CASE i \in Indices(invocations)
    <3>1. path \in MadeSoFar
      BY <1>9, <1>10, <2>3 DEF MadeSoFar
    <3>2. QED
      BY <1>10, <2>1, <2>2, <3>1
  <2>4. ASSUME NEW l \in Indices(new), i = Len(invocations) + l,
               invocations'[i].outputs = new[l].outputs
        PROVE  path \in Needs(invocations'[touch])
    <3>1. l # j
      BY <1>10, <2>1, <2>4
    <3>2. path \in new[l].outputs
      BY <1>10, <2>4
    <3>3. QED
      BY <1>10, <2>1, <2>2, <3>1, <3>2
  <2>5. QED
    BY <1>9, <2>3, <2>4
<1>11. TouchNeedsTheBundle'
  BY <1>10 DEF TouchNeedsTheBundle, OfTarget, Wrapper
<1>12. QED
  BY <1>3, <1>4, <1>6, <1>7, <1>8, <1>11

LEMMA TargetKeepsSwift ==
  ASSUME NEW new, TargetStep(new)
  PROVE  CompilesWait' /\ ModulesAreMade' /\ CopiesAreMade'
<1>1. CompilesWait /\ ModulesAreMade /\ CopiesAreMade
  BY DEF TargetStep, IInv
<1>2. /\ Grows(new, 0, {}) /\ number \in Nat \ {0}
      /\ number' = number /\ swift' = swift /\ waiting' = waiting
  BY TargetGrows DEF TargetStep
<1>3. CompilesWait'
  BY <1>1, <1>2, WaitingCompilesStay DEF CompilesWait
<1>4. ModulesAreMade'
  <2>1. \A arch \in swift' : IsArchitecture(arch) /\ Module(arch) \in MadeSoFar'
    BY <1>1, <1>2, MadeStays DEF ModulesAreMade
  <2>2. swift' # {} => \E l \in 1..(number - 1) : HasFiles(l, "Swift")'
    BY <1>1, <1>2, PhasesStay DEF ModulesAreMade
  <2>3. QED
    BY <1>2, <2>1, <2>2 DEF ModulesAreMade, IsArchitecture, Module
<1>5. ASSUME NEW n \in 1..(number - 1), CopiesSwift(n)'
      PROVE  CopiedBy(n)'
  <2>1. CopiesSwift(n)
    BY <1>2, <1>5, PhasesStay
  <2>2. CopiedBy(n)
    BY <1>1, <2>1 DEF CopiesAreMade
  <2>3. QED
    BY <1>2, <2>2, CopiedByStays
<1>6. CopiesAreMade'
  BY <1>2, <1>5 DEF CopiesAreMade
<1>7. QED
  BY <1>3, <1>4, <1>6

LEMMA TargetKeepsNeeds ==
  ASSUME NEW new, TargetStep(new)
  PROVE  NeedsAreExplained'
<1>1. /\ NeedsAreExplained /\ pc = "target" /\ pc' = "created" /\ TargetList(new)
  BY DEF TargetStep, IInv
<1>2. Grows(new, 0, {}) /\ number \in Nat \ {0} /\ Len(invocations) \in Nat /\ target' = target
  BY TargetGrows DEF TargetStep
<1>3. ASSUME NEW i \in Indices(invocations), NEW path \in Needs(invocations'[i])
      PROVE  Explained(i, path)'
  <2>1. path \in Needs(invocations[i])
    BY <1>2, <1>3 DEF Grows, Extended, Kept, IsStill
  <2>2. Explained(i, path)
    BY <1>1, <2>1 DEF NeedsAreExplained
  <2>3. QED
    BY <1>1, <1>2, <2>2, ExplanationsStay
<1>4. ASSUME NEW i \in Indices(invocations'), i \notin Indices(invocations),
             NEW path \in Needs(invocations'[i])
      PROVE  Explained(i, path)'
  <2>1. PICK j \in Indices(new) :
          i = Len(invocations) + j /\ makers'[i] = 0 /\ path \in Needs(new[j])
    BY <1>4, TargetGrows
  <2>2. \/ path \in target.product.infoPlist
        \/ /\ InWrapper(path)
           /\ \/ path = Executable \/ path \in MadeSoFar
              \/ \E l \in 1..(j - 1) : path \in new[l].outputs
    BY <1>1, <2>1 DEF TargetList
  <2>3. j \in Nat \ {0} /\ \A l \in 1..(j - 1) : l \in Indices(new)
    BY <1>1 DEF TargetList, IsList, Indices
  <2>4. CASE path \in target.product.infoPlist
    <3>1. path \in Named(makers[i])'
      BY <1>2, <2>1, <2>4 DEF Named
    <3>2. QED
      BY <3>1 DEF Explained
  <2>5. ASSUME InWrapper(path), \E m \in 1..(i - 1) : path \in invocations'[m].outputs
        PROVE  Explained(i, path)'
    <3>1. ~IsOfPhase(i, {"Sources"})'
      BY <2>1 DEF IsOfPhase
    <3>2. MadeBefore(i, path)'
      BY <2>5, <3>1 DEF MadeBefore
    <3>3. QED
      BY <3>2 DEF Explained
  <2>6. ASSUME path \in MadeSoFar
        PROVE  \E m \in 1..(i - 1) : path \in invocations'[m].outputs
    <3>1. PICK m \in Indices(invocations) : path \in invocations[m].outputs
      BY <2>6 DEF MadeSoFar
    <3>2. path \in invocations'[m].outputs
      BY <1>2, <3>1, OldStay
    <3>3. m \in 1..Len(invocations)
      BY <3>1 DEF Indices
    <3>4. m \in 1..(i - 1)
      BY <1>2, <2>1, <2>3, <3>3
    <3>5. QED
      BY <3>2, <3>4
  <2>7. ASSUME NEW l \in 1..(j - 1), path \in new[l].outputs
        PROVE  \E m \in 1..(i - 1) : path \in invocations'[m].outputs
    <3>1. PICK m : m = Len(invocations) + l
      OBVIOUS
    <3>2. Added(m, l, new, 0, {})
      BY <1>2, <2>3, <3>1 DEF Grows, Extended
    <3>3. path \in invocations'[m].outputs
      BY <2>7, <3>2 DEF Added, IsStill
    <3>4. m \in 1..(i - 1)
      BY <1>2, <2>1, <2>3, <3>1
    <3>5. QED
      BY <3>3, <3>4
  <2>8. ASSUME path = Executable, path \notin MadeSoFar
        PROVE  Explained(i, path)'
    <3>1. ASSUME NEW m \in Indices(invocations') PROVE path \notin invocations'[m].outputs
      <4>1. CASE m \in Indices(invocations)
        BY <1>2, <2>8, <4>1, OldStay DEF MadeSoFar
      <4>2. CASE m \notin Indices(invocations)
        <5>1. PICK l \in Indices(new) : invocations'[m].outputs = new[l].outputs
          BY <4>2, TargetGrows
        <5>2. QED
          BY <1>1, <2>8, <5>1 DEF TargetList
      <4>3. QED
        BY <4>1, <4>2
    <3>2. Makers(invocations, path)' = {}
      BY <3>1 DEF Makers
    <3>3. QED
      BY <1>1, <3>2 DEF Explained
  <2>9. QED
    BY <2>2, <2>4, <2>5, <2>6, <2>7, <2>8
<1>5. \A i \in Indices(invocations') : \A path \in Needs(invocations'[i]) : Explained(i, path)'
  BY <1>3, <1>4
<1>6. QED
  BY <1>5 DEF NeedsAreExplained

LEMMA TargetIsSafe ==
  ASSUME NEW new, TargetStep(new)
  PROVE  IInv'
BY TargetKeepsOrder, TargetKeepsSwift, TargetKeepsNeeds DEF IInv

-----------------------------------------------------------------------------

LEMMA Initially ==
  ASSUME Init
  PROVE  IInv
<1>1. IsList(invocations) /\ IsList(makers) /\ Len(invocations) = 0 /\ Len(makers) = 0
  BY ShortLists DEF Init
<1>2. Indices(invocations) = {}
  BY <1>1 DEF Indices
<1>3. Selected /\ Typed
  BY <1>1, <1>2 DEF Init, Selected, Typed, Base
<1>4. ProductIsBefore /\ CompilesWait /\ ModulesAreMade /\ CopiesAreMade
  BY DEF Init, ProductIsBefore, CompilesWait, ModulesAreMade, CopiesAreMade
<1>5. PrioritiesCount /\ MakersInOrder /\ NeedsAreExplained /\ TouchNeedsTheBundle
  BY <1>2 DEF PrioritiesCount, MakersInOrder, NeedsAreExplained, TouchNeedsTheBundle, OfTarget
<1>6. QED
  BY <1>3, <1>4, <1>5 DEF IInv

\* Nothing changes but the place in the program.
LEMMA OnwardsIsSafe ==
  ASSUME IInv,
         UNCHANGED <<target, buildPhases, number, priority, insertionPoint, invocations, makers,
                     swift, waiting, unresolved>>,
         pc' = pc \/ (pc = "phases" /\ pc' = "target")
  PROVE  IInv'
<1>1. Selected' /\ Typed'
  BY DEF IInv, Selected, Typed
<1>2. PrioritiesCount' /\ ProductIsBefore' /\ MakersInOrder'
  BY DEF IInv, PrioritiesCount, ProductIsBefore, MakersInOrder
<1>3. TouchNeedsTheBundle'
  BY DEF IInv, TouchNeedsTheBundle, OfTarget
<1>4. /\ \A k, kind : HasFiles(k, kind)' <=> HasFiles(k, kind)
      /\ \A k : CopiesSwift(k)' <=> CopiesSwift(k)
      /\ \A arch : Artifact(arch)' = Artifact(arch)
  BY DEF HasFiles, CopiesSwift, Artifact
<1>5. CompilesWait' /\ ModulesAreMade'
  BY <1>4 DEF IInv, CompilesWait, ModulesAreMade, MadeSoFar, Module, IsArchitecture
<1>6. CopiesAreMade'
  BY <1>4 DEF IInv, CopiesAreMade, CopiedBy
<1>7. ASSUME NEW i \in Indices(invocations), NEW path \in Needs(invocations[i])
      PROVE  Explained(i, path)'
  <2>1. Explained(i, path)
    BY DEF IInv, NeedsAreExplained
  <2>2. /\ Named(makers[i])' = Named(makers[i])
        /\ MadeBefore(i, path)' <=> MadeBefore(i, path)
    BY DEF Named, MadeBefore, IsOfPhase
  <2>3. CopiedInTime(i, path)' <=> CopiedInTime(i, path)
    BY DEF CopiedInTime
  <2>4. SwiftIsLate' <=> SwiftIsLate
    BY <1>4 DEF SwiftIsLate
  <2>5. Awaited(i, path)' <=> Awaited(i, path)
    BY <2>3, <2>4 DEF Awaited
  <2>6. pc = "created" => pc' = "created"
    OBVIOUS
  <2>7. Makers(invocations, path)' = Makers(invocations, path)
    OBVIOUS
  <2>8. QED
    BY <2>1, <2>2, <2>5, <2>6, <2>7 DEF Explained
<1>8. NeedsAreExplained'
  BY <1>7 DEF NeedsAreExplained
<1>9. QED
  BY <1>1, <1>2, <1>3, <1>5, <1>6, <1>8 DEF IInv

LEMMA SelectionIsSafe ==
  ASSUME IInv, SelectPhases
  PROVE  IInv'
<1>1. /\ pc = "select" /\ pc' = "phases" /\ buildPhases' = BuildPhases(target)
      /\ UNCHANGED <<target, number, priority, insertionPoint, invocations, makers,
                     swift, waiting, unresolved>>
  BY DEF SelectPhases
<1>2. /\ target \in TargetDescriptions /\ number = 1 /\ invocations = << >>
      /\ swift = {} /\ waiting = {}
  BY <1>1 DEF IInv, Selected
<1>3. Indices(invocations) = {}
  BY <1>2, ShortLists DEF Indices
<1>4. Selected' /\ Typed'
  BY <1>1, <1>2 DEF IInv, Selected, Typed
<1>5. ProductIsBefore' /\ CompilesWait' /\ ModulesAreMade' /\ CopiesAreMade'
  BY <1>1, <1>2 DEF ProductIsBefore, CompilesWait, ModulesAreMade, CopiesAreMade
<1>6. PrioritiesCount' /\ MakersInOrder' /\ NeedsAreExplained' /\ TouchNeedsTheBundle'
  BY <1>1, <1>3 DEF PrioritiesCount, MakersInOrder, NeedsAreExplained, TouchNeedsTheBundle, OfTarget
<1>7. QED
  BY <1>4, <1>5, <1>6 DEF IInv

LEMMA LastStepIsSafe ==
  ASSUME IInv, ResolveTarget \/ FailTarget
  PROVE  IInv'
<1>1. /\ pc = "target" /\ pc' = "created"
      /\ unresolved' = unresolved \/ unresolved' = unresolved \cup {0}
      /\ UNCHANGED <<target, buildPhases, number, priority, insertionPoint, swift, waiting>>
  BY DEF ResolveTarget, FailTarget
<1>2. /\ IsList(invocations) /\ IsList(makers) /\ Len(makers) = Len(invocations)
      /\ \A i \in Indices(invocations) : IsInvocation(invocations[i])
  BY DEF IInv, Typed
<1>3. TargetList(Structure) /\ TargetList(<< >>)
  BY StructureIsPlain, NoneIsPlain, PlainEnds
<1>4. TargetList(FinishProduct)
  BY <1>2, ProductEnds
<1>5. TargetList(Structure \o SwiftLibraries) /\ TargetList(FinishProduct \o SwiftLibraries)
  BY <1>3, <1>4, SwiftEnds
<1>6. TargetList(<<Tool({}, {}, insertionPoint)>>)
  <2>1. PICK tool : tool = Tool({}, {}, insertionPoint)
    OBVIOUS
  <2>2. IsInvocation(tool) /\ tool.priority = insertionPoint /\ tool.outputs = {} /\ Needs(tool) = {}
    BY <2>1, ToolParts
  <2>3. QED
    BY <2>1, <2>2, OneIsPlain, PlainEnds
<1>7. PICK new : TargetList(new) /\ Add(new, 0)
  <2>1. CASE FailTarget
    <3>1. CASE \E new \in {Structure, Structure \o SwiftLibraries, FinishProduct} : Add(new, 0)
      BY <1>3, <1>4, <1>5, <3>1
    <3>2. CASE Add(<< >>, 0)
      BY <1>3, <3>2
    <3>3. QED
      BY <2>1, <3>1, <3>2 DEF FailTarget
  <2>2. CASE ResolveTarget
    <3>1. PICK new : /\ Add(new, 0)
                     /\ new = CASE target.type = "Native" -> FinishProduct \o SwiftLibraries
                                [] target.type = "Legacy" -> <<Tool({}, {}, insertionPoint)>>
                                [] OTHER                  -> << >>
      BY <2>2 DEF ResolveTarget
    <3>2. new \in {FinishProduct \o SwiftLibraries, <<Tool({}, {}, insertionPoint)>>, << >>}
      BY <3>1
    <3>3. QED
      BY <1>3, <1>5, <1>6, <3>1, <3>2
  <2>3. QED
    BY <2>1, <2>2
<1>8. Extended(new, 0, {})
  <2>1. IsList(new) /\ \A j \in Indices(new) : IsInvocation(new[j])
    BY <1>7 DEF TargetList
  <2>2. invocations' = invocations \o new /\ makers' = makers \o [i \in 1..Len(new) |-> 0]
    BY <1>7 DEF Add
  <2>3. QED
    BY <1>2, <2>1, <2>2, Extends
<1>9. TargetStep(new)
  BY <1>1, <1>7, <1>8 DEF TargetStep
<1>10. QED
  BY <1>9, TargetIsSafe

LEMMA StepsAreSafe ==
  ASSUME IInv, [Next]_vars
  PROVE  IInv'
<1>1. CASE SelectPhases
  BY <1>1, SelectionIsSafe
<1>2. CASE ResolveSources
  BY <1>2, ResolvedSourcesAreSafe
<1>3. CASE FailSources
  BY <1>3, FailedSourcesAreSafe
<1>4. CASE ResolvePhase \/ FailPhase
  BY <1>4, OtherPhasesAreSafe
<1>5. CASE EndPhases
  BY <1>5, OnwardsIsSafe DEF EndPhases
<1>6. CASE ResolveTarget \/ FailTarget
  BY <1>6, LastStepIsSafe
<1>7. CASE UNCHANGED vars
  BY <1>7, OnwardsIsSafe DEF vars
<1>8. QED
  BY <1>1, <1>2, <1>3, <1>4, <1>5, <1>6, <1>7 DEF Next

-----------------------------------------------------------------------------

THEOREM Invariance == Spec => []IInv
<1>1. Init => IInv
  BY Initially
<1>2. IInv /\ [Next]_vars => IInv'
  BY StepsAreSafe
<1>3. QED
  BY <1>1, <1>2, PTL DEF Spec

LEMMA PrioritiesAreNumbers ==
  ASSUME IInv
  PROVE  /\ Len(invocations) \in Nat /\ insertionPoint \in Nat
         /\ \A i \in Indices(invocations) :
              /\ invocations[i].priority \in Nat /\ invocations[i].priority \in 1..priority
              /\ makers[i] \in Nat
<1>1. Typed /\ PrioritiesCount
  BY DEF IInv
<1>2. Len(invocations) \in Nat /\ insertionPoint \in Nat
  BY <1>1 DEF Typed, IsList
<1>3. ASSUME NEW i \in Indices(invocations)
      PROVE  /\ invocations[i].priority \in Nat /\ invocations[i].priority \in 1..priority
             /\ makers[i] \in Nat
  <2>1. /\ number \in Nat \ {0} /\ priority = number /\ insertionPoint \in 1..priority
        /\ makers[i] \in Nat
    BY <1>1 DEF Typed
  <2>2. /\ makers[i] # 0 => makers[i] < number /\ invocations[i].priority = makers[i]
        /\ makers[i] = 0 => invocations[i].priority = insertionPoint
    BY <1>1 DEF PrioritiesCount
  <2>3. QED
    BY <2>1, <2>2
<1>4. QED
  BY <1>2, <1>3

LEMMA ProductComesFirst ==
  ASSUME IInv, NEW j \in Indices(invocations), MakesProduct(j)
  PROVE  makers[j] # 0 /\ makers[j] < insertionPoint /\ invocations[j].priority < insertionPoint
<1>1. Typed /\ PrioritiesCount /\ ProductIsBefore
  BY DEF IInv
<1>2. makers[j] # 0 /\ buildPhases[makers[j]].type \in ProductPhases
  BY DEF MakesProduct, IsOfPhase
<1>3. makers[j] \in Nat /\ makers[j] < number /\ number \in Nat /\ invocations[j].priority = makers[j]
  BY <1>1, <1>2 DEF Typed, PrioritiesCount
<1>4. makers[j] \in 1..(number - 1)
  BY <1>2, <1>3
<1>5. QED
  BY <1>1, <1>2, <1>3, <1>4 DEF ProductIsBefore

LEMMA TouchIsLast ==
  ASSUME IInv
  PROVE  TouchComesLast
<1> SUFFICES ASSUME NEW touch \in OfTarget, <<"wrapper", "">> \in invocations[touch].outputs,
                    NEW i \in Bundled
             PROVE  Precedes(Graph, i, touch)
  BY DEF TouchComesLast
<1>1. PICK all : all = invocations
  OBVIOUS
<1>2. Graph = SortGraph(all)
  BY <1>1, GraphIsKept DEF IInv, Typed
<1>3. Len(all) \in Nat /\ \A k \in Indices(all) : all[k].priority \in Nat
  BY <1>1, PrioritiesAreNumbers
<1>4. touch \in Indices(all) /\ makers[touch] = 0
  BY <1>1 DEF OfTarget
<1>5. all[touch].priority = insertionPoint
  BY <1>1, <1>4 DEF IInv, PrioritiesCount
<1>6. CASE i \in Indices(invocations) /\ MakesProduct(i)
  <2>1. all[i].priority < all[touch].priority
    BY <1>1, <1>5, <1>6, ProductComesFirst
  <2>2. QED
    BY <1>1, <1>2, <1>3, <1>4, <1>6, <2>1, EarlierPhasesPrecede
<1>7. ASSUME NEW path \in WrapperOutputs(invocations), i = Maker(invocations, path)
      PROVE  Precedes(Graph, i, touch)
  <2>1. Makers(all, path) # {} /\ InWrapper(path)
    BY <1>1, <1>7 DEF WrapperOutputs, Makers
  <2>2. i \in Indices(all) /\ path \in all[i].outputs
    <3>1. Maker(all, path) \in Makers(all, path)
      BY <1>3, <2>1, MakerIsFirst
    <3>2. QED
      BY <1>1, <1>7, <3>1 DEF Makers
  <2>3. CASE i = touch
    BY <2>3 DEF Precedes
  <2>4. CASE i # touch
    <3>1. path \in Needs(all[touch])
      BY <1>1, <2>1, <2>2, <2>4 DEF IInv, TouchNeedsTheBundle
    <3>2. Precedes(SortGraph(all), Maker(all, path), touch)
      BY <1>4, <2>1, <3>1, MakerPrecedes
    <3>3. QED
      BY <1>1, <1>2, <1>7, <3>2
  <2>5. QED
    BY <2>3, <2>4
<1>8. QED
  BY <1>6, <1>7 DEF Bundled

(***************************************************************************)
(* Whatever the phases of a target are, and whichever of them report an     *)
(* error, the priorities keep the phases in the order of the project, with  *)
(* what finishes the product after all that makes it; and the bundle is     *)
(* touched after the maker of every file in it.                             *)
(***************************************************************************)
THEOREM OrderIsKept == Spec => []PrioritiesKeepTheOrder
<1>1. ASSUME IInv PROVE TypeOK
  <2>1. \A i \in Indices(invocations) : invocations[i].priority \in Base..priority
    BY <1>1, PrioritiesAreNumbers DEF Base
  <2>2. QED
    BY <1>1, <2>1 DEF IInv, Typed, TypeOK, Base
<1>2. ASSUME IInv PROVE PhasesKeepTheirOrder
  <2>1. \A i \in Indices(invocations) : makers[i] \in Nat
    BY <1>2, PrioritiesAreNumbers
  <2>2. \A i \in Indices(invocations) : makers[i] # 0 => invocations[i].priority = makers[i]
    BY <1>2 DEF IInv, PrioritiesCount
  <2>3. QED
    BY <2>1, <2>2 DEF PhasesKeepTheirOrder
<1>3. ASSUME IInv PROVE TargetLevelAfterProduct
  <2>1. \A i \in OfTarget : invocations[i].priority = insertionPoint
    BY <1>3 DEF IInv, PrioritiesCount, OfTarget
  <2>2. \A j \in Indices(invocations) : MakesProduct(j) => invocations[j].priority < insertionPoint
    BY <1>3, ProductComesFirst
  <2>3. QED
    BY <2>1, <2>2 DEF TargetLevelAfterProduct
<1>4. IInv => PrioritiesKeepTheOrder
  BY <1>1, <1>2, <1>3, TouchIsLast DEF PrioritiesKeepTheOrder
<1>5. QED
  BY <1>4, Invariance, PTL

-----------------------------------------------------------------------------

\* Within a phase, what waits for Swift comes after all others.
Rank(i) == IF i \in waiting THEN Len(invocations) + i ELSE i

Sooner(c, i) ==
  \/ invocations[c].priority < invocations[i].priority
  \/ invocations[c].priority = invocations[i].priority /\ Rank(c) < Rank(i)

LEMMA Ranks ==
  ASSUME IInv, NEW i \in Indices(invocations)
  PROVE  /\ i \in Nat \ {0} /\ i <= Len(invocations) /\ Len(invocations) \in Nat
         /\ Rank(i) \in Nat /\ i <= Rank(i)
         /\ i \in waiting => Len(invocations) < Rank(i)
         /\ i \notin waiting => Rank(i) = i
<1>1. Len(invocations) \in Nat
  BY DEF IInv, Typed, IsList
<1>2. PICK len \in Nat : len = Len(invocations)
  BY <1>1
<1>3. i \in 1..len /\ Rank(i) = IF i \in waiting THEN len + i ELSE i
  BY <1>2 DEF Indices, Rank
<1>4. QED
  BY <1>2, <1>3

\* The priority of an invocation and the number of its phase.
LEMMA PriorityParts ==
  ASSUME IInv, NEW i \in Indices(invocations)
  PROVE  /\ makers[i] \in Nat /\ insertionPoint \in Nat
         /\ makers[i] # 0 => /\ invocations[i].priority = makers[i]
                             /\ makers[i] \in Indices(buildPhases)
                             /\ buildPhases[makers[i]].type \in ProductPhases \cup {"ShellScript"}
         /\ makers[i] = 0 => invocations[i].priority = insertionPoint /\ i \notin waiting
BY PrioritiesAreNumbers DEF IInv, PrioritiesCount, CompilesWait

\* Unless a script comes late, the phases make whatever the target needs of
\* them before the insertion point.
LEMMA MadeForTheTarget ==
  ASSUME IInv, ~ScriptComesLate, NEW c \in Indices(invocations), makers[c] # 0,
         NEW path \in invocations[c].outputs, InWrapper(path) \/ path \in Named(0)
  PROVE  makers[c] < insertionPoint
<1>1. CASE MakesProduct(c)
  BY <1>1, ProductComesFirst
<1>2. CASE IsScript(c)
  <2>1. PICK j \in Indices(invocations) : MakesProduct(j) /\ ~(makers[j] < makers[c])
    BY <1>2 DEF ScriptComesLate
  <2>2. makers[j] < insertionPoint
    BY <2>1, ProductComesFirst
  <2>3. makers[j] \in Nat /\ makers[c] \in Nat /\ insertionPoint \in Nat
    BY PriorityParts
  <2>4. QED
    BY <2>1, <2>2, <2>3
<1>3. QED
  BY <1>1, <1>2, PriorityParts DEF MakesProduct, IsScript, IsOfPhase

\* The maker of a file that another needs has a smaller priority, or the same
\* one and a smaller rank.
LEMMA ProducersAreSooner ==
  ASSUME IInv, pc = "created", ~ScriptComesLate, ~FileIsUsedTooEarly, ~SwiftComesLate,
         NEW i \in Indices(invocations), NEW c \in Producers(invocations, i)
  PROVE  c \in Indices(invocations) /\ Sooner(c, i)
<1>1. MakersInOrder /\ CompilesWait /\ NeedsAreExplained
  BY DEF IInv
<1>2. PICK path \in Needs(invocations[i]) :
        Makers(invocations, path) # {} /\ c = Maker(invocations, path)
  BY DEF Producers
<1>3. c \in Makers(invocations, path) /\ \A m \in Makers(invocations, path) : c <= m
  <2>1. PICK all : all = invocations
    OBVIOUS
  <2>2. Len(all) \in Nat
    BY <2>1, PrioritiesAreNumbers
  <2>3. QED
    BY <1>2, <2>1, <2>2, MakerIsFirst
<1>4. c \in Indices(invocations) /\ path \in invocations[c].outputs
  BY <1>3 DEF Makers
<1>5. PICK mc \in Nat, mi \in Nat, point \in Nat :
        mc = makers[c] /\ mi = makers[i] /\ point = insertionPoint
  BY <1>4, PriorityParts
<1>6. /\ invocations[c].priority = IF mc = 0 THEN point ELSE mc
      /\ invocations[i].priority = IF mi = 0 THEN point ELSE mi
  BY <1>4, <1>5, PriorityParts
<1>7. ASSUME mc # 0, InWrapper(path) \/ path \in Named(0)
      PROVE  mc < point
  BY <1>4, <1>5, <1>7, MadeForTheTarget
<1>8. CASE path \in Named(mi)
  <2>1. mi \in Indices(buildPhases) \cup {0}
    BY <1>5, PriorityParts
  <2>2. IsBefore(makers[Maker(invocations, path)], mi)
    BY <1>2, <1>8, <2>1 DEF FileIsUsedTooEarly
  <2>3. mc # 0 /\ (mi = 0 \/ mc < mi)
    BY <1>2, <1>5, <2>2 DEF IsBefore
  <2>4. mi = 0 => mc < point
    BY <1>7, <1>8, <2>3
  <2>5. invocations[c].priority < invocations[i].priority
    BY <1>6, <2>3, <2>4
  <2>6. QED
    BY <1>4, <2>5 DEF Sooner
<1>9. CASE MadeBefore(i, path)
  <2>1. PICK m \in 1..(i - 1) : path \in invocations[m].outputs
    BY <1>9 DEF MadeBefore
  <2>2. c < i
    <3>1. i \in Nat /\ i <= Len(invocations) /\ Len(invocations) \in Nat /\ c \in Nat
      BY <1>4, Ranks
    <3>2. m \in Nat /\ m < i /\ m \in Indices(invocations)
      BY <2>1, <3>1 DEF Indices
    <3>3. c <= m
      BY <1>3, <2>1, <3>2 DEF Makers
    <3>4. QED
      BY <3>1, <3>2, <3>3
  <2>3. mi = 0 \/ (0 < mc /\ mc <= mi)
    BY <1>1, <1>4, <1>5, <2>2 DEF MakersInOrder
  <2>4. c \notin waiting => Rank(c) < Rank(i)
    BY <1>4, <2>2, Ranks
  <2>5. CASE mi = 0
    <3>1. InWrapper(path)
      BY <1>5, <1>9, <2>5 DEF MadeBefore
    <3>2. CASE mc # 0
      BY <1>4, <1>6, <1>7, <2>5, <3>1, <3>2 DEF Sooner
    <3>3. CASE mc = 0
      <4>1. c \notin waiting
        BY <1>4, <1>5, <3>3, PriorityParts
      <4>2. QED
        BY <1>4, <1>6, <2>4, <2>5, <3>3, <4>1 DEF Sooner
    <3>4. QED
      BY <3>2, <3>3
  <2>6. CASE mi # 0 /\ mc < mi
    <3>1. mc # 0
      BY <2>3, <2>6
    <3>2. invocations[c].priority < invocations[i].priority
      BY <1>6, <2>6, <3>1
    <3>3. QED
      BY <1>4, <3>2 DEF Sooner
  <2>7. CASE mi # 0 /\ mc = mi
    <3>1. c \notin waiting
      <4> SUFFICES ASSUME c \in waiting
                   PROVE  FALSE
        OBVIOUS
      <4>1. HasFiles(makers[c], "C") /\ path[1] = "object"
        BY <1>1, <1>4 DEF CompilesWait
      <4>2. IsOfPhase(i, {"Sources"})
        BY <1>5, <2>7, <4>1 DEF HasFiles, IsOfPhase
      <4>3. QED
        BY <1>9, <4>1, <4>2 DEF MadeBefore
    <3>2. QED
      BY <1>4, <1>6, <2>4, <2>7, <3>1 DEF Sooner
  <2>8. QED
    BY <2>3, <2>5, <2>6, <2>7
<1>10. CASE Awaited(i, path)
  <2>1. i \in waiting /\ path[1] # "object" /\ (CopiedInTime(i, path) \/ SwiftIsLate)
    BY <1>10 DEF Awaited
  <2>2. ~SwiftIsLate
    BY DEF SwiftIsLate, SwiftComesLate
  <2>3. PICK m \in Indices(invocations) \ waiting :
          0 < makers[m] /\ makers[m] <= makers[i] /\ path \in invocations[m].outputs
    BY <2>1, <2>2 DEF CopiedInTime
  <2>4. PICK mm \in Nat : mm = makers[m]
    BY <2>3, PriorityParts
  <2>5. c <= m
    BY <1>3, <2>3 DEF Makers
  <2>6. c < m \/ c = m
    BY <1>4, <2>3, <2>5, Ranks
  <2>7. 0 < mc /\ mc <= mm
    <3>1. CASE c < m
      <4>1. makers[m] = 0 \/ (0 < makers[c] /\ makers[c] <= makers[m])
        BY <1>1, <1>4, <2>3, <3>1 DEF MakersInOrder
      <4>2. QED
        BY <1>5, <2>3, <2>4, <4>1
    <3>2. CASE c = m
      BY <1>5, <2>3, <2>4, <3>2
    <3>3. QED
      BY <2>6, <3>1, <3>2
  <2>8. 0 < mc /\ mc <= mi
    BY <1>5, <2>3, <2>4, <2>7
  <2>9. c \notin waiting
    BY <1>1, <1>4, <2>1 DEF CompilesWait
  <2>10. Rank(c) < Rank(i)
    BY <1>4, <2>1, <2>9, Ranks
  <2>11. invocations[c].priority <= invocations[i].priority
    BY <1>6, <2>8
  <2>12. invocations[c].priority \in Nat /\ invocations[i].priority \in Nat
    BY <1>4, PrioritiesAreNumbers
  <2>13. QED
    BY <1>4, <2>10, <2>11, <2>12 DEF Sooner
<1>11. Explained(i, path)
  BY <1>1 DEF NeedsAreExplained
<1>12. QED
  BY <1>2, <1>5, <1>8, <1>9, <1>10, <1>11 DEF Explained

(***************************************************************************)
(* No target is without an order to be built in, unless its project asks    *)
(* for what has none: a script that makes a file for the bundle, or for its *)
(* Info.plist, after the product; a file that is used before the phase that *)
(* makes it; or Swift in a later phase than sources in C.  Whatever the     *)
(* phases, their files and order, the architectures, and the failures.      *)
(***************************************************************************)
THEOREM OrderExists == Spec => []OnlyTheProjectMakesCycles
<1>1. ASSUME IInv, pc = "created", ~ScriptComesLate, ~FileIsUsedTooEarly, ~SwiftComesLate
      PROVE  ~HasCycle(Graph)
  <2>1. PICK all : all = invocations
    OBVIOUS
  <2>2. Graph = SortGraph(all)
    BY <1>1, <2>1, GraphIsKept DEF IInv, Typed
  <2>3. SUFFICES ASSUME NEW C \in SUBSET DOMAIN SortGraph(all), C # {},
                        \A n \in C : SortGraph(all)[n] \cap C # {}
                 PROVE  FALSE
    BY <2>2 DEF HasCycle
  <2>4. C \subseteq Indices(all) /\ \A n \in C :
          SortGraph(all)[n] = Producers(all, n) \cup PreviousPhaseOf(all, n)
    BY DEF SortGraph
  <2>5. \A n \in C : all[n].priority \in Nat /\ Rank(n) \in Nat
    BY <1>1, <2>1, <2>4, PrioritiesAreNumbers, Ranks
  <2>6. PICK n \in C : \A m \in C : all[n].priority <= all[m].priority
    <3> DEFINE T == {all[m].priority : m \in C}
    <3>1. T \subseteq Nat /\ T # {}
      BY <2>3, <2>5
    <3>2. \E v \in T : \A w \in T : v <= w
      BY <3>1, LeastNatural
    <3>3. QED
      BY <3>2
  <2>7. PICK i \in C : /\ all[i].priority = all[n].priority
                       /\ \A m \in C : all[m].priority = all[n].priority => Rank(i) <= Rank(m)
    <3> DEFINE S == {m \in C : all[m].priority = all[n].priority}
               T == {Rank(m) : m \in S}
    <3>1. T \subseteq Nat /\ T # {}
      BY <2>5
    <3>2. \E v \in T : \A w \in T : v <= w
      BY <3>1, LeastNatural
    <3>3. QED
      BY <3>2
  <2>8. PICK c \in C : c \in Producers(all, i) \cup PreviousPhaseOf(all, i)
    BY <2>3, <2>4
  <2>9. CASE c \in PreviousPhaseOf(all, i)
    <3>1. all[c].priority < all[i].priority
      BY <2>9 DEF PreviousPhaseOf
    <3>2. QED
      BY <2>5, <2>6, <2>7, <3>1
  <2>10. CASE c \in Producers(all, i)
    <3>1. Sooner(c, i)
      BY <1>1, <2>1, <2>4, <2>10, ProducersAreSooner
    <3>2. \/ all[c].priority < all[i].priority
          \/ all[c].priority = all[i].priority /\ Rank(c) < Rank(i)
      BY <2>1, <3>1 DEF Sooner
    <3>3. QED
      BY <2>5, <2>6, <2>7, <3>2
  <2>11. QED
    BY <2>8, <2>9, <2>10
<1>2. IInv => OnlyTheProjectMakesCycles
  BY <1>1 DEF OnlyTheProjectMakesCycles
<1>3. QED
  BY <1>2, Invariance, PTL

=============================================================================
