--------------------------- MODULE NinjaGraphProofs ---------------------------
(***************************************************************************)
(* Proofs about NinjaGraph for every set of targets with any tools, files   *)
(* and dependencies: whatever Ninja starts, in whatever order, it starts    *)
(* nothing before its turn; and Ninja refuses no files of a sound workspace. *)
(***************************************************************************)
EXTENDS NinjaGraph, SequenceTheorems, FiniteSetTheorems, TLAPS

\* The rules of RulesFor(t), one by one.
LastPhase(t) == IF Priorities(t) = {} THEN 0
                ELSE CHOOSE p \in Priorities(t) : \A q \in Priorities(t) : q <= p

BeginRule(t)  == Rule(<<"begin", t>>, {Begin(t)}, {Finish(d) : d \in build.dependencies[t]})
WriteRule(t)  == Rule(<<"write auxiliary", t>>, {WriteAuxiliary(t)},
                      {Begin(t)} \cup {file.path : file \in build.auxiliary[t]})
FinishRule(t) == Rule(<<"finish", t>>, {Finish(t)}, {FinishPhase(t, LastPhase(t))})

AuxiliaryRule(t, file) ==
  Rule(<<"auxiliary file", t, file>>, {file.path}, {Begin(t)} \cup file.copied)

BeginPhaseRule(t, p)  == Rule(<<"begin phase", t, p>>, {BeginPhase(t, p)}, {BeforePhase(t, p)})
FinishPhaseRule(t, p) == Rule(<<"finish phase", t, p>>, {FinishPhase(t, p)},
                              {BeginPhase(t, p)} \cup PhaseOutputs(t, p))

ToolRule(t, i) ==
  Rule(<<"invocation", t, i>>, Outputs(t, i),
       Invocations(t)[i].inputs \cup Invocations(t)[i].inputDependencies
         \cup {BeginPhase(t, Invocations(t)[i].priority)})

PhonyInputRule(t, i, path) == Rule(<<"phony input", t, i, path>>, {path}, {})

IsTaken == pc \in {"building", "success", "failure"}

Typed == TypeOK /\ build \in Builds

RulesAreGenerated == rules = UNION {RulesFor(t) : t \in included}

\* Ninja builds nothing of files that it refuses, and refuses none without a reason.
RulesAreTaken ==
  /\ ~IsTaken => Started = {}
  /\ IsTaken => ~MakesTwice /\ ~IsMissing
  /\ pc = "refused" => MakesTwice \/ IsMissing \/ HasRuleCycle

\* What has started needs nothing any more that a rule makes.
NeedsAreMade == \A rule \in Started : rule.needs \cap Makable \subseteq Made

IInv == Typed /\ RulesAreGenerated /\ RulesAreTaken /\ NeedsAreMade

-----------------------------------------------------------------------------
\* A nonempty set of naturals has a least one.
LEMMA LeastNatural ==
  ASSUME NEW T, T \subseteq Nat, T # {}
  PROVE  \E x \in T : \A y \in T : x <= y
<1>1. PICK x \in T : \A y \in T : ~(<<y, x>> \in OpToRel(<, Nat))
  BY NatLessThanWellFounded, WFMin
<1>2. \A y \in T : ~(y < x)
  BY <1>1 DEF OpToRel
<1>3. QED
  BY <1>2

\* The maker of a file is the first to name it among its outputs.
LEMMA MakerIsFirst ==
  ASSUME NEW all, Len(all) \in Nat, NEW path, Makers(all, path) # {}
  PROVE  /\ Maker(all, path) \in Makers(all, path)
         /\ \A j \in Makers(all, path) : Maker(all, path) <= j
<1>1. \E i \in Makers(all, path) : \A j \in Makers(all, path) : i <= j
  <2>1. Makers(all, path) \subseteq Nat
    BY DEF Makers, Indices
  <2>2. QED
    BY <2>1, LeastNatural
<1>2. QED
  BY <1>1 DEF Maker

\* Below a priority that is in use, some invocation of the previous phase has
\* at least the priority of any other.
LEMMA PreviousPhaseIsNext ==
  ASSUME NEW all, \A i \in Indices(all) : all[i].priority \in Nat,
         NEW i \in Indices(all), NEW j \in Indices(all), all[i].priority < all[j].priority
  PROVE  \E k \in PreviousPhaseOf(all, j) : all[i].priority <= all[k].priority
<1> DEFINE smaller == {k \in Indices(all) : all[k].priority < all[j].priority}
           values  == {all[j].priority - all[k].priority : k \in smaller}
<1>1. values # {} /\ values \subseteq Nat
  <2>1. \A k \in smaller : all[j].priority - all[k].priority \in Nat
    OBVIOUS
  <2>2. QED
    BY <2>1
<1>2. PICK v \in values : \A w \in values : v <= w
  BY <1>1, LeastNatural
<1>3. PICK k \in smaller : v = all[j].priority - all[k].priority
  OBVIOUS
<1>4. ASSUME NEW l \in smaller
      PROVE  all[l].priority <= all[k].priority
  <2>1. all[j].priority - all[k].priority <= all[j].priority - all[l].priority
    BY <1>2, <1>3
  <2>2. QED
    BY <2>1
<1>5. k \in PreviousPhaseOf(all, j)
  BY <1>4 DEF PreviousPhaseOf
<1>6. QED
  BY <1>4, <1>5

\* Of naturals that are bounded, one is the greatest.
LEMMA GreatestNatural ==
  ASSUME NEW S, S \subseteq Nat, S # {}, NEW bound \in Nat, \A x \in S : x <= bound
  PROVE  \E x \in S : \A y \in S : y <= x
<1> DEFINE T == {d \in Nat : \E x \in S : d = bound - x}
<1>1. \A x \in S : x \in Nat /\ bound - x \in Nat
  OBVIOUS
<1>2. T # {}
  BY <1>1
<1>3. T \subseteq Nat
  OBVIOUS
<1> HIDE DEF T
<1>4. PICK d \in T : \A e \in T : d <= e
  BY <1>2, <1>3, LeastNatural
<1>5. PICK x \in S : d = bound - x
  BY <1>4 DEF T
<1>6. ASSUME NEW y \in S PROVE y <= x
  <2>1. bound - y \in T
    BY <1>1 DEF T
  <2>2. bound - x <= bound - y
    BY <1>4, <1>5, <2>1
  <2>3. QED
    BY <1>1, <2>2
<1>7. QED
  BY <1>6

\* So is one of finitely many.
LEMMA GreatestOfSequence ==
  ASSUME NEW n \in Nat \ {0}, NEW f, \A i \in 1..n : f[i] \in Nat
  PROVE  \E m \in 1..n : \A i \in 1..n : f[i] <= f[m]
<1> DEFINE Has(k) == \E m \in 1..k : \A i \in 1..k : f[i] <= f[m]
           T      == {k \in 1..n : ~Has(k)}
<1>1. n \in 1..n
  OBVIOUS
<1>2. T \subseteq Nat
  OBVIOUS
<1>3. Has(1)
  OBVIOUS
<1>4. ASSUME NEW k \in 1..n, k # 1, Has(k - 1) PROVE Has(k)
  <2>1. PICK m \in 1..(k - 1) : \A i \in 1..(k - 1) : f[i] <= f[m]
    BY <1>4
  <2>2. /\ m \in 1..k /\ k \in 1..k /\ f[k] \in Nat /\ f[m] \in Nat
        /\ \A i \in 1..k : f[i] \in Nat /\ (i \in 1..(k - 1) \/ i = k)
    BY <2>1
  <2>3. CASE f[k] <= f[m]
    <3>1. \A i \in 1..k : f[i] <= f[m]
      BY <2>1, <2>2, <2>3
    <3>2. QED
      BY <2>2, <3>1
  <2>4. CASE f[m] <= f[k]
    <3>1. \A i \in 1..k : f[i] <= f[k]
      BY <2>1, <2>2, <2>4
    <3>2. QED
      BY <2>2, <3>1
  <2>5. QED
    BY <2>2, <2>3, <2>4
<1>5. \A k \in 1..n : k \in T <=> ~Has(k)
  OBVIOUS
<1>6. SUFFICES ASSUME ~Has(n) PROVE FALSE
  OBVIOUS
<1> HIDE DEF Has, T
<1>7. PICK k \in T : \A j \in T : k <= j
  BY <1>1, <1>2, <1>5, <1>6, LeastNatural
<1>8. k \in 1..n
  BY <1>7 DEF T
<1>9. k # 1 /\ ~Has(k)
  BY <1>3, <1>5, <1>7, <1>8
<1>10. k - 1 \in 1..n /\ ~(k <= k - 1)
  BY <1>8, <1>9
<1>11. Has(k - 1)
  BY <1>5, <1>7, <1>10
<1>12. QED
  BY <1>4, <1>8, <1>9, <1>11

-----------------------------------------------------------------------------

LEMMA TargetIsTyped ==
  ASSUME Typed, NEW t \in Target
  PROVE  /\ Len(Invocations(t)) \in Nat
         /\ \A i \in Indices(Invocations(t)) : Invocations(t)[i] \in InvocationOver(Path)
         /\ Priorities(t) \subseteq Nat
         /\ build.dependencies[t] \subseteq Target
         /\ build.name[t] \in Name
<1>1. build \in Build
  BY NinjaGraphAssumption DEF Typed
<1>2. Invocations(t) \in Seq(InvocationOver(Path)) /\ build.dependencies[t] \subseteq Target
      /\ build.name[t] \in Name
  BY <1>1 DEF Build, Invocations
<1>3. Len(Invocations(t)) \in Nat
      /\ \A i \in Indices(Invocations(t)) : Invocations(t)[i] \in InvocationOver(Path)
  BY <1>2, LenProperties, ElementOfSeq DEF Indices
<1>4. Priorities(t) \subseteq Nat
  BY <1>3 DEF Priorities, InvocationOver
<1>5. QED
  BY <1>2, <1>3, <1>4

\* The names of phony rules are no paths.
LEMMA NamesAreNoPaths ==
  ASSUME Typed, NEW t \in Target
  PROVE  /\ {Begin(t), WriteAuxiliary(t), Finish(t)} \cap Path = {}
         /\ \A p \in Nat : {BeginPhase(t, p), FinishPhase(t, p)} \cap Path = {}
         /\ \A i \in Nat : <<"ninja-phony-output", t, i>> \notin Path
<1>1. build.name[t] \in Name
  BY TargetIsTyped
<1>2. {Begin(t), WriteAuxiliary(t), Finish(t)} \subseteq PhonyNames
  BY <1>1 DEF PhonyNames, Begin, WriteAuxiliary, Finish
<1>3. \A p \in Nat : {BeginPhase(t, p), FinishPhase(t, p)} \subseteq PhonyNames
  BY <1>1 DEF PhonyNames, BeginPhase, FinishPhase
<1>4. \A i \in Nat : <<"ninja-phony-output", t, i>> \in PhonyNames
  BY DEF PhonyNames
<1>5. \A path \in Path : path \notin PhonyNames
  BY NinjaGraphAssumption
<1>6. QED
  BY <1>2, <1>3, <1>4, <1>5

\* There are these rules for a target.
LEMMA HasRules ==
  ASSUME NEW t
  PROVE  /\ {BeginRule(t), WriteRule(t), FinishRule(t)} \subseteq RulesFor(t)
         /\ \A file \in build.auxiliary[t] : AuxiliaryRule(t, file) \in RulesFor(t)
         /\ \A p \in Priorities(t) : {BeginPhaseRule(t, p), FinishPhaseRule(t, p)} \subseteq RulesFor(t)
         /\ \A i \in Tools(t) : ToolRule(t, i) \in RulesFor(t)
<1>1. {BeginRule(t), WriteRule(t), FinishRule(t)} \subseteq TargetRules(t)
  BY DEF TargetRules, BeginRule, WriteRule, FinishRule, LastPhase
<1>2. \A file \in build.auxiliary[t] : AuxiliaryRule(t, file) \in AuxiliaryRules(t)
  BY DEF AuxiliaryRules, AuxiliaryRule
<1>3. \A p \in Priorities(t) : {BeginPhaseRule(t, p), FinishPhaseRule(t, p)} \subseteq PhaseRules(t)
  BY DEF PhaseRules, BeginPhaseRule, FinishPhaseRule
<1>4. \A i \in Tools(t) : ToolRule(t, i) \in ToolRules(t)
  BY DEF ToolRules, ToolRule
<1>5. QED
  BY <1>1, <1>2, <1>3, <1>4 DEF RulesFor

\* There are no others.
LEMMA RuleKinds ==
  ASSUME NEW t, NEW rule \in RulesFor(t)
  PROVE  \/ rule \in {BeginRule(t), WriteRule(t), FinishRule(t)}
         \/ \E file \in build.auxiliary[t] : rule = AuxiliaryRule(t, file)
         \/ \E p \in Priorities(t) : rule \in {BeginPhaseRule(t, p), FinishPhaseRule(t, p)}
         \/ \E i \in Tools(t) : rule = ToolRule(t, i)
         \/ \E i \in Indices(Invocations(t)) :
              \E path \in Invocations(t)[i].phonyInputs \ UNION {Outputs(t, j) : j \in Tools(t)} :
                rule = PhonyInputRule(t, i, path)
<1>1. CASE rule \in TargetRules(t)
  BY <1>1 DEF TargetRules, BeginRule, WriteRule, FinishRule, LastPhase
<1>2. CASE rule \in AuxiliaryRules(t)
  BY <1>2 DEF AuxiliaryRules, AuxiliaryRule
<1>3. CASE rule \in PhaseRules(t)
  BY <1>3 DEF PhaseRules, BeginPhaseRule, FinishPhaseRule
<1>4. CASE rule \in ToolRules(t)
  BY <1>4 DEF ToolRules, ToolRule
<1>5. CASE rule \in PhonyInputRules(t)
  BY <1>5 DEF PhonyInputRules, PhonyInputRule
<1>6. QED
  BY <1>1, <1>2, <1>3, <1>4, <1>5 DEF RulesFor

\* Where each rule comes from, and what it makes and needs.
LEMMA Origins ==
  ASSUME NEW t
  PROVE  /\ BeginRule(t).origin[1] = "begin"
         /\ WriteRule(t).origin[1] = "write auxiliary"
         /\ FinishRule(t).origin[1] = "finish"
         /\ \A file : AuxiliaryRule(t, file).origin[1] = "auxiliary file"
         /\ \A p : BeginPhaseRule(t, p).origin[1] = "begin phase"
         /\ \A p : FinishPhaseRule(t, p).origin[1] = "finish phase"
         /\ \A i : ToolRule(t, i).origin = <<"invocation", t, i>>
BY DEF Rule, BeginRule, WriteRule, FinishRule, AuxiliaryRule, BeginPhaseRule, FinishPhaseRule,
       ToolRule

LEMMA OutputsOfRules ==
  ASSUME NEW t
  PROVE  /\ BeginRule(t).outputs = {Begin(t)}
         /\ WriteRule(t).outputs = {WriteAuxiliary(t)}
         /\ FinishRule(t).outputs = {Finish(t)}
         /\ \A file : AuxiliaryRule(t, file).outputs = {file.path}
         /\ \A p : BeginPhaseRule(t, p).outputs = {BeginPhase(t, p)}
         /\ \A p : FinishPhaseRule(t, p).outputs = {FinishPhase(t, p)}
         /\ \A i : ToolRule(t, i).outputs = Outputs(t, i)
BY DEF Rule, BeginRule, WriteRule, FinishRule, AuxiliaryRule, BeginPhaseRule, FinishPhaseRule,
       ToolRule

LEMMA NeedsOfRules ==
  ASSUME NEW t
  PROVE  /\ BeginRule(t).needs = {Finish(d) : d \in build.dependencies[t]}
         /\ WriteRule(t).needs = {Begin(t)} \cup {file.path : file \in build.auxiliary[t]}
         /\ FinishRule(t).needs = {FinishPhase(t, LastPhase(t))}
         /\ \A p : BeginPhaseRule(t, p).needs = {BeforePhase(t, p)}
         /\ \A p : FinishPhaseRule(t, p).needs = {BeginPhase(t, p)} \cup PhaseOutputs(t, p)
         /\ \A i : ToolRule(t, i).needs
                   = Invocations(t)[i].inputs \cup Invocations(t)[i].inputDependencies
                       \cup {BeginPhase(t, Invocations(t)[i].priority)}
BY DEF Rule, BeginRule, WriteRule, FinishRule, BeginPhaseRule, FinishPhaseRule, ToolRule

\* Every rule makes something.
LEMMA RulesMake ==
  ASSUME NEW t, NEW rule \in RulesFor(t)
  PROVE  rule.outputs # {}
<1>1. \A i : Outputs(t, i) # {}
  BY DEF Outputs
<1>2. CASE rule \in {BeginRule(t), WriteRule(t), FinishRule(t)}
  BY <1>2, OutputsOfRules
<1>3. CASE \E file \in build.auxiliary[t] : rule = AuxiliaryRule(t, file)
  <2>1. PICK file \in build.auxiliary[t] : rule = AuxiliaryRule(t, file)
    BY <1>3
  <2>2. rule.outputs = {file.path}
    BY <2>1, OutputsOfRules
  <2>3. QED
    BY <2>2
<1>4. CASE \E p \in Priorities(t) : rule \in {BeginPhaseRule(t, p), FinishPhaseRule(t, p)}
  BY <1>4, OutputsOfRules
<1>5. CASE \E i \in Tools(t) : rule = ToolRule(t, i)
  BY <1>1, <1>5, OutputsOfRules
<1>6. CASE \E i \in Indices(Invocations(t)) : \E path :
             rule = PhonyInputRule(t, i, path)
  <2>1. PICK i, path : rule = PhonyInputRule(t, i, path)
    BY <1>6, Zenon
  <2>2. rule.outputs = {path}
    BY <2>1 DEF PhonyInputRule, Rule
  <2>3. QED
    BY <2>2
<1>7. QED
  BY <1>2, <1>3, <1>4, <1>5, <1>6, RuleKinds

\* A rule that comes from an invocation is that of its tool.
LEMMA OriginTells ==
  ASSUME NEW u, NEW rule \in RulesFor(u), NEW t, NEW i, rule.origin = <<"invocation", t, i>>
  PROVE  u = t /\ i \in Tools(t) /\ rule = ToolRule(t, i)
<1>1. rule.origin[1] = "invocation" /\ rule.origin[2] = t /\ rule.origin[3] = i
  OBVIOUS
<1>2. \E j \in Tools(u) : rule = ToolRule(u, j)
  <2>1. ~(rule \in {BeginRule(u), WriteRule(u), FinishRule(u)})
    BY <1>1, Origins
  <2>2. ~(\E file \in build.auxiliary[u] : rule = AuxiliaryRule(u, file))
    BY <1>1, Origins
  <2>3. ~(\E p \in Priorities(u) : rule \in {BeginPhaseRule(u, p), FinishPhaseRule(u, p)})
    BY <1>1, Origins
  <2>4. ~(\E j \in Indices(Invocations(u)) : \E path \in Invocations(u)[j].phonyInputs :
            rule = PhonyInputRule(u, j, path))
    <3>1. ASSUME NEW j, NEW path, rule = PhonyInputRule(u, j, path) PROVE FALSE
      <4>1. rule.origin[1] = "phony input"
        BY <3>1 DEF PhonyInputRule, Rule
      <4>2. QED
        BY <1>1, <4>1
    <3>2. QED
      BY <3>1, Zenon
  <2>5. QED
    BY <2>1, <2>2, <2>3, <2>4, RuleKinds
<1>3. PICK j \in Tools(u) : rule = ToolRule(u, j)
  BY <1>2
<1>4. rule.origin = <<"invocation", u, j>>
  BY <1>3, Origins
<1>5. u = t /\ j = i
  BY <1>1, <1>4
<1>6. QED
  BY <1>3, <1>5

-----------------------------------------------------------------------------

\* The rules of each target that is included are among the rules.
LEMMA RulesOf ==
  ASSUME IInv, NEW t \in included
  PROVE  /\ t \in Target
         /\ BeginRule(t) \in rules /\ WriteRule(t) \in rules /\ FinishRule(t) \in rules
         /\ \A file \in build.auxiliary[t] : AuxiliaryRule(t, file) \in rules
         /\ \A p \in Priorities(t) : BeginPhaseRule(t, p) \in rules /\ FinishPhaseRule(t, p) \in rules
         /\ \A i \in Tools(t) : ToolRule(t, i) \in rules
<1>1. t \in Target
  BY DEF IInv, Typed, TypeOK
<1>2. RulesFor(t) \subseteq rules
  BY DEF IInv, RulesAreGenerated
<1>3. QED
  BY <1>1, <1>2, HasRules

\* What a rule that has started needs of another is done: nobody else makes it.
LEMMA Follow ==
  ASSUME IInv, NEW rule \in Started, NEW maker \in rules,
         NEW x, x \in rule.needs, x \in maker.outputs
  PROVE  maker \in finished
<1>1. ~MakesTwice
  BY DEF IInv, RulesAreTaken
<1>2. x \in Made
  BY DEF IInv, NeedsAreMade, Makable
<1>3. PICK r \in finished : x \in r.outputs
  BY <1>2 DEF Made
<1>4. r \in rules
  BY <1>3 DEF IInv, Typed, TypeOK
<1>5. r = maker
  BY <1>1, <1>3, <1>4 DEF MakesTwice
<1>6. QED
  BY <1>3, <1>5

LEMMA ToolsAreTyped ==
  ASSUME IInv, NEW t \in Target, NEW i \in Tools(t)
  PROVE  /\ i \in Indices(Invocations(t))
         /\ Invocations(t)[i].priority \in Priorities(t)
         /\ Invocations(t)[i].priority \in Nat
<1>1. i \in Indices(Invocations(t))
  BY DEF Tools
<1>2. Invocations(t)[i].priority \in Priorities(t)
  BY <1>1 DEF Priorities
<1>3. Typed
  BY DEF IInv
<1>4. QED
  BY <1>1, <1>2, <1>3, TargetIsTyped

\* When a phase has begun, the auxiliary files are there and the phases before
\* are done: a chain of phases leads back to each.
LEMMA PhasesInOrder ==
  ASSUME IInv, NEW t \in included, NEW p \in Priorities(t), BeginPhaseRule(t, p) \in finished
  PROVE  /\ WriteRule(t) \in finished
         /\ \A q \in Priorities(t) : q < p => FinishPhaseRule(t, q) \in finished
<1> DEFINE InOrder(r) == /\ WriteRule(t) \in finished
                         /\ \A q \in Priorities(t) : q < r => FinishPhaseRule(t, q) \in finished
           T == {r \in Priorities(t) : BeginPhaseRule(t, r) \in finished /\ ~InOrder(r)}
<1>1. t \in Target /\ Typed
  BY RulesOf DEF IInv
<1>2. Priorities(t) \subseteq Nat
  BY <1>1, TargetIsTyped
<1>3. ASSUME NEW r \in Priorities(t), BeginPhaseRule(t, r) \in finished,
             \A q \in Priorities(t) : q < r /\ BeginPhaseRule(t, q) \in finished => InOrder(q)
      PROVE  InOrder(r)
  <2> DEFINE smaller == {q \in Priorities(t) : q < r}
  <2>1. BeginPhaseRule(t, r) \in Started /\ BeforePhase(t, r) \in BeginPhaseRule(t, r).needs
    <3>1. BeginPhaseRule(t, r).needs = {BeforePhase(t, r)}
      BY NeedsOfRules
    <3>2. QED
      BY <1>3, <3>1 DEF Started
  <2>2. CASE smaller = {}
    <3>1. BeforePhase(t, r) \in WriteRule(t).outputs
      BY <2>2, OutputsOfRules DEF BeforePhase
    <3>2. WriteRule(t) \in finished
      BY <2>1, <3>1, Follow, RulesOf
    <3>3. QED
      BY <2>2, <3>2
  <2>3. CASE smaller # {}
    <3>1. \E q \in smaller : \A s \in smaller : s <= q
      <4>1. r \in Nat /\ smaller \subseteq Nat /\ \A s \in smaller : s <= r
        BY <1>2
      <4>2. QED
        BY <2>3, <4>1, GreatestNatural
    <3>2. PICK q \in smaller : BeforePhase(t, r) = FinishPhase(t, q) /\ \A s \in smaller : s <= q
      BY <2>3, <3>1 DEF BeforePhase
    <3>3. FinishPhaseRule(t, q) \in finished
      <4>1. FinishPhaseRule(t, q) \in rules
        BY RulesOf
      <4>2. BeforePhase(t, r) \in FinishPhaseRule(t, q).outputs
        BY <3>2, OutputsOfRules
      <4>3. QED
        BY <2>1, <4>1, <4>2, Follow
    <3>4. BeginPhaseRule(t, q) \in finished
      <4>1. FinishPhaseRule(t, q) \in Started /\ BeginPhase(t, q) \in FinishPhaseRule(t, q).needs
        <5>1. FinishPhaseRule(t, q).needs = {BeginPhase(t, q)} \cup PhaseOutputs(t, q)
          BY NeedsOfRules
        <5>2. QED
          BY <3>3, <5>1 DEF Started
      <4>2. BeginPhaseRule(t, q) \in rules /\ BeginPhase(t, q) \in BeginPhaseRule(t, q).outputs
        BY RulesOf, OutputsOfRules
      <4>3. QED
        BY <4>1, <4>2, Follow
    <3>5. q \in Priorities(t) /\ q < r /\ InOrder(q)
      BY <1>3, <3>4
    <3>6. \A s \in Priorities(t) : s < r => s < q \/ s = q
      BY <1>2, <3>2
    <3>7. QED
      BY <3>3, <3>5, <3>6
  <2>4. QED
    BY <2>2, <2>3
<1> HIDE DEF InOrder
<1>4. T \subseteq Nat
  BY <1>2
<1>5. SUFFICES ASSUME T # {} PROVE FALSE
  BY DEF InOrder
<1>6. PICK r \in T : \A q \in T : r <= q
  BY <1>4, <1>5, LeastNatural
<1>7. r \in Priorities(t) /\ BeginPhaseRule(t, r) \in finished /\ ~InOrder(r)
  BY <1>6
<1>8. \A q \in Priorities(t) : q < r /\ BeginPhaseRule(t, q) \in finished => InOrder(q)
  BY <1>2, <1>6
<1>9. QED
  BY <1>3, <1>7, <1>8

\* When a phase is done, so are its tools.
LEMMA ToolsOfPhase ==
  ASSUME IInv, NEW t \in included, NEW i \in Tools(t),
         FinishPhaseRule(t, Invocations(t)[i].priority) \in finished
  PROVE  ToolRule(t, i) \in finished
<1> DEFINE p == Invocations(t)[i].priority
<1>1. PICK x \in Outputs(t, i) : TRUE
  BY DEF Outputs
<1>2. i \in Indices(Invocations(t))
  BY DEF Tools
<1>3. x \in PhaseOutputs(t, p)
  BY <1>2 DEF PhaseOutputs
<1>4. FinishPhaseRule(t, p) \in Started /\ x \in FinishPhaseRule(t, p).needs
  BY <1>3, NeedsOfRules DEF Started
<1>5. ToolRule(t, i) \in rules /\ x \in ToolRule(t, i).outputs
  BY RulesOf, OutputsOfRules
<1>6. QED
  BY <1>4, <1>5, Follow

\* When the phase of a tool has begun, what the target begins with is done.
LEMMA TargetHasBegun ==
  ASSUME IInv, NEW t \in included, WriteRule(t) \in finished
  PROVE  /\ BeginRule(t) \in finished
         /\ {file.path : file \in build.auxiliary[t]} \subseteq Made
<1>1. WriteRule(t) \in Started
      /\ WriteRule(t).needs = {Begin(t)} \cup {file.path : file \in build.auxiliary[t]}
  BY NeedsOfRules DEF Started
<1>2. BeginRule(t) \in finished
  <2>1. BeginRule(t) \in rules /\ Begin(t) \in BeginRule(t).outputs
    BY RulesOf, OutputsOfRules
  <2>2. QED
    BY <1>1, <2>1, Follow
<1>3. ASSUME NEW file \in build.auxiliary[t] PROVE file.path \in Made
  <2>1. AuxiliaryRule(t, file) \in rules /\ file.path \in AuxiliaryRule(t, file).outputs
    BY RulesOf, OutputsOfRules
  <2>2. AuxiliaryRule(t, file) \in finished
    BY <1>1, <2>1, Follow
  <2>3. QED
    BY <2>1, <2>2 DEF Made
<1>4. QED
  BY <1>2, <1>3

LEMMA ToolHasBegun ==
  ASSUME IInv, NEW t \in included, NEW i \in Tools(t), HasStarted(t, i)
  PROVE  /\ ToolRule(t, i) \in Started
         /\ BeginPhaseRule(t, Invocations(t)[i].priority) \in finished
<1> DEFINE p == Invocations(t)[i].priority
<1>1. PICK rule \in Started : rule.origin = <<"invocation", t, i>>
  BY DEF HasStarted
<1>2. rule \in rules
  BY <1>1 DEF Started, IInv, Typed, TypeOK
<1>3. PICK u \in included : rule \in RulesFor(u)
  BY <1>2 DEF IInv, RulesAreGenerated
<1>4. rule = ToolRule(t, i)
  BY <1>1, <1>3, OriginTells
<1>5. t \in Target /\ p \in Priorities(t)
  BY RulesOf, ToolsAreTyped
<1>6. BeginPhase(t, p) \in ToolRule(t, i).needs
  BY NeedsOfRules
<1>7. BeginPhaseRule(t, p) \in rules /\ BeginPhase(t, p) \in BeginPhaseRule(t, p).outputs
  BY <1>5, RulesOf, OutputsOfRules
<1>8. QED
  BY <1>1, <1>4, <1>6, <1>7, Follow

LEMMA TurnsAreKept == IInv => ToolsWaitForTheirTurn
<1> SUFFICES ASSUME IInv, NEW t \in included, NEW i \in Tools(t), HasStarted(t, i),
                    NEW j \in Tools(t),
                    \/ Invocations(t)[j].priority < Invocations(t)[i].priority
                    \/ Invocations(t)[j].outputs
                         \cap (Invocations(t)[i].inputs \cup Invocations(t)[i].inputDependencies) # {}
             PROVE  HasFinished(t, j)
  BY DEF ToolsWaitForTheirTurn
<1>1. t \in Target /\ ToolRule(t, j) \in rules
  BY RulesOf
<1>2. ToolRule(t, i) \in Started /\ BeginPhaseRule(t, Invocations(t)[i].priority) \in finished
  BY ToolHasBegun
<1>3. ToolRule(t, j) \in finished
  <2>1. CASE Invocations(t)[j].priority < Invocations(t)[i].priority
    <3>1. FinishPhaseRule(t, Invocations(t)[j].priority) \in finished
      BY <1>1, <1>2, <2>1, ToolsAreTyped, PhasesInOrder
    <3>2. QED
      BY <3>1, ToolsOfPhase
  <2>2. CASE Invocations(t)[j].outputs
               \cap (Invocations(t)[i].inputs \cup Invocations(t)[i].inputDependencies) # {}
    <3>1. PICK x \in Invocations(t)[j].outputs :
                 x \in Invocations(t)[i].inputs \cup Invocations(t)[i].inputDependencies
      BY <2>2
    <3>2. x \in ToolRule(t, j).outputs
      BY OutputsOfRules DEF Outputs
    <3>3. x \in ToolRule(t, i).needs
      BY <3>1, NeedsOfRules
    <3>4. QED
      BY <1>1, <1>2, <3>2, <3>3, Follow
  <2>3. QED
    BY <2>1, <2>2
<1>4. ToolRule(t, j).origin = <<"invocation", t, j>>
  BY Origins
<1>5. QED
  BY <1>3, <1>4 DEF HasFinished

-----------------------------------------------------------------------------

\* When a target is finished, so are its tools, and it had begun.
LEMMA LastPhaseIsLast ==
  ASSUME IInv, NEW t \in Target, Priorities(t) # {}
  PROVE  LastPhase(t) \in Priorities(t) /\ \A q \in Priorities(t) : q <= LastPhase(t)
<1> DEFINE n == Len(Invocations(t))
           f == [i \in 1..n |-> Invocations(t)[i].priority]
<1>1. n \in Nat /\ \A i \in 1..n : Invocations(t)[i].priority \in Nat
  BY TargetIsTyped DEF IInv, Indices, InvocationOver
<1>2. n # 0
  BY DEF Priorities, Indices
<1>3. \A i \in 1..n : f[i] \in Nat /\ f[i] = Invocations(t)[i].priority
  BY <1>1
<1> HIDE DEF f
<1>4. PICK m \in 1..n : \A i \in 1..n : f[i] <= f[m]
  BY <1>1, <1>2, <1>3, GreatestOfSequence
<1>5. f[m] \in Priorities(t) /\ \A q \in Priorities(t) : q <= f[m]
  BY <1>3, <1>4 DEF Priorities, Indices
<1>6. QED
  BY <1>5 DEF LastPhase

LEMMA TargetIsDone ==
  ASSUME IInv, NEW t \in included, Priorities(t) # {}, FinishRule(t) \in finished
  PROVE  /\ BeginRule(t) \in finished
         /\ \A i \in Tools(t) : ToolRule(t, i) \in finished
<1> DEFINE last == LastPhase(t)
<1>1. t \in Target
  BY RulesOf
<1>2. last \in Priorities(t) /\ \A q \in Priorities(t) : q <= last
  BY <1>1, LastPhaseIsLast
<1>3. FinishPhaseRule(t, last) \in finished
  <2>1. FinishRule(t) \in Started /\ FinishPhase(t, last) \in FinishRule(t).needs
    BY NeedsOfRules DEF Started
  <2>2. FinishPhaseRule(t, last) \in rules
        /\ FinishPhase(t, last) \in FinishPhaseRule(t, last).outputs
    BY <1>2, RulesOf, OutputsOfRules
  <2>3. QED
    BY <2>1, <2>2, Follow
<1>4. BeginPhaseRule(t, last) \in finished
  <2>1. FinishPhaseRule(t, last) \in Started
    BY <1>3 DEF Started
  <2>2. FinishPhaseRule(t, last).needs = {BeginPhase(t, last)} \cup PhaseOutputs(t, last)
    BY NeedsOfRules
  <2>3. BeginPhaseRule(t, last) \in rules
        /\ BeginPhase(t, last) \in BeginPhaseRule(t, last).outputs
    BY <1>2, RulesOf, OutputsOfRules
  <2>4. QED
    BY <2>1, <2>2, <2>3, Follow
<1>5. WriteRule(t) \in finished /\ \A q \in Priorities(t) : q < last => FinishPhaseRule(t, q) \in finished
  BY <1>2, <1>4, PhasesInOrder
<1>6. ASSUME NEW i \in Tools(t) PROVE ToolRule(t, i) \in finished
  <2>1. Invocations(t)[i].priority \in Priorities(t)
    BY <1>1, ToolsAreTyped
  <2>2. Priorities(t) \subseteq Nat
    BY <1>1, TargetIsTyped DEF IInv
  <2>3. Invocations(t)[i].priority < last \/ Invocations(t)[i].priority = last
    BY <1>2, <2>1, <2>2
  <2>4. FinishPhaseRule(t, Invocations(t)[i].priority) \in finished
    BY <1>3, <1>5, <2>1, <2>3
  <2>5. QED
    BY <2>4, ToolsOfPhase
<1>7. QED
  BY <1>5, <1>6, TargetHasBegun

\* The files of a target are paths, which no phony rule stands for.
LEMMA FilesArePaths ==
  ASSUME IInv, NEW t \in Target
  PROVE  /\ \A file \in build.auxiliary[t] : file.path \in Path
         /\ \A i \in Tools(t) : Outputs(t, i) \subseteq Path \cup {<<"ninja-phony-output", t, i>>}
         /\ \A i \in Indices(Invocations(t)) : Invocations(t)[i].phonyInputs \subseteq Path
         /\ build.sources \subseteq Path
<1>1. Typed /\ build \in Build
  BY NinjaGraphAssumption DEF IInv, Typed
<1>2. \A i \in Indices(Invocations(t)) : Invocations(t)[i] \in InvocationOver(Path)
  BY <1>1, TargetIsTyped
<1>3. \A i \in Indices(Invocations(t)) :
        Invocations(t)[i].outputs \subseteq Path /\ Invocations(t)[i].phonyInputs \subseteq Path
  BY <1>2 DEF InvocationOver
<1>4. \A i \in Tools(t) : Outputs(t, i) \subseteq Path \cup {<<"ninja-phony-output", t, i>>}
  BY <1>3 DEF Tools, Outputs
<1>5. build.auxiliary[t] \subseteq [path : Path, copied : SUBSET Path] /\ build.sources \subseteq Path
  BY <1>1 DEF Build
<1>6. QED
  BY <1>3, <1>4, <1>5

\* The names of the phony rules tell them apart.
LEMMA NamesOfRules ==
  ASSUME NEW t, NEW u, NEW p, NEW q
  PROVE  /\ Finish(t) \notin {Begin(u), WriteAuxiliary(u), BeginPhase(u, p), FinishPhase(u, p)}
         /\ FinishPhase(t, q) \notin {Begin(u), WriteAuxiliary(u), Finish(u), BeginPhase(u, p)}
         /\ Finish(t) = Finish(u) => build.name[t] = build.name[u]
         /\ FinishPhase(t, q) = FinishPhase(u, p) => build.name[t] = build.name[u] /\ q = p
         /\ Finish(t) # <<"ninja-phony-output", u, p>>
         /\ FinishPhase(t, q) # <<"ninja-phony-output", u, p>>
BY DEF Finish, Begin, WriteAuxiliary, BeginPhase, FinishPhase

LEMMA FinishedPhases ==
  ASSUME NEW t, NEW u, NEW p, NEW q, FinishPhase(t, q) = FinishPhase(u, p)
  PROVE  build.name[t] = build.name[u] /\ q = p
BY DEF FinishPhase

\* What stands for a finished target is made by its rule or not at all.
LEMMA MakerOfFinish ==
  ASSUME IInv, NamesAreUnique, NEW t \in Target, NEW rule \in rules, Finish(t) \in rule.outputs
  PROVE  t \in included
<1>1. PICK u \in included : rule \in RulesFor(u)
  BY DEF IInv, RulesAreGenerated
<1>2. u \in Target
  BY <1>1, RulesOf
<1>3. Finish(t) \notin Path
  BY NamesAreNoPaths DEF IInv
<1>4. CASE rule \in {BeginRule(u), WriteRule(u), FinishRule(u)}
  <2>1. Finish(t) = Finish(u)
    BY <1>4, OutputsOfRules, NamesOfRules
  <2>2. t = u
    BY <1>2, <2>1, NamesOfRules DEF NamesAreUnique
  <2>3. QED
    BY <1>1, <2>2
<1>5. ASSUME NEW file \in build.auxiliary[u], rule = AuxiliaryRule(u, file) PROVE FALSE
  <2>1. rule.outputs = {file.path}
    BY <1>5, OutputsOfRules
  <2>2. Finish(t) = file.path
    BY <2>1
  <2>3. QED
    BY <1>2, <1>3, <2>2, FilesArePaths
<1>6. ASSUME NEW p \in Priorities(u), rule \in {BeginPhaseRule(u, p), FinishPhaseRule(u, p)}
      PROVE  FALSE
  <2>1. rule.outputs = {BeginPhase(u, p)} \/ rule.outputs = {FinishPhase(u, p)}
    <3>1. /\ BeginPhaseRule(u, p).outputs = {BeginPhase(u, p)}
          /\ FinishPhaseRule(u, p).outputs = {FinishPhase(u, p)}
      BY OutputsOfRules
    <3>2. QED
      BY <1>6, <3>1
  <2>2. Finish(t) # BeginPhase(u, p) /\ Finish(t) # FinishPhase(u, p)
    BY DEF Finish, BeginPhase, FinishPhase
  <2>3. QED
    BY <2>1, <2>2
<1>7. ASSUME NEW i \in Tools(u), rule = ToolRule(u, i) PROVE FALSE
  <2>1. Finish(t) \in Outputs(u, i)
    BY <1>7, OutputsOfRules
  <2>2. Finish(t) # <<"ninja-phony-output", u, i>>
    BY DEF Finish
  <2>3. Finish(t) \in Path
    <3>1. Outputs(u, i) \subseteq Path \cup {<<"ninja-phony-output", u, i>>}
      BY <1>2, FilesArePaths
    <3>2. QED
      BY <2>1, <2>2, <3>1
  <2>4. QED
    BY <1>3, <2>3
<1>8. ASSUME NEW i \in Indices(Invocations(u)), NEW path \in Invocations(u)[i].phonyInputs,
             rule = PhonyInputRule(u, i, path)
      PROVE  FALSE
  <2>1. Finish(t) = path
    BY <1>8 DEF PhonyInputRule, Rule
  <2>2. QED
    BY <1>2, <1>3, <2>1, FilesArePaths, SMTT(30)
<1>9. QED
  BY <1>1, <1>4, <1>5, <1>6, <1>7, <1>8, RuleKinds, ZenonT(60)

\* A phase 0 that no invocation has is finished by no rule.
LEMMA MakerOfPhase ==
  ASSUME IInv, NamesAreUnique, NEW t \in Target, NEW rule \in rules,
         FinishPhase(t, 0) \in rule.outputs
  PROVE  0 \in Priorities(t)
<1>1. PICK u \in included : rule \in RulesFor(u)
  BY DEF IInv, RulesAreGenerated
<1>2. u \in Target
  BY <1>1, RulesOf
<1>3. FinishPhase(t, 0) \notin Path
  BY NamesAreNoPaths DEF IInv
<1>4. ASSUME rule \in {BeginRule(u), WriteRule(u), FinishRule(u)} PROVE FALSE
  <2>1. rule.outputs = {Begin(u)} \/ rule.outputs = {WriteAuxiliary(u)} \/ rule.outputs = {Finish(u)}
    BY <1>4, OutputsOfRules
  <2>2. FinishPhase(t, 0) \notin {Begin(u), WriteAuxiliary(u), Finish(u)}
    BY DEF FinishPhase, Begin, WriteAuxiliary, Finish
  <2>3. QED
    BY <2>1, <2>2
<1>5. ASSUME NEW file \in build.auxiliary[u], rule = AuxiliaryRule(u, file) PROVE FALSE
  <2>1. rule.outputs = {file.path}
    BY <1>5, OutputsOfRules
  <2>2. FinishPhase(t, 0) = file.path
    BY <2>1
  <2>3. QED
    BY <1>2, <1>3, <2>2, FilesArePaths
<1>6. ASSUME NEW p \in Priorities(u), rule \in {BeginPhaseRule(u, p), FinishPhaseRule(u, p)}
      PROVE  0 \in Priorities(t)
  <2>1. rule.outputs = {BeginPhase(u, p)} \/ rule.outputs = {FinishPhase(u, p)}
    <3>1. /\ BeginPhaseRule(u, p).outputs = {BeginPhase(u, p)}
          /\ FinishPhaseRule(u, p).outputs = {FinishPhase(u, p)}
      BY OutputsOfRules
    <3>2. QED
      BY <1>6, <3>1
  <2>2. FinishPhase(t, 0) # BeginPhase(u, p)
    BY DEF FinishPhase, BeginPhase
  <2>3. FinishPhase(t, 0) = FinishPhase(u, p)
    BY <2>1, <2>2
  <2>4. build.name[t] = build.name[u] /\ p = 0
    BY <2>3, FinishedPhases
  <2>5. t = u
    BY <1>2, <2>4 DEF NamesAreUnique
  <2>6. QED
    BY <1>6, <2>4, <2>5
<1>7. ASSUME NEW i \in Tools(u), rule = ToolRule(u, i) PROVE FALSE
  <2>1. FinishPhase(t, 0) \in Outputs(u, i)
    BY <1>7, OutputsOfRules
  <2>2. FinishPhase(t, 0) # <<"ninja-phony-output", u, i>>
    BY DEF FinishPhase
  <2>3. FinishPhase(t, 0) \in Path
    <3>1. Outputs(u, i) \subseteq Path \cup {<<"ninja-phony-output", u, i>>}
      BY <1>2, FilesArePaths
    <3>2. QED
      BY <2>1, <2>2, <3>1
  <2>4. QED
    BY <1>3, <2>3
<1>8. ASSUME NEW i \in Indices(Invocations(u)), NEW path \in Invocations(u)[i].phonyInputs,
             rule = PhonyInputRule(u, i, path)
      PROVE  FALSE
  <2>1. FinishPhase(t, 0) = path
    BY <1>8 DEF PhonyInputRule, Rule
  <2>2. QED
    BY <1>2, <1>3, <2>1, FilesArePaths, SMTT(30)
<1>9. QED
  BY <1>1, <1>4, <1>5, <1>6, <1>7, <1>8, RuleKinds, ZenonT(60)

\* What no rule makes is a file that is there: Ninja has refused the rest.
LEMMA NeedsAreMakable ==
  ASSUME IInv, NEW rule \in Started, NEW x \in rule.needs, x \notin Path
  PROVE  \E maker \in rules : x \in maker.outputs
<1>1. ~IsMissing /\ rule \in rules
  BY DEF IInv, RulesAreTaken, Typed, TypeOK, Started
<1>2. build.sources \subseteq Path
  BY NinjaGraphAssumption DEF IInv, Typed, Build
<1>3. x \in Makable \cup build.sources
  BY <1>1 DEF IsMissing
<1>4. QED
  BY <1>2, <1>3 DEF Makable

\* A target begins when those it depends on are finished, whichever they are.
LEMMA DependenciesAreDone ==
  ASSUME IInv, NamesAreUnique, NEW t \in included, BeginRule(t) \in finished,
         NEW d \in build.dependencies[t]
  PROVE  d \in included /\ FinishRule(d) \in finished
<1>1. t \in Target /\ d \in Target
  <2>1. t \in Target
    BY RulesOf
  <2>2. build.dependencies[t] \subseteq Target
    BY <2>1, TargetIsTyped DEF IInv
  <2>3. QED
    BY <2>1, <2>2
<1>2. BeginRule(t) \in Started /\ Finish(d) \in BeginRule(t).needs
  BY NeedsOfRules DEF Started
<1>3. Finish(d) \notin Path
  BY <1>1, NamesAreNoPaths DEF IInv
<1>4. PICK maker \in rules : Finish(d) \in maker.outputs
  BY <1>2, <1>3, NeedsAreMakable
<1>5. d \in included
  BY <1>1, <1>4, MakerOfFinish
<1>6. FinishRule(d) \in rules /\ Finish(d) \in FinishRule(d).outputs
  BY <1>5, RulesOf, OutputsOfRules
<1>7. QED
  BY <1>2, <1>5, <1>6, Follow

\* A target without invocations cannot finish, so a finished one has some.
LEMMA FinishedTargetsHavePhases ==
  ASSUME IInv, NamesAreUnique, NEW t \in included, FinishRule(t) \in finished
  PROVE  Priorities(t) # {}
<1>1. SUFFICES ASSUME Priorities(t) = {} PROVE FALSE
  OBVIOUS
<1>2. t \in Target
  BY RulesOf
<1>3. FinishRule(t) \in Started /\ FinishPhase(t, 0) \in FinishRule(t).needs
  BY <1>1, NeedsOfRules DEF Started, LastPhase
<1>4. FinishPhase(t, 0) \notin Path
  BY <1>2, NamesAreNoPaths DEF IInv
<1>5. PICK maker \in rules : FinishPhase(t, 0) \in maker.outputs
  BY <1>3, <1>4, NeedsAreMakable
<1>6. QED
  BY <1>1, <1>2, <1>5, MakerOfPhase

\* The targets that are finished have all that they depend on among them.
LEMMA NeededAreDone ==
  ASSUME IInv, NamesAreUnique, NEW t \in included, BeginRule(t) \in finished,
         NEW d \in NeededTargets(t) \ {t}
  PROVE  \A j \in Tools(d) : ToolRule(d, j) \in finished
<1> DEFINE S == {t} \cup {u \in included : FinishRule(u) \in finished}
<1>1. included \subseteq Target
  BY DEF IInv, Typed, TypeOK
<1>2. ASSUME NEW u \in S PROVE u \in included /\ BeginRule(u) \in finished
  BY FinishedTargetsHavePhases, TargetIsDone
<1>3. ASSUME NEW u \in S PROVE build.dependencies[u] \subseteq S
  BY <1>2, DependenciesAreDone
<1>4. S \in SUBSET Target /\ t \in S
  BY <1>1
<1> HIDE DEF S
<1>5. d \in S
  BY <1>3, <1>4 DEF NeededTargets
<1>6. d \in included /\ FinishRule(d) \in finished
  BY <1>5 DEF S
<1>7. QED
  BY <1>6, FinishedTargetsHavePhases, TargetIsDone

LEMMA DependenciesAreKept == IInv => DependenciesAreBuilt
<1> SUFFICES ASSUME IInv, NEW t \in included, NEW i \in Tools(t), HasStarted(t, i)
             PROVE  /\ NamesAreUnique =>
                         \A d \in NeededTargets(t) \ {t} : \A j \in Tools(d) : HasFinished(d, j)
                    /\ {file.path : file \in build.auxiliary[t]} \subseteq Made
  BY DEF DependenciesAreBuilt
<1>1. BeginPhaseRule(t, Invocations(t)[i].priority) \in finished
  BY ToolHasBegun
<1>2. Invocations(t)[i].priority \in Priorities(t)
  BY RulesOf, ToolsAreTyped
<1>3. WriteRule(t) \in finished
  BY <1>1, <1>2, PhasesInOrder
<1>4. BeginRule(t) \in finished /\ {file.path : file \in build.auxiliary[t]} \subseteq Made
  BY <1>3, TargetHasBegun
<1>5. ASSUME NamesAreUnique, NEW d \in NeededTargets(t) \ {t}, NEW j \in Tools(d)
      PROVE  HasFinished(d, j)
  <2>1. ToolRule(d, j) \in finished
    BY <1>4, <1>5, NeededAreDone
  <2>2. ToolRule(d, j).origin = <<"invocation", d, j>>
    BY Origins
  <2>3. QED
    BY <2>1, <2>2 DEF HasFinished
<1>6. QED
  BY <1>4, <1>5

-----------------------------------------------------------------------------

LEMMA InitIsSafe == Init => IInv
<1> SUFFICES ASSUME Init PROVE IInv
  OBVIOUS
<1>1. Typed
  BY DEF Init, Typed, TypeOK
<1>2. RulesAreGenerated /\ RulesAreTaken /\ NeedsAreMade
  BY DEF Init, RulesAreGenerated, RulesAreTaken, NeedsAreMade, IsTaken, Started
<1>3. QED
  BY <1>1, <1>2 DEF IInv

\* The rules for a target are made from the build and nothing else.
LEMMA RulesDependOnTheBuild == build' = build => \A t : RulesFor(t)' = RulesFor(t)
BY DEF RulesFor, TargetRules, AuxiliaryRules, PhaseRules, ToolRules, PhonyInputRules, Begin,
       WriteAuxiliary, Finish, BeginPhase, FinishPhase, Invocations, Outputs, Priorities,
       BeforePhase, PhaseOutputs, Tools

\* A step of Ninja that only adds to what has finished.
LEMMA BuildIsSafe ==
  ASSUME IInv, UNCHANGED <<build, included, rules>>, IsTaken, IsTaken',
         TypeOK', finished \subseteq finished',
         \A rule \in Started' : rule \in Started \/ rule.needs \cap Makable \subseteq Made
  PROVE  IInv'
<1> USE DEF IInv
<1>1. Makable' = Makable /\ (MakesTwice' <=> MakesTwice) /\ (IsMissing' <=> IsMissing)
  BY DEF Makable, MakesTwice, IsMissing
<1>2. Made \subseteq Made'
  BY DEF Made
<1>3. NeedsAreMade'
  BY <1>1, <1>2 DEF NeedsAreMade
<1>4. RulesAreTaken'
  BY <1>1 DEF RulesAreTaken, IsTaken
<1>5. RulesAreGenerated'
  <2>1. \A t : RulesFor(t)' = RulesFor(t)
    BY RulesDependOnTheBuild
  <2>2. QED
    BY <2>1 DEF RulesAreGenerated
<1>6. QED
  BY <1>3, <1>4, <1>5 DEF Typed

LEMMA GenerateIsSafe ==
  ASSUME IInv, NEW targets \in SUBSET Target, Generate(targets)
  PROVE  IInv'
<1>1. pc = "generate" /\ pc' = "load" /\ included' = targets
      /\ rules' = UNION {RulesFor(t) : t \in targets}
      /\ UNCHANGED <<build, running, finished, failed>>
  BY DEF Generate
<1>2. Started = {}
  BY <1>1 DEF IInv, RulesAreTaken, IsTaken
<1>3. running' = {} /\ finished' = {} /\ failed' = {}
  BY <1>1, <1>2 DEF Started
<1>4. \A t : RulesFor(t)' = RulesFor(t)
  BY <1>1, RulesDependOnTheBuild
<1>5. \A rule \in rules' : rule.outputs # {}
  BY <1>1, RulesMake
<1>6. Typed'
  BY <1>1, <1>3, <1>5 DEF IInv, Typed, TypeOK
<1>7. RulesAreGenerated'
  BY <1>1, <1>4 DEF RulesAreGenerated
<1>8. RulesAreTaken' /\ NeedsAreMade'
  BY <1>1, <1>3 DEF RulesAreTaken, NeedsAreMade, IsTaken, Started
<1>9. QED
  BY <1>6, <1>7, <1>8 DEF IInv

LEMMA LoadIsSafe == IInv /\ Load => IInv'
<1> SUFFICES ASSUME IInv, Load PROVE IInv'
  OBVIOUS
<1>1. /\ pc = "load" /\ UNCHANGED <<build, included, rules, running, finished, failed>>
      /\ \/ pc' = "refused" /\ (MakesTwice \/ IsMissing \/ HasRuleCycle)
         \/ pc' = "building" /\ ~MakesTwice /\ ~IsMissing
  BY DEF Load
<1>2. Started = {}
  BY <1>1 DEF IInv, RulesAreTaken, IsTaken
<1>3. Started' = {}
  BY <1>1, <1>2 DEF Started
<1>4. (MakesTwice' <=> MakesTwice) /\ (IsMissing' <=> IsMissing) /\ (HasRuleCycle' <=> HasRuleCycle)
  BY <1>1 DEF MakesTwice, IsMissing, HasRuleCycle, Makable
<1>5. RulesAreTaken' /\ NeedsAreMade'
  BY <1>1, <1>3, <1>4 DEF RulesAreTaken, NeedsAreMade, IsTaken
<1>6. RulesAreGenerated'
  <2>1. \A t : RulesFor(t)' = RulesFor(t)
    BY <1>1, RulesDependOnTheBuild
  <2>2. QED
    BY <1>1, <2>1 DEF IInv, RulesAreGenerated
<1>7. Typed'
  BY <1>1 DEF IInv, Typed, TypeOK
<1>8. QED
  BY <1>5, <1>6, <1>7 DEF IInv

LEMMA FinishPhonyRuleIsSafe ==
  ASSUME IInv, NEW rule \in rules, FinishPhonyRule(rule)
  PROVE  IInv'
<1>1. /\ pc = "building" /\ IsReady(rule) /\ finished' = finished \cup {rule}
      /\ UNCHANGED <<build, pc, included, rules, running, failed>>
  BY DEF FinishPhonyRule
<1>2. rule \notin running \cup finished \cup failed /\ rule.needs \cap Makable \subseteq Made
  BY <1>1 DEF IsReady
<1>3. TypeOK'
  BY <1>1, <1>2 DEF IInv, Typed, TypeOK
<1>4. \A r \in Started' : r \in Started \/ r.needs \cap Makable \subseteq Made
  BY <1>1, <1>2 DEF Started
<1>5. QED
  BY <1>1, <1>3, <1>4, BuildIsSafe DEF IsTaken

LEMMA StartCommandIsSafe ==
  ASSUME IInv, NEW rule \in rules, StartCommand(rule)
  PROVE  IInv'
<1>1. /\ pc = "building" /\ IsReady(rule) /\ running' = running \cup {rule}
      /\ UNCHANGED <<build, pc, included, rules, finished, failed>>
  BY DEF StartCommand
<1>2. rule \notin running \cup finished \cup failed /\ rule.needs \cap Makable \subseteq Made
  BY <1>1 DEF IsReady
<1>3. TypeOK'
  BY <1>1, <1>2 DEF IInv, Typed, TypeOK
<1>4. \A r \in Started' : r \in Started \/ r.needs \cap Makable \subseteq Made
  BY <1>1, <1>2 DEF Started
<1>5. QED
  BY <1>1, <1>3, <1>4, BuildIsSafe DEF IsTaken

LEMMA FinishCommandIsSafe ==
  ASSUME IInv, NEW rule \in rules, FinishCommand(rule)
  PROVE  IInv'
<1>1. /\ pc = "building" /\ rule \in running
      /\ running' = running \ {rule} /\ finished' = finished \cup {rule}
      /\ UNCHANGED <<build, pc, included, rules, failed>>
  BY DEF FinishCommand
<1>2. TypeOK'
  BY <1>1 DEF IInv, Typed, TypeOK
<1>3. \A r \in Started' : r \in Started
  BY <1>1 DEF Started
<1>4. QED
  BY <1>1, <1>2, <1>3, BuildIsSafe DEF IsTaken

LEMMA FailCommandIsSafe ==
  ASSUME IInv, NEW rule \in rules, FailCommand(rule)
  PROVE  IInv'
<1>1. /\ pc = "building" /\ rule \in running
      /\ running' = running \ {rule} /\ failed' = failed \cup {rule}
      /\ UNCHANGED <<build, pc, included, rules, finished>>
  BY DEF FailCommand
<1>2. TypeOK'
  BY <1>1 DEF IInv, Typed, TypeOK
<1>3. \A r \in Started' : r \in Started
  BY <1>1 DEF Started
<1>4. QED
  BY <1>1, <1>2, <1>3, BuildIsSafe DEF IsTaken

LEMMA EndIsSafe == IInv /\ End => IInv'
<1> SUFFICES ASSUME IInv, End PROVE IInv'
  OBVIOUS
<1>1. /\ pc = "building" /\ pc' \in {"success", "failure"}
      /\ UNCHANGED <<build, included, rules, running, finished, failed>>
  BY DEF End
<1>2. TypeOK'
  BY <1>1 DEF IInv, Typed, TypeOK
<1>3. \A r \in Started' : r \in Started
  BY <1>1 DEF Started
<1>4. QED
  BY <1>1, <1>2, <1>3, BuildIsSafe DEF IsTaken

LEMMA StutterIsSafe == IInv /\ UNCHANGED vars => IInv'
<1> SUFFICES ASSUME IInv, UNCHANGED vars PROVE IInv'
  OBVIOUS
<1>1. UNCHANGED <<build, pc, included, rules, running, finished, failed>>
  BY DEF vars
<1>2. \A t : RulesFor(t)' = RulesFor(t)
  BY <1>1, RulesDependOnTheBuild
<1>3. Typed' /\ RulesAreGenerated' /\ NeedsAreMade'
  BY <1>1, <1>2 DEF IInv, Typed, TypeOK, RulesAreGenerated, NeedsAreMade, Started, Makable, Made
<1>4. RulesAreTaken'
  BY <1>1 DEF IInv, RulesAreTaken, IsTaken, Started, MakesTwice, IsMissing, HasRuleCycle, Makable
<1>5. QED
  BY <1>3, <1>4 DEF IInv

LEMMA Invariance == Spec => []IInv
<1>1. IInv /\ [Next]_vars => IInv'
  <2> SUFFICES ASSUME IInv, [Next]_vars PROVE IInv'
    OBVIOUS
  <2>1. ASSUME NEW targets \in SUBSET Target, Generate(targets) PROVE IInv'
    BY <2>1, GenerateIsSafe
  <2>2. CASE Load
    BY <2>2, LoadIsSafe
  <2>3. ASSUME NEW rule \in rules, FinishPhonyRule(rule) PROVE IInv'
    BY <2>3, FinishPhonyRuleIsSafe
  <2>4. ASSUME NEW rule \in rules, StartCommand(rule) PROVE IInv'
    BY <2>4, StartCommandIsSafe
  <2>5. ASSUME NEW rule \in rules, FinishCommand(rule) PROVE IInv'
    BY <2>5, FinishCommandIsSafe
  <2>6. ASSUME NEW rule \in rules, FailCommand(rule) PROVE IInv'
    BY <2>6, FailCommandIsSafe
  <2>7. CASE End
    BY <2>7, EndIsSafe
  <2>8. CASE UNCHANGED vars
    BY <2>8, StutterIsSafe
  <2>9. QED
    BY <2>1, <2>2, <2>3, <2>4, <2>5, <2>6, <2>7, <2>8 DEF Next
<1>2. QED
  BY InitIsSafe, <1>1, PTL DEF Spec

-----------------------------------------------------------------------------

(***************************************************************************)
(* Whatever Ninja runs side by side, in whichever order and however it      *)
(* fails, no tool starts before the makers of its files, the phases before  *)
(* its own, its auxiliary files and the targets that its target depends on. *)
(***************************************************************************)
THEOREM OrderIsKept == Spec => []NothingIsOvertaken
<1>1. IInv => NothingIsOvertaken
  BY TurnsAreKept, DependenciesAreKept DEF IInv, Typed, NothingIsOvertaken
<1>2. QED
  BY <1>1, Invariance, PTL

-----------------------------------------------------------------------------
\* There is a function that is built by rounds.
LEMMA RoundsExist ==
  ASSUME NEW all
  PROVE  \E f : f = [k \in Nat |-> IF k = 0 THEN {} ELSE Buildable(all, f[k - 1])]
<1> DEFINE Upto(g, n) == /\ g = [k \in 0..n |-> g[k]]
                         /\ g[0] = {}
                         /\ \A k \in 1..n : g[k] = Buildable(all, g[k - 1])
<1>1. ASSUME NEW n \in Nat, NEW m \in Nat, n <= m, NEW g, Upto(g, n), NEW h, Upto(h, m)
      PROVE  g[n] = h[n]
  <2> DEFINE T == {k \in 0..n : g[k] # h[k]}
  <2>1. SUFFICES ASSUME T # {} PROVE FALSE
    OBVIOUS
  <2>2. T \subseteq Nat
    OBVIOUS
  <2>3. PICK k \in T : \A l \in T : k <= l
    <3> HIDE DEF T
    <3> QED
      BY <2>1, <2>2, LeastNatural
  <2>4. k # 0
    BY <1>1, <2>3
  <2>5. k \in 1..n /\ k \in 1..m /\ k - 1 \in 0..n /\ ~(k <= k - 1)
    BY <1>1, <2>3, <2>4
  <2>6. g[k - 1] = h[k - 1]
    BY <2>3, <2>5
  <2>7. g[k] = Buildable(all, g[k - 1]) /\ h[k] = Buildable(all, h[k - 1])
    BY <1>1, <2>5
  <2>8. QED
    BY <2>3, <2>6, <2>7
<1>2. \A n \in Nat : \E g : Upto(g, n)
  <2> DEFINE T == {n \in Nat : ~ \E g : Upto(g, n)}
  <2>1. SUFFICES ASSUME T # {} PROVE FALSE
    OBVIOUS
  <2>2. T \subseteq Nat
    OBVIOUS
  <2>3. PICK n \in T : \A l \in T : n <= l
    <3> HIDE DEF T
    <3> QED
      BY <2>1, <2>2, LeastNatural
  <2>4. n # 0
    <3>1. Upto([k \in 0..0 |-> {}], 0)
      OBVIOUS
    <3>2. QED
      BY <2>3, <3>1
  <2>5. n \in Nat /\ n - 1 \in Nat /\ ~(n <= n - 1)
    BY <2>3, <2>4
  <2>6. PICK g : Upto(g, n - 1)
    BY <2>3, <2>5
  <2> DEFINE h == [k \in 0..n |-> IF k = n THEN Buildable(all, g[n - 1]) ELSE g[k]]
  <2>7. h[0] = {}
    BY <2>4, <2>5, <2>6
  <2>8. ASSUME NEW k \in 1..n PROVE h[k] = Buildable(all, h[k - 1])
    <3>1. k - 1 \in 0..n /\ k - 1 # n /\ k \in 0..n
      BY <2>5
    <3>2. h[k - 1] = g[k - 1]
      BY <3>1
    <3>3. CASE k = n
      BY <3>1, <3>2, <3>3
    <3>4. CASE k # n
      <4>1. k \in 1..(n - 1)
        BY <2>5, <3>4
      <4>2. g[k] = Buildable(all, g[k - 1])
        BY <2>6, <4>1
      <4>3. QED
        BY <3>1, <3>2, <3>4, <4>2
    <3>5. QED
      BY <3>3, <3>4
  <2>9. h = [k \in 0..n |-> h[k]]
    OBVIOUS
  <2>10. Upto(h, n)
    <3> HIDE DEF h
    <3> QED
      BY <2>7, <2>8, <2>9
  <2>11. QED
    <3> HIDE DEF h, Upto
    <3> QED
      BY <2>3, <2>10
<1> DEFINE G(n) == CHOOSE g : Upto(g, n)
           f    == [n \in Nat |-> G(n)[n]]
<1>3. \A n \in Nat : Upto(G(n), n)
  <2> HIDE DEF Upto
  <2> QED
    BY <1>2
<1>4. f[0] = {}
  <2>1. Upto(G(0), 0)
    BY <1>3
  <2> HIDE DEF G
  <2>2. G(0)[0] = {}
    BY <2>1
  <2>3. QED
    BY <2>2
<1>5. ASSUME NEW n \in Nat, n # 0 PROVE f[n] = Buildable(all, f[n - 1])
  <2>1. n - 1 \in Nat /\ n - 1 <= n /\ n \in 1..n
    BY <1>5
  <2>2. Upto(G(n), n) /\ Upto(G(n - 1), n - 1)
    BY <1>3, <2>1
  <2> HIDE DEF G
  <2>3. G(n - 1)[n - 1] = G(n)[n - 1]
    <3> HIDE DEF Upto
    <3> QED
      BY <1>1, <2>1, <2>2
  <2>4. G(n)[n] = Buildable(all, G(n)[n - 1])
    BY <2>1, <2>2
  <2>5. f[n] = G(n)[n] /\ f[n - 1] = G(n - 1)[n - 1]
    BY <2>1
  <2>6. QED
    BY <2>3, <2>4, <2>5
<1>6. f = [n \in Nat |-> f[n]]
  OBVIOUS
<1> HIDE DEF f
<1>7. f = [k \in Nat |-> IF k = 0 THEN {} ELSE Buildable(all, f[k - 1])]
  BY <1>4, <1>5, <1>6
<1>8. QED
  BY <1>7

\* The rounds of BuiltOf.
LEMMA Rounds ==
  ASSUME NEW all
  PROVE  /\ BuiltOf(all, 0) = {}
         /\ \A n \in Nat : BuiltOf(all, n + 1) = Buildable(all, BuiltOf(all, n))
<1> DEFINE built == CHOOSE f : f = [k \in Nat |-> IF k = 0 THEN {} ELSE Buildable(all, f[k - 1])]
<1>1. built = [k \in Nat |-> IF k = 0 THEN {} ELSE Buildable(all, built[k - 1])]
  BY RoundsExist
<1>2. \A n : BuiltOf(all, n) = built[n]
  BY DEF BuiltOf
<1> HIDE DEF built
<1>3. built[0] = {}
  BY <1>1
<1>4. ASSUME NEW n \in Nat PROVE built[n + 1] = Buildable(all, built[n])
  <2>1. n + 1 \in Nat /\ n + 1 # 0 /\ (n + 1) - 1 = n
    OBVIOUS
  <2>2. QED
    BY <1>1, <2>1
<1>5. QED
  BY <1>2, <1>3, <1>4

\* Rounds only add, and each adds something while a rule can be built that is not.
LEMMA EverythingIsBuilt ==
  ASSUME NEW all, IsFiniteSet(all),
         \A C \in SUBSET all : C # {} =>
           \E r \in C : r.needs \cap UNION {q.outputs : q \in C} = {}
  PROVE  BuiltOf(all, Cardinality(all)) = all
<1> DEFINE B(n) == BuiltOf(all, n)
<1>1. B(0) = {} /\ \A n \in Nat : B(n + 1) = Buildable(all, B(n))
  BY Rounds
<1> HIDE DEF B
<1>2. \A S : Buildable(all, S) \subseteq all
  BY DEF Buildable
<1>3. \A n \in Nat : B(n) \subseteq all
  <2>1. ASSUME NEW n \in Nat, n # 0 PROVE B(n) \subseteq all
    <3>1. n - 1 \in Nat /\ n = (n - 1) + 1
      BY <2>1
    <3>2. B(n) = Buildable(all, B(n - 1))
      BY <1>1, <3>1
    <3>3. QED
      BY <1>2, <3>2
  <2>2. QED
    BY <1>1, <2>1
<1>4. \A S, T : S \subseteq T => Buildable(all, S) \subseteq Buildable(all, T)
  BY DEF Buildable
<1>5. \A n \in Nat : B(n) \subseteq B(n + 1)
  <2> DEFINE T == {n \in Nat : ~(B(n) \subseteq B(n + 1))}
  <2>1. SUFFICES ASSUME T # {} PROVE FALSE
    OBVIOUS
  <2>2. T \subseteq Nat
    OBVIOUS
  <2>3. PICK n \in T : \A l \in T : n <= l
    <3> HIDE DEF T
    <3> QED
      BY <2>1, <2>2, LeastNatural
  <2>4. n # 0
    BY <1>1, <2>3
  <2>5. n - 1 \in Nat /\ (n - 1) + 1 = n /\ ~(n <= n - 1) /\ n \in Nat /\ ~(B(n) \subseteq B(n + 1))
    BY <2>3, <2>4
  <2>6. B(n - 1) \subseteq B(n)
    BY <2>3, <2>5
  <2>7. B(n) = Buildable(all, B(n - 1)) /\ B(n + 1) = Buildable(all, B(n))
    BY <1>1, <2>5
  <2>8. QED
    BY <1>4, <2>5, <2>6, <2>7
<1>6. ASSUME NEW n \in Nat, B(n) # all
      PROVE  \E r \in all : r \in B(n + 1) /\ r \notin B(n)
  <2> DEFINE C == all \ B(n)
  <2>1. C \in SUBSET all /\ C # {}
    BY <1>3, <1>6
  <2>2. PICK r \in C : r.needs \cap UNION {q.outputs : q \in C} = {}
    BY <2>1
  <2>3. r.needs \cap UNION {q.outputs : q \in all} \subseteq UNION {q.outputs : q \in B(n)}
    BY <2>2
  <2>4. r \in Buildable(all, B(n))
    BY <2>2, <2>3 DEF Buildable
  <2>5. QED
    BY <1>1, <2>2, <2>4
<1>7. \A n \in Nat : IsFiniteSet(B(n)) /\ Cardinality(B(n)) \in Nat
  BY <1>3, FS_Subset, FS_CardinalityType
<1>8. ASSUME NEW n \in Nat, B(n) # all PROVE Cardinality(B(n)) + 1 <= Cardinality(B(n + 1))
  <2>1. PICK r \in all : r \in B(n + 1) /\ r \notin B(n)
    BY <1>6, <1>8
  <2>2. n + 1 \in Nat
    OBVIOUS
  <2>3. IsFiniteSet(B(n)) /\ IsFiniteSet(B(n + 1))
    BY <1>7, <2>2
  <2>4. Cardinality(B(n) \cup {r}) = Cardinality(B(n)) + 1
    BY <2>1, <2>3, FS_AddElement
  <2>5. B(n) \cup {r} \in SUBSET B(n + 1)
    BY <1>5, <2>1
  <2>6. Cardinality(B(n) \cup {r}) <= Cardinality(B(n + 1))
    BY <2>3, <2>5, FS_Subset
  <2>7. QED
    BY <2>4, <2>6
<1>9. \A n \in Nat : B(n) = all \/ n <= Cardinality(B(n))
  <2> DEFINE T == {n \in Nat : ~(B(n) = all \/ n <= Cardinality(B(n)))}
  <2>1. SUFFICES ASSUME T # {} PROVE FALSE
    OBVIOUS
  <2>2. T \subseteq Nat
    OBVIOUS
  <2>3. PICK n \in T : \A l \in T : n <= l
    <3> HIDE DEF T
    <3> QED
      BY <2>1, <2>2, LeastNatural
  <2>4. n \in Nat /\ B(n) # all /\ ~(n <= Cardinality(B(n)))
    BY <2>3
  <2>5. n # 0
    <3>1. 0 \in Nat /\ Cardinality(B(0)) \in Nat
      BY <1>7
    <3>2. QED
      BY <2>4, <3>1
  <2>6. n - 1 \in Nat /\ (n - 1) + 1 = n /\ ~(n <= n - 1)
    BY <2>4, <2>5
  <2>7. B(n - 1) = all \/ n - 1 <= Cardinality(B(n - 1))
    BY <2>3, <2>6
  <2>8. B(n - 1) # all
    <3>1. B(n - 1) \subseteq B(n) /\ B(n) \subseteq all
      BY <1>3, <1>5, <2>4, <2>6
    <3>2. QED
      BY <2>4, <3>1
  <2>9. Cardinality(B(n - 1)) + 1 <= Cardinality(B(n))
    BY <1>8, <2>6, <2>8
  <2>10. Cardinality(B(n - 1)) \in Nat /\ Cardinality(B(n)) \in Nat
    BY <1>7, <2>4, <2>6
  <2>11. QED
    BY <2>4, <2>6, <2>7, <2>8, <2>9, <2>10
<1>10. Cardinality(all) \in Nat
  BY FS_CardinalityType
<1> DEFINE n == Cardinality(all)
<1>11. B(n) = all
  <2>1. B(n) \in SUBSET all
    BY <1>3, <1>10
  <2>2. Cardinality(B(n)) <= n /\ (n = Cardinality(B(n)) => all = B(n))
    BY <2>1, FS_Subset
  <2>3. B(n) = all \/ n <= Cardinality(B(n))
    BY <1>9, <1>10
  <2>4. Cardinality(B(n)) \in Nat
    BY <1>7, <1>10
  <2>5. QED
    BY <1>10, <2>2, <2>3, <2>4
<1>12. QED
  BY <1>11 DEF B

-----------------------------------------------------------------------------
\* Finitely many images: FS_Surjection for a function that is given.
LEMMA ImageIsFinite ==
  ASSUME NEW S, IsFiniteSet(S), NEW f, DOMAIN f = S
  PROVE  IsFiniteSet({f[x] : x \in S})
<1> DEFINE T == {f[x] : x \in S}
           g == [x \in S |-> f[x]]
<1>1. g \in Surjection(S, T)
  BY DEF Surjection
<1>2. QED
  BY <1>1, FS_Surjection

LEMMA SmallSetsAreFinite ==
  \A x, y, z : IsFiniteSet({x}) /\ IsFiniteSet({x, y}) /\ IsFiniteSet({x, y, z})
<1> TAKE x, y, z
<1>1. IsFiniteSet({x})
  BY FS_Singleton
<1>2. IsFiniteSet({x} \cup {y})
  BY <1>1, FS_AddElement
<1>3. IsFiniteSet(({x} \cup {y}) \cup {z})
  BY <1>2, FS_AddElement
<1>4. {x} \cup {y} = {x, y} /\ ({x} \cup {y}) \cup {z} = {x, y, z}
  OBVIOUS
<1>5. QED
  BY <1>1, <1>2, <1>3, <1>4

\* There are finitely many rules.
LEMMA FinitelyManyRules ==
  ASSUME IInv
  PROVE  IsFiniteSet(rules)
<1>1. ASSUME NEW t \in Target PROVE IsFiniteSet(RulesFor(t))
  <2>1. build \in Build /\ Typed
    BY NinjaGraphAssumption DEF IInv, Typed
  <2>2. Len(Invocations(t)) \in Nat
    BY <2>1, TargetIsTyped
  <2>3. IsFiniteSet(Indices(Invocations(t)))
    BY <2>2, FS_Interval DEF Indices
  <2>4. IsFiniteSet(TargetRules(t))
    BY SmallSetsAreFinite DEF TargetRules
  <2>5. IsFiniteSet(AuxiliaryRules(t))
    <3> DEFINE pairs == Path \X SUBSET Path
               F     == [path : Path, copied : SUBSET Path]
               f     == [x \in pairs |-> [path |-> x[1], copied |-> x[2]]]
               g     == [file \in build.auxiliary[t] |->
                           Rule(<<"auxiliary file", t, file>>, {file.path}, {Begin(t)} \cup file.copied)]
    <3>1. IsFiniteSet(pairs)
      BY NinjaGraphAssumption, FS_SUBSET, FS_Product
    <3>2. IsFiniteSet({f[x] : x \in pairs})
      <4>1. DOMAIN f = pairs
        OBVIOUS
      <4> HIDE DEF f
      <4>2. QED
        BY <3>1, <4>1, ImageIsFinite
    <3>3. F \subseteq {f[x] : x \in pairs}
      <4>1. ASSUME NEW file \in F PROVE \E x \in pairs : file = f[x]
        <5>1. <<file.path, file.copied>> \in pairs
          OBVIOUS
        <5>2. file = f[<<file.path, file.copied>>]
          BY <5>1
        <5>3. QED
          BY <5>1, <5>2
      <4>2. QED
        BY <4>1
    <3>4. build.auxiliary[t] \subseteq F
      BY <2>1 DEF Build
    <3>5. IsFiniteSet(build.auxiliary[t])
      <4>1. build.auxiliary[t] \in SUBSET {f[x] : x \in pairs}
        BY <3>3, <3>4
      <4>2. QED
        BY <3>2, <4>1, FS_Subset
    <3>6. IsFiniteSet({g[file] : file \in build.auxiliary[t]})
      BY <3>5, ImageIsFinite
    <3>7. {g[file] : file \in build.auxiliary[t]} = AuxiliaryRules(t)
      BY DEF AuxiliaryRules
    <3>8. QED
      BY <3>6, <3>7
  <2>6. IsFiniteSet(PhaseRules(t))
    <3> DEFINE h == [i \in Indices(Invocations(t)) |-> Invocations(t)[i].priority]
               g == [p \in Priorities(t) |->
                       {Rule(<<"begin phase", t, p>>, {BeginPhase(t, p)}, {BeforePhase(t, p)}),
                        Rule(<<"finish phase", t, p>>, {FinishPhase(t, p)},
                             {BeginPhase(t, p)} \cup PhaseOutputs(t, p))}]
    <3>1. IsFiniteSet({h[i] : i \in Indices(Invocations(t))})
      BY <2>3, ImageIsFinite
    <3>2. {h[i] : i \in Indices(Invocations(t))} = Priorities(t)
      BY DEF Priorities
    <3>3. IsFiniteSet({g[p] : p \in Priorities(t)})
      <4>1. DOMAIN g = Priorities(t) /\ IsFiniteSet(Priorities(t))
        BY <3>1, <3>2
      <4> HIDE DEF g
      <4>2. QED
        BY <4>1, ImageIsFinite
    <3>4. \A S \in {g[p] : p \in Priorities(t)} : IsFiniteSet(S)
      BY SmallSetsAreFinite
    <3>5. IsFiniteSet(UNION {g[p] : p \in Priorities(t)})
      BY <3>3, <3>4, FS_UNION
    <3>6. {g[p] : p \in Priorities(t)} =
          {{Rule(<<"begin phase", t, p>>, {BeginPhase(t, p)}, {BeforePhase(t, p)}),
            Rule(<<"finish phase", t, p>>, {FinishPhase(t, p)},
                 {BeginPhase(t, p)} \cup PhaseOutputs(t, p))} : p \in Priorities(t)}
      OBVIOUS
    <3>7. QED
      BY <3>5, <3>6 DEF PhaseRules
  <2>7. IsFiniteSet(ToolRules(t))
    <3> DEFINE g == [i \in Tools(t) |->
                       Rule(<<"invocation", t, i>>, Outputs(t, i),
                            Invocations(t)[i].inputs \cup Invocations(t)[i].inputDependencies
                              \cup {BeginPhase(t, Invocations(t)[i].priority)})]
    <3>1. Tools(t) \in SUBSET Indices(Invocations(t))
      BY DEF Tools
    <3>2. IsFiniteSet(Tools(t))
      BY <2>3, <3>1, FS_Subset
    <3>3. IsFiniteSet({g[i] : i \in Tools(t)})
      BY <3>2, ImageIsFinite
    <3>4. {g[i] : i \in Tools(t)} = ToolRules(t)
      BY DEF ToolRules
    <3>5. QED
      BY <3>3, <3>4
  <2>8. IsFiniteSet(PhonyInputRules(t))
    <3> DEFINE pairs == Indices(Invocations(t)) \X Path
               g     == [x \in pairs |-> PhonyInputRule(t, x[1], x[2])]
    <3>1. IsFiniteSet({g[x] : x \in pairs})
      <4>1. IsFiniteSet(pairs)
        BY <2>3, NinjaGraphAssumption, FS_Product
      <4>2. DOMAIN g = pairs
        OBVIOUS
      <4> HIDE DEF g
      <4>3. QED
        BY <4>1, <4>2, ImageIsFinite
    <3>2. PhonyInputRules(t) \in SUBSET {g[x] : x \in pairs}
      <4>1. ASSUME NEW rule \in PhonyInputRules(t) PROVE \E x \in pairs : rule = g[x]
        <5>1. PICK i \in Indices(Invocations(t)) : \E path \in Invocations(t)[i].phonyInputs :
                     rule = PhonyInputRule(t, i, path)
          BY DEF PhonyInputRules, PhonyInputRule
        <5>2. PICK path \in Invocations(t)[i].phonyInputs : rule = PhonyInputRule(t, i, path)
          BY <5>1
        <5>3. path \in Path
          BY <2>1, TargetIsTyped DEF InvocationOver
        <5>4. <<i, path>> \in pairs
          BY <5>3
        <5>5. rule = g[<<i, path>>]
          BY <5>2, <5>4
        <5>6. QED
          BY <5>4, <5>5
      <4>2. QED
        BY <4>1
    <3>3. QED
      BY <3>1, <3>2, FS_Subset
  <2>9. QED
    BY <2>4, <2>5, <2>6, <2>7, <2>8, FS_Union DEF RulesFor
<1> DEFINE g == [t \in included |-> RulesFor(t)]
<1>2. included \in SUBSET Target
  BY DEF IInv, Typed, TypeOK
<1>3. IsFiniteSet(included)
  BY <1>2, NinjaGraphAssumption, FS_Subset
<1>4. IsFiniteSet({g[t] : t \in included})
  BY <1>3, ImageIsFinite
<1>5. \A S \in {g[t] : t \in included} : IsFiniteSet(S)
  BY <1>1, <1>2
<1>6. IsFiniteSet(UNION {g[t] : t \in included})
  BY <1>4, <1>5, FS_UNION
<1>7. {g[t] : t \in included} = {RulesFor(t) : t \in included}
  OBVIOUS
<1>8. QED
  BY <1>6, <1>7 DEF IInv, RulesAreGenerated

-----------------------------------------------------------------------------
\* What NinjaTakesSoundBuilds asks of a workspace.
IsSound ==
  /\ NamesAreUnique /\ EveryTargetHasTools /\ FilesAreMadeOnce /\ FilesCanBeHad
  /\ InvocationsCanBeSorted /\ PhonyInputsAreDistinct

\* A rule of a target makes one name
MakesName(rule, t, x) ==
  \/ rule = BeginRule(t) /\ x = Begin(t)
  \/ rule = WriteRule(t) /\ x = WriteAuxiliary(t)
  \/ rule = FinishRule(t) /\ x = Finish(t)
  \/ \E p \in Priorities(t) : rule = BeginPhaseRule(t, p) /\ x = BeginPhase(t, p)
  \/ \E p \in Priorities(t) : rule = FinishPhaseRule(t, p) /\ x = FinishPhase(t, p)
  \/ \E i \in Tools(t) : rule = ToolRule(t, i) /\ x = <<"ninja-phony-output", t, i>>

\* or files.
MakesFile(rule, t, x) ==
  \/ \E file \in build.auxiliary[t] : rule = AuxiliaryRule(t, file) /\ x = file.path
  \/ \E i \in Tools(t) : rule = ToolRule(t, i) /\ x \in Invocations(t)[i].outputs

\* A phony input is allowed to be made by nobody.
AllowsFile(rule, t, x) ==
  \E i \in Indices(Invocations(t)) :
    /\ rule = PhonyInputRule(t, i, x)
    /\ x \in Invocations(t)[i].phonyInputs
    /\ x \notin UNION {Outputs(t, j) : j \in Tools(t)}

\* A rule makes a name that is no path, or a file.
LEMMA WhatRulesMake ==
  ASSUME Typed, NEW t \in Target, NEW rule \in RulesFor(t), NEW x \in rule.outputs
  PROVE  \/ MakesName(rule, t, x) /\ x \notin Path
         \/ MakesFile(rule, t, x) /\ x \in Path
         \/ AllowsFile(rule, t, x) /\ x \in Path
<1>1. build \in Build
  BY NinjaGraphAssumption DEF Typed
<1>2. Priorities(t) \subseteq Nat /\ Tools(t) \subseteq Nat
  BY TargetIsTyped DEF Tools, Indices
<1>3. CASE rule \in {BeginRule(t), WriteRule(t), FinishRule(t)}
  <2>1. MakesName(rule, t, x)
    BY <1>3, OutputsOfRules DEF MakesName
  <2>2. x \in {Begin(t), WriteAuxiliary(t), Finish(t)}
    BY <1>3, OutputsOfRules
  <2>3. QED
    BY <2>1, <2>2, NamesAreNoPaths
<1>4. CASE \E file \in build.auxiliary[t] : rule = AuxiliaryRule(t, file)
  <2>1. PICK file \in build.auxiliary[t] : rule = AuxiliaryRule(t, file)
    BY <1>4
  <2>2. x = file.path
    <3>1. rule.outputs = {file.path}
      BY <2>1, OutputsOfRules
    <3>2. QED
      BY <3>1
  <2>3. x \in Path
    BY <1>1, <2>2 DEF Build
  <2>4. QED
    BY <2>1, <2>2, <2>3 DEF MakesFile
<1>5. CASE \E p \in Priorities(t) : rule \in {BeginPhaseRule(t, p), FinishPhaseRule(t, p)}
  <2>1. PICK p \in Priorities(t) : rule \in {BeginPhaseRule(t, p), FinishPhaseRule(t, p)}
    BY <1>5
  <2>2. \/ rule = BeginPhaseRule(t, p) /\ x = BeginPhase(t, p)
        \/ rule = FinishPhaseRule(t, p) /\ x = FinishPhase(t, p)
    BY <2>1, OutputsOfRules
  <2>3. x \notin Path
    BY <1>2, <2>2, NamesAreNoPaths
  <2>4. QED
    BY <2>2, <2>3 DEF MakesName
<1>6. CASE \E i \in Tools(t) : rule = ToolRule(t, i)
  <2>1. PICK i \in Tools(t) : rule = ToolRule(t, i)
    BY <1>6
  <2>2. x \in Outputs(t, i)
    BY <2>1, OutputsOfRules
  <2>3. CASE Invocations(t)[i].outputs = {}
    <3>1. x = <<"ninja-phony-output", t, i>>
      BY <2>2, <2>3 DEF Outputs
    <3>2. x \notin Path
      BY <1>2, <3>1, NamesAreNoPaths
    <3>3. QED
      BY <2>1, <3>1, <3>2 DEF MakesName
  <2>4. CASE Invocations(t)[i].outputs # {}
    <3>1. x \in Invocations(t)[i].outputs
      BY <2>2, <2>4 DEF Outputs
    <3>2. i \in Indices(Invocations(t))
      BY DEF Tools
    <3>3. Invocations(t)[i].outputs \subseteq Path
      BY <3>2, TargetIsTyped DEF InvocationOver
    <3>4. QED
      BY <2>1, <3>1, <3>3 DEF MakesFile
  <2>5. QED
    BY <2>3, <2>4
<1>7. CASE \E i \in Indices(Invocations(t)) :
             \E path \in Invocations(t)[i].phonyInputs \ UNION {Outputs(t, j) : j \in Tools(t)} :
               rule = PhonyInputRule(t, i, path)
  <2>1. PICK i \in Indices(Invocations(t)) :
               \E path \in Invocations(t)[i].phonyInputs \ UNION {Outputs(t, j) : j \in Tools(t)} :
                 rule = PhonyInputRule(t, i, path)
    BY <1>7
  <2>2. PICK path \in Invocations(t)[i].phonyInputs \ UNION {Outputs(t, j) : j \in Tools(t)} :
               rule = PhonyInputRule(t, i, path)
    BY <2>1
  <2>3. x = path
    BY <2>2 DEF PhonyInputRule, Rule
  <2>4. x \in Path
    BY <2>2, <2>3, TargetIsTyped DEF InvocationOver
  <2>5. QED
    BY <2>2, <2>3, <2>4 DEF AllowsFile
<1>8. QED
  BY <1>3, <1>4, <1>5, <1>6, <1>7, RuleKinds

\* A name is made by the rule that is called so.
LEMMA NamesAreMadeOnce ==
  ASSUME NamesAreUnique, NEW t \in Target, NEW u \in Target, NEW r, NEW q, NEW x,
         MakesName(r, t, x), MakesName(q, u, x)
  PROVE  r = q
<1>1. build.name[t] = build.name[u] => t = u
  BY DEF NamesAreUnique
<1>2. CASE x = Begin(t) /\ r = BeginRule(t)
  <2>1. x[1] = "begin-target" /\ x[2] = build.name[t]
    BY <1>2 DEF Begin
  <2>2. q = BeginRule(u) /\ x = Begin(u)
    BY <2>1 DEF MakesName, Begin, WriteAuxiliary, Finish, BeginPhase, FinishPhase
  <2>3. QED
    BY <1>1, <1>2, <2>1, <2>2 DEF Begin
<1>3. CASE x = WriteAuxiliary(t) /\ r = WriteRule(t)
  <2>1. x[1] = "write-auxiliary-files" /\ x[2] = build.name[t]
    BY <1>3 DEF WriteAuxiliary
  <2>2. q = WriteRule(u) /\ x = WriteAuxiliary(u)
    BY <2>1 DEF MakesName, Begin, WriteAuxiliary, Finish, BeginPhase, FinishPhase
  <2>3. QED
    BY <1>1, <1>3, <2>1, <2>2 DEF WriteAuxiliary
<1>4. CASE x = Finish(t) /\ r = FinishRule(t)
  <2>1. x[1] = "finish-target" /\ x[2] = build.name[t]
    BY <1>4 DEF Finish
  <2>2. q = FinishRule(u) /\ x = Finish(u)
    BY <2>1 DEF MakesName, Begin, WriteAuxiliary, Finish, BeginPhase, FinishPhase
  <2>3. QED
    BY <1>1, <1>4, <2>1, <2>2 DEF Finish
<1>5. ASSUME NEW p, x = BeginPhase(t, p), r = BeginPhaseRule(t, p) PROVE r = q
  <2>1. x[1] = "begin-target-phase-priority" /\ x[2] = build.name[t] /\ x[3] = p
    BY <1>5 DEF BeginPhase
  <2>2. PICK s : q = BeginPhaseRule(u, s) /\ x = BeginPhase(u, s)
    BY <2>1 DEF MakesName, Begin, WriteAuxiliary, Finish, BeginPhase, FinishPhase
  <2>3. s = p /\ t = u
    BY <1>1, <2>1, <2>2 DEF BeginPhase
  <2>4. QED
    BY <1>5, <2>2, <2>3
<1>6. ASSUME NEW p, x = FinishPhase(t, p), r = FinishPhaseRule(t, p) PROVE r = q
  <2>1. x[1] = "finish-target-phase-priority" /\ x[2] = build.name[t] /\ x[3] = p
    BY <1>6 DEF FinishPhase
  <2>2. PICK s : q = FinishPhaseRule(u, s) /\ x = FinishPhase(u, s)
    BY <2>1 DEF MakesName, Begin, WriteAuxiliary, Finish, BeginPhase, FinishPhase
  <2>3. s = p /\ t = u
    BY <1>1, <2>1, <2>2 DEF FinishPhase
  <2>4. QED
    BY <1>6, <2>2, <2>3
<1>7. ASSUME NEW i, x = <<"ninja-phony-output", t, i>>, r = ToolRule(t, i) PROVE r = q
  <2>1. x[1] = "ninja-phony-output" /\ x[2] = t /\ x[3] = i
    BY <1>7
  <2>2. PICK j : q = ToolRule(u, j) /\ x = <<"ninja-phony-output", u, j>>
    BY <2>1 DEF MakesName, Begin, WriteAuxiliary, Finish, BeginPhase, FinishPhase
  <2>3. j = i /\ t = u
    BY <2>1, <2>2
  <2>4. QED
    BY <1>7, <2>2, <2>3
<1>8. QED
  BY <1>2, <1>3, <1>4, <1>5, <1>6, <1>7 DEF MakesName

LEMMA MakersAreIn ==
  ASSUME NEW t, NEW rule, NEW x, MakesFile(rule, t, x)
  PROVE  x \in MadeBy(t)
BY DEF MakesFile, MadeBy, Tools

\* A file is made by one rule.
LEMMA FilesHaveOneRule ==
  ASSUME IsSound, NEW t \in Target, NEW u \in Target, NEW r, NEW q, NEW x,
         MakesFile(r, t, x) \/ AllowsFile(r, t, x),
         MakesFile(q, u, x) \/ AllowsFile(q, u, x)
  PROVE  r = q
<1>1. FilesAreMadeOnce /\ PhonyInputsAreDistinct
  BY DEF IsSound
<1>2. CASE MakesFile(r, t, x) /\ MakesFile(q, u, x)
  <2>1. t = u
    BY <1>1, <1>2, MakersAreIn DEF FilesAreMadeOnce
  <2>2. ASSUME NEW file \in build.auxiliary[t], r = AuxiliaryRule(t, file), x = file.path,
               NEW other \in build.auxiliary[t], q = AuxiliaryRule(t, other), x = other.path
        PROVE  r = q
    BY <1>1, <2>2 DEF FilesAreMadeOnce
  <2>3. ASSUME NEW i \in Tools(t), x \in Invocations(t)[i].outputs,
               NEW file \in build.auxiliary[t], x = file.path
        PROVE  FALSE
    BY <1>1, <2>3 DEF FilesAreMadeOnce, Tools
  <2>4. ASSUME NEW i \in Tools(t), r = ToolRule(t, i), x \in Invocations(t)[i].outputs,
               NEW j \in Tools(t), q = ToolRule(t, j), x \in Invocations(t)[j].outputs
        PROVE  r = q
    <3>1. i \in Indices(Invocations(t)) /\ j \in Indices(Invocations(t))
      BY DEF Tools
    <3>2. i = j
      BY <1>1, <2>4, <3>1 DEF FilesAreMadeOnce
    <3>3. QED
      BY <2>4, <3>2
  <2>5. QED
    BY <1>2, <2>1, <2>2, <2>3, <2>4 DEF MakesFile
<1>3. ASSUME NEW v \in Target, NEW w \in Target, NEW a, NEW b,
             MakesFile(a, v, x), AllowsFile(b, w, x)
      PROVE  FALSE
  <2>1. PICK i \in Indices(Invocations(w)) : /\ x \in Invocations(w)[i].phonyInputs
                                             /\ x \notin UNION {Outputs(w, j) : j \in Tools(w)}
    BY <1>3 DEF AllowsFile
  <2>2. v = w
    <3>1. x \in MadeBy(v)
      BY <1>3, MakersAreIn
    <3>2. QED
      BY <1>1, <2>1, <3>1 DEF PhonyInputsAreDistinct
  <2>3. \A file \in build.auxiliary[w] : x # file.path
    BY <1>1, <2>1 DEF PhonyInputsAreDistinct
  <2>4. PICK j \in Tools(w) : x \in Invocations(w)[j].outputs
    BY <1>3, <2>2, <2>3 DEF MakesFile
  <2>5. x \in Outputs(w, j)
    BY <2>4 DEF Outputs
  <2>6. QED
    BY <2>1, <2>5
<1>4. CASE AllowsFile(r, t, x) /\ AllowsFile(q, u, x)
  <2>1. PICK i \in Indices(Invocations(t)) :
             r = PhonyInputRule(t, i, x) /\ x \in Invocations(t)[i].phonyInputs
    BY <1>4 DEF AllowsFile
  <2>2. PICK j \in Indices(Invocations(u)) :
             q = PhonyInputRule(u, j, x) /\ x \in Invocations(u)[j].phonyInputs
    BY <1>4 DEF AllowsFile
  <2>3. <<u, j>> = <<t, i>>
    BY <1>1, <2>1, <2>2 DEF PhonyInputsAreDistinct
  <2>4. QED
    BY <2>1, <2>2, <2>3
<1>5. QED
  BY <1>2, <1>3, <1>4

LEMMA NothingIsMadeTwice ==
  ASSUME IInv, IsSound
  PROVE  ~MakesTwice
<1> SUFFICES ASSUME NEW r \in rules, NEW q \in rules, NEW x, x \in r.outputs, x \in q.outputs
             PROVE  r = q
  BY DEF MakesTwice
<1>1. PICK t \in included : r \in RulesFor(t)
  BY DEF IInv, RulesAreGenerated
<1>2. PICK u \in included : q \in RulesFor(u)
  BY DEF IInv, RulesAreGenerated
<1>3. Typed /\ t \in Target /\ u \in Target
  BY DEF IInv, Typed, TypeOK
<1>4. \/ MakesName(r, t, x) /\ x \notin Path
      \/ (MakesFile(r, t, x) \/ AllowsFile(r, t, x)) /\ x \in Path
  BY <1>1, <1>3, WhatRulesMake
<1>5. \/ MakesName(q, u, x) /\ x \notin Path
      \/ (MakesFile(q, u, x) \/ AllowsFile(q, u, x)) /\ x \in Path
  BY <1>2, <1>3, WhatRulesMake
<1>6. CASE x \in Path
  BY <1>3, <1>4, <1>5, <1>6, FilesHaveOneRule
<1>7. CASE x \notin Path
  BY <1>3, <1>4, <1>5, <1>7, NamesAreMadeOnce DEF IsSound
<1>8. QED
  BY <1>6, <1>7

-----------------------------------------------------------------------------
\* A file that is there is made by nobody.
There == build.sources \ UNION {MadeBy(u) : u \in Target}

\* Of the rules of its own target, a rule may have to wait for these.
WriteWaits(t, maker) ==
  \/ maker = BeginRule(t)
  \/ \E file \in build.auxiliary[t] : maker = AuxiliaryRule(t, file)

BeginPhaseWaits(t, p, maker) ==
  \/ maker = WriteRule(t)
  \/ \E q \in Priorities(t) : q < p /\ maker = FinishPhaseRule(t, q)

FinishPhaseWaits(t, p, maker) ==
  \/ maker = BeginPhaseRule(t, p)
  \/ \E i \in Tools(t) : Invocations(t)[i].priority = p /\ maker = ToolRule(t, i)

FinishWaits(t, maker) == \E p \in Priorities(t) : maker = FinishPhaseRule(t, p)

ToolWaits(t, i, maker) ==
  \/ maker = BeginPhaseRule(t, Invocations(t)[i].priority)
  \/ \E file \in build.auxiliary[t] : maker = AuxiliaryRule(t, file)
  \/ \E j \in Tools(t) : /\ maker = ToolRule(t, j)
                         /\ Invocations(t)[j].outputs \cap Needs(Invocations(t)[i]) # {}

WaitsInside(rule, t, maker) ==
  \/ maker = BeginRule(t) /\ \E file \in build.auxiliary[t] : rule = AuxiliaryRule(t, file)
  \/ rule = WriteRule(t) /\ WriteWaits(t, maker)
  \/ rule = FinishRule(t) /\ FinishWaits(t, maker)
  \/ \E p \in Priorities(t) : rule = BeginPhaseRule(t, p) /\ BeginPhaseWaits(t, p, maker)
  \/ \E p \in Priorities(t) : rule = FinishPhaseRule(t, p) /\ FinishPhaseWaits(t, p, maker)
  \/ \E i \in Tools(t) : rule = ToolRule(t, i) /\ ToolWaits(t, i, maker)

\* It may wait for any of a target that its own needs.
WaitsFor(rule, t, maker) ==
  \/ \E d \in NeededTargets(t) \ {t} : maker \in RulesFor(d)
  \/ WaitsInside(rule, t, maker)

\* A target needs what it depends on, and that is not itself.
LEMMA DependenciesAreNeeded ==
  ASSUME Typed, NEW t \in Target
  PROVE  build.dependencies[t] \subseteq NeededTargets(t) \ {t}
<1>1. build.dependencies \in [Target -> SUBSET Target] /\ ~HasCycle(build.dependencies)
  BY NinjaGraphAssumption DEF Typed, Build
<1>2. t \notin build.dependencies[t]
  <2>1. {t} \in SUBSET DOMAIN build.dependencies
    BY <1>1
  <2>2. ~(\A n \in {t} : build.dependencies[n] \cap {t} # {})
    BY <1>1, <2>1 DEF HasCycle
  <2>3. QED
    BY <2>2
<1>3. build.dependencies[t] \subseteq NeededTargets(t)
  BY <1>1 DEF NeededTargets
<1>4. QED
  BY <1>2, <1>3

\* Of any targets, one needs no other.
LEMMA OneTargetIsFirst ==
  ASSUME Typed, NEW S \in SUBSET Target, S # {}
  PROVE  \E t \in S : (NeededTargets(t) \ {t}) \cap S = {}
<1> DEFINE C == {u \in Target : NeededTargets(u) \cap S # {}}
<1>1. build.dependencies \in [Target -> SUBSET Target] /\ ~HasCycle(build.dependencies)
  BY NinjaGraphAssumption DEF Typed, Build
<1>2. \A u \in Target : u \in NeededTargets(u)
  BY DEF NeededTargets
<1>3. S \subseteq C
  BY <1>2
<1>4. PICK t \in C : build.dependencies[t] \cap C = {}
  <2>1. C \in SUBSET DOMAIN build.dependencies /\ C # {}
    BY <1>1, <1>3
  <2>2. QED
    BY <1>1, <2>1 DEF HasCycle
<1>5. ASSUME NEW v \in Target, NEW w \in build.dependencies[v]
      PROVE  NeededTargets(w) \subseteq NeededTargets(v)
  BY DEF NeededTargets
<1> DEFINE W == {t} \cup (Target \ C)
<1>6. ASSUME NEW v \in W PROVE build.dependencies[v] \subseteq W
  <2>1. CASE v = t
    BY <1>1, <1>4, <2>1
  <2>2. CASE v # t
    <3>1. v \in Target /\ NeededTargets(v) \cap S = {}
      BY <2>2
    <3>2. ASSUME NEW w \in build.dependencies[v] PROVE w \in W
      <4>1. w \in Target /\ NeededTargets(w) \cap S = {}
        BY <1>1, <1>5, <3>1, <3>2
      <4>2. QED
        BY <4>1
    <3>3. QED
      BY <3>2
  <2>3. QED
    BY <2>1, <2>2
<1>7. W \in SUBSET Target /\ t \in W
  BY <1>4
<1>8. NeededTargets(t) \subseteq W
  <2> HIDE DEF W
  <2> QED
    BY <1>6, <1>7 DEF NeededTargets
<1>9. t \in S
  <2>1. PICK s \in NeededTargets(t) : s \in S
    BY <1>4
  <2>2. s \in W /\ s \in C
    BY <1>3, <1>8, <2>1
  <2>3. QED
    BY <2>1, <2>2
<1>10. QED
  BY <1>3, <1>8, <1>9

\* Whoever makes a file is a rule of its target.
LEMMA FilesHaveMakers ==
  ASSUME IInv, IsSound, NEW t \in Target, NEW x \in MadeBy(t)
  PROVE  \/ \E file \in build.auxiliary[t] : x \in AuxiliaryRule(t, file).outputs
         \/ \E i \in Tools(t) : x \in Invocations(t)[i].outputs /\ x \in ToolRule(t, i).outputs
<1>1. CASE \E file \in build.auxiliary[t] : x = file.path
  BY <1>1, OutputsOfRules
<1>2. CASE \E i \in Indices(Invocations(t)) : x \in Invocations(t)[i].outputs
  <2>1. PICK i \in Indices(Invocations(t)) : x \in Invocations(t)[i].outputs
    BY <1>2
  <2>2. i \in Tools(t)
    BY DEF Tools, IsSound, EveryTargetHasTools
  <2>3. x \in Outputs(t, i)
    BY <2>1 DEF Outputs
  <2>4. ToolRule(t, i).outputs = Outputs(t, i)
    BY OutputsOfRules
  <2>5. QED
    BY <2>1, <2>2, <2>3, <2>4
<1>3. QED
  BY <1>1, <1>2 DEF MadeBy

\* So is whoever makes a file of a target that is needed.
LEMMA NeededFilesHaveMakers ==
  ASSUME IInv, IsSound, NEW t \in Target, NEW x \in MadeByNeeded(t)
  PROVE  \E d \in NeededTargets(t) \ {t} : \E maker \in RulesFor(d) : x \in maker.outputs
<1>1. PICK d \in NeededTargets(t) \ {t} : x \in MadeBy(d)
  BY DEF MadeByNeeded
<1>2. d \in Target
  BY DEF NeededTargets
<1>3. QED
  BY <1>1, <1>2, FilesHaveMakers, HasRules

\* What a rule needs is there, or made by a rule that it may wait for.
LEMMA NeedsAreMet ==
  ASSUME IInv, IsSound, NEW t \in Target, NEW rule \in RulesFor(t), NEW x \in rule.needs, x \notin There
  PROVE  /\ \E u \in Target : \E maker \in RulesFor(u) : x \in maker.outputs /\ WaitsFor(rule, t, maker)
         /\ ~(\E i, path : rule = PhonyInputRule(t, i, path))
<1> DEFINE Met == \E u \in Target : \E maker \in RulesFor(u) : x \in maker.outputs /\ WaitsFor(rule, t, maker)
<1>1. Typed /\ Priorities(t) \subseteq Nat
  BY TargetIsTyped DEF IInv
<1>2. \A u \in NeededTargets(t) : u \in Target
  BY DEF NeededTargets
<1>3. ~(\E i, path : rule = PhonyInputRule(t, i, path))
  <2>1. \A i, path : PhonyInputRule(t, i, path).needs = {}
    BY DEF PhonyInputRule, Rule
  <2>2. QED
    BY <2>1
<1>4. ASSUME x \in MadeByNeeded(t) PROVE Met
  <2>1. PICK d \in NeededTargets(t) \ {t} : \E maker \in RulesFor(d) : x \in maker.outputs
    BY <1>4, NeededFilesHaveMakers
  <2>2. QED
    BY <1>2, <2>1 DEF WaitsFor
<1>5. CASE rule = BeginRule(t)
  <2>1. PICK d \in build.dependencies[t] : x = Finish(d)
    BY <1>5, NeedsOfRules
  <2>2. d \in NeededTargets(t) \ {t}
    BY <1>1, DependenciesAreNeeded
  <2>3. FinishRule(d) \in RulesFor(d) /\ x \in FinishRule(d).outputs
    BY <2>1, HasRules, OutputsOfRules
  <2>4. Met
    BY <1>2, <2>2, <2>3 DEF WaitsFor
  <2>5. QED
    BY <1>3, <2>4
<1>6. CASE rule = WriteRule(t)
  <2>1. x = Begin(t) \/ \E file \in build.auxiliary[t] : x = file.path
    BY <1>6, NeedsOfRules
  <2>2. CASE x = Begin(t)
    <3>1. BeginRule(t) \in RulesFor(t) /\ x \in BeginRule(t).outputs
      BY <2>2, HasRules, OutputsOfRules
    <3>2. QED
      BY <1>3, <1>6, <3>1 DEF WaitsFor, WaitsInside, WriteWaits
  <2>3. CASE \E file \in build.auxiliary[t] : x = file.path
    <3>1. PICK file \in build.auxiliary[t] : x = file.path
      BY <2>3
    <3>2. AuxiliaryRule(t, file) \in RulesFor(t) /\ x \in AuxiliaryRule(t, file).outputs
      BY <3>1, HasRules, OutputsOfRules
    <3>3. QED
      BY <1>3, <1>6, <3>2 DEF WaitsFor, WaitsInside, WriteWaits
  <2>4. QED
    BY <2>1, <2>2, <2>3
<1>7. CASE rule = FinishRule(t)
  <2>1. x = FinishPhase(t, LastPhase(t))
    BY <1>7, NeedsOfRules
  <2>2. LastPhase(t) \in Priorities(t)
    <3>1. Priorities(t) # {}
      BY DEF IsSound, EveryTargetHasTools, Tools, Priorities
    <3>2. QED
      BY <3>1, LastPhaseIsLast
  <2>3. FinishPhaseRule(t, LastPhase(t)) \in RulesFor(t) /\ x \in FinishPhaseRule(t, LastPhase(t)).outputs
    BY <2>1, <2>2, HasRules, OutputsOfRules
  <2>4. QED
    BY <1>3, <1>7, <2>2, <2>3 DEF WaitsFor, WaitsInside, FinishWaits
<1>8. CASE \E file \in build.auxiliary[t] : rule = AuxiliaryRule(t, file)
  <2>1. PICK file \in build.auxiliary[t] : rule = AuxiliaryRule(t, file)
    BY <1>8
  <2>2. x = Begin(t) \/ x \in file.copied
    BY <2>1 DEF AuxiliaryRule, Rule
  <2>3. CASE x = Begin(t)
    <3>1. BeginRule(t) \in RulesFor(t) /\ x \in BeginRule(t).outputs
      BY <2>3, HasRules, OutputsOfRules
    <3>2. QED
      BY <1>3, <2>1, <3>1 DEF WaitsFor, WaitsInside
  <2>4. CASE x \in file.copied
    <3>1. x \in MadeByNeeded(t)
      BY <2>4 DEF IsSound, FilesCanBeHad, There
    <3>2. QED
      BY <1>3, <1>4, <3>1
  <2>5. QED
    BY <2>2, <2>3, <2>4
<1>9. ASSUME NEW p \in Priorities(t), rule = BeginPhaseRule(t, p) PROVE Met
  <2> DEFINE smaller == {q \in Priorities(t) : q < p}
  <2>1. x = BeforePhase(t, p)
    <3>1. rule.needs = {BeforePhase(t, p)}
      BY <1>9, NeedsOfRules
    <3>2. QED
      BY <3>1
  <2>2. CASE smaller = {}
    <3>1. x \in WriteRule(t).outputs /\ WriteRule(t) \in RulesFor(t)
      BY <2>1, <2>2, OutputsOfRules, HasRules DEF BeforePhase
    <3>2. WaitsFor(rule, t, WriteRule(t))
      BY <1>9 DEF WaitsFor, WaitsInside, BeginPhaseWaits
    <3>3. QED
      BY <3>1, <3>2
  <2>3. CASE smaller # {}
    <3>1. \E q \in smaller : \A s \in smaller : s <= q
      <4>1. p \in Nat /\ smaller \subseteq Nat /\ \A s \in smaller : s <= p
        BY <1>1
      <4>2. QED
        BY <2>3, <4>1, GreatestNatural
    <3>2. PICK q \in smaller : BeforePhase(t, p) = FinishPhase(t, q)
      BY <2>3, <3>1 DEF BeforePhase
    <3>3. FinishPhaseRule(t, q) \in RulesFor(t) /\ x \in FinishPhaseRule(t, q).outputs
      BY <2>1, <3>2, HasRules, OutputsOfRules
    <3>4. WaitsFor(rule, t, FinishPhaseRule(t, q))
      BY <1>9, <3>2 DEF WaitsFor, WaitsInside, BeginPhaseWaits
    <3>5. QED
      BY <3>3, <3>4
  <2>4. QED
    BY <2>2, <2>3
<1>10. ASSUME NEW p \in Priorities(t), rule = FinishPhaseRule(t, p) PROVE Met
  <2>1. x = BeginPhase(t, p) \/ x \in PhaseOutputs(t, p)
    <3>1. rule.needs = {BeginPhase(t, p)} \cup PhaseOutputs(t, p)
      BY <1>10, NeedsOfRules
    <3>2. QED
      BY <3>1
  <2>2. CASE x = BeginPhase(t, p)
    <3>1. BeginPhaseRule(t, p) \in RulesFor(t) /\ x \in BeginPhaseRule(t, p).outputs
      BY <2>2, HasRules, OutputsOfRules
    <3>2. WaitsFor(rule, t, BeginPhaseRule(t, p))
      BY <1>10 DEF WaitsFor, WaitsInside, FinishPhaseWaits
    <3>3. QED
      BY <3>1, <3>2
  <2>3. CASE x \in PhaseOutputs(t, p)
    <3>1. PICK i \in Indices(Invocations(t)) : Invocations(t)[i].priority = p /\ x \in Outputs(t, i)
      BY <2>3 DEF PhaseOutputs
    <3>2. i \in Tools(t)
      BY DEF Tools, IsSound, EveryTargetHasTools
    <3>3. ToolRule(t, i) \in RulesFor(t) /\ x \in ToolRule(t, i).outputs
      BY <3>1, <3>2, HasRules, OutputsOfRules
    <3>4. WaitsFor(rule, t, ToolRule(t, i))
      BY <1>10, <3>1, <3>2 DEF WaitsFor, WaitsInside, FinishPhaseWaits
    <3>5. QED
      BY <3>3, <3>4
  <2>4. QED
    BY <2>1, <2>2, <2>3
<1>11. ASSUME NEW i \in Tools(t), rule = ToolRule(t, i) PROVE Met
  <2>1. x \in Invocations(t)[i].inputs \cup Invocations(t)[i].inputDependencies
        \/ x = BeginPhase(t, Invocations(t)[i].priority)
    BY <1>11, NeedsOfRules
  <2>2. i \in Indices(Invocations(t))
    BY DEF Tools
  <2>3. CASE x = BeginPhase(t, Invocations(t)[i].priority)
    <3>1. Invocations(t)[i].priority \in Priorities(t)
      BY ToolsAreTyped
    <3>2. /\ BeginPhaseRule(t, Invocations(t)[i].priority) \in RulesFor(t)
          /\ x \in BeginPhaseRule(t, Invocations(t)[i].priority).outputs
      BY <2>3, <3>1, HasRules, OutputsOfRules
    <3>3. WaitsFor(rule, t, BeginPhaseRule(t, Invocations(t)[i].priority))
      BY <1>11 DEF WaitsFor, WaitsInside, ToolWaits
    <3>4. QED
      BY <3>2, <3>3
  <2>4. CASE x \in Invocations(t)[i].inputs \cup Invocations(t)[i].inputDependencies
    <3>1. x \in MadeBy(t) \/ x \in MadeByNeeded(t)
      BY <2>2, <2>4 DEF IsSound, FilesCanBeHad, There
    <3>2. CASE \E file \in build.auxiliary[t] : x \in AuxiliaryRule(t, file).outputs
      <4>1. PICK file \in build.auxiliary[t] : x \in AuxiliaryRule(t, file).outputs
        BY <3>2
      <4>2. AuxiliaryRule(t, file) \in RulesFor(t)
        BY HasRules
      <4>3. WaitsFor(rule, t, AuxiliaryRule(t, file))
        BY <1>11 DEF WaitsFor, WaitsInside, ToolWaits
      <4>4. QED
        BY <4>1, <4>2, <4>3
    <3>3. CASE \E j \in Tools(t) : x \in Invocations(t)[j].outputs /\ x \in ToolRule(t, j).outputs
      <4>1. PICK j \in Tools(t) : x \in Invocations(t)[j].outputs /\ x \in ToolRule(t, j).outputs
        BY <3>3
      <4>2. ToolRule(t, j) \in RulesFor(t)
        BY HasRules
      <4>3. Invocations(t)[j].outputs \cap Needs(Invocations(t)[i]) # {}
        BY <2>4, <4>1 DEF Needs
      <4>4. WaitsFor(rule, t, ToolRule(t, j))
        BY <1>11, <4>3 DEF WaitsFor, WaitsInside, ToolWaits
      <4>5. QED
        BY <4>1, <4>2, <4>4
    <3>4. QED
      BY <1>4, <3>1, <3>2, <3>3, FilesHaveMakers
  <2>5. QED
    BY <2>1, <2>3, <2>4
<1>12. QED
  <2>1. \/ rule = BeginRule(t) \/ rule = WriteRule(t) \/ rule = FinishRule(t)
        \/ \E file \in build.auxiliary[t] : rule = AuxiliaryRule(t, file)
        \/ \E p \in Priorities(t) : rule = BeginPhaseRule(t, p)
        \/ \E p \in Priorities(t) : rule = FinishPhaseRule(t, p)
        \/ \E i \in Tools(t) : rule = ToolRule(t, i)
        \/ \E i, path : rule = PhonyInputRule(t, i, path)
    BY RuleKinds
  <2> HIDE DEF Met
  <2>2. Met
    BY <1>3, <1>5, <1>6, <1>7, <1>8, <1>9, <1>10, <1>11, <2>1 DEF Met
  <2>3. QED
    BY <1>3, <2>2 DEF Met

LEMMA NothingIsMissing ==
  ASSUME IInv, IsSound, included = Target
  PROVE  ~IsMissing
<1> SUFFICES ASSUME NEW rule \in rules, NEW x \in rule.needs, x \notin build.sources
             PROVE  x \in Makable
  BY DEF IsMissing
<1>1. PICK t \in Target : rule \in RulesFor(t)
  BY DEF IInv, RulesAreGenerated
<1>2. x \notin There
  BY DEF There
<1>3. PICK u \in Target : \E maker \in RulesFor(u) : x \in maker.outputs
  BY <1>1, <1>2, NeedsAreMet
<1>4. RulesFor(u) \subseteq rules
  BY DEF IInv, RulesAreGenerated
<1>5. QED
  BY <1>3, <1>4 DEF Makable

-----------------------------------------------------------------------------
\* What each kind of rule waits for inside its target.
LEMMA WaitsOfRules ==
  ASSUME NEW t, NEW maker
  PROVE  /\ ~WaitsInside(BeginRule(t), t, maker)
         /\ \A file : WaitsInside(AuxiliaryRule(t, file), t, maker) => maker = BeginRule(t)
         /\ WaitsInside(WriteRule(t), t, maker) => WriteWaits(t, maker)
         /\ WaitsInside(FinishRule(t), t, maker) => FinishWaits(t, maker)
         /\ \A p : WaitsInside(BeginPhaseRule(t, p), t, maker) => BeginPhaseWaits(t, p, maker)
         /\ \A p : WaitsInside(FinishPhaseRule(t, p), t, maker) => FinishPhaseWaits(t, p, maker)
         /\ \A i : WaitsInside(ToolRule(t, i), t, maker) => ToolWaits(t, i, maker)
<1>1. \A file : AuxiliaryRule(t, file).origin[1] = "auxiliary file"
  BY DEF AuxiliaryRule, Rule
<1>2. BeginRule(t).origin[1] = "begin"
  BY DEF BeginRule, Rule
<1>3. WriteRule(t).origin[1] = "write auxiliary"
  BY DEF WriteRule, Rule
<1>4. FinishRule(t).origin[1] = "finish"
  BY DEF FinishRule, Rule
<1>5. \A p : BeginPhaseRule(t, p).origin[1] = "begin phase" /\ BeginPhaseRule(t, p).origin[3] = p
  BY DEF BeginPhaseRule, Rule
<1>6. \A p : FinishPhaseRule(t, p).origin[1] = "finish phase" /\ FinishPhaseRule(t, p).origin[3] = p
  BY DEF FinishPhaseRule, Rule
<1>7. \A i : ToolRule(t, i).origin[1] = "invocation" /\ ToolRule(t, i).origin[3] = i
  BY DEF ToolRule, Rule
<1>8. ASSUME NEW rule, WaitsInside(rule, t, maker)
      PROVE  \/ rule.origin[1] = "auxiliary file" /\ maker = BeginRule(t)
             \/ rule.origin[1] = "write auxiliary" /\ WriteWaits(t, maker)
             \/ rule.origin[1] = "finish" /\ FinishWaits(t, maker)
             \/ rule.origin[1] = "begin phase" /\ BeginPhaseWaits(t, rule.origin[3], maker)
             \/ rule.origin[1] = "finish phase" /\ FinishPhaseWaits(t, rule.origin[3], maker)
             \/ rule.origin[1] = "invocation" /\ ToolWaits(t, rule.origin[3], maker)
  <2>1. ASSUME NEW p, rule = BeginPhaseRule(t, p), BeginPhaseWaits(t, p, maker)
        PROVE  rule.origin[1] = "begin phase" /\ BeginPhaseWaits(t, rule.origin[3], maker)
    BY <1>5, <2>1
  <2>2. ASSUME NEW p, rule = FinishPhaseRule(t, p), FinishPhaseWaits(t, p, maker)
        PROVE  rule.origin[1] = "finish phase" /\ FinishPhaseWaits(t, rule.origin[3], maker)
    BY <1>6, <2>2
  <2>3. ASSUME NEW i, rule = ToolRule(t, i), ToolWaits(t, i, maker)
        PROVE  rule.origin[1] = "invocation" /\ ToolWaits(t, rule.origin[3], maker)
    BY <1>7, <2>3
  <2>4. ASSUME NEW file, rule = AuxiliaryRule(t, file) PROVE rule.origin[1] = "auxiliary file"
    BY <1>1, <2>4
  <2>5. rule = WriteRule(t) => rule.origin[1] = "write auxiliary"
    BY <1>3
  <2>6. rule = FinishRule(t) => rule.origin[1] = "finish"
    BY <1>4
  <2>7. QED
    BY <1>8, <2>1, <2>2, <2>3, <2>4, <2>5, <2>6 DEF WaitsInside
<1>9. ~WaitsInside(BeginRule(t), t, maker)
  BY <1>8, <1>2
<1>10. \A file : WaitsInside(AuxiliaryRule(t, file), t, maker) => maker = BeginRule(t)
  BY <1>1, <1>8
<1>11. WaitsInside(WriteRule(t), t, maker) => WriteWaits(t, maker)
  BY <1>8, <1>3
<1>12. WaitsInside(FinishRule(t), t, maker) => FinishWaits(t, maker)
  BY <1>8, <1>4
<1>13. \A p : WaitsInside(BeginPhaseRule(t, p), t, maker) => BeginPhaseWaits(t, p, maker)
  BY <1>8, <1>5
<1>14. \A p : WaitsInside(FinishPhaseRule(t, p), t, maker) => FinishPhaseWaits(t, p, maker)
  BY <1>8, <1>6
<1>15. \A i : WaitsInside(ToolRule(t, i), t, maker) => ToolWaits(t, i, maker)
  BY <1>8, <1>7
<1>16. QED
  BY <1>9, <1>10, <1>11, <1>12, <1>13, <1>14, <1>15

\* Where each rule of some has to wait for another of them, each waits for another.
LEMMA CirclesWait ==
  ASSUME IInv, IsSound, included = Target, NEW C \in SUBSET rules,
         \A r \in C : r.needs \cap UNION {q.outputs : q \in C} # {},
         NEW t \in Target, NEW rule \in RulesFor(t), rule \in C
  PROVE  \E maker \in C : WaitsFor(rule, t, maker)
<1>1. PICK x \in rule.needs : \E q \in C : x \in q.outputs
  OBVIOUS
<1>2. PICK q \in C : x \in q.outputs
  BY <1>1
<1>3. PICK v \in Target : q \in RulesFor(v)
  BY DEF IInv, RulesAreGenerated
<1>4. Typed /\ build.sources \subseteq Path
  BY NinjaGraphAssumption DEF IInv, Typed, Build
<1>5. x \notin There
  <2>1. SUFFICES ASSUME x \in There PROVE FALSE
    OBVIOUS
  <2>2. x \in Path /\ x \notin MadeBy(v)
    BY <1>4, <2>1 DEF There
  <2>3. AllowsFile(q, v, x)
    BY <1>2, <1>3, <1>4, <2>2, WhatRulesMake, MakersAreIn
  <2>4. q.needs = {}
    BY <2>3 DEF AllowsFile, PhonyInputRule, Rule
  <2>5. QED
    BY <1>2, <2>4
<1>6. PICK u \in Target : \E maker \in RulesFor(u) : x \in maker.outputs /\ WaitsFor(rule, t, maker)
  BY <1>1, <1>5, NeedsAreMet
<1>7. PICK maker \in RulesFor(u) : x \in maker.outputs /\ WaitsFor(rule, t, maker)
  BY <1>6
<1>8. maker \in rules /\ q \in rules
  BY DEF IInv, RulesAreGenerated
<1>9. maker = q
  BY <1>2, <1>7, <1>8, NothingIsMadeTwice DEF MakesTwice
<1>10. QED
  BY <1>2, <1>7, <1>9

\* Rules that wait for each other would be tools of one target that do.
LEMMA NoRuleWaitsForItself ==
  ASSUME IInv, IsSound, included = Target, NEW C \in SUBSET rules, C # {}
  PROVE  \E r \in C : r.needs \cap UNION {q.outputs : q \in C} = {}
<1> SUFFICES ASSUME \A r \in C : r.needs \cap UNION {q.outputs : q \in C} # {}
             PROVE  FALSE
  OBVIOUS
<1> DEFINE S == {t \in Target : \E rule \in RulesFor(t) : rule \in C}
<1>1. S \in SUBSET Target /\ S # {}
  <2>1. PICK rule \in C : TRUE
    OBVIOUS
  <2>2. PICK t \in Target : rule \in RulesFor(t)
    BY <2>1 DEF IInv, RulesAreGenerated
  <2>3. QED
    BY <2>1, <2>2
<1>2. Typed
  BY DEF IInv
<1>3. PICK t \in S : (NeededTargets(t) \ {t}) \cap S = {}
  <2> HIDE DEF S
  <2> QED
    BY <1>1, <1>2, OneTargetIsFirst
<1>4. t \in Target
  BY <1>3
<1>5. ASSUME NEW rule \in RulesFor(t), rule \in C
      PROVE  \E maker \in C : WaitsInside(rule, t, maker)
  <2>1. PICK maker \in C : WaitsFor(rule, t, maker)
    BY <1>4, <1>5, CirclesWait
  <2>2. ASSUME NEW d \in NeededTargets(t) \ {t} PROVE maker \notin RulesFor(d)
    <3>1. d \in Target /\ d \notin S
      BY <1>3 DEF NeededTargets
    <3>2. QED
      BY <3>1
  <2>3. QED
    BY <2>1, <2>2 DEF WaitsFor
<1>6. BeginRule(t) \notin C
  BY <1>5, HasRules, WaitsOfRules
<1>7. \A file \in build.auxiliary[t] : AuxiliaryRule(t, file) \notin C
  <2>1. ASSUME NEW file \in build.auxiliary[t], AuxiliaryRule(t, file) \in C PROVE FALSE
    <3>1. AuxiliaryRule(t, file) \in RulesFor(t)
      BY HasRules
    <3>2. PICK maker \in C : WaitsInside(AuxiliaryRule(t, file), t, maker)
      BY <1>5, <2>1, <3>1
    <3>3. maker = BeginRule(t)
      BY <3>2, WaitsOfRules
    <3>4. QED
      BY <1>6, <3>2, <3>3
  <2>2. QED
    BY <2>1
<1>8. WriteRule(t) \notin C
  <2>1. SUFFICES ASSUME WriteRule(t) \in C PROVE FALSE
    OBVIOUS
  <2>2. PICK maker \in C : WaitsInside(WriteRule(t), t, maker)
    BY <1>5, <2>1, HasRules
  <2>3. maker = BeginRule(t) \/ \E file \in build.auxiliary[t] : maker = AuxiliaryRule(t, file)
    BY <2>2, WaitsOfRules DEF WriteWaits
  <2>4. QED
    BY <1>6, <1>7, <2>2, <2>3
<1> DEFINE all  == Invocations(t)
           P(p) == \/ BeginPhaseRule(t, p) \in C \/ FinishPhaseRule(t, p) \in C
                   \/ \E i \in Tools(t) : all[i].priority = p /\ ToolRule(t, i) \in C
           Ps   == {p \in Priorities(t) : P(p)}
<1>9. Ps # {}
  <2>1. PICK rule \in RulesFor(t) : rule \in C
    BY <1>3
  <2>2. ASSUME NEW p \in Priorities(t), FinishPhaseRule(t, p) \in C PROVE Ps # {}
    BY <2>2
  <2>3. CASE rule = FinishRule(t)
    <3>1. PICK maker \in C : WaitsInside(FinishRule(t), t, maker)
      BY <1>5, <2>1, <2>3
    <3>2. \E p \in Priorities(t) : maker = FinishPhaseRule(t, p)
      BY <3>1, WaitsOfRules DEF FinishWaits
    <3>3. QED
      BY <2>2, <3>1, <3>2
  <2>4. CASE \E p \in Priorities(t) : rule \in {BeginPhaseRule(t, p), FinishPhaseRule(t, p)}
    BY <2>1, <2>4
  <2>5. CASE \E i \in Tools(t) : rule = ToolRule(t, i)
    BY <1>4, <2>1, <2>5, ToolsAreTyped
  <2>6. CASE \E i, path : rule = PhonyInputRule(t, i, path)
    <3>1. \A i, path : PhonyInputRule(t, i, path).needs = {}
      BY DEF PhonyInputRule, Rule
    <3>2. rule.needs = {}
      BY <2>6, <3>1
    <3>3. QED
      BY <2>1, <3>2
  <2>7. rule # BeginRule(t) /\ rule # WriteRule(t)
        /\ ~(\E file \in build.auxiliary[t] : rule = AuxiliaryRule(t, file))
    BY <1>6, <1>7, <1>8, <2>1
  <2> HIDE DEF Ps
  <2>8. QED
    BY <2>3, <2>4, <2>5, <2>6, <2>7, RuleKinds
<1>10. Ps \subseteq Nat
  BY <1>2, <1>4, TargetIsTyped
<1>11. PICK p \in Ps : \A q \in Ps : p <= q
  <2> HIDE DEF Ps
  <2> QED
    BY <1>9, <1>10, LeastNatural
<1>12. p \in Priorities(t) /\ P(p) /\ p \in Nat
  BY <1>10, <1>11
<1>13. ASSUME NEW q \in Priorities(t), P(q) PROVE p <= q
  BY <1>11, <1>13
<1>14. \A q \in Priorities(t) : q \in Nat
  BY <1>2, <1>4, TargetIsTyped
<1>15. BeginPhaseRule(t, p) \notin C
  <2>1. SUFFICES ASSUME BeginPhaseRule(t, p) \in C PROVE FALSE
    OBVIOUS
  <2>2. BeginPhaseRule(t, p) \in RulesFor(t)
    BY <1>12, HasRules
  <2>3. PICK maker \in C : WaitsInside(BeginPhaseRule(t, p), t, maker)
    BY <1>5, <2>1, <2>2
  <2>4. maker = WriteRule(t) \/ \E q \in Priorities(t) : q < p /\ maker = FinishPhaseRule(t, q)
    BY <2>3, WaitsOfRules DEF BeginPhaseWaits
  <2>5. PICK q \in Priorities(t) : q < p /\ maker = FinishPhaseRule(t, q)
    BY <1>8, <2>3, <2>4
  <2>6. P(q)
    BY <2>3, <2>5
  <2>7. p <= q
    BY <1>13, <2>6
  <2>8. QED
    BY <1>12, <1>14, <2>5, <2>7
<1>16. \E i \in Tools(t) : all[i].priority = p /\ ToolRule(t, i) \in C
  <2>1. SUFFICES ASSUME FinishPhaseRule(t, p) \in C
                 PROVE  \E i \in Tools(t) : all[i].priority = p /\ ToolRule(t, i) \in C
    BY <1>12, <1>15
  <2>2. FinishPhaseRule(t, p) \in RulesFor(t)
    BY <1>12, HasRules
  <2>3. PICK maker \in C : WaitsInside(FinishPhaseRule(t, p), t, maker)
    BY <1>5, <2>1, <2>2
  <2>4. \/ maker = BeginPhaseRule(t, p)
        \/ \E i \in Tools(t) : all[i].priority = p /\ maker = ToolRule(t, i)
    <3>1. FinishPhaseWaits(t, p, maker)
      BY <2>3, WaitsOfRules
    <3>2. QED
      BY <3>1 DEF FinishPhaseWaits
  <2>5. QED
    BY <1>15, <2>3, <2>4
<1> HIDE DEF P, Ps
<1> DEFINE Waiting == {i \in Tools(t) : all[i].priority = p /\ ToolRule(t, i) \in C}
           Later   == {i \in Indices(all) : p < all[i].priority}
           D       == Waiting \cup Later
<1>17. /\ Len(all) \in Nat
       /\ \A i \in Indices(all) : all[i].priority \in Nat
       /\ \A i \in Tools(t) : i \in Indices(all)
  BY <1>2, <1>4, TargetIsTyped DEF Tools, InvocationOver
<1>18. DOMAIN SortGraph(all) = Indices(all)
  BY DEF SortGraph
<1>19. D \in SUBSET DOMAIN SortGraph(all) /\ D # {} /\ Waiting # {}
  BY <1>16, <1>17, <1>18
<1>20. ASSUME NEW i \in Later PROVE SortGraph(all)[i] \cap D # {}
  <2>1. PICK k \in Waiting : TRUE
    BY <1>19
  <2>2. k \in Indices(all) /\ all[k].priority = p
    BY <1>17
  <2>3. PICK l \in PreviousPhaseOf(all, i) : all[k].priority <= all[l].priority
    BY <1>17, <2>2, PreviousPhaseIsNext
  <2>4. l \in Indices(all)
    BY <2>3 DEF PreviousPhaseOf
  <2>5. PreviousPhaseOf(all, i) \subseteq SortGraph(all)[i]
    BY DEF SortGraph
  <2>6. CASE all[l].priority = p
    <3>1. k \in PreviousPhaseOf(all, i)
      BY <2>2, <2>3, <2>6 DEF PreviousPhaseOf
    <3>2. QED
      BY <2>1, <2>5, <3>1
  <2>7. CASE all[l].priority # p
    <3>1. l \in Later
      BY <1>12, <1>17, <2>2, <2>3, <2>4, <2>7
    <3>2. QED
      BY <2>3, <2>5, <3>1
  <2>8. QED
    BY <2>6, <2>7
<1>21. ASSUME NEW i \in Waiting PROVE SortGraph(all)[i] \cap D # {}
  <2>1. ToolRule(t, i) \in RulesFor(t) /\ ToolRule(t, i) \in C /\ all[i].priority = p /\ i \in Indices(all)
    BY <1>17, HasRules
  <2>2. PICK maker \in C : WaitsInside(ToolRule(t, i), t, maker)
    BY <1>5, <2>1
  <2>3. \/ maker = BeginPhaseRule(t, p)
        \/ \E file \in build.auxiliary[t] : maker = AuxiliaryRule(t, file)
        \/ \E j \in Tools(t) : /\ maker = ToolRule(t, j)
                               /\ all[j].outputs \cap Needs(all[i]) # {}
    <3>1. ToolWaits(t, i, maker)
      BY <2>2, WaitsOfRules
    <3>2. QED
      BY <2>1, <3>1 DEF ToolWaits
  <2>4. PICK j \in Tools(t) : maker = ToolRule(t, j) /\ all[j].outputs \cap Needs(all[i]) # {}
    BY <1>7, <1>15, <2>2, <2>3
  <2>5. PICK path \in Needs(all[i]) : path \in all[j].outputs
    BY <2>4
  <2>6. j \in Indices(all)
    BY <1>17
  <2>7. Makers(all, path) = {j}
    <3>1. j \in Makers(all, path)
      BY <2>5, <2>6 DEF Makers
    <3>2. \A k \in Makers(all, path) : k = j
      BY <1>4, <2>5, <2>6 DEF Makers, IsSound, FilesAreMadeOnce
    <3>3. QED
      BY <3>1, <3>2
  <2>8. Maker(all, path) = j
    BY <1>17, <2>7, MakerIsFirst
  <2>9. j \in SortGraph(all)[i]
    BY <2>1, <2>5, <2>7, <2>8 DEF SortGraph, Producers
  <2>10. j \in D
    <3>1. all[j].priority \in Priorities(t)
      BY <2>6 DEF Priorities
    <3>2. P(all[j].priority)
      BY <2>2, <2>4 DEF P
    <3>3. p <= all[j].priority
      BY <1>13, <3>1, <3>2
    <3>4. CASE all[j].priority = p
      BY <2>2, <2>4, <3>4
    <3>5. CASE all[j].priority # p
      BY <1>12, <1>17, <2>6, <3>3, <3>5
    <3>6. QED
      BY <3>4, <3>5
  <2>11. QED
    BY <2>9, <2>10
<1>22. HasCycle(SortGraph(all))
  <2>1. \A i \in D : SortGraph(all)[i] \cap D # {}
    BY <1>20, <1>21
  <2> HIDE DEF D
  <2>2. QED
    BY <1>19, <2>1 DEF HasCycle
<1>23. QED
  BY <1>4, <1>22 DEF IsSound, InvocationsCanBeSorted

(***************************************************************************)
(* Ninja takes the files of every workspace in which each target has tools  *)
(* and a name of its own, each file one maker, and no tool needs its own    *)
(* product: there are no rules of which each waits for another of them.     *)
(***************************************************************************)
THEOREM SoundBuildsAreTaken == Spec => []NinjaTakesSoundBuilds
<1>1. ASSUME IInv, pc = "refused", included = Target, IsSound PROVE FALSE
  <2>1. ~MakesTwice /\ ~IsMissing
    BY <1>1, NothingIsMadeTwice, NothingIsMissing
  <2>2. IsFiniteSet(rules)
    BY <1>1, FinitelyManyRules
  <2>3. \A C \in SUBSET rules : C # {} => \E r \in C : r.needs \cap UNION {q.outputs : q \in C} = {}
    BY <1>1, NoRuleWaitsForItself
  <2>4. ~HasRuleCycle
    BY <2>2, <2>3, EverythingIsBuilt DEF HasRuleCycle
  <2>5. QED
    BY <1>1, <2>1, <2>4 DEF IInv, RulesAreTaken
<1>2. IInv => NinjaTakesSoundBuilds
  BY <1>1 DEF NinjaTakesSoundBuilds, IsSound
<1>3. QED
  BY <1>2, Invariance, PTL

=============================================================================
