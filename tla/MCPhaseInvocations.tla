-------------------------- MODULE MCPhaseInvocations --------------------------
(***************************************************************************)
(* Model checking PhaseInvocations: targets of every type with up to three  *)
(* phases in every order; sources in C and Swift, in one phase or in two;   *)
(* copies of the product itself and of a file that a script makes; scripts  *)
(* that use and make files inside and outside of the bundle.                *)
(***************************************************************************)
EXTENDS PhaseInvocations

File(name, kind, inputs) == [name |-> name, kind |-> kind, inputs |-> inputs]

PhaseOf(name, type, groups) ==
  [name |-> name, type |-> type, deploymentOnly |-> FALSE, neutral |-> << >>, groups |-> groups,
   destination |-> "", inputPaths |-> {}, outputPaths |-> {}]

Deployment(phase)      == [phase EXCEPT !.deploymentOnly = TRUE]
To(phase, destination) == [phase EXCEPT !.destination = destination]
Paths(phase, inputs, outputs) ==
  [phase EXCEPT !.inputPaths = inputs, !.outputPaths = outputs]

Generated == <<"generated", "">>

CFile     == File("c", "C", {Generated})
SwiftFile == File("s", "Swift", {})

Phases ==
  {PhaseOf("1", "Sources", <<CFile>>),
   PhaseOf("2", "Sources", <<SwiftFile>>),
   [PhaseOf("3", "Sources", <<File("d", "C", {}), SwiftFile>>) EXCEPT
      !.neutral = <<File("n", "neutral", {})>>],
   PhaseOf("4", "Frameworks", << >>),
   Deployment(PhaseOf("5", "Frameworks", << >>)),
   To(PhaseOf("6", "Resources", <<File("r", "copy", {})>>), "resource"),
   To(PhaseOf("7", "CopyFiles", <<File("e", "copy", {Executable}), File("r", "copy", {})>>), "copy"),
   Paths(PhaseOf("8", "ShellScript", << >>), {<<"plist", "">>}, {}),
   Paths(PhaseOf("9", "ShellScript", << >>), {}, {Generated}),
   Paths(PhaseOf("10", "ShellScript", << >>), {Executable}, {<<"embedded", "">>}),
   Deployment(PhaseOf("11", "AppleScript", << >>))}

Has(s, name) == \E i \in 1..Len(s) : s[i].name = name

\* To bound the invocations: at most two phases of sources, and no third phase
\* next to the one with most of them.
PhaseLists ==
  {s \in UNION {[1..n -> Phases] : n \in 0..3} :
     /\ \A i, j \in 1..Len(s) : s[i].name = s[j].name => i = j
     /\ Cardinality(Positions(s, "Sources")) <= 2
     /\ Has(s, "3") => Len(s) <= 2}

Product(type, wrapper, infoPlist, embedsSwift) ==
  [type |-> type, wrapper |-> wrapper, infoPlist |-> infoPlist, embedsSwift |-> embedsSwift]

Products ==
  {<<"Native", Product("application", TRUE, {<<"source", "">>}, FALSE)>>,
   <<"Native", Product("framework", TRUE, {Generated}, TRUE)>>,
   <<"Native", Product("tool", FALSE, {<<"source", "">>}, FALSE)>>,
   <<"Legacy", Product("none", FALSE, {}, FALSE)>>,
   <<"Aggregate", Product("none", FALSE, {}, FALSE)>>}

\* Deployment postprocessing only matters to the phases that are meant for it.
MCTargetDescriptions ==
  {[type |-> p[1], product |-> p[2], buildPhases |-> s, deploymentPostprocessing |-> FALSE] :
     p \in Products, s \in PhaseLists} \cup
  {[type |-> p[1], product |-> p[2], buildPhases |-> s, deploymentPostprocessing |-> TRUE] :
     p \in Products, s \in {l \in PhaseLists : \E i \in 1..Len(l) : l[i].deploymentOnly}}

TwoArchitectures == <<"arm64", "x86_64">>
=============================================================================
