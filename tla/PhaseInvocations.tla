--------------------------- MODULE PhaseInvocations ---------------------------
(***************************************************************************)
(* pbxbuild::Phase::PhaseInvocations::Create: from the build phases of a    *)
(* target to the list of its tool invocations.  Each phase has a priority,  *)
(* which is how the executors keep the phases in order; the invocations     *)
(* that finish the product (Info.plist, touch, Swift libraries) are added   *)
(* last, at the priority after the last phase that contributes to it.  What *)
(* the list is good for is seen in InvocationOrder, its use by the simple   *)
(* executor.                                                                *)
(*                                                                         *)
(* A resolver that fails only reports an error; Create goes on without its  *)
(* invocations.  The tools and their arguments are left out, and so are the *)
(* variants of a target, debug symbols, module maps, the linking of         *)
(* storyboards and the links inside a framework.  A precompiled header is   *)
(* taken as a part of the first compile that uses it.                       *)
(***************************************************************************)
EXTENDS InvocationOrder, SequencesExt

CONSTANTS
  Architectures,    \* the sequence of architectures of a target
  TargetDescriptions

\* The phases that make the product.
ProductPhases == {"Sources", "Frameworks", "CopyFiles", "Headers", "Resources"}

\* A path is a kind of file and, where there are several, which one.
InWrapper(path) ==
  path[1] \in {"executable", "resource", "folder", "plist", "wrapper", "embedded", "installed"}

VARIABLES
  target,           \* type, buildPhases, deploymentPostprocessing, product
  pc,               \* "select", "phases", "target" or "created"
  buildPhases,      \* the phases to resolve
  number,           \* of the phase whose turn it is
  priority,         \* currentPhaseInvocationPriority
  insertionPoint,   \* targetLevelPhaseInsertionPoint
  invocations,
  makers,           \* which phase each invocation is of; the target is 0
  swift,            \* swiftModuleInfo: the architectures that have a module
  waiting,          \* which invocations have waitForSwiftArtifacts
  unresolved        \* phases that reported an error

vars == <<target, pc, buildPhases, number, priority, insertionPoint, invocations, makers,
          swift, waiting, unresolved>>

\* The code counts in steps of 0x100; one step is 1 here.
Base      == 1      \* PHASE_INVOCATION_PRIORITY_BASE
Increment == 1      \* PHASE_INVOCATION_PRIORITY_INCREMENT

-----------------------------------------------------------------------------

\* A project without a phase to link in gets one, after its sources.
SynthesizedFrameworks ==
  [name |-> "", type |-> "Frameworks", deploymentOnly |-> FALSE, neutral |-> << >>,
   groups |-> << >>, destination |-> "", inputPaths |-> {}, outputPaths |-> {}]

Positions(s, type) == {n \in 1..Len(s) : s[n].type = type}
First(S) == CHOOSE n \in S : \A m \in S : n <= m

Synthesize(s) ==
  IF Positions(s, "Sources") # {} /\ Positions(s, "Frameworks") = {}
  THEN InsertAt(s, First(Positions(s, "Sources")) + 1, SynthesizedFrameworks)
  ELSE s

\* What is only for deployment is left out otherwise.
BuildPhases(description) ==
  LET Wanted(phase) == phase.deploymentOnly => description.deploymentPostprocessing
  IN  Synthesize(SelectSeq(description.buildPhases, Wanted))

ASSUME PhaseInvocationsAssumption ==
  /\ Len(Architectures) \in Nat
  /\ \A description \in TargetDescriptions : \A n \in Indices(BuildPhases(description)) :
       /\ Len(BuildPhases(description)[n].neutral) \in Nat
       /\ Len(BuildPhases(description)[n].groups) \in Nat

Tool(inputs, outputs, at) ==
  [inputs |-> inputs, phonyInputs |-> {}, inputDependencies |-> {}, outputs |-> outputs,
   priority |-> at, createsProductStructure |-> FALSE, phony |-> FALSE]

\* The files of a phase are resolved in groups: name, kind, inputs.
Object(file, arch) == <<"object", file, arch>>
Module(arch)       == <<"module", arch>>
Executable         == <<"executable", "">>

\* A framework installs its Swift modules.
Artifact(arch) == <<IF target.product.type = "framework" THEN "installed" ELSE "artifact", arch>>
Artifacts(archs) == {Artifact(arch) : arch \in archs}

\* resolveBuildFiles, in order: what is neutral once, the rest for every architecture.
Steps(phase) ==
  LET once == Len(phase.neutral)
      each == Len(phase.groups)
      source(k) == phase.groups[1 + ((k - once - 1) % each)]
  IN  [k \in 1..(once + Len(Architectures) * each) |->
         IF k <= once
         THEN [file |-> phase.neutral[k], kind |-> "neutral", arch |-> ""]
         ELSE [file |-> source(k), kind |-> source(k).kind,
               arch |-> Architectures[1 + ((k - once - 1) \div each)]]]

Compile(step) ==
  LET object == Object(step.file.name, step.arch)
  IN  Tool(step.file.inputs,
           CASE step.kind = "C"     -> {object}
             [] step.kind = "Swift" -> {object, Module(step.arch)}
             [] OTHER               -> {<<"derived", step.file.name>>}, priority)

\* The first n steps of a phase: their invocations, which of these wait for
\* Swift, and the architectures they make a module for.
Compiles(steps, n)   == [k \in 1..n |-> Compile(steps[k])]
AllWaiting(steps, n) == {Len(invocations) + k : k \in 1..n}
Waiting(steps, n)    == {Len(invocations) + k : k \in {l \in 1..n : steps[l].kind = "C"}}
Modules(steps, n)    == {steps[k].arch : k \in {l \in 1..n : steps[l].kind = "Swift"}}

\* All modules are copied, again in each phase.  (One invocation stands for
\* one per file: whoever waits for a copy waits for all of them.)
CopySwiftModules(archs) ==
  IF archs = {} THEN << >>
  ELSE <<Tool({Module(arch) : arch \in archs}, Artifacts(archs), priority)>>

\* inputDependencies are added to the invocations that wait.
Await(all, who, files) ==
  [i \in 1..Len(all) |->
     IF i \in who THEN [all[i] EXCEPT !.inputDependencies = @ \cup files] ELSE all[i]]

MadeSoFar == UNION {invocations[i].outputs : i \in Indices(invocations)}

\* FrameworksResolver: one executable, joined from one for each architecture.
Link ==
  LET universal  == Len(Architectures) > 1
      slice(n)   == <<"slice", Architectures[n]>>
      objects(n) == {path \in MadeSoFar : path[1] = "object" /\ path[3] = Architectures[n]}
      link(n)    == Tool(objects(n), {IF universal THEN slice(n) ELSE Executable}, priority)
      lipo       == Tool({slice(n) : n \in 1..Len(Architectures)}, {Executable}, priority)
  IN  [n \in 1..Len(Architectures) |-> link(n)] \o (IF universal THEN <<lipo>> ELSE << >>)

\* The first n groups of a phase, each made into a file of its destination.
Copies(phase, n) ==
  [k \in 1..n |->
     Tool(phase.groups[k].inputs, {<<phase.destination, phase.groups[k].name>>}, priority)]

Script(phase) ==
  <<[Tool({}, phase.outputPaths, priority) EXCEPT !.phonyInputs = phase.inputPaths]>>

InvocationsOf(phase) ==
  CASE phase.type = "Frameworks"                             -> Link
    [] phase.type \in {"CopyFiles", "Headers", "Resources"}  -> Copies(phase, Len(phase.groups))
    [] phase.type = "ShellScript"                            -> Script(phase)
    [] OTHER                                                 -> << >>

\* resolveBuildFiles may have added some of its invocations before it fails;
\* what links storyboards is looked for after all of them.
FailedInvocationsOf(phase) ==
  CASE phase.type = "Resources"            -> {Copies(phase, n) : n \in 0..Len(phase.groups)}
    [] phase.type = "CopyFiles"            -> {Copies(phase, n) : n \in {0} \cup 1..(Len(phase.groups) - 1)}
    [] phase.type \in {"AppleScript", "Rez"} -> {}
    [] OTHER                               -> {<< >>}

-----------------------------------------------------------------------------

Init ==
  /\ target \in TargetDescriptions
  /\ pc = "select"
  /\ buildPhases = << >> /\ number = 1
  /\ priority = Base /\ insertionPoint = Base
  /\ invocations = << >> /\ makers = << >>
  /\ swift = {} /\ waiting = {} /\ unresolved = {}

SelectPhases ==
  /\ pc = "select"
  /\ buildPhases' = BuildPhases(target)
  /\ pc' = "phases"
  /\ UNCHANGED <<target, number, priority, insertionPoint, invocations, makers,
                 swift, waiting, unresolved>>

\* Invocations are added for the n-th phase, or for the target.
Add(new, n) ==
  /\ invocations' = invocations \o new
  /\ makers' = makers \o [i \in 1..Len(new) |-> n]

EndPhaseOfScripts(phase) ==
  /\ number' = number + 1
  /\ priority' = IF phase.type \in ProductPhases THEN priority + Increment ELSE priority
  /\ insertionPoint' = IF phase.type \in ProductPhases THEN priority' ELSE insertionPoint

\* The target's own invocations go after the phases that make its product.
EndPhase(phase) ==
  /\ number' = number + 1
  /\ priority' = priority + Increment
  /\ insertionPoint' = IF phase.type \in ProductPhases /\ priority' > insertionPoint
                       THEN priority' ELSE insertionPoint

Phase == buildPhases[number]

IsPhase(types) == pc = "phases" /\ number \in Indices(buildPhases) /\ Phase.type \in types

\* Invocations of earlier phases that wait for Swift wait for its copies as well.
ResolveSources ==
  /\ IsPhase({"Sources"})
  /\ LET steps == Steps(Phase)
         new   == Compiles(steps, Len(steps))
     IN  /\ swift' = swift \cup Modules(steps, Len(steps))
         /\ waiting' = waiting \cup Waiting(steps, Len(steps))
         /\ LET all == new \o CopySwiftModules(swift')
            IN  /\ invocations' = Await(invocations \o all, waiting', Artifacts(swift'))
                /\ makers' = makers \o [i \in 1..Len(all) |-> number]
  /\ EndPhase(Phase)
  /\ UNCHANGED <<target, pc, buildPhases, unresolved>>

\* A tool for a file is missing, or after all files the one that copies.
FailSources ==
  /\ IsPhase({"Sources"})
  /\ LET steps == Steps(Phase)
     IN  \E n \in 0..Len(steps) :
           /\ Add(Compiles(steps, n), number)
           /\ swift' = swift \cup Modules(steps, n)
           /\ waiting' = waiting \cup Waiting(steps, n)
  /\ unresolved' = unresolved \cup {number}
  /\ EndPhase(Phase)
  /\ UNCHANGED <<target, pc, buildPhases>>

OtherPhases == {"Frameworks", "CopyFiles", "Headers", "Resources", "ShellScript", "AppleScript", "Rez"}

ResolvePhase ==
  /\ IsPhase(OtherPhases)
  /\ Add(InvocationsOf(Phase), number)
  /\ EndPhase(Phase)
  /\ UNCHANGED <<target, pc, buildPhases, swift, waiting, unresolved>>

FailPhase ==
  /\ IsPhase(OtherPhases)
  /\ \E new \in FailedInvocationsOf(Phase) : Add(new, number)
  /\ unresolved' = unresolved \cup {number}
  /\ EndPhase(Phase)
  /\ UNCHANGED <<target, pc, buildPhases, swift, waiting>>

\* The invocations that follow are bumped, but each as a copy that is dropped.
EndPhases ==
  /\ pc = "phases" /\ number \notin Indices(buildPhases)
  /\ pc' = "target"
  /\ UNCHANGED <<target, buildPhases, number, priority, insertionPoint, invocations, makers,
                 swift, waiting, unresolved>>

WrapperOutputs(all) ==
  {path \in UNION {all[i].outputs : i \in Indices(all)} : InWrapper(path)}

\* ResolveBundleStructure: a directory for what there is to put in.
Structure ==
  IF target.product.wrapper /\ WrapperOutputs(invocations) # {}
  THEN <<[Tool({}, {<<"folder", "">>}, insertionPoint) EXCEPT !.createsProductStructure = TRUE]>>
  ELSE << >>

\* product.infoPlist are the files the Info.plist is made of, if there is one.
InfoPlist ==
  IF target.product.infoPlist # {}
  THEN <<Tool(target.product.infoPlist, {<<"plist", "">>}, insertionPoint)>>
  ELSE << >>

\* The touch comes after everything that is in the wrapper so far.
Touch(all) ==
  <<[Tool({}, {<<"wrapper", "">>}, insertionPoint) EXCEPT !.inputDependencies = WrapperOutputs(all)]>>

\* ProductTypeResolver
FinishProduct ==
  LET before == Structure \o InfoPlist
  IN  before \o (IF target.product.wrapper THEN Touch(invocations \o before) ELSE << >>)

\* SwiftResolver: what it copies is not known, so it has no outputs.
SwiftLibraries ==
  IF /\ target.product.wrapper
     /\ target.product.embedsSwift \/ (target.product.type = "application" /\ swift # {})
  THEN <<Tool({Executable}, {}, insertionPoint)>>
  ELSE << >>

ResolveTarget ==
  /\ pc = "target"
  /\ Add(CASE target.type = "Native"    -> FinishProduct \o SwiftLibraries
           [] target.type = "Legacy"    -> <<Tool({}, {}, insertionPoint)>>
           [] OTHER                     -> << >>, 0)
  /\ pc' = "created"
  /\ UNCHANGED <<target, buildPhases, number, priority, insertionPoint, swift, waiting, unresolved>>

\* Tools are missing: those for a framework's links (nothing but the structure
\* is made then), the Swift libraries, or a legacy target's script.
FailTarget ==
  /\ pc = "target"
  /\ \/ /\ target.type = "Native"
        /\ \E new \in {Structure, Structure \o SwiftLibraries, FinishProduct} : Add(new, 0)
     \/ /\ target.type = "Legacy"
        /\ Add(<< >>, 0)
  /\ unresolved' = unresolved \cup {0}
  /\ pc' = "created"
  /\ UNCHANGED <<target, buildPhases, number, priority, insertionPoint, swift, waiting>>

Next ==
  \/ SelectPhases
  \/ ResolveSources
  \/ FailSources
  \/ ResolvePhase
  \/ FailPhase
  \/ EndPhases
  \/ ResolveTarget
  \/ FailTarget

Spec == Init /\ [][Next]_vars

-----------------------------------------------------------------------------

OfTarget   == {i \in Indices(invocations) : makers[i] = 0}
IsOfPhase(i, types) == makers[i] # 0 /\ buildPhases[makers[i]].type \in types
MakesProduct(i) == IsOfPhase(i, ProductPhases)
IsScript(i)     == IsOfPhase(i, {"ShellScript"})

(***************************************************************************)
(* Type invariant.                                                          *)
(***************************************************************************)
TypeOK ==
  /\ pc \in {"select", "phases", "target", "created"}
  /\ priority \in Nat /\ insertionPoint \in Base..priority
  /\ Len(makers) = Len(invocations)
  /\ \A i \in Indices(invocations) : invocations[i].priority \in Base..priority
  /\ unresolved \subseteq 0..priority
  /\ waiting \subseteq Indices(invocations)

(***************************************************************************)
(* Invocations of an earlier phase have a smaller priority: executors that  *)
(* sort by it run the phases in the order of the project file, scripts      *)
(* among them.                                                              *)
(***************************************************************************)
PhasesKeepTheirOrder ==
  \A i, j \in Indices(invocations) :
    0 < makers[i] /\ makers[i] < makers[j] => invocations[i].priority < invocations[j].priority

(***************************************************************************)
(* The invocations that finish the product come after all that make it, in  *)
(* whatever order the project lists its phases and scripts.                 *)
(***************************************************************************)
TargetLevelAfterProduct ==
  \A i \in OfTarget : \A j \in Indices(invocations) \ OfTarget :
    MakesProduct(j) => invocations[j].priority < invocations[i].priority

\* What each invocation is sorted after.  (TLC keeps a sequence that was joined,
\* where it computes a function again whenever it is applied.)
Graph == SortGraph(invocations) \o << >>

(***************************************************************************)
(* In every order the simple executor may choose, the bundle is touched     *)
(* after everything that makes the product and after the maker of every     *)
(* file in the bundle, a script or not.                                     *)
(***************************************************************************)
Bundled ==
  {i \in Indices(invocations) : MakesProduct(i)} \cup
  {Maker(invocations, path) : path \in WrapperOutputs(invocations)}

TouchComesLast ==
  pc = "created" =>
    \A touch \in OfTarget : <<"wrapper", "">> \in invocations[touch].outputs =>
      \A i \in Bundled : Precedes(Graph, i, touch)

(***************************************************************************)
(* The priorities that are counted up phase by phase keep the order of the  *)
(* project, with what finishes the product after what makes it.             *)
(***************************************************************************)
PrioritiesKeepTheOrder == TypeOK /\ PhasesKeepTheirOrder /\ TargetLevelAfterProduct /\ TouchComesLast

\* The files that the project names for a phase, and for the target's Info.plist.
InputsOf(files) == UNION {files[k].inputs : k \in Indices(files)}

NamedBy(phase) == phase.inputPaths \cup InputsOf(phase.neutral) \cup InputsOf(phase.groups)

Named(n) == IF n = 0 THEN target.product.infoPlist ELSE NamedBy(buildPhases[n])

IsBefore(m, n) == m # 0 /\ (n = 0 \/ m < n)

\* A phase uses a file that is made in no phase before it, as does a copy of
\* the product before it is linked.
FileIsUsedTooEarly ==
  \E n \in Indices(buildPhases) \cup {0} : \E path \in Named(n) :
    /\ Makers(invocations, path) # {}
    /\ ~IsBefore(makers[Maker(invocations, path)], n)

\* A script makes a file of the bundle or one its Info.plist is made of, and no
\* phase after it makes anything of the product: the target needs the file
\* before the script or with it.
ScriptComesLate ==
  \E i \in Indices(invocations) :
    /\ IsScript(i)
    /\ \E path \in invocations[i].outputs : InWrapper(path) \/ path \in Named(0)
    /\ \A j \in Indices(invocations) : MakesProduct(j) => makers[j] < makers[i]

HasFiles(n, kind) ==
  /\ buildPhases[n].type = "Sources"
  /\ \E k \in Indices(buildPhases[n].groups) : buildPhases[n].groups[k].kind = kind

CopiesSwift(n) == HasFiles(n, "Swift") /\ n \notin unresolved

\* Sources in C come before any Swift that could be resolved, and are made to
\* wait for the copies of a later phase.
SwiftComesLate ==
  \E n, m \in Positions(buildPhases, "Sources") :
    /\ n < m /\ HasFiles(n, "C") /\ m \notin unresolved
    /\ \E l \in 1..m : HasFiles(l, "Swift")
    /\ \A l \in 1..n : ~CopiesSwift(l)

(***************************************************************************)
(* A target has an order to be built in, unless its project asks for what   *)
(* has none, which it can do in three ways only: by a script that makes a   *)
(* file for the bundle after the product, by a file that is used before the  *)
(* phase that makes it, or by Swift in a later phase than sources in C.     *)
(* What Create adds of its own (copies of Swift modules, links, the touch)  *)
(* and phases that fail never close a circle among the others.              *)
(***************************************************************************)
OnlyTheProjectMakesCycles ==
  pc = "created" /\ HasCycle(Graph) =>
    ScriptComesLate \/ FileIsUsedTooEarly \/ SwiftComesLate

(***************************************************************************)
(* What Create says it does: every invocation at or after the insertion     *)
(* point "will be bumped up to next priority level to accomodate room for   *)
(* target level phase invocations", so that trailing scripts come after     *)
(* them.                                                                    *)
(***************************************************************************)
TargetLevelBeforeTrailingScripts ==
  \A i \in OfTarget : \A j \in Indices(invocations) \ OfTarget :
    IsScript(j) => invocations[i].priority # invocations[j].priority

=============================================================================
