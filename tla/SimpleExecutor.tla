---------------------------- MODULE SimpleExecutor ----------------------------
(***************************************************************************)
(* xcexecution::SimpleExecutor: builds the targets of a workspace one after *)
(* another in this process.  For each target it writes the auxiliary files, *)
(* sorts the tool invocations, runs those that create the product structure *)
(* and then the others, and stops at the first failure.                     *)
(*                                                                         *)
(* The file system and the tools may fail at every call.  Sorting is        *)
(* DirectedGraph::ordered(), by its specification TopologicalSort.          *)
(***************************************************************************)
EXTENDS InvocationOrder, SequencesExt

CONSTANTS
  Target,
  Path,           \* files that invocations make and use, auxiliary files
  Directory,      \* directories of auxiliary files
  Builds          \* the builds that may be asked for; see Build

Invocation == InvocationOver(Path)

\* The contents, in part copied from other files, are left out.
AuxiliaryFile == [path : Path, directory : Directory, executable : BOOLEAN]

\* What the resolved workspace has for each target.  The graph of the targets
\* has no cycle: DependencyResolver shows that it never has one.
Build == [dependencies : [Target -> SUBSET Target],
          auxiliary    : [Target -> Seq(AuxiliaryFile)],
          invocations  : [Target -> Seq(Invocation)],
          dryRun       : BOOLEAN]

ASSUME SimpleExecutorAssumption ==
  /\ IsFiniteSet(Target) /\ Target # {}
  /\ Builds \subseteq Build

VARIABLES
  build,          \* the build that was asked for
  pc,             \* "load", "next target", "auxiliary", "sort", "structure",
                  \* "invocations", or the return value: "success", "failure"
  targets,        \* targets that are still to be built, in order
  target,         \* the target that is being built
  auxiliary,      \* its auxiliary files that are still to be written
  ordered,        \* its invocations as SortInvocations left them
  position,       \* how many of them the current pass is done with
  failed,         \* the invocations named in the failure
  directories,    \* directories of auxiliary files there are
  files,          \* regular files there are
  executables,    \* files with the executable bit
  ran             \* <<target, invocation>> of every tool that ran, in order

progress == <<targets, target, auxiliary, ordered, position>>
disk     == <<directories, files, executables>>
vars     == <<build, pc, progress, failed, disk, ran>>

Invocations == build.invocations[target]

-----------------------------------------------------------------------------

Init ==
  /\ build \in Builds
  /\ pc = "load"
  /\ targets = << >> /\ target = CHOOSE t \in Target : TRUE
  /\ auxiliary = << >> /\ ordered = << >> /\ position = 0
  /\ failed = {}
  /\ directories = {} /\ files = {} /\ executables = {}
  /\ ran = << >>

\* No workspace, no context, or no targets can be had.
FailToLoad ==
  /\ pc = "load"
  /\ pc' = "failure"
  /\ UNCHANGED <<build, progress, failed, disk, ran>>

Load ==
  /\ pc = "load"
  /\ targets' \in Sorts(Target, build.dependencies)
  /\ pc' = "next target"
  /\ UNCHANGED <<build, target, auxiliary, ordered, position, failed, disk, ran>>

BeginTarget ==
  /\ pc = "next target" /\ targets # << >>
  /\ target' = Head(targets)
  /\ targets' = Tail(targets)
  /\ auxiliary' = build.auxiliary[target']
  /\ pc' = "auxiliary"
  /\ UNCHANGED <<build, ordered, position, failed, disk, ran>>

\* The target has no environment.
FailToBeginTarget ==
  /\ pc = "next target" /\ targets # << >>
  /\ pc' = "failure"
  /\ UNCHANGED <<build, progress, failed, disk, ran>>

FinishBuild ==
  /\ pc = "next target" /\ targets = << >>
  /\ pc' = "success"
  /\ UNCHANGED <<build, progress, failed, disk, ran>>

\* writeAuxiliaryFiles, one file: its directory, its contents, its permissions.
WriteAuxiliaryFile ==
  LET file == Head(auxiliary) IN
  /\ pc = "auxiliary" /\ auxiliary # << >>
  /\ auxiliary' = Tail(auxiliary)
  /\ IF build.dryRun
     THEN UNCHANGED disk
     ELSE /\ directories' = directories \cup {file.directory}
          /\ files' = files \cup {file.path}
          /\ executables' = IF file.executable THEN executables \cup {file.path} ELSE executables
  /\ UNCHANGED <<build, pc, targets, target, ordered, position, failed, ran>>

\* A call fails after those before it were made.  No invocation is named.
FailToWriteAuxiliaryFile ==
  LET file == Head(auxiliary) IN
  /\ pc = "auxiliary" /\ auxiliary # << >> /\ ~build.dryRun
  /\ \/ /\ file.directory \notin directories                  \* createDirectory
        /\ UNCHANGED disk
     \/ /\ directories' = directories \cup {file.directory}   \* read or write
        /\ UNCHANGED <<files, executables>>
     \/ /\ file.executable                               \* writeFilePermissions
        /\ file.path \notin executables
        /\ directories' = directories \cup {file.directory}
        /\ files' = files \cup {file.path}
        /\ UNCHANGED executables
  /\ pc' = "failure"
  /\ UNCHANGED <<build, progress, failed, ran>>

FinishAuxiliaryFiles ==
  /\ pc = "auxiliary" /\ auxiliary = << >>
  /\ pc' = "sort"
  /\ UNCHANGED <<build, progress, failed, disk, ran>>

SortInvocations ==
  /\ pc = "sort"
  /\ IF HasCycle(SortGraph(Invocations))
     THEN pc' = "failure" /\ UNCHANGED <<ordered, position>>
     ELSE /\ ordered' \in Sorts(Indices(Invocations), SortGraph(Invocations))
          /\ position' = 0
          /\ pc' = "structure"
  /\ UNCHANGED <<build, targets, target, auxiliary, failed, disk, ran>>

Current    == ordered[position + 1]
IsTurn     == pc \in {"structure", "invocations"} /\ position < Len(ordered)
IsSkipped  == \/ Invocations[Current].phony
              \/ Invocations[Current].createsProductStructure # (pc = "structure")

\* performInvocations: not a tool, not for this pass, or a dry run.
SkipInvocation ==
  /\ IsTurn
  /\ IsSkipped \/ build.dryRun
  /\ position' = position + 1
  /\ UNCHANGED <<build, pc, targets, target, auxiliary, ordered, failed, disk, ran>>

\* The directory of an output cannot be made, or there is no such tool.
RefuseInvocation ==
  /\ IsTurn /\ ~IsSkipped /\ ~build.dryRun
  /\ failed' = {<<target, Current>>}
  /\ pc' = "failure"
  /\ UNCHANGED <<build, progress, disk, ran>>

RunInvocation ==
  /\ IsTurn /\ ~IsSkipped /\ ~build.dryRun
  /\ ran' = Append(ran, <<target, Current>>)
  /\ files' = files \cup Invocations[Current].outputs
  /\ position' = position + 1
  /\ UNCHANGED <<build, pc, targets, target, auxiliary, ordered, failed, directories, executables>>

FailInvocationButGoOn ==
  /\ IsTurn /\ ~IsSkipped /\ ~build.dryRun
  /\ ran' = Append(ran, <<target, Current>>)
  /\ files' \in {files \cup made : made \in SUBSET Invocations[Current].outputs}
  /\ failed' = failed \cup {<<target, Current>>}
  /\ position' = position + 1
  /\ UNCHANGED <<build, pc, targets, target, auxiliary, ordered, directories, executables>>

\* The tool exits with another code than 0, or cannot be launched.  It may have
\* made some of its outputs.
FailInvocation ==
  /\ IsTurn /\ ~IsSkipped /\ ~build.dryRun
  /\ ran' = Append(ran, <<target, Current>>)
  /\ files' \in {files \cup made : made \in SUBSET Invocations[Current].outputs}
  /\ failed' = {<<target, Current>>}
  /\ pc' = "failure"
  /\ UNCHANGED <<build, progress, directories, executables>>

FinishPassAndTarget ==
  /\ pc \in {"structure", "invocations"} /\ position = Len(ordered)
  /\ pc' = "next target"
  /\ position' = 0
  /\ UNCHANGED <<build, targets, target, auxiliary, ordered, failed, disk, ran>>

\* The pass over the product structure is followed by the other invocations.
FinishPass ==
  /\ pc \in {"structure", "invocations"} /\ position = Len(ordered)
  /\ pc' = IF pc = "structure" THEN "invocations" ELSE "next target"
  /\ position' = 0
  /\ UNCHANGED <<build, targets, target, auxiliary, ordered, failed, disk, ran>>

Next ==
  \/ Load \/ FailToLoad
  \/ BeginTarget \/ FailToBeginTarget \/ FinishBuild
  \/ WriteAuxiliaryFile \/ FailToWriteAuxiliaryFile \/ FinishAuxiliaryFiles
  \/ SortInvocations
  \/ SkipInvocation \/ RunInvocation \/ RefuseInvocation \/ FailInvocation
  \/ FinishPass

Spec == Init /\ [][Next]_vars

-----------------------------------------------------------------------------

InvocationOf(r) == build.invocations[r[1]][r[2]]

\* What an invocation needs of the outputs of its target.
NeededAndMade(all, invocation) ==
  (invocation.inputs \cup invocation.phonyInputs \cup invocation.inputDependencies)
    \cap UNION {all[m].outputs : m \in 1..Len(all)}

\* Where a file is first named as an output.
FirstToName(all, path) ==
  CHOOSE m \in 1..Len(all) :
    /\ path \in all[m].outputs
    /\ \A k \in 1..(m - 1) : path \notin all[k].outputs

HasRun(n, path) == \E m \in 1..(n - 1) : path \in InvocationOf(ran[m]).outputs

(***************************************************************************)
(* Type invariant.                                                          *)
(***************************************************************************)
TypeOK ==
  /\ pc \in {"load", "next target", "auxiliary", "sort", "structure", "invocations",
             "success", "failure"}
  /\ ToSet(targets) \subseteq Target /\ target \in Target
  /\ position \in 0..Len(ordered)
  /\ failed \subseteq Target \X Nat
  /\ directories \subseteq Directory /\ files \subseteq Path /\ executables \subseteq files
  /\ \A n \in 1..Len(ran) : ran[n][1] \in Target /\ ran[n][2] \in 1..Len(build.invocations[ran[n][1]])

(***************************************************************************)
(* A tool runs only when the files it needs that another tool of its target *)
(* makes have been made.  Product structure is exempt: it runs first and    *)
(* its links may dangle.  So are files that a phony invocation names first. *)
(***************************************************************************)
NeededFilesAreMade ==
  \A n \in 1..Len(ran) :
    LET all == build.invocations[ran[n][1]]
    IN  ~InvocationOf(ran[n]).createsProductStructure =>
          \A path \in NeededAndMade(all, InvocationOf(ran[n])) :
            ~all[FirstToName(all, path)].phony => HasRun(n, path)

\* The product structure is made before all else, the rest phase by phase.
InPhaseOrder(first, later) ==
  IF first.createsProductStructure = later.createsProductStructure
  THEN first.priority <= later.priority
  ELSE first.createsProductStructure

(***************************************************************************)
(* Within a target the build phases run in the order of their priorities,   *)
(* apart from the product structure, which precedes them all.               *)
(***************************************************************************)
PhasesRunInOrder ==
  \A m, n \in 1..Len(ran) :
    m < n /\ ran[m][1] = ran[n][1] => InPhaseOrder(InvocationOf(ran[m]), InvocationOf(ran[n]))

(***************************************************************************)
(* When a tool of a target runs, every tool of the targets it depends on    *)
(* has run, and has run once.                                               *)
(***************************************************************************)
DependenciesAreBuilt ==
  \A n \in 1..Len(ran) : \A d \in build.dependencies[ran[n][1]] :
    \A i \in 1..Len(build.invocations[d]) :
      ~build.invocations[d][i].phony =>
        Cardinality({m \in 1..(n - 1) : ran[m] = <<d, i>>}) = 1

(***************************************************************************)
(* No tool is overtaken: not by the makers of its files, by an earlier phase*)
(* or by a target its own depends on.                                       *)
(***************************************************************************)
ToolsRunInOrder == TypeOK /\ NeededFilesAreMade /\ PhasesRunInOrder /\ DependenciesAreBuilt

(***************************************************************************)
(* A build that reports success has run every tool of every target, and     *)
(* made everything that they and the auxiliary files make; a dry run has    *)
(* run none.                                                                *)
(***************************************************************************)
SuccessIsComplete ==
  pc = "success" =>
    IF build.dryRun
    THEN ran = << >>
    ELSE \A t \in Target :
           /\ \A i \in 1..Len(build.invocations[t]) :
                ~build.invocations[t][i].phony =>
                  /\ \E n \in 1..Len(ran) : ran[n] = <<t, i>>
                  /\ build.invocations[t][i].outputs \subseteq files
           /\ \A k \in 1..Len(build.auxiliary[t]) :
                LET file == build.auxiliary[t][k]
                IN  file.path \in files /\ (file.executable => file.path \in executables)

(***************************************************************************)
(* A dry run leaves the disk alone.                                         *)
(***************************************************************************)
DryRunTouchesNothing == build.dryRun => directories = {} /\ files = {} /\ executables = {}

(***************************************************************************)
(* What a build reports is so: success means that everything is made, and   *)
(* a dry run that nothing is.                                               *)
(***************************************************************************)
OutcomeIsTrue == SuccessIsComplete /\ DryRunTouchesNothing

(***************************************************************************)
(* Once a tool has failed no tool runs and nothing is written any more, in  *)
(* this target or in a later one.                                           *)
(***************************************************************************)
NothingRunsAfterFailure == [][failed # {} => UNCHANGED <<ran, disk>>]_vars

=============================================================================
