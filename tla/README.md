# A TLA+ model of xcbuild

xcbuild builds Xcode projects: it reads the build specifications and the
developer directory, loads a workspace, finds out which targets to build in
which order, puts the settings of each target together, turns its build phases
into tool invocations, and then either runs those itself (the simple executor)
or writes Ninja files and lets Ninja run them (the Ninja executor). The models
follow that path, because a mistake along it is silent: a build that uses a
file before it is made, or a stale one, usually still succeeds. Beside it are
the tools of its own that such a build runs: `actool` with the archive it
writes, and the built-in tools that copy files and complete an Info.plist.

Contents: [the system](#1-the-system), [the modules](#2-the-modules),
[the runs](#3-the-runs), [the proofs](#4-the-proofs),
[disagreements found](#5-where-code-and-documentation-disagree),
[what is not modelled](#6-not-modelled), [the plan](#7-the-plan).

Paths are relative to `src/Libraries/` unless they begin with `src/`.

## 1. The system

| component | state it keeps | operations | what makes it correct |
|---|---|---|---|
| Directed graph (`pbxbuild/…/DirectedGraph`) | nodes, children of each parent; during a sort the list to explore, the nodes in progress, those explored, the result | `insert`, `adjacent`, `ordered` | an order exactly for an acyclic graph, children first, in every order of walking the hash containers; it returns |
| Target dependencies (`pbxbuild/…/Build/DependencyResolver`) | the graph of targets, the map from product names to targets, the targets seen so far, the call stack | `resolveSchemeDependencies`, `resolveLegacyDependencies` | dependencies come first; a sequential build has one order; the graph has no cycle |
| Invocations of a target (`pbxbuild/…/Phase/PhaseInvocations` with the phase and tool resolvers) | the list of invocations, the current priority, the insertion point | `Create` | phases keep the order of the project; the product is finished after it is made; there is an order to run the invocations in |
| Simple executor (`xcexecution/…/SimpleExecutor`) | the targets and invocations left, the disk | `build`, `writeAuxiliaryFiles`, `SortInvocations`, `performInvocations`, `buildTarget` | a tool runs after what it needs; nothing runs after a failure; success means complete |
| Ninja executor (`xcexecution/…/NinjaExecutor`) | `build.ninja`, one file for each target, the hash of the parameters | `build`, `buildAction`, `buildTargetInvocations`, `buildInvocation`, `buildAuxiliaryFile` | Ninja is launched on complete files of the right parameters; edits reach the build; Ninja accepts the files and keeps the order |
| Build parameters (`xcexecution/…/Parameters`) | none | loading the workspace, the choice of scheme and configuration, `canonicalArguments`, `canonicalHash` | a hash stands for what its arguments say; what they lose is in section 5 |
| Workspace context (`pbxbuild/…/WorkspaceContext`, `xcworkspace`, `pbxproj`, `xcscheme`) | projects loaded, their objects, configuration files, groups of schemes; the calls of a parse | open, parse, nested projects, schemes, `createBuildContext` | everything that is referred to is loaded, completely; what a scheme names is found; it returns |
| Build specifications (`pbxspec`, `pbxbuild/…/FileTypeResolver`, `BuildRules`) | specifications by domain, their bases and inherited values; the calls of `inheritSpecification` | `registerDomains`, look-up of types and rules | a specification has the values of its whole chain, once; the most specific type takes a file |
| Settings (`pbxsetting`, `pbxbuild/…/Target/Environment`) | a list of levels of settings, a position in it | `resolve`, `expand`, inheritance; parsing and printing | the nearest level wins; `$(inherited)` is the next one; it returns; what is written is read back |
| Developer directories (`xcsdk` with `xcode-select` and `xcrun`) | the link, the bundles in a directory | switch, reset, load, find an SDK or a tool | a switch has an effect; a build and its scripts use the same tools |
| Header maps (`pbxbuild/…/HeaderMap`) | a hash table with a string table | `add`, `grow`, `write` | the compiler finds whatever was added, also after the table has grown |
| Phase and tool resolvers (`pbxbuild/…/Phase`, `…/Tool`) | the context that all of them add to | one `resolve` for each phase and tool | what is used is made, once, and waited for; a failure in between leaves a consistent part |
| BOM store and archives (`libbom`, `libcar`) | an index of ranges, variables, trees; facets and renditions | append, add, tree insertion; `write` | ranges do not overlap; what was stored is found |
| Asset catalogs (`xcassets`, `acdriver`) | the assets loaded; the archive, the copies, the outputs, the errors | load, compile, write | names lead to their images; success means written |
| File systems (`libutil`) | a tree of entries | `write`, `createDirectory`, `copySymbolicLink`, `addPermissions`, `readDirectory`, … | a call does what it says or reports a failure; links are followed only where they should be |
| Built-in tools (`builtin`) | options, the directories being walked, the disk | `copy`, `copyPlist`, `copyStrings`, `infoPlistUtility`, and five that are not done | success means done, whatever was there before; nothing outside the outputs changes |
| Process launcher (`process`) | child processes, pipes | `launch` | the exit code is the tool's; nothing leaks |
| PDB driver (`pdbdriver`) | one build of a project from a database | fetch, mount, build, install | clean-up after every failure |
| Property lists, formatters, drivers, graphics | none between calls | reading and printing formats | conversions |

How they interact: an executor gets the workspace and the targets' graph from
`Parameters`, asks the graph for an order, gets the list of invocations of
each target from `PhaseInvocations`, and gives each invocation to a launcher
or to Ninja. All of it is calls on one thread. The interesting orders are

* the order of walking hash containers, which the code relies on nowhere but
  meets everywhere (`DirectedGraph`, the map of product names, the outputs of
  invocations);
* tools under Ninja, which run in parallel;
* the executor and Ninja, which start each other and share files;
* processes that are killed between two writes or halfway through a directory,
  disks that are full, tools and system calls that fail, a user who edits the project meanwhile or turns `xcode-select` to
  another directory;
* recursions over data that others wrote (specifications, projects, settings,
  targets), which end only if the data has no circle.

`PROJECT.json` lists the hazards line by line.

## 2. The modules

| module | models |
|---|---|
| `TopologicalOrder` | what an order and a cycle of a graph are |
| `TopologicalSort` | the promise of `DirectedGraph`: build a graph, ask once, get an order or nothing |
| `DirectedGraph` | `DirectedGraph.cpp`, one action for each way through the loop of `ordered()`; implements `TopologicalSort` |
| `DependencyResolver` | `DependencyResolver.cpp` on top of `TopologicalSort` |
| `InvocationOrder` | invocations and the graph of `SortInvocations` |
| `PhaseInvocations` | `PhaseInvocations::Create`; its lists are judged by `InvocationOrder` |
| `SimpleExecutor` | `SimpleExecutor.cpp`, with `InvocationOrder` |
| `NinjaExecutor` | the generation and launch of Ninja, with its files, crashes, edits and regeneration |
| `NinjaGraph` | the rules in those files and Ninja building them, compared with `InvocationOrder` |
| `Specifications` | the classes of specifications with the keys each reads and inherits; `pbxspec::Manager`: registration by domain, the recursion over bases |
| `BuildRules` | on top of it, from a file to its type and the rule that builds it |
| `ProjectObjects` | the classes of `pbxproj` with the keys they read; the parse of a project, its caches and its recursion |
| `Schemes` | the elements of a scheme |
| `WorkspaceContext` | on top of both, workspaces, nested projects, configuration files, groups of schemes, and the build context |
| `Settings`, `SettingSyntax` | levels and the recursion that resolves settings; how values, lists and settings are written and read |
| `DeveloperTools` | on top of `Settings`, `xcode-select`, the bundles of a developer directory, `xcrun` |
| `TargetEnvironment` | on top of it, the environment of a target and a script that looks for tools |
| `HeaderMaps` | the hash table of header maps |
| `ToolInvocations` | what all tool resolvers share, then the resolvers of single files and those of whole products |
| `BuildPhases` | on top of it, the files of a phase and their groups, and all phases of a target. It is `PhaseInvocations` with its resolvers |
| `BomStore`, `CarArchive` | the blocks of a BOM file; the archive of images in it |
| `AssetCatalog`, `CatalogCompiler` | the classes of assets and loading them; `actool` with the archive |
| `BuiltinTools` | calls of `libutil` on a disk of files, links and directories with permissions, and on top of them the built-in tools, called again and again |
| `ProductFiles` | `actool` and then the tool that completes the Info.plist, given what `actool` says; or a built-in tool alone |
| `…Proofs` | theorems about the module before the suffix, see [the proofs](#4-the-proofs) |
| `MC…` | values for model checking |

Some definitions follow their model's with a name such as `FinishTooEarly` or
`SkipEntryOnlyForFlag`. They are what the definition after them would be with
a plausible mistake; `PROJECT.json` pairs each with a property that it breaks.

**DirectedGraph.** `nodes` and `adjacency` are `_nodes` and `_adjacency`; the
domain of `adjacency` is the set of nodes that were ever a parent. `ordered()`
begins with the parents in any order (`Walks`: the map is unordered). Each pass
of its loop is one action: the front was explored over another path
(`SkipExplored`), a child is in progress (`ReportCycle`), a child is pushed
(`Descend`), or nothing was pushed and the front is finished (`Finish`). When a
node has both a child in progress and an unexplored one, which of them the loop
meets first depends on the walk; both actions are enabled.

**DependencyResolver.** The variable `stack` holds the frames of
`AddDependencies`, each first in `AddImplicitDependencies` (Frameworks and
CopyFiles members, by product name or proxy), then in `AddExplicitDependencies`
(target dependencies). `pending` is what the loops of the function have still to look at,
`dependencies` the set they fill. `InsertDependencies` is the graph
insertion of the parallel case; in a sequential build `EndExplicit` puts the
target after all those in `positional` when it is not there yet. The code has
no test for a target that is being visited already, so the recursion
is bounded by the thread's stack (`StackLimit`) and ends in `overflow`.
`ProductMaps` has all the maps that walking the projects' hash map can give.

**PhaseInvocations.** An invocation is what an executor sees of it: inputs,
phony inputs, input dependencies, outputs, priority, and whether it makes
product structure. `SelectPhases` is the filter for deployment and the phase that
is synthesized. `ResolveSources` compiles the files of a Sources phase, those that are neutral once
and the others for each architecture (`Steps`), copies all Swift modules there are so far
(`CopySwiftModules`; `swift` is `swiftModuleInfo`), and lets every compile that waits for Swift wait for the
copies, those of earlier phases too (`Await`; `waiting` is `waitForSwiftArtifacts`). `FailSources` is the same up to
a file whose tool is missing, or up to the copies. `ResolvePhase` and `FailPhase` add the
invocations of any other phase: a link needs the objects made so far, a copy the file that it
copies, a script what its project says. Each of the four updates the priority and the insertion
point; `EndPhases` is the loop that
increments copies, hence nothing; `ResolveTarget` and `FailTarget` add those
of the target. `buildPhases` is the list the loop walks and `number` the phase it
has come to; `makers` remembers for each invocation which phase made it (0 for
the target), which the code forgets and the properties need. A path is a kind of
file with an instance. One increment of the priority is 1 in the model and 0x100
in the code.

**SimpleExecutor.** `pc` tells the position in `build()` and
`buildTarget()`. Each auxiliary file, each invocation of a pass and each return
is one action, with a second action for its failure: what was done before the
failing call stays done. A tool that fails may have made some of its outputs.

**NinjaExecutor.** Files are what they were generated from (parameters and the
version of the project), and opening a file truncates it in a step of its own.
The parameters of a run are written as arguments (`canonicalArguments`), for the hash and for the
rule that generates again. They are a list of words in which a setting has lost its level and
its condition (Parameters.cpp:84), so parameters that differ may have the same arguments; and what a new executor makes of them
(`Accepted`) depends on its environment, and is nothing if one is unknown, as `-allTargets` is.
Both are constants, about which nothing is assumed.
`Kill` may come between any two steps. `Regenerate` is Ninja's rule for
`build.ninja` (`WriteNinjaRegenerate`), which runs the executor with
`-generate`; the executor returns to the Ninja that waits. Times of
modification are ticks of `clock`, so two writes may have the same time. Three
history variables tell which runs the properties speak of: `unsettled`
(a generation has begun to write and has not written the hash), `misled` (the
run skipped the generation at such a moment) and `raced` (an edit whose time is
not later than `build.ninja` although its contents are).

**NinjaGraph.** `RulesFor` is the set of rules in a target's file and the
rules for it in `build.ninja`: begin, auxiliary files, begin and finish of each
phase priority, tools, phony inputs, finish. A rule has its outputs, its
needs (inputs, dependencies and order-only ones: in a build from nothing they
have the same effect) and its origin, so that two rules for one file are
told apart. `Load` is Ninja's refusal of duplicate rules, missing files and
cycles; then every rule whose needs are made may start. Which files are up to
date already is left out.

**Specifications, BuildRules.** `pc` is the position in `registerDomains` and
`inheritSpecification`; `stack` holds the latter's calls with what they visited.
A value is abstracted to the specifications it comes from, so that "inherited
from the whole chain, once" can be said of every key. A table has a row for each
class with the keys it reads.

**WorkspaceContext.** A disk is chosen in `Init` and does not change. `ParseStep`
is one call of `parseObject` or one reference followed; an object is in `cache`
from before it is read, as in `pbxproj::Context`. `NextLevel` goes from one
generation of nested projects to the next; `CreateBuildContext` chooses the
scheme, its group, the project and the configuration. A parse that hits an
`assert` or a null pointer ends in `crashed`, a recursion without end in
`endless`.

**TargetEnvironment.** `xcode-select` (`Switch`, `Reset`) and the installer
(`Install`, `Uninstall`) act at any time; `LoadEnvironment` reads what is there,
`CreateTargetEnvironment` determines the SDK with one list of levels and settles
the settings with another, `RunScript` asks `xcrun` with the variables of that
build. A circle of settings is a call that repeats one in progress: it gives
`Endless`. Operations such as `:upper` are the constant `Operate`.

**BuildPhases.** One action for each phase, as in `PhaseInvocations`, here with
the resolvers themselves: `context` is `Tool::Context`, and an invocation has its
tool, inputs, outputs, dependencies, priority and the part of its arguments that
a property needs (what a precompiled header depends on, header maps, modules).
Each tool may be missing (`Has`), and then the phase ends with what it has
added so far. `PhaseInvocations` remains the model of the priorities for phases
in every order; `BuildPhases` has the same steps with concrete files.

**CatalogCompiler.** One action for each asset compiled, each copy and each
file written. In `BomStore` bytes are runs with an owner: what moves when space is made is the
memory, and the addresses in the table, the header and the variables are
corrected by other operators, as in the code.

**BuiltinTools, ProductFiles.** A disk maps paths to entries. A call is
an operator that gives the disk after it and whether it succeeded; on a full
disk it has several results, one of which is a success with the data in `lost`,
as nobody asks whether closing the file succeeded. It is the build for systems
other than Apple's, which copies through `libutil::Filesystem`. A built-in tool reads its
options (`ReadToolOptions`) and then does a step for each input, for each property list and,
in a directory, for each entry that `readDirectory` reports (`ReportEntry`, in any
order) and each directory it enters: `toolStage` says whether the walk removes the old
copy, copies, or sets permissions. `Kill` comes between any two steps; `CallAgain`
is the next build, which finds the outputs as they were left and the sources of
another version. `PassOn` gives the partial Info.plist of `actool` to
`infoPlistUtility` as additional content.

## 3. The runs

| run | instance | states (distinct) | what it shows |
|---|---|---|---|
| `DirectedGraph` | every graph over 3 nodes, every insertion and walk | 19 thousand | `TypeOK`; the order lists each node once after its children; nothing is returned only for a cycle; the final assertion holds; `ordered()` implements `TopologicalSort`, and it returns |
| `DependencyResolver` | 3 targets, all 512 explicit graphs, 128 implicit ones with two products of one name, references to nothing; schemes with all flags; legacy builds of every subset | 1.4 million | dependencies come first in every order the graph allows, a sequential build has exactly one, the graph never has a cycle, the stack overflows only for a real cycle (`ResolvesSoundly`); acyclic builds get an order |
| `PhaseInvocations` | applications, frameworks, tools, legacy and aggregate targets; up to 3 of 11 phases in every order, at most two of them with sources, in C, Swift or both; copies of the product, scripts that use and make files of the bundle and generated ones; two architectures, failures after any file | 568 thousand | priorities follow the project, what finishes the product comes after what makes it, the touch comes after what makes the product and every file of the bundle (`PrioritiesKeepTheOrder`); a circle of invocations has one of three causes in the project: a script that makes a file of the bundle late, a file that is used before the phase that makes it, Swift in a later phase than C (`OnlyTheProjectMakesCycles`) |
| `BuildPhases` | command line tools, applications, frameworks and libraries of C, C++, Objective-C, Swift, lex files and resources, one and two architectures and variants, phases in several orders, every set of header-map flags, each without one tool | 592 | every header is found in the written map; every derived file is made, by one invocation; every file of a phase is used and every object linked once, into its slice; C waits for Swift's artifacts; a precompiled header fits its sources |
| `SimpleExecutor` | an application and its library; any 3 of 10 shapes of invocations in 3 phases; dry run or not; a failure at every call | 84 thousand | no tool is overtaken by one it needs, an earlier phase or a dependency (`ToolsRunInOrder`); success is complete and a dry run touches nothing (`OutcomeIsTrue`); nothing runs after a failure |
| `NinjaExecutor` | 3 sets of parameters, two of which have the same arguments, 2 targets, 1 edit, 3 times, any number of runs | 4.9 million | there is one Ninja, on files of the parameters the user gave or that their arguments stand for; the hash vouches for all files; an edit reaches the next build |
| `NinjaCached` | the same | | a violation: finding 1 |
| `NinjaGraph` | 3 targets with dependencies over an aggregate; any 3 of 9 shapes of invocations; two targets of one name; parallel tools, failures, any subset of targets skipped | 382 thousand | phases, auxiliary files and dependencies keep their order under parallel tools; Ninja accepts every sound workspace |
| `Specifications` | chains over files and domains in every order, types that a platform redefines, cyclic, missing and late bases, broken files, a domain named twice | 18 thousand | inherited values are those of the whole chain, and the recursion fails to end only for a cycle (`RegistrationIsComplete`); nothing is inherited twice; the most specific type is chosen, and a platform's version of it keeps the rules (`FilesMeetTheirRules`) |
| `Workspace` | a project with an object of each class; workspaces with nested projects along two ways or in a circle, included configuration files, schemes of one name | 22 thousand | objects in circles are complete when the load hands them out, and only a circle keeps a load from ending (`CirclesAreRead`); no nested project and no configuration is left out (`NestedProjectsAreLoaded`); what a workspace and a scheme name is found (`NamesAreFollowed`) |
| `TargetEnvironment` | two developer directories, three platforms, SDKs asked for at every level in seven forms, toolchains, circles of settings; up to 3 changes from outside; all lines of up to 4 characters | 10 thousand | a switch has an effect; the SDK determined is the SDK of the settled settings, and `xcrun` agrees with the build (`AskedToolsAreUsed`); resolving ends but for circles; lines are read back as written |
| `Assets` | image sets with and without name spaces, stretched and unusable images, icons and launch images of several devices, an asset of every class, broken contents; 25 calls of built-in tools on files, links, directories in directories, a device and a sealed directory, in two versions, up to 3 calls and 2 faults | 35 thousand | every address leads to its bytes after every step of the writer; names lead to their images, and to no others; success means written and copied, also over what a failed or killed call left (`SuccessIsTrue`); the Info.plist names just the icons and launch images that exist (`ProductNamesItsImages`); only outputs change |

Properties that say the same thing of one run together are conjunctions of named
parts (`ToolsRunInOrder == TypeOK /\ NeededFilesAreMade /\ …`); a counterexample
shows which part fails.

**Properties with conditions.** Where a property exempts a case, the code does:

* `OneMakerEach` leaves out copies of Swift modules and headers and debug symbols
  of several slices, which have one name for all, sources whose name in the
  project is not that of their file, and targets with two Sources or two
  Resources phases (see section 5).
* `ObjectsAreLinkedOnce` asks for one Sources phase before one Frameworks phase: a
  link lists the objects that are known when it is resolved.
* `AskedToolsAreUsed` leaves out toolchains that are named through a link, which
  `xcrun` finds and the build does not.
* `LinesSurvive` leaves out values with `${` and `)`, and settings with a bracket
  in the value.
* `SuccessMeansWritten`, a part of `SuccessIsTrue`, asks of outputs that are listed; the images of an archive
  are `NamesLeadToTheirImages`'.
* `CopiesAreComplete`, another part, leaves out links, an output directory that could not be
  made, and data that is lost when a file is closed on a full disk (see section 5).
* `OnlyOutputsChange` leaves out copies of links, which are made elsewhere, and
  files that a link in an output leads to.
* `NeededFilesAreMade` exempts product structure, which `buildTarget` runs in a
  pass before everything else, whatever its inputs.
* `ToolsWaitForTheirTurn` exempts the makers of phony inputs, which
  `buildInvocation` does not make dependencies of the rule. The simple
  executor does order them; within one phase the two executors differ.
* `DependenciesAreBuilt` asks that no two targets have one name: the rules that
  stand for a target are named after it, so a target that is left out is waited for
  only as long as no other bears its name (`TargetsBuildInTheRightOrder`, section 5).
* `TouchComesLast` speaks of what makes the product and of the makers of files in the
  bundle. Other invocations of the target have no order to the touch.
* `OnlyTheProjectMakesCycles` exempts three things that a project may ask for and no order can give: a script
  that makes a file for the bundle, or for its Info.plist, after the last phase that makes the product
  (`ScriptComesLate`: the target's invocations come before the script, or with it); a phase that uses a file
  which it makes itself or a later phase does, as a copy of the product before it is
  linked (`FileIsUsedTooEarly`, CopyResolver.cpp:93); and C in a phase before
  any Swift, which is made to wait for copies of the later phase (`SwiftComesLate`,
  SourcesResolver.cpp:184). Each of the three is in the instance, and without any one of them TLC finds the circle.
* `NinjaTakesSoundBuilds` names what a workspace has to be like: unique target
  names, tools in every target, files made once, files that can be had, and
  phony inputs that no other rule makes. A source that some target makes has to be had
  from that target: of targets that are not built, Ninja has no rule. Dropping any of the conditions lets
  TLC find a refused build; the simple executor builds most of them.
* `EditsReachTheBuild` exempts edits that no time of modification can tell:
  in the tick of a write, or while a generation is under way (the project is
  read long before `build.ninja` is written).
* `NinjaIsOfAskedConfiguration` and `HashVouchesForFiles` hold while no
  generation was left unfinished; what happens otherwise is finding 1.
* `NinjaIsOfAskedConfiguration` asks for just the parameters the user gave where no others have the same
  arguments and nothing else is read from these (`Alike(asked) = {asked}`). Otherwise it asks for one
  of `Kin(asked)`, the parameters that the arguments cannot tell from them, or that become of them when
  Ninja has them generated again, and again. `HashVouchesForFiles` speaks of arguments, as the hash does.

**Bounds.** Three nodes are enough for every way the search can meet a node again:
a cycle of one, two or three, a diamond's shared node over a chain, a node that
is pushed twice. Three targets give a shared dependency, a chain and a cycle
that does not contain the first target; `StackLimit` is one more than the
targets are many, so that only a repeated target can exceed it. Two
architectures are the first case with a universal binary. Three phases
are what makes a phase before, at and after another; three invocations in three
priorities leave priorities unused and shared. `MaxVersion` 1 and `MaxTime` 2
give an edit before, during and after a generation, each with the same or a
later time; a second edit would find the same state. Of the three sets of parameters, `conditional` has
a condition on a setting that `plain` has without, so they have the same arguments, which are read as `plain`;
`release` differs from both also in its arguments. The targets are symmetric. The instances of
`Specifications`, `Workspace`, `BuildPhases` and `Assets` are lists of situations,
one for each branch of the code that a property depends on, and pairs of those that
meet: they are states of a disk, not inputs of a protocol, and a larger one
repeats the same branches. `MaxDepth` 8 and `MaxProjects` 6 exceed what any
of them without a circle needs, so that only a circle reaches them.
`MaxCalls` 3 and `MaxFaults` 2 give a call that is killed, one that fails on a full disk, and one
that succeeds over what both left, with changed sources in between.
`MaxChanges` 3 gives install, switch and remove in any order around a build;
lines of 4 characters (`LineLength`) hold one reference with brackets. No run with a temporal
property uses symmetry.

**Fairness.** `FairSpec` of `DirectedGraph` and `DependencyResolver` has weak
fairness of the steps of the sort and of the resolver, once called: both are loops and calls on the
caller's thread, with no waiting. Nobody is bound to call them.
`Spec` of `Specifications` has weak fairness of `Next`, one call on one thread.
The other modules state no liveness: a user need not run the executor
again, and a process may be killed at any time.

**Deadlock.** Runs of modules whose program returns (all but `NinjaExecutor`)
switch the deadlock check off: nothing is to be done after the return. A run that
ends in `endless`, `overflow` or `crashed` stands for one that does not return.

## 4. The proofs

The theorems hold for every value of the constants. What they assume is the
type of the constants, in a named assumption of each module, which TLC evaluates
on every run:

| module | theorems | assumption |
|---|---|---|
| `DirectedGraphProofs` | `TypeCorrect`, `OrderIsTopological`, `CycleIsReal`, `AssertionHolds`, `Refinement` | `NodeAssumption`: finitely many nodes |
| `DependencyResolverProofs` | `ResolutionIsSound` | `ResolverAssumption`: finitely many targets, apart from product names; a stack with room for each of them once |
| `PhaseInvocationsProofs` | `OrderIsKept`, `OrderExists` | `PhaseInvocationsAssumption`: the architectures, and the files of each phase, are lists |
| `SimpleExecutorProofs` | `ToolsRun`, `OutcomesAreTrue`, `FailureEndsTheBuild` | `SimpleExecutorAssumption`: finitely many targets; the builds are builds |
| `NinjaExecutorProofs` | `TypeCorrect`, `OneNinjaBuildsAsAsked`, `FilesAreOfOneGeneration`, `EditsAreBuilt` | `NinjaAssumption`: parameters are written as arguments, and arguments are read as some parameters or none; no file and a truncated one are not contents; the bounds are numbers |
| `NinjaGraphProofs` | `OrderIsKept`, `SoundBuildsAreTaken` | `NinjaGraphAssumption`: finitely many targets and paths; no file has the path `finish-target-…` or another name of a phony rule; no build's dependencies go in a circle, as is proved of the graph that `DependencyResolver` gives |
| `WorkspaceContextProofs` | `NothingNestedIsMissing` | `WorkspaceAssumption`: the references of a project are a list; `NONE` is no path |
| `ProductFilesProofs` | `ArchivesAreWhole` | `CatalogAssumption`: finitely many directories, whose entries are lists; the name of an image set has bytes. `CarArchiveAssumption`: the names of the four variables and the value of a rendition have a length |

Each module has an inductive invariant (`IInv`; `CatalogIsSound` in `ProductFilesProofs`), one lemma for each action (or group
of actions that leave the same things alone), and the theorems from `Init => IInv`,
`IInv /\ [Next]_vars => IInv'` and `IInv` implying the property. The bounds of
a run (`MaxTime`, `MaxVersion`, `StackLimit`, `MaxProjects`) are constants there, so a
theorem holds for all of them.

**The sort.** None of the properties of `DirectedGraph` is inductive. The invariant adds:

* `NodesAreParentsAndChildren`: the list begins with the parents only, so a
  complete order needs every other node to be some parent's child.
* `SortedSoFar`: the result is duplicate-free, has just the explored nodes
  and is closed under children.
* `PathOnTop`: the code keeps one list for two things, the stack of the search
  and the parents still to come. There is a prefix of the list (`IsPath(b)`)
  that is a path through the graph, walked from its last entry to its first,
  whose entries are distinct and unexplored and contain every node in
  progress. This is what makes a child in progress a cycle: the part of the path
  from the front to that child is the witness of `HasCycle`. It is also why
  the assertion holds: an empty list has an empty prefix.
* `ParentsAreCovered`: every parent is explored or still on the list.
* `BeforeTheCall`: the locals are empty until `ordered()` is entered.

`Refinement` maps the program counter to the outcome and hides the result until
it is returned; all passes of the loop but the last stutter.

**Dependencies.** The stack of calls is a path of dependencies (`IsPath`): each
frame but the first waits for a target that the frame below named. So when the stack is
longer than there are targets, some target is on it twice, and the part in
between is the cycle that an overflow is allowed for (a pigeonhole over
`Cardinality`). The rest hangs on a set that no variable holds: `ResolvesSoFar` says there is an
`F`, the targets whose call has returned, such that every edge of the graph leads into
`F`, `F` has all its dependencies in the graph and no set of targets in which
each depends on another (`GraphIsSound`). A target enters `F` when its call
returns, after all it depends on, so no set with it becomes a cycle. A parallel graph has only dependencies
(`ParallelGraph`); in a sequential one of any two targets one is before the
other (`SequentialGraph`), and `TotalOrderIsUnique` concludes that there is one
order: at the first place where two orders differ, each would have to have the other's target earlier.

**Orders of invocations.** `SortAs` adds to an invocation the makers of its
files and the invocations of the previous phase only. `SortKeepsPhases` proves that this is
enough for all earlier phases: if a later phase stood before an earlier
one, take the first invocation in the order that is of a later phase than one behind it; the
previous phase it depends on is before it and still too late.

**Phases.** The priority of an invocation is the number of its phase, or the
insertion point for those of the target (`PrioritiesCount`), which no phase that makes the
product reaches (`ProductIsBefore`). For the absence of circles, `NeedsAreExplained` gives a
reason for each file that an invocation needs: its phase names the file in the project (`Named`); it is
made before in the list (`MadeBefore`); it is waited for, and copied by this phase or
an earlier one, or else Swift is late (`Awaited`); or nothing makes it. The list itself is no order
that the sort may give, as compiles come before the copies that they wait for; the order that the proof
takes goes by priority and then by `Rank`, in which what waits for Swift comes after the rest of its phase.
If none of the three causes is there, each maker of a needed file is sooner in this order
(`ProducersAreSooner`), and a least one of any circle gives the contradiction. `TouchNeedsTheBundle` is what lets the touch share the priority of the target's
other invocations.

**The simple executor.** `TargetsInOrder` carries the order of the graph: whatever
a waiting target depends on is done or waits before it. `TargetsAreDone` and `PassesInOrder` relate
the history `ran` to the two passes over the sorted list, so that when a tool runs, all
that the sort put before it has run, apart from the product structure, which had
a pass of its own. The properties about the past (`RanInOrder`) are kept because
`ran` only grows, and `FailureIsLast` gives the action property.

**Ninja's files.** `SettledFiles` is the promise of the hash: while it exists and no
generation was left half done, all files are of its parameters and of one version.
It is not inductive without `GenerationInOrder`, which says what a generation in
progress has written, and `HashOfThisRun`, which says what the run has found out before it
launches Ninja. That a chain of generations, each for what it makes of the arguments of the one before, stays
among the kin of the parameters the user gave is `KinAreClosed`, and that kin are alone where no arguments are shared is
`NoOtherKin`. For edits, `EditsAreSeen` compares times of modification: a project not later than
`build.ninja` is in it.

**Ninja's rules.** When a rule has started, everything it needs that a rule makes has been made
(`NeedsAreMade`). `OrderIsKept` derives from this the whole order, by walking the rules
backwards: `RuleKinds` and `OutputsOfRules` say which rule can make a file (for
`FinishPhase(t, p)` only that phase's, since names are unique), so that a tool of a phase has
behind it the begin of the phase, the finish of the phase before, and all its
tools, and so on down to the finish of every dependency. That the chain of phases reaches every
earlier one is an induction over the priorities, done as a least counterexample.

Ninja refuses files only when two rules make one file, when a file is neither there nor made, or when
rules wait for each other (`RulesAreTaken`). `SoundBuildsAreTaken` proves each impossible for a sound build:
`NothingIsMadeTwice` from the names; `NothingIsMissing` for a rule's needs, one by one, by
the kind of the rule. What Ninja calls a cycle is what is left when every rule whose needs are met has been taken out, round after round
(`HasRuleCycle`); when something is left, it is a set of rules of which each needs what another of them makes (`EverythingIsBuilt`).
`NoRuleWaitsForItself` finds none in a sound build: of the targets with such rules take one that depends on no other of them
(`OneTargetIsFirst`), so its rules wait for rules of the same target (`CirclesWait`); these cannot be the
begin, the auxiliary files or the first phase concerned, so the tools of that phase wait for each other, and the
sort graph of the target would have a cycle, which `InvocationsCanBeSorted` excludes.
The rounds are a recursive function, whose existence `RoundsExist` proves by hand, as the library's
theorem is out of the provers' reach.

**Nested projects.** `AllAreSeen` says of each loaded project that it waits to be visited, or
that all it refers to is *awaited*: loaded, being read, or named by a reference that is still
on the list. Each step passes an awaited project on to the next stage (`AwaitedStays`), and when the load
ends there are no lists left for it to be on (`Stages`). That the project is found by its path, although only the
first of each path is (`ProjectMap`), is `LoadedIsMapped`.

**Archives.** `ArchivesAreWhole` speaks of every state of `actool`, whatever the catalogs
hold, however many images and names there are and in whatever order the writer finds them in its
hash tables. `BlocksAreWhole` says of a store that every byte belongs to whom the addresses
give it; the argument has three layers.

* *Bytes.* A file is tiled by runs (`Tiled`), and each run lies inside what owns it
  (`RunsLieInside`). From these alone it follows that the owner's bytes are all its own and that
  there is no gap (`WholeStoresHaveWholeBlocks`). Making room moves runs (`MakingRoom`),
  writing cuts them (`WritingOver`), and both keep a tiling.
* *Operations.* `Whole` adds the layout: the header, the table, the variables, then the blocks,
  apart from each other, in whatever order. Each operation of the store keeps it (`ReservingIsSafe`,
  `AddingVariablesIsSafe`, `AppendingIsSafe`, `AddingIsSafe`, `TreeIsAddedTo`, `FreeingIsSafe`).
  Entries are added under a condition, `Ready(b, room)`: the table has room for as many more. Where it has none,
  `GrowTable` makes room for one entry, however many it adds to the length of the table; the two free
  ones of `bom_free_indices_add` would then lie over the variables. So the theorem depends
  on the reservation, as the code does.
* *The writer.* `Progress` counts the room down from step to step. `WriteReserve` asks for
  eight entries and two for each facet and each rendition; the header, the format of keys and the two trees
  take six of them, each key with its value two, and the two free ones remain. `TreeReserve` makes room for as many paths as
  will come (`HasTree`), so that the test in `bom_tree_add` for room, which forgets the
  header of the paths (the hazard at `bom_tree.c:210`), is never the one that counts.
  All this needs that the facets and renditions are those that were counted (`ArchiveIsSound`), that
  a compilation leaves facets and renditions of finite size behind (`IsWriter`, `IsCompilation`), and that the
  place where the search for a key ends, wrong as it may be (section 5), is a place in the
  block (`SearchFindsPlaces`).

`Search` and the loop over an image set are recursive functions; that they are defined
is proved by hand (`SearchesExist`, `CompilationsExist`), and what they keep by
a least counterexample.

**Only model-checked**, and why:

* liveness (`SortTerminates`, `AcyclicBuildIsOrdered`, …) and ENABLED,
  which are beyond the prover;
* what depends on data built by recursion or a fold, for which the prover has no induction:
  `CirclesAreRead` and the files of a workspace in `NamesAreFollowed` (`WorkspaceContext`),
  the look-up of `BuildRules`, the chains of `Specifications`;
* modules that declare a RECURSIVE operator or reach one: `HeaderMaps`, `SettingSyntax`,
  `Settings`, `TargetEnvironment`, `DeveloperTools`, `ToolInvocations`, `BuildPhases`;
* what is read back from an archive (`NamesLeadToTheirImages`, a walk over a tree that is a fold), and the built-in tools, whose
  properties compare a disk with what a whole walk should have left.

## 5. Where code and documentation disagree

1. `NinjaCached` (a run): "safe to use the cached Ninja" (NinjaExecutor.cpp:353) is
   decided by a hash that is written last and not removed first; a generation
   that dies in between leaves the old hash beside new or truncated files.

More such sentences are stated as operators beside the properties, each named in a
comment with the words it takes from the code. They are false of the model; to see the
counterexample, give the name as an INVARIANT to the run's configuration.

| operator | run | what the code says, and does |
|---|---|---|
| `CyclesAreDetected` | `DependencyResolver` (`Projects <- FewProjects`, `SPECIFICATION Spec`) | "cycle detected in target dependencies" (SimpleExecutor.cpp:73): `AddDependencies` recurses without end before the graph is asked |
| `TargetLevelBeforeTrailingScripts` | `PhaseInvocations` | later invocations "will be bumped up" (PhaseInvocations.cpp:176): the loop at line 189 increments copies |
| `RegeneratesOnlyForChanges` | `NinjaExecutor` | "avoid re-generating" (src/README.md:122): the hash is an input of `build.ninja` and written after it |
| `CachedNinjaMatchesConfiguration` | `NinjaExecutor` | generated again "to ensure it matches the configuration" (NinjaExecutor.cpp:335): the hash is one of arguments that do not tell all parameters apart |
| `PhonyInputsAreNotMade` | `NinjaGraph` (`Builds <- ScriptBuilds`) | "avoid adding the phony invocation if a real output *does* include" it (NinjaExecutor.cpp:652): looks at one target only |
| `TargetsCanFinish` | `NinjaGraph` (`Builds <- EmptyBuilds`) | a target's finish "depends on all of the invocations" (NinjaExecutor.cpp:577): without any it depends on a phase 0 that has no rule |
| `TargetsBuildInTheRightOrder` | `NinjaGraph` | "The end result is that targets build in the right order" (NinjaExecutor.cpp:577): not past a dependency of the same name as another target; when one of the two is left out, the other's rules stand for both |
| `LoadedFilesAreListed` | `Workspace` | "All loaded files in the workspace" (WorkspaceContext.h:114): not the included configuration files |
| `ResetRemovesLink` | `TargetEnvironment` | "Remove any existing link" (xcsdk/Sources/Environment.cpp:100): not one that leads nowhere |
| `LinksAreCopied` | `Assets` | "a symbolic link to a target, relative to the containing directory" (libutil/Headers/libutil/Filesystem.h:128): `copySymbolicLink` passes the copy's path and the link's text in swapped order, so a link to the missing copy is made where the text leads, from the process's directory |
| `DirectoriesAreOverwritten` | `Assets` | "Remove any existing directory to overwrite" (libutil/Sources/Filesystem.cpp:68): a directory in it is removed before its contents, which fails |
| `CopiesKeepTheirNames` | `Assets` | "The output path is the same as the input, but in the output directory" (pbxbuild/Sources/Tool/CopyResolver.cpp:51): with `-resolve-src-symlinks`, the name is that of what the link leads to |
| `PermissionsAreAdded` (a PROPERTY) | `Assets` | "Add permissions to existing permissions" (libutil/Headers/libutil/Permissions.h:53): those of group and others become the user's |
| `FailureIsReported` | `Assets` | an exit code of 0 when the output directory cannot be made: `return false` (builtin/Sources/copy/Driver.cpp) |
| `TreeKeysSorted` | `Assets` | "BOM trees store their keys sorted" (bom_tree.c:231): a greatest key goes before the last |

What the models have besides, as the code has it:

* **Specifications.** `PlatformDependentDomains` names the domain "default" again, which
  `registerDomains` skips. Specifications based on each other recurse without end.
  "Search all domains" (Manager.cpp) looks in the domain that is named like the base,
  for something that is on the list of visited ones and is not.
  A product type inherits `_wantsSimpleTargetEditingWithoutCapabilities` from another
  field. `DashIFlagAcceptsHeadermaps` and `IsTextFile` are read and not kept.
* **Projects and schemes.** A project without a configuration list, a scheme without
  a build action and a reference without a file are null pointers; an unknown
  default configuration is an assertion. The context takes the last group that has a scheme
  of the name, `WorkspaceContext::scheme` the first. Arguments "YES" and "NO" of a scheme are
  lost, as the XML reader makes Booleans of them. Projects, includes and groups in
  circles do not end. A nested project that two others name is loaded twice.
* **Settings.** `$(A:upper)` in `A` does not end, and `$(inherited:upper)` asks for a
  setting "inherited". A key is read up to a bracket even if that is in
  the value. A circle of settings that no tool uses still breaks every script phase,
  which exports all settings. `CACHE_ROOT` is created as a literal, so its reference is
  not expanded. Sorting loses the order of `ARCHS`.
* **Parameters.** `canonicalArguments` (Parameters.cpp:84) writes the settings of all levels one after the
  other as `name=value`, without the conditions `[sdk=…]` and `[arch=…]`. Parameters that differ only there have one hash, and the
  cached Ninja is used for both; a generation that Ninja asks for is without the conditions. It
  writes `-allTargets` where the options know `-alltargets` (Options.cpp:46), so that no build of all
  targets can be generated again. A generation reads `XCODE_XCCONFIG_FILE` once more (Action.cpp), on top of
  settings that came from it.
* **Developer directories.** A link that leads nowhere can be neither reset nor replaced,
  and hides the known directories. `WriteDeveloperRoot` computes the resolved path and
  writes another. A write that fails after the removal loses the choice before. `xcrun`
  reports an error for empty `TOOLCHAINS`.
* **Resolvers.** `DerivedFilesDir` is a literal without `$( )`. The outputs of rule
  scripts, lex and yacc in a Sources phase are neither compiled nor linked. A header or
  a type without a rule among the sources ends the phase and not the build. The middle one of three
  device families is lost. `.strings` beside a nib are arguments, not inputs, of its
  compilation. The property list that is preprocessed is not used. Proxied
  references that cannot be resolved are dropped. Installed Swift headers, module copies and debug
  symbols have one path for several slices. File names are told apart by the name that the
  project gives them, not by that of the file. The prefix that the touch compares has no
  slash, so `App.app.dSYM` is in `App.app`. A second Sources phase copies all Swift modules
  again, and earlier sources wait for them: if the first phase has C and no Swift is before it, the two phases wait for each
  other and the target cannot be built, as when a phase copies the product before it is linked. Copying the Swift libraries has the
  priority of the touch and no order to it. Header maps grow with the old number of
  buckets and are put right when they are written.
* **Archives and catalogs.** The room for one more path in a tree is compared without the header
  (harmless: the writer reserves); the count wraps at 65536. The previous archive is
  overwritten before the catalogs are loaded; whether the new one could be written is not
  asked (the model has no failure there). Renditions do not set their layout, so it is indeterminate for formats
  that do not set it later; a negative length is converted to an unsigned one.
  Two images of one key are two entries of one key. A texture set without contents, and an image set for
  a target before 7.0 in folder form, are null pointers. Icons of devices with no suffix
  share a key of the Info.plist. The image that `UILaunchImageName` gives earlier systems need not be
  there. Outputs are listed also if they could not be written, but then the tool fails.
* **Files and built-in tools.** A link to a directory does not count as one, so that
  an output directory behind a link cannot be made and the copy ends with 0 and nothing copied. Files are
  closed without asking whether that succeeded. Copying onto a link writes to the file
  it leads to. A walk goes on after a failure, so a directory whose copy fails is there in part, as is
  one whose copy was interrupted; the next call removes it first, if it has no directories in it.
  `-exclude` is read and not used. Errors in the options of `copyStrings` are exit code 255. Codes of a
  PkgInfo that do not have four letters become `????`. Keys of additional
  content are not expanded.

## 6. Not modelled

* The wording of arguments: option evaluation is in `ToolInvocations` as far as a
  file, a search path or a precompiled header depends on it; other options are left
  out, as are escaping and log messages. The operations on settings are a constant.
* Lexers and printers: property lists, XML, JSON, Ninja syntax, the command lines of
  the front ends other than `actool`'s, `xcrun`'s and `xcode-select`'s.
  What they would pass on is in `ProjectObjects`, `Specifications`, `Schemes` and
  `AssetCatalog`.
* `process`: calls of the operating system. The models of its callers have a failure at
  every call. One hazard lies below that: a tool that a signal kills counts as one that
  ended with 0 (it is listed). Of `libutil`, paths as strings, wildcards, the in-memory double for
  tests, and the build for Apple's systems, which copies with `copyfile`.
* Pixels: conversion, compression and image files. A rendition has the size and the
  source of its pixels.
* The PDB driver, the dependency formats, formatters, cross references,
  vendored code: conversions, front ends, and a separate command around a database.
* Reading a header map back and listing a BOM, which only tools for inspection do; kinds of
  assets that `actool` loads and does not compile are loaded only. The names of an icon
  set's files are not looked into.
* Ninja itself, but for how the executor relies on it: reading, refusing,
  scheduling, the rule for `build.ninja`, the exit code.
* In modelled components: variants, debug symbols, module maps, precompiled headers of their own, the linking of storyboards, rule scripts and framework links
  are in `BuildPhases` and not in `PhaseInvocations`, where `OnlyTheProjectMakesCycles` and its proof say nothing of them, nor of the additional contents of an Info.plist and of its preprocessing; the contents of auxiliary files; Ninja's
  incremental builds (which rules are up to date) in `NinjaGraph`; the
  collision of the names of output-less tools (a TODO at NinjaExecutor.cpp:186).
* The hash of arguments is taken for the arguments: that two lists of arguments have the
  same hash is left out. What the arguments keep of parameters is left open, not modelled setting by setting.

## 7. The plan

What is done, in the order it was planned: the graph with its refinement and the proofs of its
safety; dependency resolution on top of the sort's promise; invocations and the simple
executor; the Ninja executor with files and crashes, rules and parallel tools;
specifications; workspaces; settings and the developer directory; archives and
catalogs; header maps and all resolvers; files and the built-in tools.

Composition: `TopologicalSort` stands for `DirectedGraph` wherever a graph is
asked for an order; `InvocationOrder` is shared by the makers of
invocations and both executors; `BuildPhases` is composed of the header maps,
the files and the tools; `CatalogCompiler` of the catalog, the archive and the
store; `ProductFiles` of that and the built-in tools;
`TargetEnvironment` of settings and the developer directory.

Proved since: the resolver's graph, the order and the outcome of the simple executor,
the generation of Ninja files and the order of their rules, the priorities of the
phases, the loading of nested projects, that Ninja takes sound builds, and that archives are whole. Worth proving next, where no recursive
operator is in the way: that `InheritsOnce` holds of `Specifications` (its chains
need a bound on how often a file is read, or an induction over the length of the
chain); that a tree holds the keys that were put into it, on top of the lemmas
about `BomStore`; and `OnlyOutputsChange` of the built-in tools, for disks on which no
output is reached over a link (`MayChange` compares the paths as they are given). `EndlessOnlyForCycle`
depends on bounds that are large enough, so no theorem can have it for all of them.

To model next: `DefaultLauncher`'s fork, pipe and wait, as soon as a property of a build
depends on more of them than success or failure; links in `BuiltinTools` that lead to other links.
