------------------------------- MODULE BuildPhases -------------------------------
(***************************************************************************)
(* pbxbuild::Phase: the build phases of a target are resolved one after     *)
(* another, then what finishes its product, and all of them add to one      *)
(* Tool::Context.  This is PhaseInvocations with its resolvers: which tools *)
(* run on which files, what they make and what they wait for.               *)
(*                                                                         *)
(* A resolver that fails reports an error and leaves what it has added; the *)
(* target is built all the same.                                            *)
(***************************************************************************)
EXTENDS ToolInvocations

(***************************************************************************)
(* pbxbuild::Phase::File and Phase::Context: the files of a build phase     *)
(* become the inputs of tools.  Each has a type and, by it, a build rule;   *)
(* files are put into groups, and each group is resolved by the tool of its *)
(* first file.                                                              *)
(*                                                                         *)
(* What a project says of a build file is a record: its kind is that of the *)
(* item it refers to, and a variant group has children.  Types and rules    *)
(* are what FileTypeResolver and BuildRules say (module BuildRules).  The   *)
(* hash tables of groups are taken in the order in which they are filled.   *)
(***************************************************************************)

-----------------------------------------------------------------------------
(* Target::Environment's BuildFileDisambiguation: sources with one name,    *)
(* but for case, are told apart by the identifiers of their build files.    *)

SourceFiles(target) ==
  SelectSeq(FoldLeft(LAMBDA all, ph : IF ph.type = "Sources" THEN all \o ph.files ELSE all, << >>, target.phases),
            LAMBDA file : file.kind # "none")

Disambiguator(target, file) ==
  IF /\ file \in ToSet(SourceFiles(target))
     /\ \E other \in ToSet(SourceFiles(target)) : other.id # file.id /\ LowerCaseOf[other.name] = LowerCaseOf[file.name]
  THEN file.name \o "-" \o file.id ELSE ""

-----------------------------------------------------------------------------
(* Phase::File::ResolveBuildFiles *)

BuildRule(target, type) == IF type \in DOMAIN target.rules THEN <<target.rules[type]>> ELSE << >>

InputOf(target, file, item) ==
  [path |-> item.path, type |-> item.type, rule |-> BuildRule(target, item.type), disambiguator |-> Disambiguator(target, file),
   localization |-> "", group |-> "", attributes |-> file.attributes, flags |-> file.flags]

\* A product of another target has no source of this one to be mistaken for.
ProxiedInput(target, file) == [InputOf(target, file, file) EXCEPT !.disambiguator = ""]

LocalizedInputs(target, file) ==
  LET children == SelectSeq(file.children, LAMBDA c : c.kind = "file")
  IN  [n \in DOMAIN children |-> [InputOf(target, file, children[n]) EXCEPT !.localization = children[n].name, !.group = file.id]]

\* What refers to nothing, to a plain group or to a product that is not found is left out.
InputsOf(target, file) ==
  CASE file.kind \in {"file", "version"}             -> <<InputOf(target, file, file)>>
    [] file.kind = "variants"                        -> LocalizedInputs(target, file)
    [] file.kind = "proxy" /\ file.remote = "found"  -> <<ProxiedInput(target, file)>>
    [] OTHER                                         -> << >>

ResolveBuildFiles(target, files) == FoldLeft(LAMBDA all, file : all \o InputsOf(target, file), << >>, files)

-----------------------------------------------------------------------------
(* Phase::Context::Group *)

GroupingOf(input) ==
  LET tool == IF input.rule = << >> THEN "" ELSE input.rule[1].tool
  IN  IF tool = "" THEN ""
      ELSE IF Tools[tool].type # "Compiler" \/ Len(Tools[tool].groupings) # 1 THEN "" ELSE Head(Tools[tool].groupings)

GroupedBy(inputs, KeyOf(_)) ==
  LET keys == Distinct([n \in DOMAIN inputs |-> KeyOf(inputs[n])])
  IN  [k \in DOMAIN keys |-> SelectSeq(inputs, LAMBDA i : KeyOf(i) = keys[k])]

IsBaseRegion(input) == GroupingOf(input) = "ib-base-region-and-strings" /\ input.localization = "Base"

\* Its translations go with the file of the base region.
TranslationOf(input, base) == IsStrings(input) /\ input.group = base.group
WithTranslations(done, base) ==
  [groups    |-> Append(done.groups, <<base>> \o SelectSeq(done.ungrouped, LAMBDA i : TranslationOf(i, base))),
   ungrouped |-> SelectSeq(done.ungrouped, LAMBDA i : ~TranslationOf(i, base))]

Group(inputs) ==
  LET byTool == SelectSeq(inputs, LAMBDA i : GroupingOf(i) \in {"tool", "actool"})
      byBase == SelectSeq(inputs, LAMBDA i : GroupingOf(i) = "common-file-base")
      base   == SelectSeq(inputs, IsBaseRegion)
      others == SelectSeq(inputs, LAMBDA i : GroupingOf(i) \notin {"tool", "actool", "common-file-base"} /\ ~IsBaseRegion(i))
      based  == FoldLeft(WithTranslations, [groups |-> << >>, ungrouped |-> others], base)
  IN  GroupedBy(byTool, LAMBDA i : i.rule[1].tool)
      \o GroupedBy(byBase, LAMBDA i : <<i.rule[1].tool, i.path.base>>)
      \o based.groups \o [n \in DOMAIN based.ungrouped |-> <<based.ungrouped[n]>>]

-----------------------------------------------------------------------------
(* Phase::Context::resolveBuildFiles.  The target's specifications name the *)
(* tools there are; a resolver without its tool fails.                      *)

Compiler(env) == Text(env, "GCC_VERSION")

\* A tool may refuse types that its rule has; the fallback gets those.
Accepts(tool, type) ==
  tool.inputFileTypes = << >> \/ (type # "" /\ (tool.inputFileTypes[1] = {} \/ type \in tool.inputFileTypes[1]))
ToolFor(input, fallback) ==
  LET tool == IF input.rule = << >> THEN "" ELSE input.rule[1].tool
  IN  IF tool # "" THEN (IF Accepts(Tools[tool], input.type) THEN tool ELSE fallback) ELSE fallback

\* The tool that has to be found: for C, the one that GCC_VERSION names.
Needed(env, id) == IF id = "gcc" THEN Compiler(env) ELSE id

ResolveWith(ctx, env, id, inputs, directory) ==
  CASE id = "actool"                  -> ResolveAssetCatalog(ctx, env, inputs)
    [] id = "gcc"                     -> ResolveSource(ctx, env, Compiler(env), Head(inputs), directory)
    [] id = "copy"                    -> ResolveCopy(ctx, env, inputs, directory)
    [] id \in {"ibtool", "ibtoolStoryboard"} -> ResolveInterfaceBuilder(ctx, env, id, inputs)
    [] id = "swift"                   -> ResolveSwift(ctx, env, inputs, directory)
    [] OTHER                          -> ResolveTool(ctx, env, id, inputs, << >>)

Went(ctx) == [ctx |-> ctx, failed |-> FALSE]
Failed(ctx) == [ctx |-> ctx, failed |-> TRUE]

ResolveGroup(ctx, target, env, inputs, directory, fallback) ==
  LET first  == Head(inputs)
      script == first.rule # << >> /\ first.rule[1].script
      tool   == ToolFor(first, fallback)
  IN  CASE first.rule = << >> /\ fallback = ""             -> Went(ctx)
        [] script /\ "script" \in target.tools             -> Went(ResolveRuleScript(ctx, env, first))
        [] ~script /\ tool # "" /\ Needed(env, tool) \in target.tools ->
             Went(ResolveWith(ctx, env, tool, inputs, LocalizedDirectory(directory, first.localization)))
        [] OTHER                                           -> Failed(ctx)

\* The first that fails is the last.
ResolveGroups(ctx, target, env, groups, directory, fallback) ==
  FoldLeft(LAMBDA done, inputs : IF done.failed THEN done
                                 ELSE ResolveGroup(done.ctx, target, env, inputs, directory, fallback),
           Went(ctx), groups)

-----------------------------------------------------------------------------

CONSTANTS
  TargetDescriptions,   \* a target, its settings, its product type and its project
  Build                 \* the directory of all that is built

VARIABLES
  target,
  pc,               \* "create", "phases", "target" or "created"
  phases,           \* the phases that are still to be resolved
  context,          \* Tool::Context
  insertionPoint,   \* targetLevelPhaseInsertionPoint
  unresolved        \* the types of the phases that reported an error

vars == <<target, pc, phases, context, insertionPoint, unresolved>>

Base == 1
Environment == target.environment
Has(tool) == tool \in target.tools

-----------------------------------------------------------------------------
(* Phase::Environment *)

VariantLevel(variant) ==
  [CURRENT_VARIANT |-> variant, variant |-> variant,
   EXECUTABLE_VARIANT_SUFFIX |-> IF variant = "normal" THEN "" ELSE "_" \o variant]
ArchitectureLevel(arch) == [CURRENT_ARCH |-> arch, arch |-> arch]

ForVariant(variant) == InsertFront(Environment, VariantLevel(variant))
ForSlice(slice) == InsertFront(ForVariant(slice[1]), ArchitectureLevel(slice[2]))

Slices ==
  FoldLeft(LAMBDA all, variant : all \o [n \in DOMAIN target.architectures |-> <<variant, target.architectures[n]>>],
           << >>, target.variants)

-----------------------------------------------------------------------------

Init ==
  /\ target \in TargetDescriptions
  /\ pc = "create"
  /\ phases = << >>
  /\ context = EmptyContext(target.workingDirectory, [header |-> << >>, user |-> << >>, framework |-> << >>], Base)
  /\ insertionPoint = Base
  /\ unresolved = {}

Wanted(phase) == phase.deploymentOnly => Flag(Environment, "DEPLOYMENT_POSTPROCESSING")
OfType(s, type) == SelectInSeq(s, LAMBDA ph : ph.type = type)
Synthesize(s) ==
  IF OfType(s, "Sources") # 0 /\ OfType(s, "Frameworks") = 0
  THEN InsertAt(s, OfType(s, "Sources") + 1, [type |-> "Frameworks", deploymentOnly |-> FALSE, files |-> << >>])
  ELSE s

CreateContext ==
  /\ pc = "create"
  /\ phases' = Synthesize(SelectSeq(target.phases, Wanted))
  /\ context' = [context EXCEPT !.searchPaths = SearchPaths(Environment, target.directories, target.workingDirectory)]
  /\ pc' = "phases"
  /\ UNCHANGED <<target, insertionPoint, unresolved>>

Phase(type) == pc = "phases" /\ phases # << >> /\ Head(phases).type = type

\* A phase that makes something of the product moves the insertion point.
EndPhase(done, makes) ==
  /\ context' = [done.ctx EXCEPT !.priority = @ + 1]
  /\ insertionPoint' = IF makes /\ context'.priority > insertionPoint THEN context'.priority ELSE insertionPoint
  /\ unresolved' = IF done.failed THEN unresolved \cup {Head(phases).type} ELSE unresolved
  /\ phases' = Tail(phases)
  /\ UNCHANGED <<target, pc>>

-----------------------------------------------------------------------------
(* SourcesResolver *)

ProcessModuleMap(ctx, entry) ==
  ResolveCopy(AddAuxiliaryFiles(ctx, <<entry.intermediate>>), Environment, <<Input(entry.intermediate)>>, entry.final)

\* Phase::ModuleMapResolver; sources are resolved without a map if it fails.
DefineModule(ctx) ==
  IF Flag(Environment, "DEFINES_MODULE") THEN FoldLeft(ProcessModuleMap, ctx, ctx.moduleMap \o ctx.privateModuleMap) ELSE ctx
ResolveModuleMaps(ctx) == IF Has("copy") THEN DefineModule(ResolveModuleMap(ctx, Environment, target)) ELSE ctx

\* A file without a tool counts as one that is the same for all architectures.
ForArchitectures(input) == input.rule # << >> /\ input.rule[1].tool # "" /\ ~Tools[input.rule[1].tool].neutral

CompileSlice(done, groups, slice) ==
  IF done.failed THEN done
  ELSE ResolveGroups(done.ctx, target, ForSlice(slice), groups, ObjectsDir(ForSlice(slice)), "")

CompileAll(ctx, inputs) ==
  LET groups  == Group(SelectSeq(inputs, ForArchitectures))
      neutral == Group(SelectSeq(inputs, LAMBDA i : ~ForArchitectures(i)))
  IN  FoldLeft(LAMBDA done, slice : CompileSlice(done, groups, slice),
               ResolveGroups(ctx, target, Environment, neutral, Folder(Environment, "OBJECT_FILE_DIR"), ""), Slices)

\* Where others import a module from: a framework, or the products; each architecture has a file.
SwiftModuleDirectory(module) ==
  Append(IF target.framework
         THEN Folder(Environment, "TARGET_BUILD_DIR") \o Folder(Environment, "CONTENTS_FOLDER_PATH") \o <<"Modules">>
         ELSE Folder(Environment, "BUILT_PRODUCTS_DIR"), module.name \o ".swiftmodule")

CopiesOf(module) ==
  LET copy(path) == Path(SwiftModuleDirectory(module), IF module.architecture = "armv7" THEN "arm" ELSE module.architecture, path.ext)
  IN  <<<<module.module, copy(module.module)>>, <<module.doc, copy(module.doc)>>>>
      \o (IF module.installHeader THEN <<<<module.header, InDirectory(Folder(Environment, "DERIVED_FILE_DIR"), module.header)>>>> ELSE << >>)

CopySwiftModule(ctx, n) ==
  LET copies == CopiesOf(ctx.swiftModules[n])
  IN  FoldLeft(LAMBDA done, c : ResolveDitto(done, c[1], c[2]),
               [ctx EXCEPT !.swiftModules[n].copied = {copies[k][2] : k \in DOMAIN copies}], copies)

CopySwiftModules(done) ==
  CASE done.failed  -> done
    [] ~Has("ditto") -> Failed(done.ctx)
    [] OTHER        -> Went(FoldLeft(CopySwiftModule, done.ctx, [n \in DOMAIN done.ctx.swiftModules |-> n]))

\* What is compiled may include the header of any of the modules.
WaitFor(invocation, artifacts) ==
  IF invocation.waitForSwiftArtifacts THEN [invocation EXCEPT !.inputDependencies = @ \cup artifacts] ELSE invocation
WaitForSwift(done) ==
  IF done.failed THEN done
  ELSE LET artifacts == UNION {module.copied : module \in ToSet(done.ctx.swiftModules)}
       IN  Went([done.ctx EXCEPT !.invocations = [n \in DOMAIN @ |-> WaitFor(@[n], artifacts)]])

CompileBeforeSwift(ctx, inputs) == CopySwiftModules(WaitForSwift(CompileAll(ctx, inputs)))
CompileWithSwift(ctx, inputs) == WaitForSwift(CopySwiftModules(CompileAll(ctx, inputs)))

Sources(ctx, phase) ==
  IF Has(Compiler(Environment)) /\ Has("headermap")
  THEN CompileWithSwift(
         ResolveModuleMaps(ResolveHeadermaps(ctx, Environment, Compiler(Environment), target, target.project, target.disk)),
         ResolveBuildFiles(target, phase.files))
  ELSE Failed(ctx)

ResolveSources == Phase("Sources") /\ EndPhase(Sources(context, Head(phases)), TRUE)

-----------------------------------------------------------------------------
(* FrameworksResolver *)

Archive == Text(Environment, "MACH_O_TYPE") = "staticlib"
Linker == IF Archive THEN "libtool" ELSE "ld"
Universal == Len(target.architectures) > 1

WithSuffix(env, path) == [path EXCEPT !.base = @ \o Text(env, "EXECUTABLE_VARIANT_SUFFIX")]
InProducts(path) == InDirectory(Folder(Environment, "BUILT_PRODUCTS_DIR") \o path.dir, path)
Product(env) == InProducts(WithSuffix(env, env["EXECUTABLE_PATH"]))
\* A slice is linked by itself when there are more.
SliceOf(env) == WithSuffix(env, Path(ObjectsDir(env), Text(env, "EXECUTABLE_NAME"), ""))

ObjectsFor(ctx, slice) ==
  FoldLeft(LAMBDA all, c : IF c[1] = slice THEN all \o SetToSeq({o \in c[2] : o.ext = "o"}) ELSE all, << >>, ctx.compiled)

LinkSlice(ctx, slice, libraries) ==
  ResolveLink(ctx, ForSlice(slice), Linker, ObjectsFor(ctx, slice), libraries,
              IF Universal THEN SliceOf(ForSlice(slice)) ELSE Product(ForVariant(slice[1])),
              IF Archive THEN << >> ELSE ctx.linkerArguments, IF Archive THEN "" ELSE ctx.linkerDriver)

Join(ctx, variant) ==
  IF ~Universal THEN ctx
  ELSE ResolveLink(ctx, ForVariant(variant), "lipo",
                   [n \in DOMAIN target.architectures |-> SliceOf(ForSlice(<<variant, target.architectures[n]>>))],
                   << >>, Product(ForVariant(variant)), << >>, "")

DebugSymbols(env) == InDirectory(Folder(env, "DWARF_DSYM_FOLDER_PATH"), env["DWARF_DSYM_FILE_NAME"])
CollectSymbols(ctx, env) ==
  IF Text(env, "DEBUG_INFORMATION_FORMAT") = "dwarf-with-dsym" /\ Text(env, "MACH_O_TYPE") \notin {"staticlib", "mh_object"}
  THEN ResolveTool(ctx, env, "dsymutil", <<Input(Product(env))>>, <<DebugSymbols(env)>>) ELSE ctx

LinkVariant(ctx, variant, libraries) ==
  CollectSymbols(Join(FoldLeft(LAMBDA linked, arch : LinkSlice(linked, <<variant, arch>>, libraries),
                               ctx, target.architectures), variant), ForVariant(variant))

Frameworks(ctx, phase) ==
  IF \A tool \in {"ld", "libtool", "lipo", "dsymutil"} : Has(tool)
  THEN LET libraries == ResolveBuildFiles(target, phase.files)
       IN  Went(FoldLeft(LAMBDA linked, variant : LinkVariant(linked, variant, libraries), ctx, target.variants))
  ELSE Failed(ctx)

ResolveFrameworks == Phase("Frameworks") /\ EndPhase(Frameworks(context, Head(phases)), TRUE)

-----------------------------------------------------------------------------
(* HeadersResolver, ResourcesResolver, CopyFilesResolver, ShellScriptResolver *)

CopyEach(ctx, inputs, DirectoryOf(_)) ==
  FoldLeft(LAMBDA copied, input : ResolveCopy(copied, Environment, <<input>>, DirectoryOf(input)), ctx, inputs)

HeaderDirectory(input) ==
  Folder(Environment, "TARGET_BUILD_DIR")
  \o Folder(Environment, IF "Public" \in input.attributes THEN "PUBLIC_HEADERS_FOLDER_PATH" ELSE "PRIVATE_HEADERS_FOLDER_PATH")

Headers(ctx, phase) ==
  IF Has("copy") THEN Went(CopyEach(ctx, SelectSeq(ResolveBuildFiles(target, phase.files), Exported), HeaderDirectory)) ELSE Failed(ctx)

ResolveHeaders == Phase("Headers") /\ EndPhase(Headers(context, Head(phases)), TRUE)

\* All the storyboards that were compiled, whatever phase they are of.
Storyboards(ctx) ==
  FoldLeft(LAMBDA all, i : all \o SetToSeq({o \in i.outputs : o.ext = "storyboardc"}), << >>, ctx.invocations)
LinkStoryboards(done) ==
  CASE done.failed                    -> done
    [] ~Has("ibtoolStoryboardLinker") -> Failed(done.ctx)
    [] Storyboards(done.ctx) = << >>  -> done
    [] OTHER                          -> Went(ResolveStoryboardLinker(done.ctx, Environment, Storyboards(done.ctx)))

Resources(ctx, phase) ==
  LinkStoryboards(
    ResolveGroups(ctx, target, Environment, Group(ResolveBuildFiles(target, phase.files)),
                  Folder(Environment, "BUILT_PRODUCTS_DIR") \o Folder(Environment, "UNLOCALIZED_RESOURCES_FOLDER_PATH"), "copy"))

ResolveResources == Phase("Resources") /\ EndPhase(Resources(context, Head(phases)), TRUE)

\* A destination is the setting that names its folder.
CopyDirectory(phase) ==
  (CASE phase.destination = "Absolute" -> << >>
     [] phase.destination = "Products" -> Folder(Environment, "BUILT_PRODUCTS_DIR")
     [] OTHER -> Folder(Environment, "BUILT_PRODUCTS_DIR") \o Folder(Environment, phase.destination)) \o phase.path

CopyFiles(ctx, phase) ==
  LET inputs == ResolveBuildFiles(target, phase.files)
  IN  CASE ~Has("copy") -> Failed(ctx)
        [] Flag(Environment, "APPLY_RULES_IN_COPY_FILES") ->
             ResolveGroups(ctx, target, Environment, Group(inputs), CopyDirectory(phase), "copy")
        [] OTHER -> Went(CopyEach(ctx, inputs, LAMBDA input : CopyDirectory(phase)))

ResolveCopyFiles == Phase("CopyFiles") /\ EndPhase(CopyFiles(context, Head(phases)), TRUE)

ShellScript(ctx, phase) == IF Has("script") THEN Went(ResolveShellScript(ctx, Environment, phase)) ELSE Failed(ctx)
RunShellScript == Phase("ShellScript") /\ EndPhase(ShellScript(context, Head(phases)), FALSE)

\* These are not done yet.
SkipPhase == (Phase("AppleScript") \/ Phase("Rez")) /\ EndPhase(Went(context), FALSE)

\* The invocations that follow are bumped, but each as a copy that is dropped.
EndPhases ==
  /\ pc = "phases" /\ phases = << >>
  /\ pc' = "target"
  /\ UNCHANGED <<target, phases, context, insertionPoint, unresolved>>

-----------------------------------------------------------------------------
(* ProductTypeResolver *)

Built(dir) == Folder(Environment, "TARGET_BUILD_DIR") \o dir
Wrapper == Built(<<Text(Environment, "WRAPPER_NAME")>>)
MadeIn(ctx) == UNION {i.outputs : i \in ToSet(ctx.invocations)}
Populated(ctx, dir) == \E output \in MadeIn(ctx) : IsPrefix(dir, output.dir)

Subdirectories ==
  <<"CONTENTS_FOLDER_PATH", "EXECUTABLE_FOLDER_PATH", "PUBLIC_HEADERS_FOLDER_PATH", "PRIVATE_HEADERS_FOLDER_PATH",
    "UNLOCALIZED_RESOURCES_FOLDER_PATH", "PLUGINS_FOLDER_PATH">>

\* A directory for what there is to put in; the wrapper's own is left to what fills it.
ResolveBundleStructure(ctx) ==
  LET named == SelectSeq([n \in DOMAIN Subdirectories |-> Folder(Environment, Subdirectories[n])], LAMBDA d : d # << >>)
      dirs  == SelectSeq(Distinct([n \in DOMAIN named |-> Built(named[n])]), LAMBDA d : d # Wrapper /\ Populated(ctx, d))
  IN  IF Has("mkdir") THEN FoldLeft(ResolveMakeDirectory, ctx, dirs) ELSE ctx

PhasesOfType(type) == {ph \in ToSet(target.phases) : ph.type = type}
HasFiles(type) == \E ph \in PhasesOfType(type) : ph.files # << >>
HasHeaders(attribute) == \E ph \in PhasesOfType("Headers") : \E file \in ToSet(ph.files) : attribute \in file.attributes
HasInfoPlist == "INFOPLIST_FILE" \in DOMAIN Environment

\* What is linked to at the top of a framework, and when.
Links(ctx) ==
  LET contents == Folder(Environment, "CONTENTS_FOLDER_PATH")
      all == <<<<Folder(Environment, "PUBLIC_HEADERS_FOLDER_PATH"), HasHeaders("Public")>>,
               <<Folder(Environment, "PRIVATE_HEADERS_FOLDER_PATH"), HasHeaders("Private")>>,
               <<Folder(Environment, "XPCSERVICES_FOLDER_PATH"),
                 \E ph \in PhasesOfType("CopyFiles") : ph.destination = "Products" /\ ph.path = Append(contents, "XPCServices")>>,
               <<Folder(Environment, "UNLOCALIZED_RESOURCES_FOLDER_PATH"), HasInfoPlist \/ HasFiles("Resources")>>,
               <<Folder(Environment, "PLUGINS_FOLDER_PATH"),
                 Folder(Environment, "PLUGINS_FOLDER_PATH") # << >> /\ Populated(ctx, Built(Folder(Environment, "PLUGINS_FOLDER_PATH")))>>,
               <<Append(contents, "Modules"), Flag(Environment, "DEFINES_MODULE")>>,
               <<IF HasInfoPlist THEN Components(Environment["INFOPLIST_PATH"]) ELSE << >>, HasInfoPlist>>,
               <<Components(Environment["EXECUTABLE_PATH"]), HasFiles("Sources")>>>>
      wanted == SelectSeq(all, LAMBDA link : link[2])
  IN  [n \in DOMAIN wanted |-> wanted[n][1]]

\* Resources -> Versions/Current/Resources and Versions/Current -> Versions/A.
LinkInFramework(ctx, value) ==
  LET versions == Folder(Environment, "VERSIONS_FOLDER_PATH")
      inVersion == SubSeq(value, Len(versions) + 2, Len(value))
  IN  ResolveSymlink(ctx, AsFile(Append(Wrapper, Last(value))),
                     AsFile(Append(Built(versions), Text(Environment, "CURRENT_VERSION")) \o inVersion))

LinkVersion(ctx) ==
  LET versions == Built(Folder(Environment, "VERSIONS_FOLDER_PATH"))
  IN  ResolveSymlink(ctx, AsFile(Append(versions, Text(Environment, "CURRENT_VERSION"))),
                     AsFile(Append(versions, Text(Environment, "FRAMEWORK_VERSION"))))

ResolveFrameworkStructure(ctx) ==
  CASE Flag(Environment, "SHALLOW_BUNDLE") -> Went(ctx)
    [] ~Has("symlink")                     -> Failed(ctx)
    [] OTHER                               -> Went(LinkVersion(FoldLeft(LinkInFramework, ctx, Links(ctx))))

ResolveStructure(ctx) ==
  CASE ~target.product.bundle -> Went(ctx)
    [] target.framework       -> ResolveFrameworkStructure(ResolveBundleStructure(ctx))
    [] OTHER                  -> Went(ResolveBundleStructure(ctx))

\* The preprocessed property list is not the one that is processed.
PreprocessInfoPlist(ctx) ==
  IF Flag(Environment, "INFOPLIST_PREPROCESS") /\ Has("cpp")
  THEN ResolveTool(ctx, Environment, "cpp", <<Input(Environment["INFOPLIST_FILE"])>>, << >>) ELSE ctx
ProcessInfoPlist(ctx) ==
  IF Has("infoPlist") THEN ResolveInfoPlist(ctx, Environment, Input(Environment["INFOPLIST_FILE"])) ELSE ctx
ComposeInfoPlist(ctx) ==
  IF target.product.hasInfoPlist /\ HasInfoPlist THEN ProcessInfoPlist(PreprocessInfoPlist(ctx)) ELSE ctx

\* All that starts with the name of the wrapper, which the symbols beside it do as well.
StartsWithWrapper(path) ==
  LET c == Components(path)
      n == Len(Wrapper)
  IN  Len(c) >= n /\ SubSeq(c, 1, n - 1) = Front(Wrapper) /\ c[n] \in {Last(Wrapper), Last(Wrapper) \o ".dSYM"}

TouchProduct(ctx) ==
  IF target.product.wrapper /\ Has("touch")
  THEN ResolveTouch(ctx, AsFile(Wrapper), {output \in MadeIn(ctx) : StartsWithWrapper(output)}) ELSE ctx

ResolveProductType(ctx) ==
  LET structured == ResolveStructure(ctx)
  IN  IF structured.failed THEN structured ELSE Went(TouchProduct(ComposeInfoPlist(structured.ctx)))

-----------------------------------------------------------------------------
(* Phase::SwiftResolver *)

ShouldBundleSwiftRuntime(ctx) ==
  /\ Flag(Environment, "EMBEDDED_CONTENT_CONTAINS_SWIFT") \/ (target.product.application /\ ctx.swiftModules # << >>)
  /\ target.product.wrapper

LinkedFrameworks ==
  LET linked == FoldLeft(LAMBDA all, ph : IF ph.type = "Frameworks" THEN all \o ResolveBuildFiles(target, ph.files) ELSE all,
                         << >>, target.phases)
      frameworks == SelectSeq(linked, IsFramework)
  IN  [n \in DOMAIN frameworks |-> Components(frameworks[n].path)]
CollectScanDirectories ==
  LET folders == SelectSeq(<<Folder(Environment, "FRAMEWORKS_FOLDER_PATH"), Folder(Environment, "PLUGINS_FOLDER_PATH")>>, LAMBDA d : d # << >>)
  IN  [n \in DOMAIN folders |-> Built(folders[n])] \o LinkedFrameworks

Executable == InDirectory(Built(Environment["EXECUTABLE_PATH"].dir), Environment["EXECUTABLE_PATH"])
ResolveSwiftRuntime(done) ==
  CASE ~ShouldBundleSwiftRuntime(done.ctx) -> done
    [] ~Has("swiftStdLib")                 -> Failed(done.ctx)
    [] OTHER -> [done EXCEPT !.ctx = ResolveSwiftStandardLibrary(done.ctx, Environment, Executable, CollectScanDirectories)]

-----------------------------------------------------------------------------

\* What is of the target itself is at the insertion point, whatever phases were after it.
FinishTarget(type, Resolve(_)) ==
  /\ pc = "target" /\ target.type = type
  /\ LET done == Resolve([context EXCEPT !.priority = insertionPoint])
     IN  /\ context' = [done.ctx EXCEPT !.priority = context.priority]
         /\ unresolved' = IF done.failed THEN unresolved \cup {"target"} ELSE unresolved
  /\ pc' = "created"
  /\ UNCHANGED <<target, phases, insertionPoint>>

FinishNative == FinishTarget("Native", LAMBDA ctx : ResolveSwiftRuntime(ResolveProductType(ctx)))
FinishLegacy == FinishTarget("Legacy", LAMBDA ctx : IF Has("script") THEN Went(ResolveLegacyScript(ctx)) ELSE Failed(ctx))
FinishAggregate == FinishTarget("Aggregate", Went)

Next ==
  \/ CreateContext
  \/ ResolveSources
  \/ ResolveFrameworks
  \/ ResolveHeaders
  \/ ResolveResources
  \/ ResolveCopyFiles
  \/ RunShellScript
  \/ SkipPhase
  \/ EndPhases
  \/ FinishNative
  \/ FinishLegacy
  \/ FinishAggregate

Spec == Init /\ [][Next]_vars

-----------------------------------------------------------------------------

Selected == Synthesize(SelectSeq(target.phases, Wanted))
Once(type) == Cardinality({n \in DOMAIN Selected : Selected[n].type = type}) <= 1
Invocations == ToSet(context.invocations)
Settled(type) == pc = "created" /\ type \notin unresolved

(***************************************************************************)
(* However a header map grew, and whatever names met in it, clang finds     *)
(* each name that was added, and finds the header that was added first.     *)
(***************************************************************************)
HeadersAreFound ==
  \A table \in ToSet(context.tables) :
    \A n \in DOMAIN table.entries :
      LET same  == SelectSeq(table.entries, LAMBDA e : CanonicalizeKey(e.key) = CanonicalizeKey(table.entries[n].key))
          found == Lookup(table.buckets, table.entries[n].key)
      IN  ~found.empty /\ found.prefix = Head(same).prefix /\ found.suffix = Head(same).suffix

(***************************************************************************)
(* Whatever is built and then used is made by an invocation or written      *)
(* before, also if phases failed halfway: objects, precompiled headers,     *)
(* Swift modules, header maps, slices, property lists.  What a project      *)
(* takes of another target is that target's.  (The Swift libraries are      *)
(* looked for in the installed executable, which is not the linked one when *)
(* a target is installed elsewhere.)                                        *)
(***************************************************************************)
Given == {input.path : input \in UNION {ToSet(ResolveBuildFiles(target, ph.files)) : ph \in {q \in ToSet(target.phases) : q.type # "ShellScript"}}}
LinksInPlace == "Frameworks" \notin unresolved /\ Folder(Environment, "TARGET_BUILD_DIR") = Folder(Environment, "BUILT_PRODUCTS_DIR")

DerivedFilesAreMade ==
  pc = "created" =>
    \A i \in {j \in Invocations : j.tool = "swiftStdLib" => LinksInPlace} :
      \A path \in (i.inputs \cup i.inputDependencies) \ Given :
        IsPrefix(Build, path.dir) => path \in MadeIn(context) \cup ToSet(context.auxiliaryFiles)

(***************************************************************************)
(* No two invocations make one file, neither of sources with one name nor   *)
(* of slices of one product.  (Known to collide are the copies of Swift     *)
(* modules and headers and the debug symbols of different slices, and       *)
(* sources whose name in the project is not that of their file.)            *)
(***************************************************************************)
NamedAfterTheirFiles == \A file \in ToSet(SourceFiles(target)) : file.kind = "file" => file.name = file.path.base
KnownToCollide(i, j) == i.tool = j.tool /\ i.tool \in {"ditto", "dsymutil"} /\ Len(Slices) > 1

OneMakerEach ==
  NamedAfterTheirFiles /\ (\A type \in {"Sources", "Resources"} : Once(type)) =>
    \A n, m \in DOMAIN context.invocations :
      n < m /\ ~KnownToCollide(context.invocations[n], context.invocations[m]) =>
        context.invocations[n].outputs \cap context.invocations[m].outputs = {}

(***************************************************************************)
(* Each object, of C and of Swift, is linked once and into the slice that   *)
(* it was compiled for, also when other sources could not be resolved.      *)
(* (What a phase that copies files compiles is for no slice, and stays      *)
(* where it was to be copied.)                                              *)
(***************************************************************************)
CompilesBeforeItLinks ==
  Once("Sources") /\ Once("Frameworks") /\ OfType(Selected, "Sources") < OfType(Selected, "Frameworks")
Objects(i) == {o \in i.outputs : o.ext = "o"}

ObjectsAreLinkedOnce ==
  Settled("Frameworks") /\ CompilesBeforeItLinks =>
    \A compile \in {i \in Invocations : i.about \in ToSet(Slices)} : \A object \in Objects(compile) :
      \E link \in Invocations :
        /\ object \in link.inputs /\ link.tool = Linker /\ link.about = compile.about
        /\ \A other \in Invocations : object \in other.inputs => other = link

(***************************************************************************)
(* A source that may include what Swift exports waits for it to be in       *)
(* place, that of every module, and in whatever order the compilers ran.    *)
(***************************************************************************)
CompilesWaitForSwift ==
  Settled("Sources") =>
    \A compile \in {i \in Invocations : i.waitForSwiftArtifacts} :
      \A module \in ToSet(context.swiftModules) :
        \A copy \in ToSet(CopiesOf(module)) :
          /\ copy[2] \in compile.inputDependencies
          /\ \E ditto \in Invocations : ditto.inputs = {copy[1]} /\ ditto.outputs = {copy[2]}

(***************************************************************************)
(* A source uses a precompiled header only if that was compiled with the    *)
(* arguments the source is compiled with: same language, same definitions,  *)
(* same architecture, except for those known not to matter.                 *)
(***************************************************************************)
WithoutDialect(arguments) == {a \in ToSet(arguments) : a[1] # "-x" /\ a[1] \notin Tools[Compiler(Environment)].flagsNotAffectingPrecomps}
DialectOf(i) == {a[2][1] : a \in {b \in ToSet(i.arguments) : b[1] = "-x"}}

PrecompiledHeaderFits ==
  \A compile \in {i \in Invocations : i.waitForSwiftArtifacts} :
    \A header \in {i \in Invocations : i.outputs \cap compile.inputDependencies # {} /\ \E o \in i.outputs : o.ext = "pch"} :
      /\ DialectOf(header) = {d \o "-header" : d \in DialectOf(compile)}
      /\ WithoutDialect(header.arguments) \subseteq WithoutDialect(compile.arguments)
      /\ WithoutDialect(compile.arguments) \subseteq
           WithoutDialect(header.arguments) \cup ToSet(NotUsedInPrecompsFlags(Environment)) \cup {a \in ToSet(compile.arguments) : a[1] = "-include"}

(***************************************************************************)
(* No file of a phase is lost between its groups: each is used by a tool,   *)
(* or is a translation that goes with a file of its own variant group.      *)
(***************************************************************************)
Takes(phase, input) ==
  phase.type = "CopyFiles" \/ phase.type = "Resources" \/ (phase.type = "Sources" /\ input.rule # << >>)

EveryFileIsUsed ==
  pc = "created" /\ unresolved = {} =>
    \A phase \in ToSet(Selected) : phase.type \in {"Sources", "Resources", "CopyFiles"} =>
      \A input \in ToSet(ResolveBuildFiles(target, phase.files)) :
        Takes(phase, input) =>
          \/ \E i \in Invocations : input.path \in i.inputs
          \/ IsStrings(input) /\ \E base \in ToSet(ResolveBuildFiles(target, phase.files)) :
               IsBaseRegion(base) /\ \E file \in ToSet(phase.files) :
                 {base.path, input.path} \subseteq {x.path : x \in ToSet(InputsOf(target, file))}

(***************************************************************************)
(* Nothing a phase has is lost on the way into the product.                 *)
(***************************************************************************)
NothingIsLost == EveryFileIsUsed /\ ObjectsAreLinkedOnce

=============================================================================
