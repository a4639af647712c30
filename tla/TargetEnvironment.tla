------------------------- MODULE TargetEnvironment -------------------------
(***************************************************************************)
(* The environment of a target: first the settings without those of an SDK, *)
(* which decide the SDK, then all of them.  Around it the developer         *)
(* directory, which xcode-select may change at any time, and a script of    *)
(* the target that looks for a tool with xcrun.                             *)
(***************************************************************************)
EXTENDS DeveloperTools
CONSTANTS
    Projects,                  \* the projects a build may be of; see Project below
    User, Variables,           \* the user and the environment of the process
    SearchPaths,               \* the directories of its PATH
    BuildSystems,              \* the default settings of the build systems, by identifier
    ProductTypes, PackageTypes, \* identifier -> default settings, and the package types of a product type
    Architectures,             \* specification domain -> the architectures in it
    ArchitectureOrder,         \* the names of architectures, sorted
    ScriptTools,               \* the tools that scripts look for
    MaxChanges                 \* bound on what xcode-select and installers do
VARIABLES
    project,                   \* what is built, one of Projects
    progress,                  \* "start", "loaded" or "failed"
    manager,                   \* the developer directory as it was read
    created,                   \* target -> its environment, once it is created
    script,                    \* the tool that a script found, and the one that the build finds
    selected,                  \* what the last call of xcode-select did
    changes                    \* the number of changes so far
vars == <<installed, link, project, progress, manager, created, script, selected, changes>>

(* A project: [name, root, file, region |-> texts, configurations |-> sequence, targets |-> function,   *)
(* configuration |-> the one that is built, action |-> text, overrides |-> sequence of levels]; a       *)
(* configuration: [name, settings |-> level, file |-> level or Nil]; a target: [name, product, type,    *)
(* productType, productReference, configurations].                                                      *)

-----------------------------------------------------------------------------
ProjectSettings(p) ==
    Literals([PROJECT |-> p.name, PROJECT_NAME |-> p.name, PROJECT_DIR |-> p.root, PROJECT_FILE_PATH |-> p.file,
              SRCROOT |-> p.root, DEVELOPMENT_LANGUAGE |-> IF p.region = "" THEN "English" ELSE p.region])

TargetSettings(t) ==
    Literals([TARGETNAME |-> t.name, TARGET_NAME |-> t.name, PRODUCT_NAME |-> t.product])
    \o (IF t.type = "Native" /\ t.productReference # Nil THEN <<Create("FULL_PRODUCT_NAME", t.productReference)>> ELSE << >>)

DerivedData(p, path) == Parse(path[1], <<Ref("DERIVED_DATA_DIR"), Text("/" \o p.name \o "-" \o p.hash \o path[2])>>)
ActionSettings(p) ==
    Literals([ACTION |-> p.action, BUILD_COMPONENTS |-> "headers build", CONFIGURATION |-> p.configuration])
    \o <<DerivedData(p, <<"SYMROOT", "/Build/Products">>), DerivedData(p, <<"OBJROOT", "/Build/Intermediates">>)>>

BaseSettings ==
    <<Parse("CONFIGURATION_BUILD_DIR", <<Ref("BUILD_DIR"), Text("/"), Ref("CONFIGURATION"), Ref("EFFECTIVE_PLATFORM_NAME")>>),
      Parse("CONFIGURATION_TEMP_DIR", <<Ref("PROJECT_TEMP_DIR"), Text("/"), Ref("CONFIGURATION"), Ref("EFFECTIVE_PLATFORM_NAME")>>)>>

(* The levels that every target begins with. *)
BaseEnvironment(m) ==
    FoldLeft(LAMBDA env, level : InsertBack(env, level, FALSE),
             InsertBack(NoLevels, BuildSystems["com.apple.build-system.core"], TRUE),
             <<ComputedSettings(m)>> \o DefaultLevels(User, Variables))

ConfigurationNamed(configurations, name) ==
    LET named == SelectSeq(configurations, LAMBDA c : c.name = name)
    IN  IF named = << >> THEN Nil ELSE Head(named)

Optional(level) == IF level = Nil THEN << >> ELSE <<level>>

(* The settings of a project and of a target, from the weakest to the strongest. *)
DeterminationLevels(p, t) ==
    LET pc == ConfigurationNamed(p.configurations, p.configuration)
        tc == ConfigurationNamed(t.configurations, p.configuration)
    IN  <<BaseSettings, ProjectSettings(p)>> \o Optional(pc.file) \o <<pc.settings, TargetSettings(t)>>
        \o Optional(tc.file) \o <<tc.settings, ActionSettings(p)>> \o p.overrides

DeterminationEnvironment(m, p, t) == InsertAllFront(BaseEnvironment(m), DeterminationLevels(p, t))

-----------------------------------------------------------------------------
(* What is specific to a platform. *)

SDKSpecificationDomains(platformName) ==
    LET simulator == Ends(platformName, "simulator")
        device == SubSeq(platformName, 1, Len(platformName) - Len("simulator")) \o "os"
    IN  <<platformName, (IF simulator THEN device ELSE platformName) \o "-shared">>
        \o (IF platformName = "macosx" THEN << >>
            ELSE <<IF simulator THEN "embedded-simulator" ELSE "embedded", "embedded-shared">>)
        \o <<"default">>

ArchitecturesOf(domains) ==
    FoldLeft(LAMBDA found, d : found \o (IF d \in DOMAIN Architectures THEN Architectures[d] ELSE << >>), << >>, domains)

PlatformArchitecturesLevel(domains) ==
    LET architectures == ArchitecturesOf(domains)
        defaults == SelectSeq(architectures, LAMBDA a : a.defaultSetting # Nil)
        real == SelectSeq(architectures, LAMBDA a : a.realArchitectures = Nil)
        valid == FoldLeft(LAMBDA ids, a : IF Contains(ids, a.identifier) THEN ids ELSE Append(ids, a.identifier), << >>, real)
    IN  [n \in DOMAIN defaults |-> defaults[n].defaultSetting] \o <<Create("VALID_ARCHS", FormatWords(valid))>>

BuildSystemOf(t) == IF t.type = "Native" THEN "com.apple.build-system.native" ELSE "com.apple.build-system.external"

(* The product type of a native target, and the first of its package types. *)
ProductLevels(t) ==
    IF t.type # "Native" THEN << >>
    ELSE LET product == ProductTypes[t.productType]
             package == Head(product.packageTypes)
         IN  (IF product.packageTypes = << >> THEN << >>
              ELSE <<<<Create("PACKAGE_TYPE", package)>> \o PackageTypes[package]>>)
             \o <<<<Create("PRODUCT_TYPE", t.productType)>> \o product.settings>>
ProductIsKnown(t) ==
    t.type = "Native" => /\ t.productType \in DOMAIN ProductTypes
                         /\ \A k \in {1} \cap DOMAIN ProductTypes[t.productType].packageTypes :
                               ProductTypes[t.productType].packageTypes[k] \in DOMAIN PackageTypes

(* The levels of the SDK lie behind those of the project. *)
SDKLevels(m, sdk) ==
    Optional(sdk.platform.defaultProperties)
    \o <<PlatformArchitecturesLevel(SDKSpecificationDomains(sdk.platform.name))>>
    \o Optional(sdk.target.defaultProperties)
    \o <<PlatformSettings(m, sdk.platform), SDKSettings(sdk.target)>>
    \o Optional(sdk.target.customProperties) \o Optional(sdk.platform.overrideProperties)

ProjectLevels(p, t) ==
    LET pc == ConfigurationNamed(p.configurations, p.configuration)
        tc == ConfigurationNamed(t.configurations, p.configuration)
    IN  <<ProjectSettings(p)>> \o Optional(pc.file) \o <<pc.settings, TargetSettings(t)>>
        \o Optional(tc.file) \o <<tc.settings, ActionSettings(p)>> \o p.overrides

SettledEnvironment(m, p, t, sdk) ==
    InsertAllFront(InsertFront(BaseEnvironment(m), BuildSystems[BuildSystemOf(t)], TRUE),
                   <<BaseSettings, <<Parse("GCC_VERSION", <<Ref("DEFAULT_COMPILER")>>)>>>>
                   \o SDKLevels(m, sdk) \o ProductLevels(t) \o ProjectLevels(p, t))

Joined(paths) == FoldLeft(LAMBDA s, n : s \o (IF n = 1 THEN "" ELSE ":") \o paths[n], "", [n \in DOMAIN paths |-> n])
WordsOf(s) == IF s = Endless THEN << >> ELSE ParseWords(s)
Words(env, name) == WordsOf(Resolve(env, name, Empty))

(* The asked ones among the valid, in the order of their names. *)
ResolveArchitectures(env) ==
    SelectSeq(ArchitectureOrder, LAMBDA a : \A name \in {"ARCHS", "VALID_ARCHS"} : Contains(Words(env, name), a))

ArchitecturesVariantsLevel(architectures, variants) ==
    (IF variants = << >> THEN << >> ELSE <<Create("CURRENT_VARIANT", Head(variants)), Create("variant", Head(variants))>>)
    \o (IF architectures = << >> THEN << >> ELSE <<Create("CURRENT_ARCH", Head(architectures)), Create("arch", Head(architectures))>>)
    \o FoldLeft(LAMBDA all, v :
           all \o <<Parse("OBJECT_FILE_DIR_" \o v, <<Ref("OBJECT_FILE_DIR"), Text("-" \o v)>>)>>
               \o [n \in DOMAIN architectures |->
                     Parse("LINK_FILE_LIST_" \o v \o "_" \o architectures[n],
                           <<Ref("OBJECT_FILE_DIR_" \o v), Text("/" \o architectures[n] \o "/"), Ref("PRODUCT_NAME"), Text(".LinkFileList")>>)],
           << >>, variants)

-----------------------------------------------------------------------------
(* Target::Environment::Create *)

Failure(why) == [failed |-> TRUE, why |-> why]
Asked == {"ARCHS", "VALID_ARCHS", "BUILD_VARIANTS", "TOOLCHAINS"}

(* The paths of the SDK and of the toolchains that the settings name, and where tools are. *)
Locate(m, sdk, architectures, varied, toolchains, paths) ==
    LET located == <<Create("SDKROOT", sdk.target.path),
                     Create("EFFECTIVE_TOOLCHAINS_DIRS", FormatWords([n \in DOMAIN toolchains |-> toolchains[n].path]))>>
    IN  [failed |-> FALSE, sdk |-> sdk, toolchains |-> toolchains, architectures |-> architectures, executablePaths |-> paths,
         environment |-> InsertAllFront(varied, <<located, <<Create("PATH", Joined(paths))>>>>)]

NamedToolchains(m, named) ==
    SelectSeq([n \in DOMAIN named |-> FindToolchain(m, named[n], FALSE)], LAMBDA tc : tc # Nil)
LocateIn(m, sdk, architectures, varied, toolchains) ==
    Locate(m, sdk, architectures, varied, toolchains, ExecutablePaths(m, sdk.platform, toolchains) \o SearchPaths)

Vary(m, sdk, settled, architectures) ==
    LET varied == InsertFront(settled, ArchitecturesVariantsLevel(architectures, Words(settled, "BUILD_VARIANTS")), FALSE)
    IN  LocateIn(m, sdk, architectures, varied, NamedToolchains(m, Words(varied, "TOOLCHAINS")))

Settle(m, sdk, settled) ==
    IF \E name \in Asked : Resolve(settled, name, Empty) = Endless THEN Failure("endless")
    ELSE Vary(m, sdk, settled, ResolveArchitectures(settled))

CreateWith(m, p, t, sdk) ==
    IF sdk = Nil THEN Failure("sdkroot")
    ELSE IF ~ProductIsKnown(t) THEN Failure("product type")
    ELSE Settle(m, sdk, SettledEnvironment(m, p, t, sdk))

CreateFor(m, p, t, asked) ==
    IF asked = Endless THEN Failure("endless") ELSE CreateWith(m, p, t, FindSDK(m, asked, FALSE))

CreateEnvironment(m, p, t) ==
    IF ConfigurationNamed(p.configurations, p.configuration) = Nil THEN Failure("project configuration")
    ELSE IF ConfigurationNamed(t.configurations, p.configuration) = Nil THEN Failure("target configuration")
    ELSE CreateFor(m, p, t, Resolve(DeterminationEnvironment(m, p, t), "SDKROOT", Empty))

(* The variables of a script are all settings, resolved. *)
Names(env) == UNION {{level[i].name : i \in DOMAIN level} : level \in ToSet(env.levels)}
ComputeValues(env, names) == [name \in names \cap Names(env) |-> Resolve(env, name, Empty)]

(* The names that a project and its configurations give a value to. *)
OwnNames(p, t) == UNION {{level[i].name : i \in DOMAIN level} : level \in ToSet(DeterminationLevels(p, t))}
UsedByXcrun == {"DEVELOPER_DIR", "TOOLCHAINS", "SDKROOT", "HOME", "XCSDK_CONFIGURATION_PATH"}

NoScript == [ran |-> FALSE, endless |-> {}, build |-> Nil, xcrun |-> Nil]
RunWith(environment, values, endless, tool) ==
    [ran |-> TRUE, endless |-> endless,
     build |-> FindExecutable(tool, environment.executablePaths),
     xcrun |-> IF endless # {} THEN Nil ELSE Xcrun(Empty, values, environment.executablePaths, tool)]
RunIn(environment, values, tool) ==
    RunWith(environment, values, {name \in DOMAIN values : values[name] = Endless}, tool)
Script(environment, names, tool) ==
    RunIn(environment, ComputeValues(environment.environment, names \cup UsedByXcrun), tool)

-----------------------------------------------------------------------------
Init ==
    /\ project \in Projects
    /\ installed \in {{d} : d \in Directories}
    /\ link = Nil
    /\ progress = "start"
    /\ manager = Nil
    /\ created = [t \in DOMAIN project.targets |-> Nil]
    /\ script = NoScript
    /\ selected = <<"nothing">>
    /\ changes = 0

Changes == changes < MaxChanges /\ changes' = changes + 1

Install(d) ==
    /\ d \notin installed /\ Changes
    /\ installed' = installed \cup {d}
    /\ UNCHANGED <<link, project, progress, manager, created, script, selected>>

Uninstall(d) ==
    /\ d \in installed /\ Changes
    /\ installed' = installed \ {d}
    /\ UNCHANGED <<link, project, progress, manager, created, script, selected>>

(* xcode-select --switch, by a user who may. *)
Switch(path) ==
    /\ Changes
    /\ WriteDeveloperRoot(path)
    /\ selected' = IF Written(path) THEN <<"switched", path>> ELSE <<"failed">>
    /\ UNCHANGED <<installed, project, progress, manager, created, script>>

(* xcode-select --reset *)
Reset ==
    /\ Changes
    /\ WriteDeveloperRoot(Nil)
    /\ selected' = <<"reset">>
    /\ UNCHANGED <<installed, project, progress, manager, created, script>>

(* Build::Environment::Default *)
LoadEnvironment ==
    /\ progress = "start"
    /\ LET root == DeveloperRoot(Variables)
       IN  IF root = Nil THEN progress' = "failed" /\ UNCHANGED manager
           ELSE progress' = "loaded" /\ manager' = Open(root, Configuration(Variables))
    /\ UNCHANGED <<installed, link, project, created, script, selected, changes>>

(* An environment is created once, and kept by the build context unless it failed. *)
CreateTargetEnvironment(t) ==
    /\ progress = "loaded" /\ created[t] = Nil
    /\ created' = [created EXCEPT ![t] = CreateEnvironment(manager, project, project.targets[t])]
    /\ UNCHANGED <<installed, link, project, progress, manager, script, selected, changes>>

RunScript(t, tool) ==
    /\ created[t] # Nil /\ ~created[t].failed /\ ~script.ran
    /\ script' = Script(created[t], OwnNames(project, project.targets[t]), tool)
    /\ UNCHANGED <<installed, link, project, progress, manager, created, selected, changes>>

Next ==
    \/ \E d \in Directories : Install(d) \/ Uninstall(d)
    \/ \E path \in Directories \cup Applications : Switch(path)
    \/ Reset
    \/ LoadEnvironment
    \/ \E t \in DOMAIN created : CreateTargetEnvironment(t)
    \/ \E t \in DOMAIN created, tool \in ScriptTools : RunScript(t, tool)

Spec == Init /\ [][Next]_vars

-----------------------------------------------------------------------------
(* A switch that xcode-select reports as done is what the next command      *)
(* finds, as long as the directory is there, whatever was installed,        *)
(* removed or linked before (WriteDeveloperRoot, DeveloperRoot).            *)
SwitchTakesEffect ==
    \A d \in installed \cap Directories :
        (selected = <<"switched", d>> /\ UserLink = Nil /\ "DEVELOPER_DIR" \notin DOMAIN Variables)
            => DeveloperRoot(Variables) = Canonical(d)

(* A reset removes the link, also one whose directory is gone               *)
(* (WriteDeveloperRoot: "Remove any existing link.").                       *)
ResetRemovesLink == selected = <<"reset">> => link = Nil

(* The SDK of a target, determined before there are settings of an SDK, is  *)
(* the one that the settled settings ask for (Target::Environment::Create   *)
(* lists the levels of both).                                               *)
SdkIsAsked ==
    \A t \in DOMAIN created : (created[t] # Nil /\ ~created[t].failed) =>
        LET settled == SettledEnvironment(manager, project, project.targets[t], created[t].sdk)
        IN  FindSDK(manager, Resolve(settled, "SDKROOT", Empty), FALSE) = created[t].sdk

(* Toolchains are named by what the build and xcrun both understand. *)
LinkedToolchain(t) == \E w \in ToSet(Words(created[t].environment, "TOOLCHAINS")) : Canonical(w) # w

(* A script that asks xcrun for a tool does not get another than the build  *)
(* uses, also after xcode-select has turned to another directory            *)
(* meanwhile (Target::Environment::Create, ScriptResolver, xcrun).          *)
ToolsAgree ==
    (script.ran /\ manager.path \in installed /\ \A t \in DOMAIN created : created[t] # Nil => created[t].failed \/ ~LinkedToolchain(t))
        => script.xcrun \in {Nil, script.build}

(* A target is built with the SDK and the tools that its settings ask for. *)
AskedToolsAreUsed == SdkIsAsked /\ ToolsAgree

(* The settings that a name may lead to, over any number of references. *)
Definitions(env) == UNION {ToSet(level) : level \in ToSet(env.levels)}
Leads(env) ==
    LET names == Names(env)
    IN  {<<a, Name(b)>> : <<a, b>> \in UNION {{s.name} \X ((References(s.value) \ {s.name, "inherited"})
                                          \cup (IF ComputesName(s.value) THEN names ELSE {})) : s \in Definitions(env)}}
RECURSIVE Reached(_, _)
Reached(edges, from) ==
    LET next == from \cup {e[2] : e \in {f \in edges : f[1] \in from}}
    IN  IF next = from THEN from ELSE Reached(edges, next)
InCircle(env, name) ==
    LET edges == Leads(env)
    IN  \E n \in Reached(edges, {name}) : n \in Reached(edges, {e[2] : e \in {f \in edges : f[1] = n}})

(* Resolving a setting ends, unless settings refer to each other in a       *)
(* circle: one that only inherits is not one (Environment::resolveValue).   *)
EndlessOnlyForCircle ==
    /\ \A t \in DOMAIN created : (created[t] # Nil /\ created[t].failed /\ created[t].why = "endless") =>
          \E name \in Asked \cup {"SDKROOT"} : InCircle(DeterminationEnvironment(manager, project, project.targets[t]), name)
    /\ script.endless # {} =>
          \E t \in DOMAIN created : created[t] # Nil /\ ~created[t].failed
              /\ \A name \in script.endless : InCircle(created[t].environment, name)

=============================================================================
