--------------------------- MODULE DeveloperTools ---------------------------
(***************************************************************************)
(* Developer directories: the link that xcode-select sets and resets, the   *)
(* platforms, SDKs and toolchains that are read from the directory found,   *)
(* the settings and search paths they give, and xcrun, which finds a tool.  *)
(* A bundle is a record of its path and its property list; what has no      *)
(* readable list is not loaded.                                             *)
(***************************************************************************)
EXTENDS Settings
CONSTANTS
    Nil,                       \* a key that a property list does not have, no object
    Applications,              \* the paths that are applications with a developer directory inside
    Directories,               \* developer directories that may be installed
    Bundles,                   \* developer directory -> its toolchains and platforms, in order of reading
    RealPath,                  \* path -> what it leads to through links
    UserLink, SecondLink,      \* what the user's own link and the last one lead to
    ConfigurationFiles,        \* path of a configuration of xcsdk -> the bundles it adds
    Tools                      \* developer directory, or System -> pairs of a directory and the tool in it
VARIABLES
    installed,                 \* the developer directories there are
    link                       \* what /var/db/xcode_select_link leads to

Inside(path) == path \o "/Contents/Developer"
IsDirectory(path) == path \in installed \/ (path \in Applications /\ Inside(path) \in installed)
Canonical(path) == IF path \in DOMAIN RealPath THEN RealPath[path] ELSE path

(* A link whose target is gone does not exist, and yet it is there. *)
LinkExists == link # Nil /\ IsDirectory(link)

ResolveDeveloperRoot(path) ==
    Canonical(IF IsDirectory(Inside(path)) THEN Inside(path) ELSE path)

KnownDirectories == <<"/Applications/Xcode.app/Contents/Developer", "/Developer">>

DeveloperRoot(variables) ==
    LET links == SelectSeq(<<UserLink, link, SecondLink>>, LAMBDA l : l # Nil)
        known == SelectSeq(KnownDirectories, IsDirectory)
    IN  IF "DEVELOPER_DIR" \in DOMAIN variables THEN ResolveDeveloperRoot(variables["DEVELOPER_DIR"])
        ELSE IF links # << >> THEN Canonical(Head(links))
        ELSE IF known # << >> THEN Head(known)
        ELSE Nil

(* WriteDeveloperRoot, step by step: the link as it is found is removed, if *)
(* its target exists; the new one is written where there is none.           *)
AfterRemoval == IF LinkExists THEN Nil ELSE link
Writes == AfterRemoval = Nil
WriteDeveloperRoot(path) ==
    link' = IF path = Nil THEN AfterRemoval ELSE IF Writes THEN path ELSE AfterRemoval
WrittenAlways(path) == TRUE
Written(path) == path = Nil \/ Writes

-----------------------------------------------------------------------------
(* Property lists. *)

Value(dict, key) == IF key \in DOMAIN dict THEN dict[key] ELSE Nil
OrEmpty(value) == IF value = Nil THEN "" ELSE value
LevelOf(dict, key) == IF key \in DOMAIN dict THEN dict[key] ELSE Nil

DefaultIdentifier == "com.apple.dt.toolchain.XcodeDefault"

Toolchain(bundle) ==
    [path |-> bundle.path, name |-> bundle.name, identifier |-> Value(bundle.dict, "Identifier"),
     overrideBuildSettings |-> LevelOf(bundle.dict, "OverrideBuildSettings")]

(* A toolchain by its name, its identifier or its path; no links are        *)
(* followed for those who ask without a file system.                        *)
FindToolchain(manager, name, followed) ==
    LET is(t) == name \in {t.name, t.identifier} \/ t.path = (IF followed THEN Canonical(name) ELSE name)
        found == SelectSeq(manager.toolchains, is)
    IN  IF found = << >> THEN Nil ELSE Head(found)

(* A toolchain that is not found is replaced by the default one, if there is one. *)
SDKToolchains(manager, dict) ==
    LET named == IF "Toolchains" \in DOMAIN dict THEN dict["Toolchains"] ELSE <<DefaultIdentifier>>
        taken(n) == IF FindToolchain(manager, named[n], FALSE) # Nil THEN FindToolchain(manager, named[n], FALSE)
                    ELSE FindToolchain(manager, DefaultIdentifier, FALSE)
    IN  SelectSeq([n \in DOMAIN named |-> taken(n)], LAMBDA t : t # Nil)

SDK(manager, bundle) ==
    [path |-> bundle.path, canonicalName |-> Value(bundle.dict, "CanonicalName"),
     toolchains |-> SDKToolchains(manager, bundle.dict),
     defaultProperties |-> LevelOf(bundle.dict, "DefaultProperties"),
     customProperties |-> LevelOf(bundle.dict, "CustomProperties"),
     buildVersion |-> Value(bundle.product, "ProductBuildVersion")]

Platform(manager, bundle) ==
    [path |-> bundle.path, name |-> OrEmpty(Value(bundle.dict, "Name")), description |-> Value(bundle.dict, "Description"),
     familyIdentifier |-> Value(bundle.dict, "FamilyIdentifier"),
     defaultProperties |-> LevelOf(bundle.dict, "DefaultProperties"),
     overrideProperties |-> LevelOf(bundle.dict, "OverrideProperties"),
     buildVersion |-> Value(bundle.version, "BuildVersion"),
     targets |-> [n \in DOMAIN bundle.sdks |-> SDK(manager, bundle.sdks[n])]]

(* The first configuration that can be read adds directories of its own. *)
NoBundles == [toolchains |-> << >>, platforms |-> << >>]
DefaultPaths(variables) ==
    IF "XCSDK_CONFIGURATION_PATH" \in DOMAIN variables THEN <<variables["XCSDK_CONFIGURATION_PATH"]>>
    ELSE (IF "HOME" \in DOMAIN variables THEN <<variables["HOME"] \o "/.xcsdk/xcsdk_configuration.plist">> ELSE << >>)
         \o <<"/var/db/xcsdk_configuration.plist">>
Configuration(variables) ==
    LET readable == SelectSeq(DefaultPaths(variables), LAMBDA path : path \in DOMAIN ConfigurationFiles)
    IN  IF readable = << >> THEN NoBundles ELSE ConfigurationFiles[Head(readable)]

(* Toolchains are read before the platforms, whose SDKs look for them.      *)
(* Platforms are sorted by their description, SDKs by their name; Bundles   *)
(* lists them so.                                                           *)
Open(path, extra) ==
    LET own == IF path \in installed THEN Bundles[path] ELSE NoBundles
        toolchains == own.toolchains \o extra.toolchains
        platforms == own.platforms \o extra.platforms
        read == [path |-> path, toolchains |-> [n \in DOMAIN toolchains |-> Toolchain(toolchains[n])]]
    IN  [path |-> path, toolchains |-> read.toolchains,
         platforms |-> [n \in DOMAIN platforms |-> Platform(read, platforms[n])]]

(* An SDK by its name or path; a platform by its name or path stands for    *)
(* the last of its SDKs.  Platforms are tried in turn.                      *)
FindSDK(manager, name, followed) ==
    LET path == IF followed THEN Canonical(name) ELSE name
        Of(p) == SelectSeq(p.targets, LAMBDA t : t.canonicalName = name \/ t.path = path)
        Taken(p) == IF Of(p) # << >> THEN Head(Of(p))
                    ELSE IF (p.name = name \/ p.path = path) /\ p.targets # << >> THEN Last(p.targets)
                    ELSE Nil
        found == SelectSeq(manager.platforms, LAMBDA p : Taken(p) # Nil)
    IN  IF found = << >> THEN Nil ELSE [platform |-> Head(found), target |-> Taken(Head(found))]

-----------------------------------------------------------------------------
(* The settings of the developer directory, of a platform and of an SDK. *)

ComputedSettings(manager) ==
    LET default == FindToolchain(manager, DefaultIdentifier, FALSE)
    IN  <<Create("DEVELOPER_DIR", manager.path)>>
        \o Below("DEVELOPER_DIR",
                 [DEVELOPER_USR_DIR |-> "/usr", DEVELOPER_BIN_DIR |-> "/usr/bin", DEVELOPER_APPLICATIONS_DIR |-> "/Applications",
                  DEVELOPER_FRAMEWORKS_DIR |-> "/Library/Frameworks", DEVELOPER_FRAMEWORKS_DIR_QUOTED |-> "/Library/Frameworks",
                  DEVELOPER_LIBRARY_DIR |-> "/Library", DEVELOPER_TOOLS_DIR |-> "/Tools",
                  DEVELOPER_SDK_DIR |-> "/Platforms/MacOSX.platform/Developer/SDKs",
                  LEGACY_DEVELOPER_DIR |-> "/../PlugIns/Xcode3Core.ideplugin/Contents/SharedSupport/Developer"])
        \o Below("USER_LIBRARY_DIR", [DERIVED_DATA_DIR |-> "/Developer/Xcode/DerivedData"])
        \o <<Create("DT_TOOLCHAIN_DIR", IF default = Nil THEN "" ELSE default.path),
             Create("AVAILABLE_PLATFORMS", FormatWords([n \in DOMAIN manager.platforms |-> manager.platforms[n].name]))>>

Starts(s, prefix) == Len(s) >= Len(prefix) /\ SubSeq(s, 1, Len(prefix)) = prefix
Ends(s, suffix) == Len(s) >= Len(suffix) /\ SubSeq(s, Len(s) - Len(suffix) + 1, Len(s)) = suffix

(* What a platform is called in flags, in settings and by Swift. *)
Family(name) ==
    CASE Starts(name, "macosx") -> [flag |-> "macosx", setting |-> "MACOSX", swift |-> "macosx"]
      [] Starts(name, "iphone") -> [flag |-> "ios", setting |-> "IPHONEOS", swift |-> "ios"]
      [] Starts(name, "appletv") -> [flag |-> "tvos", setting |-> "TVOS", swift |-> "tvos"]
      [] Starts(name, "watch") -> [flag |-> "watchos", setting |-> "WATCHOS", swift |-> "watchos"]
      [] OTHER -> [flag |-> name, setting |-> Operate(name, "upper"), swift |-> name]

PlatformSettings(manager, platform) ==
    LET family == Family(platform.name)
        flag == family.flag \o (IF Ends(platform.name, "simulator") THEN "-simulator" ELSE "")
        supported == IF platform.familyIdentifier = Nil THEN <<platform>>
                     ELSE SelectSeq(manager.platforms, LAMBDA p : p.familyIdentifier = platform.familyIdentifier)
    IN  Literals([PLATFORM_NAME |-> platform.name, PLATFORM_DISPLAY_NAME |-> OrEmpty(platform.description), PLATFORM_DIR |-> platform.path,
                  PLATFORM_PRODUCT_BUILD_VERSION |-> OrEmpty(platform.buildVersion),
                  DEPLOYMENT_TARGET_SETTING_NAME |-> family.setting \o "_DEPLOYMENT_TARGET",
                  DEPLOYMENT_TARGET_CLANG_FLAG_NAME |-> "m" \o flag \o "-version-min",
                  DEPLOYMENT_TARGET_CLANG_FLAG_PREFIX |-> "-m" \o flag \o "-version-min=",
                  DEPLOYMENT_TARGET_CLANG_ENV_NAME |-> family.setting \o "_DEPLOYMENT_TARGET",
                  SWIFT_PLATFORM_TARGET_PREFIX |-> family.swift,
                  SUPPORTED_PLATFORMS |-> FormatWords([n \in DOMAIN supported |-> supported[n].name])])
        \o Below("PLATFORM_DIR",
                 [PLATFORM_DEVELOPER_USR_DIR |-> "/Developer/usr", PLATFORM_DEVELOPER_BIN_DIR |-> "/Developer/usr/bin",
                  PLATFORM_DEVELOPER_APPLICATIONS_DIR |-> "/Developer/Applications", PLATFORM_DEVELOPER_SDK_DIR |-> "/Developer/SDKs",
                  PLATFORM_DEVELOPER_TOOLS_DIR |-> "/Developer/Tools"])
        \o Below("DEVELOPER_DIR", [PLATFORM_DEVELOPER_LIBRARY_DIR |->
                 "/../PlugIns/Xcode3Core.ideplugin/Contents/SharedSupport/Developer/Library"])
        \o <<IF platform.name = "macosx" THEN Create("EFFECTIVE_PLATFORM_NAME", "")
             ELSE Parse("EFFECTIVE_PLATFORM_NAME", <<Text("-"), Ref("PLATFORM_NAME")>>)>>

SDKSettings(sdk) ==
    LET identified == SelectSeq(sdk.toolchains, LAMBDA t : t.identifier # Nil)
    IN  Literals([SDK_NAME |-> OrEmpty(sdk.canonicalName), SDK_DIR |-> sdk.path, SDK_PRODUCT_BUILD_VERSION |-> OrEmpty(sdk.buildVersion),
                  TOOLCHAINS |-> FormatWords([n \in DOMAIN identified |-> identified[n].identifier])])

-----------------------------------------------------------------------------
(* Where tools are looked for: with the platform, the toolchains, and the   *)
(* developer directory.                                                     *)

Under(path, places) == [n \in DOMAIN places |-> path \o places[n]]

ExecutablePaths(manager, platform, toolchains) ==
    (IF platform = Nil THEN << >>
     ELSE Under(platform.path, <<"/Developer/usr/bin", "/usr/local/bin", "/usr/bin", "/usr/local/bin">>))
    \o FoldLeft(LAMBDA paths, t : paths \o Under(t.path, <<"/usr/bin", "/usr/libexec">>), << >>, toolchains)
    \o Under(manager.path, <<"/usr/bin", "/usr/local/bin", "/Tools">>)

(* The first of the directories that has the tool. *)
SystemRoot == "/"
FindExecutable(tool, paths) ==
    LET has == SelectSeq(paths, LAMBDA path : \E d \in installed \cup {SystemRoot} : <<path, tool>> \in Tools[d])
    IN  IF has = << >> THEN Nil ELSE Head(has)

(* The tool that xcrun finds, given the environment of its process and the  *)
(* directories of its PATH; the SDK and the toolchains come from options,   *)
(* from the environment or from what the SDK asks for.                      *)
XcrunToolchainsOfSDK(manager, input, sdk) == IF sdk = Nil THEN << >> ELSE sdk.target.toolchains
XcrunToolchains(manager, input, sdk) ==
    IF input = Nil THEN IF sdk = Nil THEN << >> ELSE sdk.target.toolchains
    ELSE SelectSeq([n \in DOMAIN ParseWords(input) |-> FindToolchain(manager, ParseWords(input)[n], TRUE)], LAMBDA t : t # Nil)

XcrunFinds(manager, sdk, toolchains, searchPaths, tool) ==
    IF toolchains = << >> THEN Nil
    ELSE FindExecutable(tool, ExecutablePaths(manager, IF sdk = Nil THEN Nil ELSE sdk.platform, toolchains) \o searchPaths)

XcrunWith(manager, specified, input, asked, sdk, searchPaths, tool) ==
    IF ~specified /\ asked # Nil /\ sdk = Nil THEN Nil
    ELSE XcrunFinds(manager, sdk, XcrunToolchains(manager, input, sdk), searchPaths, tool)

XcrunIn(manager, options, variables, searchPaths, tool) ==
    LET specified == "toolchain" \in DOMAIN options
        input == IF specified THEN options["toolchain"] ELSE Value(variables, "TOOLCHAINS")
        asked == IF "sdk" \in DOMAIN options THEN options["sdk"] ELSE Value(variables, "SDKROOT")
    IN  XcrunWith(manager, specified, input, asked,
                  IF specified THEN Nil ELSE FindSDK(manager, IF asked = Nil THEN "macosx" ELSE asked, TRUE), searchPaths, tool)

XcrunAt(root, options, variables, searchPaths, tool) ==
    IF root = Nil THEN Nil ELSE XcrunIn(Open(root, Configuration(variables)), options, variables, searchPaths, tool)
Xcrun(options, variables, searchPaths, tool) == XcrunAt(DeveloperRoot(variables), options, variables, searchPaths, tool)
=============================================================================
