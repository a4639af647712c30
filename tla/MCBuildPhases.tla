------------------------------ MODULE MCBuildPhases ------------------------------
(***************************************************************************)
(* Small targets for BuildPhases: a command line tool, an application, a    *)
(* framework and a library of C, C++, Objective-C and Swift, for one and    *)
(* more architectures and variants, with headers whose names meet in the    *)
(* header maps, with translated resources, with their phases in several     *)
(* orders, and each without one of the tools.                               *)
(***************************************************************************)
EXTENDS BuildPhases

\* The names that occur, in lower case, and the sums of their characters.
Words ==
  {<<"Kit.h", "kit.h", 478>>, <<"ab.h", "ab.h", 345>>, <<"ba.h", "ba.h", 345>>, <<"AB.h", "ab.h", 345>>,
   <<"cd.h", "cd.h", 349>>, <<"dc.h", "dc.h", 349>>, <<"abc.h", "abc.h", 444>>, <<"cab.h", "cab.h", 444>>,
   <<"Extra.h", "extra.h", 698>>, <<"Private.h", "private.h", 913>>, <<"main.h", "main.h", 571>>, <<"util.h", "util.h", 596>>,
   <<"Kit", "kit", 328>>, <<"App", "app", 321>>, <<"Tool", "tool", 446>>, <<"main", "main", 421>>,
   <<"util", "util", 446>>, <<"View", "view", 443>>, <<"Model", "model", 529>>, <<"Main", "main", 421>>,
   <<"Localizable", "localizable", 1154>>, <<"Assets", "assets", 659>>, <<"icon", "icon", 425>>, <<"lexer", "lexer", 544>>,
   <<"Engine", "engine", 630>>, <<"Helper", "helper", 640>>, <<"Other", "other", 546>>, <<"impl", "impl", 434>>,
   <<"", "", 0>>, <<"ab", "ab", 195>>, <<"ba", "ba", 195>>, <<"AB", "ab", 195>>,
   <<"cd", "cd", 199>>, <<"dc", "dc", 199>>, <<"abc", "abc", 294>>, <<"cab", "cab", 294>>,
   <<"Extra", "extra", 548>>, <<"Private", "private", 763>>}
Row(word) == CHOOSE row \in Words : row[1] = word
MCLowerCaseOf == [word \in {row[1] : row \in Words} |-> Row(word)[2]]
MCSumOf == [word \in {row[1] : row \in Words} |-> Row(word)[3]]

-----------------------------------------------------------------------------
(* Types and tools, as the specifications of the repository have them *)

Type(dialect, header, framework) == [dialect |-> dialect, header |-> header, framework |-> framework]
MCFileTypes ==
  [type \in {"c", "c++", "objc", "swift", "h", "framework", "archive", "xib", "storyboard", "text.plist.strings", "png",
             "assets", "datamodel", "lex", "plist"} |->
     Type(CASE type = "c" -> "c" [] type = "c++" -> "c++" [] type = "objc" -> "objective-c" [] OTHER -> "",
          type = "h", type = "framework")]

Option(name, flag) ==
  [name |-> name, type |-> "String", conditions |-> {}, architectures |-> << >>, fileTypes |-> << >>, flag |-> flag,
   flagIfFalse |-> "", prefix |-> "", values |-> << >>, args |-> << >>, linkerArgs |-> << >>]

Named(folder, name, ext) == [folder |-> folder, subfolder |-> << >>, name |-> name, ext |-> ext]
AsAsked == <<<<Named("", "$(OutputPath)", "")>>>>

Plain ==
  [type |-> "Tool", groupings |-> << >>, neutral |-> FALSE, inputFileTypes |-> << >>, options |-> << >>,
   deletedProperties |-> {}, commandLine |-> <<"options", "special-args", "inputs">>, execPath |-> "tool", defaults |-> << >>,
   outputs |-> << >>, outputPath |-> << >>, deeplyStatInputDirectories |-> FALSE, flagsNotAffectingPrecomps |-> {},
   execCPlusPlusLinkerPath |-> "", outputFileExtension |-> "", supportsInputFileList |-> FALSE, dependencyInfoFile |-> << >>,
   plistContent |-> << >>, mightNotEmitAllOutputs |-> FALSE]
Makes(template) == [Plain EXCEPT !.type = "Compiler", !.outputs = <<<<template>>>>]

Clang ==
  [Plain EXCEPT !.type = "Compiler", !.execPath = "clang", !.execCPlusPlusLinkerPath = "clang++", !.outputFileExtension = "o",
     !.outputs = AsAsked, !.flagsNotAffectingPrecomps = {"-g"}, !.commandLine = <<"options">>,
     !.options =
       <<Option("arch", "-arch"), [Option("GCC_GENERATE_DEBUGGING_SYMBOLS", "-g") EXCEPT !.type = "Boolean"],
         [Option("GCC_PREPROCESSOR_DEFINITIONS", "-D") EXCEPT !.type = "StringList"],
         [Option("CLANG_CXX_LANGUAGE_STANDARD", "-std") EXCEPT !.fileTypes = <<{"c++"}>>],
         [Option("CLANG_ENABLE_OBJC_ARC", "-fobjc-arc") EXCEPT !.type = "Boolean", !.fileTypes = <<{"objc"}>>,
            !.linkerArgs = ("YES" :> <<"-fobjc-arc">>), !.conditions = {[setting |-> "arch", operator |-> "!=", value |-> "armv7"]}]>>]

Interfaces(template) ==
  [Makes(template) EXCEPT !.groupings = <<"ib-base-region-and-strings">>, !.mightNotEmitAllOutputs = TRUE,
                          !.plistContent = <<Named("TARGET_TEMP_DIR", "$(InputFileBase)", "plist")>>]

MCTools ==
  ("gcc" :> [Plain EXCEPT !.type = "Compiler", !.inputFileTypes = <<{"c", "c++", "objc"}>>])
  @@ ("clang" :> Clang)
  @@ ("swift" :> [Plain EXCEPT !.type = "Compiler", !.groupings = <<"tool">>])
  @@ ("actool" :> [Plain EXCEPT !.type = "Compiler", !.groupings = <<"actool">>, !.deeplyStatInputDirectories = TRUE,
                     !.plistContent = <<Named("TARGET_TEMP_DIR", "assetcatalog_generated_info", "plist")>>])
  @@ ("ibtool" :> Interfaces(Named("ProductResourcesDir", "$(InputFileBase)", "nib")))
  @@ ("ibtoolStoryboard" :> Interfaces(Named("TempResourcesDir", "$(InputFileBase)", "storyboardc")))
  @@ ("strings" :> Makes(Named("ProductResourcesDir", "$(InputFileName)", "")))
  @@ ("datamodel" :> [Makes(Named("ProductResourcesDir", "$(InputFileBase)", "mom")) EXCEPT !.neutral = TRUE])
  @@ ("lex" :> [Makes(Named("DerivedFilesDir", "$(InputFileBase)", "yy.c")) EXCEPT !.neutral = TRUE, !.groupings = <<"common-file-base">>])
  @@ ("ld" :> [Plain EXCEPT !.type = "Linker", !.outputs = AsAsked, !.supportsInputFileList = TRUE,
                 !.dependencyInfoFile = <<Named("TARGET_TEMP_DIR", "dependency_info", "dat")>>])
  @@ ("libtool" :> [Plain EXCEPT !.type = "Linker", !.outputs = AsAsked])
  @@ ("lipo" :> [Plain EXCEPT !.type = "Linker", !.outputs = AsAsked, !.commandLine = <<"-create", "-arch_only", "inputs">>])
  @@ ("dsymutil" :> [Plain EXCEPT !.outputs = AsAsked])
  @@ ("infoPlist" :> [Plain EXCEPT !.outputs = AsAsked])
  @@ [tool \in {"copy", "ibtoolStoryboardLinker", "cpp", "swiftStdLib", "headermap", "ditto", "mkdir", "symlink", "touch", "script"} |-> Plain]

RuleOf(tool) == [script |-> FALSE, outputs |-> << >>, tool |-> tool]
ScriptRule == [script |-> TRUE, outputs |-> <<Named("DERIVED_FILE_DIR", "$(InputFileBase)", "out")>>, tool |-> ""]
Rules ==
  ("c" :> RuleOf("gcc")) @@ ("c++" :> RuleOf("gcc")) @@ ("objc" :> RuleOf("gcc")) @@ ("h" :> RuleOf("gcc"))
  @@ ("swift" :> RuleOf("swift")) @@ ("xib" :> RuleOf("ibtool")) @@ ("storyboard" :> RuleOf("ibtoolStoryboard"))
  @@ ("text.plist.strings" :> RuleOf("strings")) @@ ("assets" :> RuleOf("actool")) @@ ("datamodel" :> RuleOf("datamodel"))
  @@ ("lex" :> RuleOf("lex"))

-----------------------------------------------------------------------------
(* Settings *)

Products == <<"build", "Products">>
Temp == <<"build", "Temp">>

Settings ==
  [GCC_VERSION |-> "clang", PRODUCT_NAME |-> "Kit", PRODUCT_MODULE_NAME |-> "Kit", SWIFT_MODULE_NAME |-> "Kit",
   SWIFT_OBJC_INTERFACE_HEADER_NAME |-> "Kit-Swift.h", EXECUTABLE_NAME |-> "Kit", EXECUTABLE_PATH |-> Path(<< >>, "Kit", ""),
   MACH_O_TYPE |-> "mh_execute", BUILT_PRODUCTS_DIR |-> Products, TARGET_BUILD_DIR |-> Products, TARGET_TEMP_DIR |-> Temp,
   TEMP_FILES_DIR |-> Temp, DERIVED_FILE_DIR |-> Append(Temp, "Derived"), OBJECT_FILE_DIR |-> Append(Temp, "Objects"),
   OBJECT_FILE_DIR_normal |-> Append(Temp, "Objects-normal"), OBJECT_FILE_DIR_debug |-> Append(Temp, "Objects-debug"),
   LINK_FILE_LIST_normal_x86 |-> Path(Temp, "x86", "LinkFileList"), LINK_FILE_LIST_normal_armv7 |-> Path(Temp, "armv7", "LinkFileList"),
   LINK_FILE_LIST_debug_x86 |-> Path(Temp, "x86_debug", "LinkFileList"),
   LINK_FILE_LIST_debug_armv7 |-> Path(Temp, "armv7_debug", "LinkFileList"),
   PRECOMP_DESTINATION_DIR |-> Append(Temp, "PrefixHeaders"), DWARF_DSYM_FOLDER_PATH |-> Products,
   DWARF_DSYM_FILE_NAME |-> Path(<< >>, "Kit.app", "dSYM"), GCC_PREPROCESSOR_DEFINITIONS |-> <<"DEBUG">>,
   USE_HEADERMAP |-> "YES", HEADERMAP_INCLUDES_FLAT_ENTRIES_FOR_TARGET_BEING_BUILT |-> "YES",
   HEADERMAP_INCLUDES_FRAMEWORK_ENTRIES_FOR_ALL_PRODUCT_TYPES |-> "YES", HEADERMAP_INCLUDES_PROJECT_HEADERS |-> "YES"]

InBundle ==
  [WRAPPER_NAME |-> "Kit.app", CONTENTS_FOLDER_PATH |-> <<"Kit.app", "Contents">>, EXECUTABLE_FOLDER_PATH |-> <<"Kit.app", "Contents", "MacOS">>,
   EXECUTABLE_PATH |-> Path(<<"Kit.app", "Contents", "MacOS">>, "Kit", ""), INFOPLIST_PATH |-> Path(<<"Kit.app", "Contents">>, "Info", "plist"),
   INFOPLIST_FILE |-> Path(<<"project">>, "Info", "plist"), FRAMEWORKS_FOLDER_PATH |-> <<"Kit.app", "Contents", "Frameworks">>,
   UNLOCALIZED_RESOURCES_FOLDER_PATH |-> <<"Kit.app", "Contents", "Resources">>, PLUGINS_FOLDER_PATH |-> <<"Kit.app", "Contents", "PlugIns">>,
   PUBLIC_HEADERS_FOLDER_PATH |-> <<"Kit.app", "Contents", "Headers">>, PRIVATE_HEADERS_FOLDER_PATH |-> <<"Kit.app", "Contents", "PrivateHeaders">>]

Version == <<"Kit.framework", "Versions", "A">>
InFramework ==
  [WRAPPER_NAME |-> "Kit.framework", CONTENTS_FOLDER_PATH |-> Version, VERSIONS_FOLDER_PATH |-> <<"Kit.framework", "Versions">>,
   EXECUTABLE_FOLDER_PATH |-> Version, EXECUTABLE_PATH |-> Path(Version, "Kit", ""), CURRENT_VERSION |-> "Current", FRAMEWORK_VERSION |-> "A",
   UNLOCALIZED_RESOURCES_FOLDER_PATH |-> Append(Version, "Resources"), INFOPLIST_PATH |-> Path(Append(Version, "Resources"), "Info", "plist"),
   INFOPLIST_FILE |-> Path(<<"project">>, "Info", "plist"), XPCSERVICES_FOLDER_PATH |-> Append(Version, "XPCServices"),
   PUBLIC_HEADERS_FOLDER_PATH |-> Append(Version, "Headers"), PRIVATE_HEADERS_FOLDER_PATH |-> Append(Version, "PrivateHeaders"),
   PLUGINS_FOLDER_PATH |-> Append(Version, "PlugIns"), MACH_O_TYPE |-> "mh_dylib", DEFINES_MODULE |-> "YES"]

-----------------------------------------------------------------------------
(* Files and phases *)

File(id, dir, base, ext, type) ==
  [kind |-> "file", id |-> id, path |-> Path(dir, base, ext), type |-> type, name |-> base, attributes |-> {}, flags |-> << >>,
   children |-> << >>, remote |-> ""]
Source(id, dir, base, type) ==
  File(id, <<"project", dir>>, base, CASE type = "c" -> "c" [] type = "c++" -> "cpp" [] type = "objc" -> "m" [] type = "swift" -> "swift"
                                         [] type = "lex" -> "l" [] OTHER -> "x", type)
Header(id, dir, base, attributes) == [File(id, <<"project", dir>>, base, "h", "h") EXCEPT !.attributes = attributes]
WithFlag(file, flag) == [file EXCEPT !.flags = <<flag>>]
OfKind(kind, file) == [file EXCEPT !.kind = kind]
Child(localization, base, ext, type) ==
  [kind |-> "file", name |-> localization, path |-> Path(<<"project", localization \o ".lproj">>, base, ext), type |-> type]
Variants(id, base, children) == [OfKind("variants", File(id, <<"project">>, base, "", "")) EXCEPT !.children = children]
Proxied(id, remote) == [OfKind("proxy", File(id, Products, "Engine", "framework", "framework")) EXCEPT !.remote = remote]

Phases(type, files) == [type |-> type, deploymentOnly |-> FALSE, files |-> files]
Copies(destination, path, files) ==
  [type |-> "CopyFiles", deploymentOnly |-> FALSE, files |-> files, destination |-> destination, path |-> path]
Script == [type |-> "ShellScript", deploymentOnly |-> FALSE, files |-> << >>, name |-> "S",
           inputPaths |-> <<Path(<<"project">>, "in", "txt")>>, outputPaths |-> <<Path(Append(Temp, "Derived"), "out", "txt")>>]
ForDeployment(phase) == [phase EXCEPT !.deploymentOnly = TRUE]

C        == Source("c1", "src", "main", "c")
CNamed   == Source("c2", "lib", "Main", "c")
CFlagged == WithFlag(Source("c3", "src", "util", "c"), "-DUTIL")
CPlus    == Source("c4", "src", "Engine", "c++")
ObjC     == Source("c5", "src", "View", "objc")
Swift    == Source("s1", "src", "Model", "swift")
SwiftToo == Source("s2", "src", "main", "swift")
Lexer    == Source("l1", "src", "lexer", "lex")
Renamed  == [Source("c6", "lib", "util", "c") EXCEPT !.name = "impl"]
Unknown  == File("u1", <<"project">>, "Other", "zzz", "")
Misplaced == Header("h9", "src", "Extra", {})

AllHeaders ==
  <<Header("h1", "inc", "Kit", {"Public"}), Header("h2", "inc", "ab", {"Public"}), Header("h3", "inc", "ba", {}), Header("h4", "src", "AB", {}),
    Header("h5", "inc", "abc", {}), Header("h6", "inc", "cab", {}), Header("h7", "inc", "Private", {"Private"}),
    Header("h8", "inc", "main", {}), Header("h10", "inc", "util", {})>>

Xib     == Variants("v1", "Main", <<Child("Base", "Main", "xib", "xib"), Child("fr", "Main", "strings", "text.plist.strings")>>)
Story   == Variants("v2", "View", <<Child("Base", "View", "storyboard", "storyboard"), Child("de", "View", "strings", "text.plist.strings")>>)
Translations == Variants("v3", "Localizable",
                     <<Child("en", "Localizable", "strings", "text.plist.strings"), Child("fr", "Localizable", "strings", "text.plist.strings")>>)
Others  == <<File("r1", <<"project">>, "Assets", "xcassets", "assets"), File("r2", <<"project">>, "icon", "png", "png"),
             OfKind("version", File("r3", <<"project">>, "Model", "xcdatamodel", "datamodel")), OfKind("none", C), OfKind("group", C)>>

-----------------------------------------------------------------------------
(* Targets *)

Target(type, framework, phasesOf, product, settings) ==
  [name |-> "Kit", productName |-> "Kit", type |-> type, framework |-> framework, phases |-> phasesOf,
   variants |-> <<"normal">>, architectures |-> <<"x86">>, rules |-> Rules, tools |-> DOMAIN MCTools,
   environment |-> settings @@ Settings, workingDirectory |-> <<"project">>,
   directories |-> <<<<"project", "inc">>, <<"project", "inc", "deep">>>>,
   project |-> [files |-> AllHeaders, targets |-> << >>], disk |-> << >>, product |-> product]

NoProduct == [bundle |-> FALSE, wrapper |-> FALSE, application |-> FALSE, hasInfoPlist |-> FALSE]
AppProduct == [bundle |-> TRUE, wrapper |-> TRUE, application |-> TRUE, hasInfoPlist |-> TRUE]
FrameworkProduct == [AppProduct EXCEPT !.application = FALSE]

\* Its project has the target, and another one.
InProject(t) ==
  LET self  == [name |-> t.name, productName |-> t.productName, type |-> t.type, framework |-> t.framework, phases |-> t.phases]
      other == [self EXCEPT !.name = "Engine", !.productName = "Engine", !.framework = FALSE,
                            !.phases = <<Phases("Headers", <<Header("e1", "eng", "cd", {"Public"}), Header("e2", "eng", "dc", {"Public"})>>)>>]
  IN  [t EXCEPT !.project.targets = <<self, other>>, !.disk = <<Path(<<"project", "src">>, "main", "h"), Path(<<"project", "inc">>, "ab", "h")>>]

With(t, settings) == [t EXCEPT !.environment = settings @@ @]
Sliced(t, variants, architectures) == [t EXCEPT !.variants = variants, !.architectures = architectures]
Precompiled == [GCC_PREFIX_HEADER |-> "Prefix.h", GCC_PRECOMPILE_PREFIX_HEADER |-> "YES",
                GCC_PREPROCESSOR_DEFINITIONS_NOT_USED_IN_PRECOMPS |-> <<"LATE">>]
Symbols == [DEBUG_INFORMATION_FORMAT |-> "dwarf-with-dsym", GCC_GENERATE_DEBUGGING_SYMBOLS |-> "YES"]
Installs == [SWIFT_INSTALL_OBJC_HEADER |-> "YES", SWIFT_LIBRARY_PATH |-> <<"lib/swift">>]

Tool(files) == InProject(Target("Native", FALSE, <<Phases("Sources", files)>>, NoProduct, << >>))
App ==
  InProject(Target("Native", FALSE,
    <<Phases("Headers", AllHeaders), Phases("Sources", <<C, ObjC, Swift>>), Phases("Frameworks", <<Proxied("f1", "found"), Proxied("f2", "missing")>>),
      Phases("Resources", <<Xib, Story, Translations>> \o Others), Copies("FRAMEWORKS_FOLDER_PATH", << >>, <<Proxied("f1", "found")>>), Script>>,
    AppProduct, Installs @@ InBundle))
Framework ==
  InProject(Target("Native", TRUE,
    <<Phases("Headers", AllHeaders), Phases("Sources", <<C, CNamed, Swift>>), Phases("Resources", <<Xib, Translations>>),
      Copies("PLUGINS_FOLDER_PATH", << >>, <<File("r2", <<"project">>, "icon", "png", "png")>>),
      Copies("Products", Append(Version, "XPCServices"), <<File("r4", <<"project">>, "Other", "zzz", "")>>)>>,
    FrameworkProduct, InFramework))

Reordered(t, order) == [t EXCEPT !.phases = [n \in DOMAIN order |-> t.phases[order[n]]]]
Without(t, tools) == [t EXCEPT !.tools = @ \ tools]
Essential == {"copy", "clang", "headermap", "ditto", "ld", "script", "mkdir", "symlink", "touch", "swiftStdLib",
              "ibtoolStoryboardLinker", "swift", "actool", "infoPlist"}

HeaderFlags == {"HEADERMAP_INCLUDES_FLAT_ENTRIES_FOR_TARGET_BEING_BUILT", "HEADERMAP_INCLUDES_PROJECT_HEADERS",
                "HEADERMAP_INCLUDES_FRAMEWORK_ENTRIES_FOR_ALL_PRODUCT_TYPES", "ALWAYS_SEARCH_USER_PATHS"}
Headed(headers, on) ==
  InProject(Target("Native", TRUE, <<Phases("Headers", headers), Phases("Sources", <<C>>)>>, NoProduct,
                   [flag \in HeaderFlags |-> IF flag \in on THEN "YES" ELSE "NO"]
                   @@ [USER_HEADER_SEARCH_PATHS |-> <<[dir |-> <<".", "inc">>, recursive |-> TRUE]>>]))

CommandLineTools ==
  {Tool(<<C>>), Tool(<<C, CNamed, CFlagged>>), Tool(<<Lexer, C>>), Tool(<<C, Misplaced, CPlus>>), Tool(<<CFlagged, Renamed>>),
   Tool(<<C, Unknown>>), With(Sliced(Tool(<<SwiftToo, C, CPlus>>), <<"normal", "debug">>, <<"x86", "armv7">>), Symbols @@ Installs),
   With(Sliced(Tool(<<C, CFlagged, CPlus, ObjC>>), <<"normal", "debug">>, <<"x86", "armv7">>), Symbols @@ Precompiled),
   With(Tool(<<C, CNamed, ObjC>>), [CLANG_ENABLE_OBJC_ARC |-> "YES"] @@ Precompiled),
   With(Tool(<<C, CFlagged>>), [GCC_PREFIX_HEADER |-> "Prefix.h"]),
   With(Sliced(Tool(<<C, CPlus>>), <<"normal">>, <<"x86", "armv7">>), [MACH_O_TYPE |-> "staticlib"] @@ Symbols)}

Applications ==
  {App, Reordered(App, <<4, 6, 3, 2, 1, 5>>), Reordered(App, <<2, 6, 4>>), Reordered(App, <<2, 4, 2, 4>>),
   Sliced(App, <<"normal">>, <<"x86", "armv7">>),
   With(App, [TARGET_BUILD_DIR |-> <<"build", "Root">>, INFOPLIST_PREPROCESS |-> "YES", EMBEDDED_CONTENT_CONTAINS_SWIFT |-> "YES"] @@ Symbols),
   [With(App, [APPLY_RULES_IN_COPY_FILES |-> "YES", DEPLOYMENT_POSTPROCESSING |-> "YES"]) EXCEPT
      !.phases = <<ForDeployment(Phases("Resources", <<Story>>)), Copies("Absolute", <<"build", "Elsewhere">>, <<Xib, C>> \o Others)>> \o SubSeq(@, 2, 3)],
   [App EXCEPT !.phases = <<Phases("AppleScript", << >>), Phases("Rez", << >>), ForDeployment(Script)>> \o @,
               !.rules = ("lex" :> ScriptRule) @@ ("storyboard" :> ScriptRule) @@ @]}

Bundles ==
  {Framework, With(Framework, [SHALLOW_BUNDLE |-> "YES", MODULEMAP_FILE |-> "Kit.modulemap", MODULEMAP_PRIVATE_FILE |-> "Private.modulemap"]),
   With(Sliced(Framework, <<"normal">>, <<"x86", "armv7">>), Precompiled), Reordered(Framework, <<3, 2>>)}

Incomplete == {Without(t, {tool}) : t \in {App, Framework}, tool \in Essential}

MCTargetDescriptions ==
  CommandLineTools \cup Applications \cup Bundles \cup Incomplete
  \cup {Headed(AllHeaders, on) : on \in SUBSET HeaderFlags} \cup {Headed(Reverse(AllHeaders), HeaderFlags)}
  \cup {Target("Legacy", FALSE, << >>, NoProduct, << >>), Without(Target("Legacy", FALSE, << >>, NoProduct, << >>), {"script"}),
        Target("Aggregate", FALSE, <<Script>>, NoProduct, << >>)}

MCBuild == <<"build">>

=============================================================================
