----------------------- MODULE MCTargetEnvironment -----------------------
(***************************************************************************)
(* Two developer directories, one of them in an application, with three     *)
(* platforms and two toolchains; projects that ask for an SDK at every      *)
(* place where settings are given, in several forms; and, apart from them,  *)
(* projects that are a line of settings each.                               *)
(***************************************************************************)
EXTENDS TargetEnvironment, TLC
CONSTANTS LineLength           \* bound on the lines of settings that are read
Syntax == INSTANCE SettingSyntax

X == "/Applications/Xcode.app/Contents/Developer"
D == "/Developer"
MCApplications == {"/Applications/Xcode.app"}
MCDirectories == {X, D}
Default == "com.apple.dt.toolchain.XcodeDefault"

ToolchainIn(root, name, identifier) ==
    [path |-> root \o "/Toolchains/" \o name \o ".xctoolchain", name |-> name,
     dict |-> [k \in {"Identifier"} |-> identifier]]
Sdk(platform, name, dict) ==
    [path |-> platform \o "/Developer/SDKs/" \o name \o ".sdk", dict |-> [k \in {"CanonicalName"} |-> name] @@ dict,
     product |-> [k \in {"ProductBuildVersion"} |-> "13A"]]
Plat(root, name, family, sdks, dict) ==
    LET path == root \o "/Platforms/" \o name \o ".platform"
    IN  [path |-> path, dict |-> [Name |-> name, FamilyIdentifier |-> family] @@ dict, version |-> Empty,
         sdks |-> [n \in DOMAIN sdks |-> Sdk(path, sdks[n][1], sdks[n][2])]]

Archs(words) == [DefaultProperties |-> <<Create("ARCHS", words), Create("BUILD_VARIANTS", "normal")>>]
MCBundles ==
    (X :> [toolchains |-> <<ToolchainIn(X, "Swift", "org.swift"), ToolchainIn(X, "XcodeDefault", Default)>>,
           platforms |-> <<Plat(X, "iphoneos", "iOS", <<<<"iphoneos9.0", Empty>>, <<"iphoneos9.2", [Toolchains |-> <<"org.swift", "gone">>]>>>>, Archs("armv7 arm64")),
                           Plat(X, "iphonesimulator", "iOS", <<<<"iphonesimulator9.2", [Toolchains |-> << >>]>>>>, Archs("x86_64")),
                           Plat(X, "macosx", "macOS", <<<<"macosx10.11", [CustomProperties |-> <<Create("BUILD_VARIANTS", "normal debug")>>]>>>>,
                                [OverrideProperties |-> <<Create("ARCHS", "x86_64 i386")>>])>>])
    @@ (D :> [toolchains |-> <<ToolchainIn(D, "XcodeDefault", Default)>>,
              platforms |-> <<Plat(D, "macosx", "macOS", <<<<"macosx10.11", Empty>>>>, Empty)>>])

At(root, place) == {<<root \o place[1], tool>> : tool \in place[2]}
MCTools ==
    (X :> (At(X, <<"/Toolchains/Swift.xctoolchain/usr/bin", {"clang"}>>) \cup At(X, <<"/Toolchains/XcodeDefault.xctoolchain/usr/bin", {"clang", "ld"}>>)
           \cup At(X, <<"/Platforms/iphoneos.platform/Developer/usr/bin", {"ld"}>>) \cup At(X, <<"/usr/bin", {"ibtool"}>>)))
    @@ (D :> (At(D, <<"/Toolchains/XcodeDefault.xctoolchain/usr/bin", {"clang"}>>) \cup At(D, <<"/usr/bin", {"ibtool", "ld"}>>)))
    @@ ("/" :> {<<"/usr/bin", "clang">>})
MCRealPath == "/link" :> (X \o "/Toolchains/Swift.xctoolchain")
MCConfigurationFiles == [path \in {"/var/db/xcsdk_configuration.plist"} |->
    [toolchains |-> <<[path |-> "/extra/Extra.xctoolchain", name |-> "Extra", dict |-> Empty]>>, platforms |-> << >>]]
MCOperate(value, operation) == operation \o "-" \o value

MCSearchPaths == <<"/usr/bin">>
MCArchitectureOrder == <<"arm64", "armv7", "i386", "x86_64">>
MCUser == [uid |-> "501", name |-> "me", gid |-> "20", group |-> "staff", home |-> "/Users/me"]
MCVariables == [SDKROOT |-> "iphoneos"] @@ ("_" :> "xcodebuild")
MCBuildSystems ==
    [id \in {"com.apple.build-system.core", "com.apple.build-system.native", "com.apple.build-system.external"} |->
       <<Parse("BUILD_DIR", <<Ref("SYMROOT")>>), Create("ARCHS", "x86_64"),
         Parse("OBJECT_FILE_DIR", <<Ref("PROJECT_TEMP_DIR"), Text("/Objects")>>)>>]
MCProductTypes == ("tool" :> [settings |-> << >>, packageTypes |-> <<"mach-o">>]) @@ ("lost" :> [settings |-> << >>, packageTypes |-> <<"none">>])
MCPackageTypes == "mach-o" :> <<Create("EXECUTABLE_SUFFIX", "")>>
Arch(identifier) == [identifier |-> identifier, realArchitectures |-> Nil, defaultSetting |-> Nil]
MCArchitectures ==
    ("macosx" :> <<Arch("i386"), Arch("x86_64"), [identifier |-> "Standard", realArchitectures |-> <<"x86_64">>, defaultSetting |-> Create("ARCHS_STANDARD", "x86_64")]>>)
    @@ ("iphoneos" :> <<Arch("armv7"), Arch("arm64")>>) @@ ("iphonesimulator" :> <<Arch("x86_64"), Arch("x86_64")>>)

-----------------------------------------------------------------------------
(* The places where settings are given, from the weakest to the strongest. *)
Places == {"projectFile", "project", "targetFile", "target", "override"}
Nothing == [place \in Places |-> << >>]
Given(place, level) == [Nothing EXCEPT ![place] = level]

Target(given, type, productType, configurations) ==
    [name |-> "T", product |-> "T", type |-> type, productType |-> productType, productReference |-> "T.app",
     configurations |-> [n \in DOMAIN configurations |-> [name |-> configurations[n], settings |-> given["target"], file |-> given["targetFile"]]]]
ProjectOf(given, type, productType, projects, targets) ==
    [line |-> << >>, name |-> "P", root |-> "/src", file |-> "/src/P.xcodeproj", region |-> "", hash |-> "h", action |-> "build", configuration |-> "Debug",
     configurations |-> [n \in DOMAIN projects |-> [name |-> projects[n], settings |-> given["project"], file |-> given["projectFile"]]],
     targets |-> "T" :> Target(given, type, productType, targets), overrides |-> <<given["override"], << >>>>]
Plain(given) == ProjectOf(given, "Native", "tool", <<"Release", "Debug">>, <<"Debug">>)

SDKs == {<<Text("macosx")>>, <<Text("iphonesimulator")>>, <<Text("iphoneos9.2")>>, <<Text(X \o "/Platforms/macosx.platform")>>,
         <<Ref("MY_SDK")>>, <<Ref("inherited")>>, <<Nested(<<Text("MY_"), Ref("KIND")>>)>>}
Mine == <<Create("MY_SDK", "macosx"), Create("KIND", "SDK")>>
Asking == {[Given(place, <<Parse("SDKROOT", sdk)>>) EXCEPT !["project"] = @ \o Mine] : place \in Places, sdk \in SDKs}
Twice == {[Given("projectFile", <<Create("SDKROOT", "macosx")>>) EXCEPT ![place] = <<Parse("SDKROOT", <<Text("iphone"), Ref("WHAT")>>), Create("WHAT", what)>>] :
             place \in {"targetFile", "target", "override"}, what \in {"os", "simulator"}}
Toolchains == {Given("target", <<Create("SDKROOT", "iphoneos9.2"), Create("TOOLCHAINS", t)>>) :
                  t \in {"Swift", Default, "gone Extra", X \o "/Toolchains/Swift.xctoolchain", "/link", ""}}
Circles == {Given("target", s) :
    s \in {<<Parse("A", <<Ref("B")>>), Parse("B", <<Ref("A")>>)>>, <<Parse("A", <<Ref("A:upper")>>)>>, <<Parse("ARCHS", <<Ref("ARCHS"), Text(" i386")>>)>>,
           <<Parse("ARCHS", <<Ref("inherited")>>)>>, <<Parse("ARCHS", <<Ref("A")>>), Parse("A", <<Ref("ARCHS")>>)>>, <<Parse("SDKROOT", <<Ref("SDKROOT")>>)>>,
           <<Parse("SDKROOT", <<Ref("SDKROOT:lower")>>)>>, <<Parse("A", <<Text("x")>>), Conditional("A", "sdk" :> {"iphoneos"}, <<Ref("A")>>)>>,
           <<Parse("HOME", <<Ref("USER_LIBRARY_DIR")>>)>>, <<Parse("A", <<Ref("inherited:upper")>>)>>}}
BuiltProjects == {Plain(g) : g \in {Nothing} \cup Asking \cup Twice \cup Toolchains \cup Circles}
    \cup {ProjectOf(Nothing, type, "tool", <<"Debug">>, <<"Debug">>) : type \in {"Legacy", "Aggregate"}}
    \cup {ProjectOf(Nothing, "Native", t, <<"Debug">>, <<"Debug">>) : t \in {"lost", "unknown"}}
    \cup {ProjectOf(Nothing, "Native", "tool", p, t) : p, t \in {<<"Debug">>, <<"Release">>}}

-----------------------------------------------------------------------------
LinesOver(characters, n) == UNION {[1..k -> characters] : k \in 1..n}
Lines == LinesOver({"a", "$", "(", ")", "="}, LineLength) \cup LinesOver({"a", "b", "$", "{", "}"}, LineLength - 1)
         \cup LinesOver({"a", " ", "'", "\"", "\\"}, LineLength) \cup {<<"a", "[">> \o l \o <<"]", "=", "b">> : l \in LinesOver({"a", "=", ",", "]", "["}, LineLength)}

(* A line comes with a project that nothing is done for.  What is installed *)
(* and selected changes only for projects where a script may notice.        *)
NoLine == << >>
Reading(line) == [Plain(Nothing) EXCEPT !.line = line]
MCProjects == BuiltProjects \cup {Reading(line) : line \in Lines}
Noticing == {Plain(g) : g \in {Nothing} \cup Toolchains}
Explored == project.line = NoLine /\ (changes' # changes => project \in Noticing)

IsName(text) == text # << >> /\ \A i \in DOMAIN text : text[i] \in {"a", "b"}
Holds(text, c) == \E i \in DOMAIN text : text[i] = c

(* What is read from a line is read again from what it is written as: the   *)
(* words of a list, a value whose references have one kind of brackets, and *)
(* a setting with conditions; the key would end at a bracket in the value   *)
(* (Type::ParseList and FormatList, Value::Parse and raw, Setting::Parse).  *)
LinesSurvive ==
    LET line == project.line
    IN  line # NoLine =>
        LET words == Syntax!ParseList(line)
            value == Syntax!ParseValue(line)
            setting == Syntax!ParseSetting(line)
        IN  /\ Syntax!ParseList(Syntax!FormatList(words)) = words
            /\ ~(Holds(line, "{") /\ Holds(line, ")")) => Syntax!ParseValue(Syntax!Raw(value)) = value
            /\ (IsName(setting.key) /\ ~Holds(Syntax!Raw(setting.value), "[")
                   /\ \A c \in setting.conditions : IsName(c[1]) /\ ~Holds(c[2], "]") /\ ~Holds(c[2], ",") /\ ~Holds(c[2], "[") /\ ~Holds(c[2], "="))
                  => Syntax!ParseSetting(Syntax!WriteSetting(setting)) = setting
===========================================================================
