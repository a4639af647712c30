------------------------- MODULE MCWorkspaceContext -------------------------
(***************************************************************************)
(* Small disks for WorkspaceContext: a project with an object of each class *)
(* whose targets depend on each other; workspaces of projects that refer to *)
(* each other, along two ways or in a circle, with configuration files that *)
(* include others; schemes of the same name in several containers.          *)
(***************************************************************************)
EXTENDS WorkspaceContext

Obj(isa, keys, refs) ==
  [isa |-> isa, keys |-> keys \cup {"isa"}, refs |-> refs, name |-> << >>, path |-> << >>, sourceTree |-> "<group>"]

At(path, item)      == [item EXCEPT !.path = path, !.keys = @ \cup {"path", "sourceTree"}]
In(tree, path, item) == [At(path, item) EXCEPT !.sourceTree = tree]
Called(name, item)  == [item EXCEPT !.name = <<name>>, !.keys = @ \cup {"name"}]

SourceFile(path) == At(<<path>>, Obj("PBXFileReference", {"fileEncoding"}, << >>))

List(ids)      == Obj("XCConfigurationList", {"defaultConfigurationIsVisible"}, [buildConfigurations |-> ids])
DefaultList(name, ids) == Called(name, [List(ids) EXCEPT !.keys = @ \cup {"defaultConfigurationName"}])
Based(file)    == Obj("XCBuildConfiguration", {"name", "buildSettings"}, [baseConfigurationReference |-> <<file>>])

ProjectFile(rootObject, all) ==
  [defect |-> NONE, rootObject |-> rootObject, directory |-> << >>, objects |-> all]

\* One object of each class.  The targets depend on each other; the group of
\* sources is in both groups at the top, or in itself.
RichProject(sourcesIn, productsIn, versions, dependency) ==
  ProjectFile("project",
    [project |-> Obj("PBXProject", {"attributes", "knownRegions", "developmentRegion"},
       [buildConfigurationList |-> <<"list">>, mainGroup |-> <<"main">>, productRefGroup |-> <<"products">>,
        projectReferences |-> << >>, targets |-> <<"app", "tool", "all", "missing">>]),
     list |-> DefaultList("Release", <<"debug">>),
     debug |-> Based("config"),
     config |-> SourceFile("App.xcconfig"),
     main |-> Obj("PBXGroup", {"tabWidth"}, [children |-> <<"config", "sources", "products">>]),
     sources |-> Called("Sources", At(<<"src">>, Obj("PBXGroup", {}, [children |-> sourcesIn]))),
     products |-> Obj("PBXGroup", {"unknown"}, [children |-> productsIn]),
     source |-> SourceFile("main.m"),
     strings |-> Called("Strings", Obj("PBXVariantGroup", {}, [children |-> <<"english">>])),
     english |-> SourceFile("en.strings"),
     model |-> Called("Model", Obj("XCVersionGroup", {"versionGroupType"},
                 [children |-> versions, currentVersion |-> <<"second">>])),
     first |-> SourceFile("first.xcdatamodel"),
     second |-> SourceFile("second.xcdatamodel"),
     product |-> In("BUILT_PRODUCTS_DIR", <<"App.app">>, Obj("PBXFileReference", {"explicitFileType"}, << >>)),
     library |-> In("BUILT_PRODUCTS_DIR", <<"libX.a">>, Obj("PBXReferenceProxy", {"fileType"}, [remoteRef |-> <<"remote">>])),
     remote |-> Obj("PBXContainerItemProxy", {"proxyType", "remoteInfo"}, [containerPortal |-> <<"other">>]),
     other |-> SourceFile("X.xcodeproj"),
     app |-> Obj("PBXNativeTarget", {"name", "productName", "productType"},
       [buildConfigurationList |-> <<"list">>,
        buildPhases |-> <<"headers", "compile", "resources", "link", "copy", "script", "applescript", "rez">>,
        dependencies |-> <<"onTool">>, productReference |-> <<"product">>, buildRules |-> <<"rule", "source">>]),
     tool |-> Obj("PBXLegacyTarget", {"name", "buildToolPath"}, [dependencies |-> <<"onAll">>, buildPhases |-> <<"list">>]),
     all |-> Obj("PBXAggregateTarget", {"name"}, [dependencies |-> <<"back">>]),
     onTool |-> Obj("PBXTargetDependency", {}, [target |-> <<"tool">>, targetProxy |-> <<"remote">>]),
     onAll |-> Obj("PBXTargetDependency", {"name"}, [target |-> <<"all">>]),
     back |-> Obj("PBXTargetDependency", {}, [target |-> <<dependency>>]),
     headers |-> Obj("PBXHeadersBuildPhase", {"buildActionMask"}, << >>),
     compile |-> Obj("PBXSourcesBuildPhase", {}, [files |-> <<"build1", "build2", "source">>]),
     resources |-> Obj("PBXResourcesBuildPhase", {}, [files |-> <<"build3">>]),
     link |-> Obj("PBXFrameworksBuildPhase", {}, [files |-> <<"build4">>]),
     copy |-> Obj("PBXCopyFilesBuildPhase", {"dstPath"}, [files |-> <<"build1">>]),
     script |-> Obj("PBXShellScriptBuildPhase", {"shellScript"}, << >>),
     applescript |-> Obj("PBXAppleScriptBuildPhase", {"contextName"}, << >>),
     rez |-> Obj("PBXRezBuildPhase", {}, << >>),
     rule |-> Obj("PBXBuildRule", {"compilerSpec", "script"}, << >>),
     build1 |-> Obj("PBXBuildFile", {"settings"}, [fileRef |-> <<"source">>]),
     build2 |-> Obj("PBXBuildFile", {}, [fileRef |-> <<"model">>]),
     build3 |-> Obj("PBXBuildFile", {}, [fileRef |-> <<"strings">>]),
     build4 |-> Obj("PBXBuildFile", {}, [fileRef |-> <<"library">>])])

\* A project with one target, a configuration file for each, and references.
PlainProject(configurations, files, folder) ==
  LET names == [n \in DOMAIN files |-> "p" \o ToString(n)]
  IN  ProjectFile("project",
        [project |-> Obj("PBXProject", {"projectRoot"},
           [buildConfigurationList |-> <<"list">>, mainGroup |-> <<"main">>,
            projectReferences |-> FlattenSeq([n \in DOMAIN files |-> <<"products", names[n]>>]),
            targets |-> <<"target">>]),
         list |-> DefaultList("Debug", configurations),
         targetList |-> List(<<"special">>),
         debug |-> Based("config"),
         special |-> Based("targetConfig"),
         main |-> At(folder, Obj("PBXGroup", {}, [children |-> <<"config", "targetConfig", "inner">>])),
         inner |-> Obj("PBXGroup", {}, [children |-> names]),
         products |-> Obj("PBXGroup", {}, << >>),
         config |-> SourceFile("base.xcconfig"),
         targetConfig |-> SourceFile("target.xcconfig"),
         target |-> Obj("PBXNativeTarget", {"name"}, [buildConfigurationList |-> <<"targetList">>])]
        @@ [name \in ToSet(names) |-> At(files[CHOOSE n \in DOMAIN files : names[n] = name], Obj("PBXFileReference", {}, << >>))])

-----------------------------------------------------------------------------

Attr(kind, value) == [kind |-> kind, value |-> value]
Elem(tag, up, attributes) == [tag |-> tag, up |-> up, attributes |-> attributes]

Buildable(up, kind, path, target) ==
  Elem("BuildableReference", up,
       [ReferencedContainer |-> Attr("text", [kind |-> kind, path |-> path]),
        BlueprintIdentifier |-> Attr("text", target), BuildableName |-> Attr("switch", TRUE)])

\* The build action comes first, with an entry for each of the buildables.
Document(configuration, buildables, rest) ==
  <<Elem("Scheme", 0, [LastUpgradeVersion |-> Attr("number", "0640")]),
    Elem("BuildAction", 1, [parallelizeBuildables |-> Attr("switch", TRUE), buildConfiguration |-> configuration]),
    Elem("BuildActionEntries", 2, << >>)>> \o
  FlattenSeq([n \in DOMAIN buildables |->
    <<Elem("BuildActionEntry", 3, [buildForRunning |-> Attr("switch", TRUE)]),
      Buildable(2 + 2 * n, buildables[n][1], buildables[n][2], buildables[n][3])>>]) \o rest

SchemeFile(name, document) == [name |-> name, readable |-> TRUE, document |-> document]

Container(shared, user) == [shared |-> shared, user |-> user]

Options(workspace, project, scheme, configuration) ==
  [workspace |-> workspace, project |-> project, scheme |-> scheme, configuration |-> configuration, action |-> "build"]

Disk(projects, workspaces, configFiles, schemes, arguments) ==
  [projects |-> projects, links |-> [p \in {<<"w", "link">>} |-> <<"w", "B">>], workspaces |-> workspaces,
   configs |-> configFiles, schemes |-> schemes, here |-> DOMAIN projects,
   variables |-> [v \in {"BUILT_PRODUCTS_DIR"} |-> << >>], arguments |-> arguments]

Launch == <<Elem("LaunchAction", 1, [launchStyle |-> Attr("number", "0"), useCustomWorkingDirectory |-> Attr("switch", TRUE)]),
            Elem("TestAction", 1, << >>), Elem("ArchiveAction", 1, [buildConfiguration |-> Attr("text", "Release")])>>

NoConfigs == [p \in {} |-> << >>]
None      == [p \in {} |-> Container({}, {})]

Rich ==
  {Disk(<<"w", "App">> :> RichProject(sources, products, versions, dependency),
        << >>, <<"w", "App.xcconfig">> :> <<<< >>>>, None, Options(NONE, project, "", ""))
     : sources \in {<<"source", "strings", "model">>, <<"source", "sources", "model">>, <<"model", "remote", "missing">>},
       products \in {<<"product", "library">>, <<"product", "sources">>},
       versions \in {<<"first", "second">>, << >>}, dependency \in {"app", "all", "missing"},
       project \in {NONE, <<"w", "App">>}}

\* The project at w/A refers to others, these to others again.
Four(a, b, c, configs4) ==
  (<<"w", "A">> :> PlainProject(configs4, a, << >>)) @@ (<<"w", "B">> :> PlainProject(<<"debug">>, b, << >>)) @@
  (<<"w", "in", "C">> :> PlainProject(<<"debug">>, c, << >>))

ConfigFiles(first, second) ==
  (<<"w", "base.xcconfig">> :> first) @@ (<<"w", "target.xcconfig">> :> second) @@
  (<<"w", "in", "target.xcconfig">> :> <<<< >>>>) @@ (<<"w", "shared">> :> <<<< >>, <<"w", "target.xcconfig">>>>)

ASchemes(rest, user) ==
  (<<"w", "A">> :> Container({SchemeFile("All", Document(Attr("text", "Release"),
                                <<<<"container", <<"A">>, "target">>, <<"container", <<"in", "C">>, "target">>>>, rest))}, user)) @@
  (<<"w", "in", "C">> :> Container({SchemeFile("All", Document(Attr("switch", TRUE), <<<<"container", <<"C">>, "target">>>>, << >>)),
                                    SchemeFile("C", <<Elem("Scheme", 0, << >>)>>),
                                    [SchemeFile("bad", << >>) EXCEPT !.readable = FALSE]}, {}))

Users == {{}, {SchemeFile("Mine", Document(Attr("text", ""), <<<<"absolute", <<"w", "B">>, "target">>, <<"container", <<"B">>, "other">>>>, << >>))}}

Nested ==
  {Disk(Four(a, b, c, <<"debug">>), << >>, ConfigFiles(first, second), ASchemes(Launch, user), Options(NONE, <<"w", "A">>, scheme, ""))
     : a \in {<<<<"B">>>>, <<<<"B">>, <<"in", "C">>>>}, b \in {<<<<"in", "C">>, <<"unknown">>>>, <<<<"link">>>>},
       c \in {<< >>}, first \in {<<<< >>, <<"w", "shared">>>>, <<<<"bad">>>>},
       second \in {<<<< >>>>}, user \in Users, scheme \in {"All", "C"}} \cup
  {Disk(Four(<<<<"B">>>>, <<<<"A">>>>, << >>, <<"debug">>), << >>, ConfigFiles(<<<< >>>>, second), None, Options(NONE, <<"w", "A">>, "", "Debug"))
     : second \in {<<<< >>>>, <<<<"w", "shared">>>>, <<<<"bad">>, <<"w", "shared">>>>}}

Node(tag, up, kind, path) == [tag |-> tag, up |-> up, kind |-> kind, path |-> path]

WorkspaceOf(items) == <<"w", "W">> :> [defect |-> NONE, items |-> items]

Workspaces ==
  {Disk(Four(<< >>, b, << >>, <<"debug">>), WorkspaceOf(items), ConfigFiles(<<<< >>>>, <<<< >>>>),
        (<<"w", "W">> :> Container({SchemeFile("All", Document(Attr("text", "Debug"), <<<<"container", <<"B">>, "target">>>>, Launch))}, {})) @@ ASchemes(Launch, user),
        Options(<<"w", "W">>, NONE, scheme, configuration))
     : b \in {<< >>, <<<<"in", "C">>>>},
       items \in {<<Node("Group", 0, "group", <<"in">>), Node("FileRef", 1, "group", <<"C">>), Node("FileRef", 0, "container", <<"link">>),
                    Node("Group", 1, "container", << >>), Node("FileRef", 4, "group", <<"A">>)>>,
                  <<Node("FileRef", 0, "self", <<"w", "A">>), Node("FileRef", 0, "absolute", <<"w", "notes">>)>>},
       user \in Users, scheme \in {"All", "Mine", "", "missing"}, configuration \in {"", "Debug"}}

Failures ==
  LET plain == Four(<<<<"B">>>>, << >>, << >>, <<"debug">>)
      asked == Options(NONE, <<"w", "A">>, "", "")
  IN  {Disk(plain, << >>, NoConfigs, None, Options(NONE, NONE, "", "")),
       Disk(plain, << >>, NoConfigs, None, Options(NONE, <<"w", "unknown">>, "", "")),
       Disk(plain, << >>, NoConfigs, None, Options(<<"w", "unknown">>, NONE, "", "")),
       Disk(plain, << >>, NoConfigs, None, [asked EXCEPT !.action = "test"]),
       Disk(Four(<< >>, << >>, << >>, <<"debug", "missing">>), << >>, NoConfigs, None, asked),
       Disk([plain EXCEPT ![<<"w", "A">>].objects.p1 = Obj("PBXGroup", {}, << >>)], << >>, NoConfigs, None, asked),
       Disk([plain EXCEPT ![<<"w", "B">>].defect = "no object version"], << >>, NoConfigs, None, asked),
       Disk([plain EXCEPT ![<<"w", "A">>].objects.inner.refs.children = <<"p1", "main">>], << >>, NoConfigs, None, asked),
       Disk([plain EXCEPT ![<<"w", "A">>].objects.products.refs = [children |-> <<"p1", "products">>]], << >>, NoConfigs, None, asked),
       Disk([plain EXCEPT ![<<"w", "A">>].rootObject = "target"], << >>, NoConfigs, None, asked),
       Disk([plain EXCEPT ![<<"w", "A">>].objects.project.refs.buildConfigurationList = << >>], << >>, NoConfigs, None, asked),
       Disk(plain, << >>, NoConfigs,
            <<"w", "A">> :> Container({SchemeFile("A", Document(Attr("text", "Debug"), << >>, <<Elem("LaunchAction", 1, [launchStyle |-> Attr("text", "auto")])>>))}, {}), asked)}

MCDisks == Rich \cup Nested \cup Workspaces \cup Failures
=============================================================================
