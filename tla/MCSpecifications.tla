--------------------------- MODULE MCSpecifications ---------------------------
(***************************************************************************)
(* Small catalogs for BuildRules: a chain of tools over files and domains,  *)
(* file types that a platform redefines, bases that are cyclic, missing or  *)
(* found by a later call, files that do not parse, and a last call that     *)
(* names a domain again.                                                   *)
(***************************************************************************)
EXTENDS BuildRules

Option(name, complete) == [name |-> name, complete |-> complete]

Spec3(type, domain, identifier, basedOn, keys) ==
  [type |-> type, domain |-> domain, identifier |-> identifier, basedOn |-> basedOn, keys |-> keys,
   options |-> << >>, inputFileTypes |-> {}]

FileOf(entries) == [defaultType |-> "none", entries |-> entries]
OldFileOf(entries) == [defaultType |-> "FileType", entries |-> entries]

CoreBuildSystem == Spec3("BuildSystem", "default", "com.apple.build-system.core", << >>, {"Properties"})

\* The files of two places; the last call comes too late.
Places(default, platform) ==
  [developer |-> default, plugins |-> {}, embedded |-> {}, device |-> {}, simulator |-> {}, shared |-> {},
   iphoneos |-> platform, watchkit |-> {"late"}]

Catalog(entries, files, places) ==
  [entries |-> entries, files |-> files, places |-> places, platforms |-> {"iphoneos"},
   buildRules |-> <<[fileType |-> "sourcecode", compilerSpec |-> "clang"]>>]

\* Tools in a chain, each with some of the values and with options.
ToolKeySets == {{}, {"Outputs", "ExecPath"}, {"Options", "ExecPath"}, {"Outputs", "Options", "InputFileTypes", "SynthesizeBuildRule"}}

Compilers(first, second, third) ==
  LET tool(identifier, basedOn, domain, keys) ==
        [Spec3("Compiler", domain, identifier, basedOn, keys) EXCEPT
           !.options = <<Option("OPT_ALL", TRUE), Option("OPT_" \o identifier, identifier # "cc"), Option("OPT_ALL", TRUE)>>,
           !.inputFileTypes = {"sourcecode"}]
  IN  Catalog(
        [core |-> CoreBuildSystem,
         late |-> Spec3("FileType", "default", "late", << >>, {"Extensions"}),
         cc |-> tool("cc", << >>, "default", first),
         clang |-> tool("clang", <<"default", "cc">>, "default", second),
         swift |-> tool("swift", <<"default", "clang">>, "iphoneos", third),
         lto |-> [tool("lto", <<"default", "clang">>, "default", third) EXCEPT !.domain = "default"],
         source |-> Spec3("FileType", "default", "sourcecode", << >>, {"Extensions"})],
        [core |-> FileOf(<<"core", "source">>), late |-> FileOf(<<"late">>),
         one |-> FileOf(<<"clang", "lto">>), two |-> FileOf(<<"cc">>), three |-> FileOf(<<"swift">>)],
        Places({"core", "one", "two"}, {"three"}))

\* A platform has its own version of a file type, based on the first or not.
FileTypeCatalog(origin, keys) ==
  Catalog(
    [core |-> CoreBuildSystem,
     late |-> Spec3("FileType", "default", "late", << >>, {"Extensions"}),
     clang |-> [Spec3("Compiler", "default", "clang", << >>, {"InputFileTypes", "SynthesizeBuildRule"}) EXCEPT
                  !.inputFileTypes = {"sourcecode"}],
     file |-> Spec3("", "default", "file", << >>, {}),
     folder |-> Spec3("", "default", "folder", <<"default", "file">>, {"IsFolder"}),
     text |-> Spec3("", "default", "text", <<"default", "file">>, {"Extensions", "FilenamePatterns"}),
     source |-> Spec3("FileType", "default", "sourcecode", <<"default", "text">>, keys),
     plus |-> Spec3("FileType", "default", "sourcecode.cpp", <<"default", "sourcecode">>, {"Extensions"}),
     again |-> Spec3("FileType", "default", "text", <<"default", "file">>, {"Prefix"}),
     phone |-> Spec3("FileType", "iphoneos", "sourcecode", origin, {"MagicWord", "Extensions"})],
    [core |-> FileOf(<<"core", "clang">>), late |-> FileOf(<<"late">>),
     old |-> OldFileOf(<<"file", "folder", "text">>), new |-> FileOf(<<"plus", "source", "again">>),
     bad |-> FileOf(<<"plus", "malformed">>), platform |-> FileOf(<<"phone">>)],
    Places({"core", "old", "new", "bad"}, {"platform"}))

\* Products: bases that a later call brings, or none, or each other.
ProductCatalog(system, appBase, watchBase, keys) ==
  Catalog(
    [core |-> system,
     late |-> Spec3("ProductType", "default", "late", << >>, {"HasInfoPlist"}),
     app |-> Spec3("ProductType", "default", "application", appBase, keys),
     watch |-> Spec3("ProductType", "iphoneos", "watch", watchBase, {"DefaultBuildProperties"}),
     plugin |-> Spec3("ProductType", "iphoneos", "plugin", <<"default", "application">>, {"IsWrapper", "DefaultBuildProperties"}),
     package |-> Spec3("PackageType", "default", "wrapper", << >>, {"ProductReference", "DefaultBuildSettings"})],
    [core |-> FileOf(<<"core", "package">>), late |-> FileOf(<<"late">>),
     one |-> FileOf(<<"app">>), two |-> FileOf(<<"watch", "plugin">>)],
    Places({"core", "one"}, {"two"}))

MCCatalogs ==
  {Compilers(a, b, c) : a, b, c \in ToolKeySets} \cup
  {FileTypeCatalog(origin, keys) : origin \in {<<"default", "sourcecode">>, <<"default", "text">>, << >>},
                                 keys \in {{"Extensions"}, {"Extensions", "Prefix"}, {"Permissions"}}} \cup
  {ProductCatalog(system, app, watch, keys) :
     system \in {CoreBuildSystem, [CoreBuildSystem EXCEPT !.identifier = "com.apple.build-system.native"]},
     app \in {<<"iphoneos", "watch">>, <<"default", "unknown">>, <<"default", "application">>, <<"default", "late">>},
     watch \in {<<"default", "application">>, <<"default", "watch">>, << >>},
     keys \in {{"DefaultBuildProperties", "WantsSimpleTargetEditing"}, {"HasInfoPlist"}}}

\* Files as the checks of the specifications see them.
File(readable, folder, explicit, passes) ==
  [readable |-> readable, folder |-> folder, explicitFileType |-> explicit, lastKnownFileType |-> "",
   passes |-> [check \in Checks |-> passes], patterns |-> {}]

MCFiles ==
  {File(TRUE, FALSE, "", {"text", "source", "again", "phone"}),
   File(TRUE, FALSE, "sourcecode", {"source", "plus"}),
   File(FALSE, FALSE, "sourcecode.cpp", {"text", "plus"}),
   File(TRUE, TRUE, "", {}),
   [File(FALSE, FALSE, "", {"source"}) EXCEPT !.lastKnownFileType = "text", !.patterns = {"*.special"}]}

MCTargets ==
  {[domains |-> <<"iphoneos", "default">>,
    buildRules |-> <<[compilerSpec |-> "com.apple.compilers.proxy.script", fileType |-> "pattern.proxy", pattern |-> "*.special"]>>],
   [domains |-> <<"default">>,
    buildRules |-> <<[compilerSpec |-> "clang", fileType |-> "text", pattern |-> ""],
                     [compilerSpec |-> "unknown", fileType |-> "text", pattern |-> ""]>>]}
=============================================================================
