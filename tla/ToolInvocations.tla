---------------------------- MODULE ToolInvocations ----------------------------
(***************************************************************************)
(* The resolvers of pbxbuild::Tool: each takes what was resolved so far     *)
(* (Tool::Context) and adds the invocations of its tool, the auxiliary      *)
(* files they read, and what later resolvers need to know of them: header   *)
(* maps, module maps, Swift modules, the linker driver, objects to link.    *)
(***************************************************************************)
EXTENDS Integers, TLC, Sequences, SequencesExt, FiniteSets, HeaderMaps

(***************************************************************************)
(* What the resolvers of all tools share (pbxbuild::Tool::Environment,      *)
(* OptionsResult, Tokens, SearchPaths, CompilerCommon): the settings a tool *)
(* sees, the files it names with them, and its arguments.                   *)
(*                                                                         *)
(* A path is a directory (its components), a base name and an extension; an *)
(* argument is a flag and the components of a path, or one text.  Settings  *)
(* are a function from names; the text of a setting is a string, and what   *)
(* the code splits or joins as a path is a sequence or a path.              *)
(***************************************************************************)

Path(dir, base, ext) == [dir |-> dir, base |-> base, ext |-> ext]
FileName(path) == IF path.ext = "" THEN path.base ELSE path.base \o "." \o path.ext
Components(path) == Append(path.dir, FileName(path))
AsFile(dir) == Path(Front(dir), Last(dir), "")
InDirectory(dir, path) == Path(dir, path.base, path.ext)
LocalizedDirectory(dir, localization) == IF localization = "" THEN dir ELSE Append(dir, localization \o ".lproj")

\* A path that starts with "." is in the working directory.
ResolveRelative(dir, workingDirectory) ==
  IF dir # << >> /\ Head(dir) = "." THEN workingDirectory \o Tail(dir) ELSE dir

Text(env, name)    == IF name \in DOMAIN env THEN env[name] ELSE ""
Folder(env, name)  == IF name \in DOMAIN env THEN env[name] ELSE << >>
Strings(env, name) == IF name \in DOMAIN env THEN env[name] ELSE << >>
Flag(env, name)    == Text(env, name) = "YES"
InsertFront(env, level)   == level @@ env
InsertDefault(env, level) == env @@ level
Distinct(s) == FoldLeft(LAMBDA seen, x : IF Contains(seen, x) THEN seen ELSE Append(seen, x), << >>, s)

-----------------------------------------------------------------------------
(* Tool::SearchPaths *)

\* A path of the system is looked for in the SDK first.
InSDK(env, directories, dir) ==
  LET inSDK == Folder(env, "SDKROOT") \o dir
  IN  IF dir # << >> /\ Head(dir) \in {"System", "usr"} /\ Contains(directories, inSDK) THEN inSDK ELSE dir

\* "**": the directory and every one in it.
WithDirectoriesIn(directories, dir) ==
  <<dir>> \o SelectSeq(directories, LAMBDA d : IsStrictPrefix(dir, d))

ExpandRecursive(env, directories, workingDirectory, paths) ==
  FoldLeft(LAMBDA all, p :
             LET dir == ResolveRelative(InSDK(env, directories, p.dir), workingDirectory)
             IN  all \o (IF p.recursive THEN WithDirectoriesIn(directories, dir) ELSE <<dir>>),
           << >>, paths)

SearchPaths(env, directories, workingDirectory) ==
  LET of(names) == ExpandRecursive(env, directories, workingDirectory,
                                   FoldLeft(LAMBDA all, n : all \o Strings(env, n), << >>, names))
  IN  [header    |-> of(<<"PRODUCT_TYPE_HEADER_SEARCH_PATHS", "HEADER_SEARCH_PATHS">>),
       user      |-> of(<<"USER_HEADER_SEARCH_PATHS">>),
       framework |-> of(<<"FRAMEWORK_SEARCH_PATHS", "PRODUCT_TYPE_FRAMEWORK_SEARCH_PATHS">>)]

-----------------------------------------------------------------------------
(* Tool::OptionsResult *)

\* Only == and != are understood; anything else holds unless it is "NO".
EvaluateCondition(env, c) ==
  CASE c.operator = "==" -> Text(env, c.setting) = c.value
    [] c.operator = "!=" -> Text(env, c.setting) # c.value
    [] OTHER             -> Text(env, c.setting) # "NO"

Allows(optional, value) == optional = << >> \/ value \in optional[1]

Applies(env, tool, option, type) ==
  /\ option.name \notin tool.deletedProperties
  /\ \A c \in option.conditions : EvaluateCondition(env, c)
  /\ Allows(option.architectures, Text(env, "arch"))
  /\ type = "" \/ Allows(option.fileTypes, type)

IsList(option) == option.type \in {"StringList", "PathList"}

\* A list passes its flag once for each value.
ValuesOf(env, option) ==
  IF IsList(option) THEN Strings(env, option.name)
  ELSE IF Text(env, option.name) = "" THEN << >> ELSE <<Text(env, option.name)>>
Flagged(flag, values) == [n \in DOMAIN values |-> <<flag, <<values[n]>>>>]

FlagArguments(env, option) ==
  IF option.type = "Boolean"
  THEN LET flag == IF Flag(env, option.name) THEN option.flag ELSE option.flagIfFalse
       IN  IF flag = "" THEN << >> ELSE <<<<flag, << >>>>>>
  ELSE IF option.flag = "" THEN << >> ELSE Flagged(option.flag, ValuesOf(env, option))

\* Arguments for one value of the setting, or else for any other.
ChosenArguments(env, option, choices) ==
  LET value == IF IsList(option) THEN "" ELSE Text(env, option.name)
      flags == IF value \in DOMAIN choices THEN choices[value]
               ELSE IF "<<otherwise>>" \in DOMAIN choices THEN choices["<<otherwise>>"] ELSE << >>
  IN  [n \in DOMAIN flags |-> <<flags[n], << >>>>]

OptionArguments(env, option) ==
  FlagArguments(env, option) \o ChosenArguments(env, option, option.values)
  \o (IF option.prefix = "" THEN << >> ELSE Flagged(option.prefix, ValuesOf(env, option)))
  \o ChosenArguments(env, option, option.args)

Options(env, tool, type) ==
  LET applied == SelectSeq(tool.options, LAMBDA o : Applies(env, tool, o, type))
  IN  [arguments  |-> FoldLeft(LAMBDA all, o : all \o OptionArguments(env, o), << >>, applied),
       linkerArgs |-> FoldLeft(LAMBDA all, o : all \o ChosenArguments(env, o, o.linkerArgs), << >>, applied)]

(* Tool::Tokens: the options and the resolver's own arguments, in the order *)
(* of the tool's command line; a tool without one has both.                 *)
ExpandTool(tool, executable, options, specialArgs, inputs, outputs) ==
  LET named == [n \in DOMAIN inputs |-> <<"", Components(inputs[n])>>]
      made  == [n \in DOMAIN outputs |-> <<"", Components(outputs[n])>>]
      value(token) ==
        CASE token = "options"      -> options.arguments
          [] token = "special-args" -> specialArgs
          [] token = "input"        -> SubSeq(named, 1, 1)
          [] token = "inputs"       -> named
          [] token = "output"       -> SubSeq(made, 1, 1)
          [] token = "outputs"      -> made
          [] OTHER                  -> <<<<token, << >>>>>>
  IN  [executable |-> IF executable # "" THEN executable ELSE tool.execPath,
       arguments  |-> FoldLeft(LAMBDA all, t : all \o value(t), << >>, tool.commandLine)]

-----------------------------------------------------------------------------
(* Tool::Environment *)

\* A file a specification names: after an input, after the output asked for, or by itself.
ExpandPath(env, t) ==
  LET dir == Folder(env, t.folder) \o t.subfolder
  IN  CASE t.name = "$(OutputPath)"    -> env["OutputPath"]
        [] t.name = "$(InputFileName)" -> InDirectory(dir, env["InputPath"])
        [] t.name = "$(InputFileBase)" -> Path(dir, env["InputPath"].base, t.ext)
        [] OTHER                       -> Path(dir, t.name, t.ext)

OutputLevel(path) == [OutputPath |-> path, OutputDir |-> path.dir]
InputLevel(input) == [InputPath |-> input.path]

ObjectsDir(env) == Append(Folder(env, "OBJECT_FILE_DIR_" \o Text(env, "variant")), Text(env, "arch"))

\* DerivedFilesDir is the name of the setting it was to be the value of.
ToolLevel(env, inputs) ==
  LET localization == IF inputs = << >> THEN "" ELSE Head(inputs).localization
      resources    == Folder(env, "TARGET_BUILD_DIR") \o Folder(env, "UNLOCALIZED_RESOURCES_FOLDER_PATH")
  IN  [DerivedFilesDir     |-> <<"DERIVED_FILES_DIR">>,
       ObjectsDir          |-> ObjectsDir(env),
       ProductResourcesDir |-> LocalizedDirectory(resources, localization),
       TempResourcesDir    |-> LocalizedDirectory(Folder(env, "TARGET_TEMP_DIR"), localization)]

WithInput(env, inputs)  == IF inputs = << >> THEN env ELSE InsertFront(env, InputLevel(Head(inputs)))
WithOutput(env, outputs) == IF outputs = << >> THEN env ELSE InsertFront(env, OutputLevel(Head(outputs)))

(* A tool that names outputs makes those, be there none; the outputs that   *)
(* are asked for are for a tool that names none.                            *)
ToolOutputs(tool, env, outputs) ==
  LET made(e, paths) == [env |-> WithOutput(e, paths), outputs |-> paths]
      asked == WithOutput(env, outputs)
  IN  CASE tool.outputs # << >> ->
             made(asked, [n \in DOMAIN tool.outputs[1] |-> ExpandPath(asked, tool.outputs[1][n])])
        [] tool.outputs = << >> /\ tool.outputPath # << >> -> made(env, <<ExpandPath(env, tool.outputPath[1])>>)
        [] OTHER -> made(env, outputs)

ToolEnvironment(tool, env, inputs, outputs) ==
  LET leveled == InsertFront(InsertDefault(env, tool.defaults), ToolLevel(env, inputs))
      made    == ToolOutputs(tool, WithInput(leveled, inputs), outputs)
  IN  [env |-> made.env, inputs |-> [n \in DOMAIN inputs |-> inputs[n].path], outputs |-> made.outputs]

-----------------------------------------------------------------------------
(* Tool::CompilerCommon, Tool::InterfaceBuilderCommon *)

Compound(flag, values) == [n \in DOMAIN values |-> <<flag, values[n]>>]
Texts(flag, values)    == [n \in DOMAIN values |-> <<flag, <<values[n]>>>>]

AppendIncludePathFlags(env, searchPaths, headermaps) ==
  Compound("-I", [n \in DOMAIN headermaps.system |-> Components(headermaps.system[n])])
  \o Compound("-iquote", [n \in DOMAIN headermaps.user |-> Components(headermaps.user[n])])
  \o (IF Flag(env, "USE_HEADER_SYMLINKS") THEN Compound("-I", <<Folder(env, "CPP_HEADER_SYMLINKS_DIR")>>) ELSE << >>)
  \o Compound("-I", <<Append(Folder(env, "BUILT_PRODUCTS_DIR"), "include")>> \o searchPaths.user \o searchPaths.header
                    \o <<Append(Folder(env, "DERIVED_FILE_DIR"), Text(env, "arch")), Folder(env, "DERIVED_FILE_DIR")>>)

(* Device families are numbers; a Mac has its own name.  An entry between    *)
(* two others is taken together with what follows it, and so is not known.  *)
TargetedDeviceNames(env) ==
  LET names == [f \in {"1", "2", "3", "4"} |->
                  CASE f = "1" -> "iphone" [] f = "2" -> "ipad" [] f = "3" -> "tv" [] f = "4" -> "watch"]
      all   == Strings(env, "TARGETED_DEVICE_FAMILY")
      ends  == IF Len(all) > 1 THEN <<Head(all), Last(all)>> ELSE all
      known == SelectSeq(ends, LAMBDA f : f \in DOMAIN names)
  IN  IF Text(env, "PLATFORM_NAME") = "macosx" THEN <<"mac">> ELSE [n \in DOMAIN known |-> names[known[n]]]

TargetedDevices(env) == InsertFront(env, [RESOURCES_TARGETED_DEVICE_FAMILY |-> TargetedDeviceNames(env)])

DeploymentTargetArguments(env) ==
  LET target == Text(env, Text(env, "DEPLOYMENT_TARGET_SETTING_NAME"))
  IN  IF target = "" THEN << >> ELSE <<<<"--minimum-deployment-target", <<target>>>>>>

-----------------------------------------------------------------------------

CONSTANTS
  Tools,        \* the specifications, by identifier
  FileTypes     \* of a type: dialect, whether it is a header or a framework

\* Tool::Context, with the priority of the phase that is resolved.
EmptyContext(workingDirectory, searchPaths, priority) ==
  [workingDirectory |-> workingDirectory, searchPaths |-> searchPaths, priority |-> priority,
   invocations |-> << >>, auxiliaryFiles |-> << >>,
   headermaps |-> [system |-> << >>, user |-> << >>], tables |-> << >>,
   moduleMap |-> << >>, privateModuleMap |-> << >>,
   linkerDriver |-> "", linkerArguments |-> << >>, precompiledHeaders |-> {},
   swiftModules |-> << >>, infoPlistContents |-> << >>, compiled |-> << >>]

\* Tool::Input; a file that is only a path has no type and no rule.
Input(path) ==
  [path |-> path, type |-> "", rule |-> << >>, disambiguator |-> "", localization |-> "", group |-> "",
   attributes |-> {}, flags |-> << >>]
Paths(inputs) == [n \in DOMAIN inputs |-> inputs[n].path]

\* Tool::Invocation; "about" is the variant and the architecture its log message names.
Invocation(ctx, tool, inputs, outputs) ==
  [tool |-> tool, inputs |-> ToSet(inputs), outputs |-> ToSet(outputs), phonyInputs |-> {}, inputDependencies |-> {},
   arguments |-> << >>, about |-> <<"", "">>, priority |-> ctx.priority, dependencyInfo |-> {},
   createsProductStructure |-> FALSE, phony |-> FALSE, waitForSwiftArtifacts |-> FALSE]

Slice(env) == <<Text(env, "variant"), Text(env, "arch")>>
AddInvocation(ctx, invocation) == [ctx EXCEPT !.invocations = Append(@, invocation)]
AddAuxiliaryFiles(ctx, paths)  == [ctx EXCEPT !.auxiliaryFiles = @ \o paths]

-----------------------------------------------------------------------------
(* Tools that are all in their specification: ToolResolver, CopyResolver *)

WithOptions(ctx, id, env, inputs, outputs, specialArgs, executable) ==
  [Invocation(ctx, id, inputs, outputs) EXCEPT
     !.arguments = ExpandTool(Tools[id], executable, Options(env, Tools[id], ""), specialArgs, inputs, outputs).arguments,
     !.about = Slice(env),
     !.dependencyInfo = IF Tools[id].deeplyStatInputDirectories THEN ToSet(inputs) ELSE {}]

OfTool(ctx, id, made, specialArgs) == WithOptions(ctx, id, made.env, made.inputs, made.outputs, specialArgs, "")

ResolveTool(ctx, env, id, inputs, outputs) ==
  AddInvocation(ctx, OfTool(ctx, id, ToolEnvironment(Tools[id], env, inputs, outputs), << >>))

CopyOutputs(inputs, directory) == [n \in DOMAIN inputs |-> InDirectory(directory, inputs[n].path)]
ResolveCopy(ctx, env, inputs, directory) ==
  AddInvocation(ctx, OfTool(ctx, "copy", ToolEnvironment(Tools["copy"], env, inputs, CopyOutputs(inputs, directory)),
                            [n \in DOMAIN inputs |-> <<"", Components(inputs[n].path)>>] \o <<<<"", directory>>>>))

-----------------------------------------------------------------------------
(* Tools that need no specification to be run *)

ResolveDitto(ctx, source, destination) == AddInvocation(ctx, Invocation(ctx, "ditto", <<source>>, <<destination>>))

ResolveMakeDirectory(ctx, directory) ==
  AddInvocation(ctx, [Invocation(ctx, "mkdir", << >>, <<AsFile(directory)>>) EXCEPT !.createsProductStructure = TRUE])

ResolveSymlink(ctx, link, destination) ==
  AddInvocation(ctx, [Invocation(ctx, "symlink", << >>, <<link>>) EXCEPT
                        !.phonyInputs = {destination}, !.createsProductStructure = TRUE])

\* What is touched is an output: it is what changes.
ResolveTouch(ctx, path, dependencies) ==
  AddInvocation(ctx, [Invocation(ctx, "touch", << >>, <<path>>) EXCEPT !.inputDependencies = dependencies])

(* ScriptResolver: of a legacy target, of a phase, of a build rule *)
ResolveLegacyScript(ctx) == AddInvocation(ctx, Invocation(ctx, "script", << >>, << >>))

ResolveShellScript(ctx, env, phase) ==
  AddAuxiliaryFiles(
    AddInvocation(ctx, [Invocation(ctx, "script", << >>, phase.outputPaths) EXCEPT !.phonyInputs = ToSet(phase.inputPaths)]),
    <<Path(Folder(env, "TEMP_FILES_DIR"), "Script-" \o phase.name, "sh")>>)

ResolveRuleScript(ctx, env, input) ==
  LET ruleEnvironment == InsertFront(env, InputLevel(input))
      outputs == [n \in DOMAIN input.rule[1].outputs |-> ExpandPath(ruleEnvironment, input.rule[1].outputs[n])]
  IN  AddInvocation(ctx, [Invocation(ctx, "script", <<input.path>>, outputs) EXCEPT !.about = Slice(env)])

-----------------------------------------------------------------------------
(* ClangResolver *)

Dialect(type) == IF type = "" THEN "" ELSE FileTypes[type].dialect
DialectIsCPlusPlus(dialect) == dialect \in {"c++", "objective-c++"}
DialectFlags(dialect, suffix) == IF dialect = "" THEN << >> ELSE <<<<"-x", <<dialect \o suffix>>>>>>

CustomFlags(env, dialect) ==
  Texts("", Strings(env, "WARNING_CFLAGS") \o Strings(env, "OPTIMIZATION_CFLAGS")
            \o Strings(env, IF DialectIsCPlusPlus(dialect) THEN "OTHER_CPLUSPLUSFLAGS" ELSE "OTHER_CFLAGS")
            \o Strings(env, "OTHER_CFLAGS_" \o Text(env, "CURRENT_VARIANT"))
            \o Strings(env, "PER_ARCH_CFLAGS_" \o Text(env, "CURRENT_ARCH")))

NotUsedInPrecompsFlags(env) ==
  Texts("-D", Strings(env, "GCC_PREPROCESSOR_DEFINITIONS_NOT_USED_IN_PRECOMPS"))
  \o Texts("", Strings(env, "GCC_OTHER_CFLAGS_NOT_USED_IN_PRECOMPS"))

FrameworkPathFlags(env, searchPaths) == Compound("-F", <<Folder(env, "BUILT_PRODUCTS_DIR")>> \o searchPaths.framework)

\* What the source has in common with its precompiled header, but for the dialect.
CommonArguments(ctx, tool, env, type) ==
  ExpandTool(tool, "", Options(env, tool, type), << >>, << >>, << >>).arguments
  \o AppendIncludePathFlags(env, ctx.searchPaths, ctx.headermaps)
  \o FrameworkPathFlags(env, ctx.searchPaths) \o CustomFlags(env, Dialect(type))

\* The hash is of the arguments that are not known to leave a header as it is.
RelevantArguments(tool, arguments) == SelectSeq(arguments, LAMBDA a : a[1] \notin tool.flagsNotAffectingPrecomps)
Serialize(arguments) ==
  FoldLeft(LAMBDA text, a : text \o a[1] \o FoldLeft(LAMBDA s, c : s \o "/" \o c, "", a[2]) \o ";", "", arguments)
HashOfDialect(precompiled) == Serialize(SubSeq(precompiled.relevant, 1, 1))
Hash(precompiled) == Serialize(precompiled.relevant)

PrecompiledHeader(tool, prefixHeader, type, arguments) ==
  [prefixHeader |-> prefixHeader, type |-> type, arguments |-> arguments, relevant |-> RelevantArguments(tool, arguments)]

PrecompiledDirectory(env, hash) == Append(Folder(env, "PRECOMP_DESTINATION_DIR"), Text(env, "PRODUCT_NAME") \o "-" \o hash)
CompileOutputPath(env, pch, hash) == Path(PrecompiledDirectory(env, hash), FileName(pch.prefixHeader), "pch")
SerializedOutputPath(env, pch, hash) == Path(PrecompiledDirectory(env, hash), FileName(pch.prefixHeader), "hash-criteria")

ResolvePrecompiledHeader(ctx, env, id, pch, hash) ==
  LET made == ToolEnvironment(Tools[id], env, <<[Input(pch.prefixHeader) EXCEPT !.type = pch.type]>>, <<CompileOutputPath(env, pch, hash)>>)
  IN  AddAuxiliaryFiles(
        AddInvocation(ctx, [Invocation(ctx, id, made.inputs, made.outputs) EXCEPT
                              !.arguments = pch.arguments, !.about = Slice(env)]),
        <<SerializedOutputPath(env, pch, hash)>>)

WithPrecompiledHeaderOnce(ctx, env, id, pch, hash) ==
  IF ctx.precompiledHeaders # {} THEN ctx
  ELSE ResolvePrecompiledHeader([ctx EXCEPT !.precompiledHeaders = @ \cup {hash}], env, id, pch, hash)

\* A header is precompiled once for the sources that agree on its hash.
WithPrecompiledHeader(ctx, env, id, pch, hash) ==
  IF hash \in ctx.precompiledHeaders THEN ctx
  ELSE ResolvePrecompiledHeader([ctx EXCEPT !.precompiledHeaders = @ \cup {hash}], env, id, pch, hash)

\* A C++ source decides on the linker driver for good.
WithLinker(ctx, tool, dialect, linkerArgs) ==
  [ctx EXCEPT !.linkerDriver = IF DialectIsCPlusPlus(dialect) /\ tool.execCPlusPlusLinkerPath # "" THEN tool.execCPlusPlusLinkerPath
                               ELSE IF @ = "" THEN tool.execPath ELSE @,
              !.linkerArguments = FoldLeft(LAMBDA all, a : IF Contains(all, a) THEN all ELSE Append(all, a), @, linkerArgs)]

AddCompiledForAll(ctx, env, invocation) ==
  [ctx EXCEPT !.invocations = Append(@, invocation), !.compiled = Append(@, <<<<"normal", "">>, invocation.outputs>>)]
\* Its objects are linked into this slice of the product.
AddCompiled(ctx, env, invocation) ==
  [ctx EXCEPT !.invocations = Append(@, invocation), !.compiled = Append(@, <<Slice(env), invocation.outputs>>)]

SourceInvocation(ctx, id, made, arguments, dependencies) ==
  [Invocation(ctx, id, made.inputs, made.outputs) EXCEPT
     !.arguments = arguments, !.about = Slice(made.env),
     !.inputDependencies = ToSet(ctx.headermaps.system) \cup ToSet(ctx.headermaps.user) \cup dependencies,
     !.waitForSwiftArtifacts = TRUE]

\* With the header as it is, or precompiled, or without.
ResolveIncluding(ctx, env, id, input, made, common) ==
  LET prefix    == Text(made.env, "GCC_PREFIX_HEADER")
      header    == Path(ctx.workingDirectory, prefix, "")
      dialect   == Dialect(input.type)
      pch       == PrecompiledHeader(Tools[id], header, input.type, DialectFlags(dialect, "-header") \o common \o Texts("", input.flags))
      last      == NotUsedInPrecompsFlags(made.env) \o Texts("", input.flags)
      all(path) == DialectFlags(dialect, "") \o common \o (IF path = << >> THEN << >> ELSE <<<<"-include", path>>>>) \o last
      plain(path, needs) == AddCompiled(ctx, env, SourceInvocation(ctx, id, made, all(path), needs))
      precompiled(hash) ==
        WithPrecompiledHeader(
          AddCompiled(ctx, env, SourceInvocation(ctx, id, made, all(Append(PrecompiledDirectory(made.env, hash), FileName(header))),
                                                 {CompileOutputPath(made.env, pch, hash)})), env, id, pch, hash)
  IN  CASE prefix = ""                                    -> plain(<< >>, {})
        [] Flag(made.env, "GCC_PRECOMPILE_PREFIX_HEADER") -> precompiled(Hash(pch))
        [] OTHER                                          -> plain(Components(header), {header})

ObjectPathByName(tool, input, directory) == Path(directory, input.path.base, tool.outputFileExtension)
ObjectPath(tool, input, directory) ==
  Path(directory, IF input.disambiguator # "" THEN input.disambiguator ELSE input.path.base, tool.outputFileExtension)

ResolveSourceIn(ctx, env, id, input, made) ==
  WithLinker(ResolveIncluding(ctx, env, id, input, made, CommonArguments(ctx, Tools[id], made.env, input.type)),
             Tools[id], Dialect(input.type), Options(made.env, Tools[id], input.type).linkerArgs)

ResolveSource(ctx, env, id, input, directory) ==
  ResolveSourceIn(ctx, env, id, input,
                  ToolEnvironment(Tools[id], env, <<input>>, <<ObjectPath(Tools[id], input, directory)>>))

-----------------------------------------------------------------------------
(***************************************************************************)
(* The resolvers of the tools that work on more than one file: the Swift    *)
(* compiler, the linkers, the compilers of resources, the property list,    *)
(* module maps and header maps.                                             *)
(***************************************************************************)

-----------------------------------------------------------------------------
(* SwiftResolver: one compilation for all the files of a slice.  The files  *)
(* it makes are named after the sources, whatever other sources there are.  *)

SwiftOutputsOf(directory, input, bitcode) ==
  {Path(directory, input.path.base, ext) : ext \in {"o", "d", "swiftdeps"} \cup (IF bitcode THEN {"bc"} ELSE {})}
  \cup {Path(directory, input.path.base \o "~partial", "swiftmodule")}

ModulePath(directory, module) == Path(directory, module, "swiftmodule")
SwiftDocPath(directory, module) == Path(directory, module, "swiftdoc")

SwiftOutputs(env, directory, module, header, inputs) ==
  UNION {SwiftOutputsOf(directory, input, Flag(env, "ENABLE_BITCODE")) : input \in ToSet(inputs)}
  \cup {ModulePath(directory, module), SwiftDocPath(directory, module), Path(directory, header, "")}

\* The module map without the header that the compilation makes.
UnderlyingModuleFiles(ctx, env) ==
  IF ctx.moduleMap = << >> THEN << >>
  ELSE <<Path(Folder(env, "TARGET_TEMP_DIR"), "unextended-module", "modulemap"),
         Path(Folder(env, "TARGET_TEMP_DIR"), "unextended-module-overlay", "yaml")>>

UnderlyingModuleFlags(ctx, env) ==
  IF ctx.moduleMap = << >> THEN << >>
  ELSE <<<<"-import-underlying-module", << >>>>, <<"-ivfsoverlay", Components(UnderlyingModuleFiles(ctx, env)[2])>>>>

WholeModule(env) == Flag(env, "SWIFT_WHOLE_MODULE_OPTIMIZATION") \/ Text(env, "SWIFT_OPTIMIZATION_LEVEL") = "-Owholemodule"

SwiftFlags(ctx, env, inputs) ==
  LET products == Folder(env, "BUILT_PRODUCTS_DIR")
      library  == (\A input \in ToSet(inputs) : FileName(input.path) # "main.swift") /\ ~Flag(env, "SWIFT_LIBRARIES_ONLY")
      threads  == WholeModule(env) /\ Flag(env, "SWIFT_USE_PARALLEL_WHOLE_MODULE_OPTIMIZATION")
  IN  Compound("-I", <<products>>) \o Compound("-F", <<products>>)
      \o (IF library THEN <<<<"-parse-as-library", << >>>>>> ELSE << >>)
      \o <<<<IF threads THEN "-num-threads" ELSE "-j", <<"8">>>>>>
      \o AppendIncludePathFlags(env, ctx.searchPaths, ctx.headermaps)
      \o Texts("-D", Strings(env, "GCC_PREPROCESSOR_DEFINITIONS"))
      \o (IF Text(env, "SWIFT_OBJC_BRIDGING_HEADER") = "" THEN << >>
          ELSE <<<<"-import-objc-header", <<Text(env, "SWIFT_OBJC_BRIDGING_HEADER")>>>>>>)
      \o UnderlyingModuleFlags(ctx, env)

SwiftModule(env, directory, module, header) ==
  [architecture |-> Text(env, "arch"), name |-> module, module |-> ModulePath(directory, module),
   doc |-> SwiftDocPath(directory, module), header |-> Path(directory, header, ""),
   installHeader |-> Flag(env, "SWIFT_INSTALL_OBJC_HEADER"), copied |-> {}]

\* The library of the first toolchain that has one; the linker is clang unless it is known.
SwiftLinkerArguments(env, directory, module) ==
  (IF Strings(env, "SWIFT_LIBRARY_PATH") = << >> THEN << >> ELSE <<"-L">> \o Strings(env, "SWIFT_LIBRARY_PATH"))
  \o (IF Flag(env, "GCC_GENERATE_DEBUGGING_SYMBOLS") THEN <<"-add_ast_path", FileName(ModulePath(directory, module))>> ELSE << >>)

WithSwiftModule(ctx, env, directory, module, header) ==
  [ctx EXCEPT !.auxiliaryFiles = @ \o <<Path(directory, module \o "-OutputFileMap", "json")>> \o UnderlyingModuleFiles(ctx, env),
              !.swiftModules = Append(@, SwiftModule(env, directory, module, header)),
              !.linkerDriver = IF @ = "" THEN "clang" ELSE @,
              !.linkerArguments = @ \o SwiftLinkerArguments(env, directory, module)]

SwiftInvocation(ctx, env, directory, module, header, inputs) ==
  [Invocation(ctx, "swift", Paths(inputs), << >>) EXCEPT
     !.outputs = SwiftOutputs(env, directory, module, header, inputs),
     !.arguments = Options(env, Tools["swift"], "").arguments \o SwiftFlags(ctx, env, inputs),
     !.about = Slice(env),
     !.dependencyInfo = {Path(directory, input.path.base, "d") : input \in ToSet(inputs)}]

ResolveSwiftIn(ctx, env, directory, module, header, inputs) ==
  WithSwiftModule(AddCompiled(ctx, env, SwiftInvocation(ctx, env, directory, module, header, inputs)), env, directory, module, header)

ResolveSwift(ctx, env, inputs, directory) ==
  LET all == ToolEnvironment(Tools["swift"], env, inputs, << >>).env
  IN  ResolveSwiftIn(ctx, all, directory, Text(all, "SWIFT_MODULE_NAME"), Text(all, "SWIFT_OBJC_INTERFACE_HEADER_NAME"), inputs)

-----------------------------------------------------------------------------
(* LinkerResolver *)

IsFramework(input) == input.type # "" /\ FileTypes[input.type].framework

\* Only neighbours are compared.
WithoutRepeats(s) == FoldLeft(LAMBDA kept, x : IF kept # << >> /\ Last(kept) = x THEN kept ELSE Append(kept, x), << >>, s)

LibraryArguments(env, id, libraries) ==
  LET products == Folder(env, "BUILT_PRODUCTS_DIR")
      plain    == SelectSeq(libraries, LAMBDA l : ~IsFramework(l))
      archive  == id = "libtool" /\ Text(env, "MACH_O_TYPE") = "staticlib"
  IN  Compound("-L", WithoutRepeats([n \in DOMAIN plain |-> plain[n].path.dir]))
      \o (IF archive THEN << >> ELSE Compound("-F", <<products>>)) \o Compound("-L", <<products>>)
      \o [n \in DOMAIN libraries |-> <<IF IsFramework(libraries[n]) THEN "-framework" ELSE "-l", <<libraries[n].path.base>>>>]

LinkFileList(env, id) ==
  IF Tools[id].supportsInputFileList \/ id = "libtool"
  THEN <<env["LINK_FILE_LIST_" \o Text(env, "variant") \o "_" \o Text(env, "arch")]>>
  ELSE << >>

LinkerDependencies(env, id) == IF id = "ld" /\ Tools[id].dependencyInfoFile # << >> THEN {ExpandPath(env, Tools[id].dependencyInfoFile[1])} ELSE {}

ResolveLink(ctx, env, id, inputs, libraries, output, arguments, executable) ==
  LET made == ToolEnvironment(Tools[id], env, [n \in DOMAIN inputs |-> Input(inputs[n])], <<output>>)
      special == Texts("", arguments) \o LibraryArguments(env, id, libraries)
      known == WithOptions(ctx, id, made.env, made.inputs, made.outputs, special, executable)
  IN  AddAuxiliaryFiles(
        AddInvocation(ctx, [known EXCEPT !.arguments = IF id = "lipo" THEN SelectSeq(@, LAMBDA a : a[1] # "-arch_only") ELSE @,
                                         !.dependencyInfo = LinkerDependencies(made.env, id)]),
        LinkFileList(env, id))

-----------------------------------------------------------------------------
(* Resources: AssetCatalogResolver, InterfaceBuilderResolver and the linker *)
(* of storyboards.  What they say for the property list is a file of its.   *)

IsStrings(input) == input.type = "text.plist.strings"

WithPlistContent(ctx, env, id) ==
  [ctx EXCEPT !.infoPlistContents = @ \o [n \in DOMAIN Tools[id].plistContent |-> ExpandPath(env, Tools[id].plistContent[n])]]
PlistContent(env, id) == [n \in DOMAIN Tools[id].plistContent |-> ExpandPath(env, Tools[id].plistContent[n])]

ResourceInvocation(ctx, id, env, inputs, outputs) ==
  AddInvocation(WithPlistContent(ctx, env, id),
                [WithOptions(ctx, id, env, inputs, outputs \o PlistContent(env, id), << >>, "") EXCEPT
                   !.arguments = @ \o DeploymentTargetArguments(env)])

\* A tool that need not make all of its outputs has to make the first.
ResourceOutputs(id, outputs) == IF Tools[id].mightNotEmitAllOutputs THEN SubSeq(outputs, 1, 1) ELSE outputs

ResolveAssetCatalog(ctx, env, inputs) ==
  LET all == ToolEnvironment(Tools["actool"], TargetedDevices(env), << >>, << >>).env
  IN  ResourceInvocation(ctx, "actool", all, Paths(inputs), <<Path(Folder(all, "ProductResourcesDir"), "Assets", "car")>>)

\* Translations are named in the arguments only; changing one builds nothing again.
ResolveInterfaceBuilder(ctx, env, id, inputs) ==
  LET made == ToolEnvironment(Tools[id], TargetedDevices(env), SelectSeq(inputs, LAMBDA i : ~IsStrings(i)), << >>)
  IN  ResourceInvocation(ctx, id, made.env, made.inputs, ResourceOutputs(id, made.outputs))

RelativeTo(dir, path) == IF IsPrefix(dir, path.dir) THEN SubSeq(path.dir, Len(dir) + 1, Len(path.dir)) ELSE path.dir

ResolveStoryboardLinker(ctx, env, inputs) ==
  LET made  == ToolEnvironment(Tools["ibtoolStoryboardLinker"], TargetedDevices(env), [n \in DOMAIN inputs |-> Input(inputs[n])], << >>)
      output(path) == InDirectory(Folder(made.env, "ProductResourcesDir") \o RelativeTo(Folder(made.env, "TempResourcesDir"), path), path)
  IN  AddInvocation(ctx, Invocation(ctx, "ibtoolStoryboardLinker", inputs, [n \in DOMAIN inputs |-> output(inputs[n])]))

(* InfoPlistResolver *)
InfoPlistPath(env) == InDirectory(Folder(env, "TARGET_BUILD_DIR") \o env["INFOPLIST_PATH"].dir, env["INFOPLIST_PATH"])

ResolveInfoPlist(ctx, env, input) ==
  LET made == ToolEnvironment(Tools["infoPlist"], env, <<input>>, <<InfoPlistPath(env)>>)
  IN  AddInvocation(ctx, [Invocation(ctx, "infoPlist", made.inputs, made.outputs) EXCEPT
                            !.inputDependencies = ToSet(ctx.infoPlistContents)])

(* SwiftStandardLibraryResolver: what it copies is not known before. *)
ResolveSwiftStandardLibrary(ctx, env, executable, directories) ==
  AddInvocation(ctx, [Invocation(ctx, "swiftStdLib", <<executable>>, << >>) EXCEPT !.arguments = Compound("--scan-folder", directories)])

-----------------------------------------------------------------------------
(* ModuleMapResolver: the map is given, or made for the umbrella header,    *)
(* the header with the name of the module.                                  *)

HeadersIn(target) == FoldLeft(LAMBDA all, ph : IF ph.type = "Headers" THEN all \o ph.files ELSE all, << >>, target.phases)

HasUmbrellaHeader(env, target) ==
  \E file \in ToSet(HeadersIn(target)) :
    /\ file.kind = "file" /\ file.path.ext = "h"
    /\ LowerCaseOf[file.path.base] = LowerCaseOf[Text(env, "PRODUCT_MODULE_NAME")]

ModuleMapEntry(env, name) ==
  [intermediate |-> Path(Folder(env, "TARGET_TEMP_DIR"), name, "modulemap"),
   final |-> Append(Folder(env, "TARGET_BUILD_DIR") \o Folder(env, "CONTENTS_FOLDER_PATH"), "Modules")]

ResolveModuleMap(ctx, env, target) ==
  [ctx EXCEPT !.moduleMap = IF Text(env, "MODULEMAP_FILE") # "" \/ HasUmbrellaHeader(env, target)
                            THEN <<ModuleMapEntry(env, "module")>> ELSE @,
              !.privateModuleMap = IF Text(env, "MODULEMAP_PRIVATE_FILE") # ""
                                   THEN <<ModuleMapEntry(env, "module.private")>> ELSE @]

-----------------------------------------------------------------------------
(* HeadermapResolver *)

HeaderEntry(key, path) == Entry(key, Append(path.dir, ""), <<FileName(path)>>)
FlatEntry(path) == HeaderEntry(<<FileName(path)>>, path)
FrameworkEntry(target, path) == HeaderEntry(<<target.productName, FileName(path)>>, path)

\* Where the sources are, then the search paths.
HeadermapSearchPaths(ctx, target) ==
  LET sources == FoldLeft(LAMBDA all, ph : IF ph.type = "Sources" THEN all \o ph.files ELSE all, << >>, target.phases)
      files   == SelectSeq(sources, LAMBDA f : f.kind # "none")
  IN  Distinct([n \in DOMAIN files |-> files[n].path.dir] \o ctx.searchPaths.user \o ctx.searchPaths.header)

FilesIn(disk, dirs) == FoldLeft(LAMBDA all, d : all \o SelectSeq(disk, LAMBDA p : p.dir = d /\ p.ext \in {"h", "hpp"}), << >>, dirs)

IsHeader(type) == type # "" /\ FileTypes[type].header
HeadersOf(target) == SelectSeq(HeadersIn(target), LAMBDA f : f.kind = "file" /\ IsHeader(f.type))
Exported(file) == file.attributes \cap {"Public", "Private"} # {}

EntriesFor(files, Wanted(_), EntryOf(_)) ==
  LET wanted == SelectSeq(files, LAMBDA f : Wanted(f)) IN [n \in DOMAIN wanted |-> EntryOf(wanted[n].path)]

\* Of a target's own headers: those to be exported are known by name, the others also as the framework's.
OwnEntries(target) ==
  FoldLeft(LAMBDA all, f : all \o <<FlatEntry(f.path)>> \o (IF Exported(f) THEN << >> ELSE <<FrameworkEntry(target, f.path)>>),
           << >>, HeadersOf(target))

ExportedEntries(targets, Counts(_)) ==
  FoldLeft(LAMBDA all, t : IF Counts(t) THEN all \o EntriesFor(HeadersOf(t), Exported, LAMBDA p : FrameworkEntry(t, p)) ELSE all,
           << >>, targets)
IsAny(t) == TRUE
IsNotFramework(t) == t.type = "Native" /\ ~t.framework

ProjectEntries(project) ==
  LET headers == SelectSeq(project.files, LAMBDA f : IsHeader(f.type)) IN [n \in DOMAIN headers |-> FlatEntry(headers[n].path)]

\* In one map for all: a framework's headers by its name, as they come.
InTargetNameMap(env, target, t, file) ==
  IF Exported(file) THEN IsNotFramework(t) \/ Flag(env, "HEADERMAP_INCLUDES_FRAMEWORK_ENTRIES_FOR_ALL_PRODUCT_TYPES")
  ELSE t.name = target.name /\ Flag(env, "HEADERMAP_INCLUDES_FLAT_ENTRIES_FOR_TARGET_BEING_BUILT")

TargetNameEntries(ctx, env, target, project, disk) ==
  LET found == FilesIn(disk, HeadermapSearchPaths(ctx, target))
  IN  [n \in DOMAIN found |-> FlatEntry(found[n])]
      \o (IF Flag(env, "HEADERMAP_INCLUDES_PROJECT_HEADERS") THEN ProjectEntries(project) ELSE << >>)
      \o FoldLeft(LAMBDA all, t : all \o EntriesFor(HeadersOf(t), LAMBDA f : InTargetNameMap(env, target, t, f),
                                                    LAMBDA p : FrameworkEntry(t, p)), << >>, project.targets)

MapKinds == <<"target-name", "own-target-headers", "all-target-headers", "all-non-framework-target-headers",
              "generated-files", "project-headers">>
EntriesOfKind(kind, ctx, env, target, project, disk) ==
  CASE kind = "target-name"                      -> TargetNameEntries(ctx, env, target, project, disk)
    [] kind = "own-target-headers"               -> OwnEntries(target)
    [] kind = "all-target-headers"               -> ExportedEntries(project.targets, IsAny)
    [] kind = "all-non-framework-target-headers" -> ExportedEntries(project.targets, IsNotFramework)
    [] kind = "generated-files"                  -> << >>
    [] kind = "project-headers"                  -> ProjectEntries(project)

HeadermapFile(env, kind) == Path(Folder(env, "TARGET_TEMP_DIR"), kind, "hmap")
Table(entries) == [entries |-> entries, buckets |-> Write(Made(entries))]

SystemHeadermaps(env) ==
  IF Flag(env, "ALWAYS_SEARCH_USER_PATHS") /\ ~Flag(env, "ALWAYS_USE_SEPARATE_HEADERMAPS") THEN <<"target-name">>
  ELSE (IF Flag(env, "HEADERMAP_INCLUDES_FLAT_ENTRIES_FOR_TARGET_BEING_BUILT") THEN <<"own-target-headers">> ELSE << >>)
       \o (IF Flag(env, "HEADERMAP_INCLUDES_FRAMEWORK_ENTRIES_FOR_ALL_PRODUCT_TYPES")
           THEN <<"all-target-headers">> ELSE <<"all-non-framework-target-headers">>)
UserHeadermaps(env) ==
  IF Flag(env, "ALWAYS_SEARCH_USER_PATHS") /\ ~Flag(env, "ALWAYS_USE_SEPARATE_HEADERMAPS") THEN << >>
  ELSE <<"generated-files">> \o (IF Flag(env, "HEADERMAP_INCLUDES_PROJECT_HEADERS") THEN <<"project-headers">> ELSE << >>)

ResolveHeadermapsIn(ctx, env, target, project, disk) ==
  LET files(kinds) == [n \in DOMAIN kinds |-> HeadermapFile(env, kinds[n])]
  IN  IF ~Flag(env, "USE_HEADERMAP") THEN ctx
      ELSE [ctx EXCEPT !.auxiliaryFiles = @ \o files(MapKinds),
                       !.tables = [n \in DOMAIN MapKinds |-> Table(EntriesOfKind(MapKinds[n], ctx, env, target, project, disk))],
                       !.headermaps = [system |-> @.system \o files(SystemHeadermaps(env)),
                                       user   |-> @.user \o files(UserHeadermaps(env))]]

ResolveHeadermaps(ctx, env, compiler, target, project, disk) ==
  ResolveHeadermapsIn(ctx, InsertDefault(env, Tools[compiler].defaults), target, project, disk)

=============================================================================
