---------------------------- MODULE Specifications ----------------------------
(***************************************************************************)
(* pbxspec::Manager: the build specifications (tools, file types, products) *)
(* that Build::Environment::Default registers, domain by domain, before a   *)
(* build.  A specification may be based on another, whose values it takes   *)
(* over, in its own domain or in another; the base is made complete first,  *)
(* by a recursion that is unfolded here on a stack.                         *)
(*                                                                         *)
(* A value is abstracted to the specifications it comes from: <<s>> for a   *)
(* value that s sets, a sequence for a list that several contribute to, and *)
(* << >> where nothing is set.  An option has a name beside its origin.     *)
(***************************************************************************)
EXTENDS Sequences, FiniteSets, SequencesExt

(***************************************************************************)
(* The classes of pbxspec::PBX: the keys that each class reads from the     *)
(* dictionary of a specification, and how it inherits them.  A value of its *)
(* own overrides that of the base, unless the key names a list, a set or a  *)
(* level of settings: these are combined, those of the base first.          *)
(***************************************************************************)

SpecificationKeys ==
  {"Type", "Class", "Identifier", "BasedOn", "Domain", "IsGlobalDomainInUI",
   "Name", "Description", "Vendor", "Version"}

ArchitectureKeys ==
  {"RealArchitectures", "ArchitectureSetting", "PerArchBuildSettingName",
   "ByteOrder", "ListInEnum", "SortNumber"}

BuildSettingsKeys ==
  {"Options"}

BuildStepKeys ==
  {"BuildStepType"}

BuildSystemKeys ==
  {"Options", "Properties", "DeletedProperties"}

ToolCommand ==
  {"ExecPath", "ExecDescription", "ExecDescriptionForPrecompile",
   "ExecDescriptionForCompile", "ExecDescriptionForCreateBitcode",
   "ProgressDescription", "ProgressDescriptionForPrecompile",
   "ProgressDescriptionForCompile", "ProgressDescriptionForCreateBitcode",
   "CommandLine", "CommandInvocationClass", "CommandIdentifier", "RuleName",
   "RuleFormat", "AdditionalInputFiles", "BuiltinJambaseRuleName"}

ToolFiles ==
  {"FileTypes", "InputFileTypes", "InputTypes", "Outputs", "OutputPath",
   "Architectures", "EnvironmentVariables", "SuccessExitCodes"}

ToolTraits ==
  {"CommandOutputParser", "IsAbstract", "IsArchitectureNeutral",
   "CaresAboutInclusionDependencies", "SynthesizeBuildRule",
   "ShouldRerunOnError", "DeeplyStatInputDirectories", "IsUnsafeToInterrupt",
   "MessageLimit", "Options", "DeletedProperties"}

ToolKeys == ToolCommand \cup ToolFiles \cup ToolTraits

ToolCombined ==
  {"FileTypes", "InputFileTypes", "InputTypes", "Outputs", "Architectures",
   "EnvironmentVariables", "SuccessExitCodes", "Options", "DeletedProperties"}

CompilerFiles ==
  {"ExecutionDescription", "ExecCPlusPlusLinkerPath", "SourceFileOption",
   "OutputDir", "OutputFileExtension", "CommandResultsPostprocessor",
   "GenericCommandFailedErrorString", "GeneratedInfoPlistContentFilePath",
   "DependencyInfoFile", "DependencyInfoArgs", "Languages",
   "OptionConditionFlavors", "PatternsOfFlagsNotAffectingPrecomps",
   "MessageCategoryInfoOptions", "SynthesizeBuildRuleForBuildPhases",
   "InputFileGroupings", "FallbackTools", "AdditionalDirectoriesToCreate",
   "OverridingProperties"}

CompilerSwitches ==
  {"UseCPlusPlusCompilerDriverWhenBundlizing", "SupportsHeadermaps",
   "SupportsIsysroot", "SupportsSeparateUserHeaderPaths",
   "SupportsGeneratePreprocessedFile", "SupportsGenerateAssemblyFile",
   "SupportsAnalyzeFile", "SupportsSerializedDiagnostics",
   "SupportsPredictiveCompilation", "SupportsMacOSXDeploymentTarget",
   "SupportsMacOSXMinVersionFlag", "PrunePrecompiledHeaderCache",
   "OutputsAreProducts", "OutputsAreSourceFiles", "SoftError",
   "DeeplyStatInputDirectories", "DontProcessOutputs",
   "ShowInCompilerSelectionPopup", "ShowOnlySelfDefinedProperties",
   "MightNotEmitAllOutputs", "IncludeInUnionedToolDefaults"}

CompilerKeys == CompilerFiles \cup CompilerSwitches \cup {"DashIFlagAcceptsHeadermaps"}

CompilerCombined ==
  {"DependencyInfoArgs", "Languages", "OptionConditionFlavors",
   "PatternsOfFlagsNotAffectingPrecomps", "MessageCategoryInfoOptions",
   "SynthesizeBuildRuleForBuildPhases", "InputFileGroupings",
   "FallbackTools", "AdditionalDirectoriesToCreate", "OverridingProperties"}

LinkerKeys ==
  {"BinaryFormats", "DependencyInfoFile", "SupportsInputFileList"}

FileTypeContents ==
  {"MIMETypes", "UTI", "Extensions", "TypeCodes", "FilenamePatterns",
   "MagicWord", "Language", "ComputerLanguage", "GccDialectName", "Prefix",
   "Permissions", "BuildPhaseInjectionsWhenEmbedding", "AppliesToBuildRules"}

FileTypeTraits ==
  {"IsBuildPropertiesFile", "IsSourceCode", "IsSwiftSourceCode",
   "IsPreprocessed", "IsTransparent", "IsDocumentation", "IsEmbeddable",
   "IsExecutable", "IsExecutableWithGUI", "IsApplication", "IsBundle",
   "IsLibrary", "IsDynamicLibrary", "IsStaticLibrary", "IsFolder",
   "IsWrapperFolder", "IsScannedForIncludes", "IsFrameworkWrapper",
   "IsStaticFrameworkWrapper", "IsProjectWrapper", "IsTargetWrapper",
   "ExtraPropertyNames", "ComponentParts", "IncludeInIndex",
   "CanSetIncludeInIndex", "RequiresHardTabs", "ContainsNativeCode",
   "PlistStructureDefinition", "ChangesCauseDependencyGraphInvalidation",
   "FallbackAutoroutingBuildPhase", "CodeSignOnCopy", "RemoveHeadersOnCopy",
   "ValidateOnCopy"}

FileTypeKeys == FileTypeContents \cup FileTypeTraits \cup {"IsTextFile"}

FileTypeCombined ==
  {"MIMETypes", "TypeCodes", "FilenamePatterns", "MagicWord", "Prefix",
   "BuildPhaseInjectionsWhenEmbedding", "ExtraPropertyNames",
   "ComponentParts"}

PackageTypeKeys ==
  {"ProductReference", "DefaultBuildSettings"}

ProductTypeDescription ==
  {"DefaultTargetName", "DefaultBuildProperties", "Validation",
   "IconNamePrefix", "PackageTypes", "HasInfoPlist", "HasInfoPlistStrings"}

ProductTypeSwitches ==
  {"IsWrapper", "IsJava", "SupportsZeroLink", "AlwaysPerformSeparateStrip",
   "WantsSimpleTargetEditing", "WantsSimpleTargetEditingWithoutCapabilities",
   "AddWatchCompanionRequirement", "RunsOnProxy",
   "DisableSchemeAutocreation", "ValidateEmbeddedBinaries",
   "SupportsOnDemandResources", "CanEmbedAddressSanitizerLibraries",
   "CanEmbedCompilerSanitizerLibraries", "ProvisioningProfileRequired",
   "ProvisioningProfileSupported", "RunpathSearchPathForEmbeddedFrameworks",
   "IsEmbeddable"}

ProductTypeEmbedding ==
  {"BuildPhaseInjectionsWhenEmbedding", "RequiredBuiltProductsDir",
   "AllowedBuildPhases", "AllowedFileTypes", "BuildPhaseFileRefAdditions",
   "InfoPlistAdditions"}

ProductTypeKeys == ProductTypeDescription \cup ProductTypeSwitches \cup ProductTypeEmbedding

ProductTypeCombined ==
  {"DefaultBuildProperties", "BuildPhaseInjectionsWhenEmbedding",
   "InfoPlistAdditions"}

-----------------------------------------------------------------------------

\* A class, with the class it extends, what it reads and what it combines.
Class(parent, keys, combined) == [parent |-> parent, keys |-> keys, combined |-> combined]

Specification == Class("", SpecificationKeys, {})
Architecture  == Class("Specification", ArchitectureKeys, {"RealArchitectures"})
BuildPhase    == Class("Specification", {}, {})
BuildSettings == Class("Specification", BuildSettingsKeys, {"Options"})
BuildStep     == Class("Specification", BuildStepKeys, {})
BuildSystem   == Class("Specification", BuildSystemKeys, BuildSystemKeys)
Tool          == Class("Specification", ToolKeys, ToolCombined)
Compiler      == Class("Tool", CompilerKeys, CompilerCombined)
Linker        == Class("Tool", LinkerKeys, {"BinaryFormats"})
FileType      == Class("Specification", FileTypeKeys, FileTypeCombined)
PackageType   == Class("Specification", PackageTypeKeys, {"DefaultBuildSettings"})
ProductType   == Class("Specification", ProductTypeKeys, ProductTypeCombined)

SpecificationTypes ==
  [Architecture |-> Architecture, BuildPhase |-> BuildPhase, BuildSettings |-> BuildSettings,
   BuildStep |-> BuildStep, BuildSystem |-> BuildSystem, Compiler |-> Compiler,
   FileType |-> FileType, Linker |-> Linker, PackageType |-> PackageType,
   ProductType |-> ProductType, Tool |-> Tool]

\* A class and those it extends; none extends another twice over.
Classes(type) ==
  LET class == SpecificationTypes[type]
  IN  {class, Specification} \cup (IF class.parent = "Tool" THEN {Tool} ELSE {})

Keys(type)     == UNION {class.keys : class \in Classes(type)}
Combined(type) == UNION {class.combined : class \in Classes(type)}

\* What says which specification this is, and is not a value of it.
Identity == {"Type", "Identifier", "BasedOn", "Domain"}

\* Read from the dictionary, and forgotten.
Dropped(type) ==
  CASE type = "Compiler" -> {"DashIFlagAcceptsHeadermaps"}
    [] type = "FileType" -> {"IsTextFile"}
    [] OTHER             -> {}

\* The options of a tool and the properties of a build system have names.
Named == {"Options", "Properties"}

\* The only list that a specification does not share with its base.
NotInherited == {"Extensions"}

Fields(type) == Keys(type) \ Identity

\* The field whose value comes before that of the base.
OwnField(field) ==
  IF field = "WantsSimpleTargetEditingWithoutCapabilities" THEN "WantsSimpleTargetEditing"
  ELSE field

-----------------------------------------------------------------------------

CONSTANTS
  Catalogs,   \* what the directories of specifications hold: see Init
  MaxDepth,   \* bound: how deep inheritSpecification may recurse
  NONE

VARIABLES
  catalog,
  pc,               \* "idle", "read", "add", "inherit", "ready", "failed" or "overflow"
  calls,            \* the calls of registerDomains that are still to come
  pending,          \* the paths that this call has still to read
  batch,            \* the specifications that this call has read
  inheriting,       \* those of them that are still to inherit
  stack,            \* the calls of inheritSpecification: visited
  domains,          \* _domains
  specifications,   \* _specifications, in the order they were added
  base,             \* Specification::_base
  values

loading == <<pc, calls, pending, batch, inheriting, stack>>
manager == <<domains, specifications, base, values>>
vars    == <<catalog, loading, manager>>

Ids == DOMAIN catalog.entries
Entry(id) == catalog.entries[id]

-----------------------------------------------------------------------------
(* Parsing.                                                                *)

\* An option without a name or a type is left out; a name has one option.
Insert(options, option) ==
  LET used == {n \in 1..Len(options) : options[n][1] = option[1]}
  IN  IF used = {} THEN Append(options, option)
      ELSE [options EXCEPT ![CHOOSE n \in used : TRUE] = option]

InsertAll(options, more) == FoldLeft(Insert, options, more)

ParseOptions(id) ==
  LET complete == SelectSeq(Entry(id).options, LAMBDA option : option.complete)
  IN  InsertAll(<< >>, [n \in 1..Len(complete) |-> <<complete[n].name, id>>])

\* A file of the old kind that gives no type holds file types.
TypeOf(id, file) == IF Entry(id).type = "" THEN file.defaultType ELSE Entry(id).type

TypeIn(c, id) ==
  LET holder == CHOOSE f \in DOMAIN c.files : \E n \in 1..Len(c.files[f].entries) :
                                                c.files[f].entries[n] = id
  IN  IF c.entries[id].type = "" THEN c.files[holder].defaultType ELSE c.entries[id].type

Type(id) == TypeIn(catalog, id)

IsSupported(type) == type \in DOMAIN SpecificationTypes

Parse(id) ==
  [field \in Fields(Type(id)) |->
     IF field \notin Entry(id).keys \/ field \in Dropped(Type(id)) THEN << >>
     ELSE IF field \in Named THEN ParseOptions(id) ELSE <<id>>]

\* One entry that does not parse spoils the file.
Opens(file) ==
  \A n \in 1..Len(file.entries) :
    file.entries[n] # "malformed" /\ IsSupported(TypeOf(file.entries[n], file))

Open(file) == IF Opens(file) THEN file.entries ELSE << >>

-----------------------------------------------------------------------------
(* Lookup.                                                                 *)

FindSpecifications(list, type) ==
  FlattenSeq([n \in 1..Len(list) |->
    SelectSeq(specifications, LAMBDA id : Entry(id).domain = list[n] /\ Type(id) = type)])

FindSpecification(list, identifier, type) ==
  LET found == SelectSeq(FindSpecifications(list, type), LAMBDA id : Entry(id).identifier = identifier)
  IN  IF found = << >> THEN NONE ELSE Head(found)

\* Everything a specification has inherited from.
Bases(id) ==
  LET chain[n \in 0..Cardinality(Ids)] ==
        IF n = 0 THEN base[id]
        ELSE IF chain[n - 1] = NONE THEN NONE ELSE base[chain[n - 1]]
  IN  {chain[n] : n \in 0..Cardinality(Ids)} \ {NONE}

-----------------------------------------------------------------------------
(* Inheritance.                                                            *)

Override(current, inherited) == IF current # << >> THEN current ELSE inherited
Combine(current, inherited)  == inherited \o current

\* The value that comes before that of the base; one field starts from another,
\* which has inherited by then.
Current(field, own, inherited) ==
  IF OwnField(field) = field THEN own[field]
  ELSE Override(own[OwnField(field)], inherited[OwnField(field)])

Inherit(type, own, inherited) ==
  [field \in Fields(type) |->
     CASE field \in NotInherited   -> own[field]
       [] field \in Named          -> InsertAll(inherited[field], own[field])
       [] field \in Combined(type) -> Combine(own[field], inherited[field])
       [] OTHER                    -> Override(Current(field, own, inherited), inherited[field])]

-----------------------------------------------------------------------------

\* Where a catalog has its files.
Directory(c, domain, place) == [domain |-> domain, files |-> c.places[place]]

DefaultDomains(c) ==
  <<Directory(c, "default", "developer"), Directory(c, "default", "plugins"),
    Directory(c, "embedded-shared", "embedded"), Directory(c, "embedded", "device"),
    Directory(c, "embedded-simulator", "simulator")>>

\* The platforms of devices have specifications they share with the simulator.
PlatformDomains(c) ==
  (IF "iphoneos" \notin c.platforms THEN << >>
   ELSE <<Directory(c, "iphoneos-shared", "shared"), Directory(c, "iphoneos", "device"),
          Directory(c, "iphonesimulator", "simulator")>>) \o
  FlattenSeq(SetToSeq({<<Directory(c, platform, platform)>> : platform \in c.platforms}))

\* It names a domain that is registered by then.
PlatformDependentDomains(c) == <<Directory(c, "default", "watchkit")>>

Calls(c) == <<DefaultDomains(c), PlatformDomains(c), PlatformDependentDomains(c)>>

Init ==
  /\ catalog \in Catalogs   \* entries, files, and the places these are in
  /\ pc = "idle" /\ calls = Calls(catalog)
  /\ pending = << >> /\ batch = << >> /\ inheriting = << >> /\ stack = << >>
  /\ domains = {} /\ specifications = << >>
  /\ base = [id \in Ids |-> NONE]
  /\ values = [id \in Ids |-> [field \in Fields(TypeIn(catalog, id)) |-> << >>]]

\* A domain that an earlier call has registered is passed over.
RegisterDomains ==
  /\ pc = "idle" /\ calls # << >>
  /\ pending' = SelectSeq(Head(calls), LAMBDA d : d.domain \notin domains)
  /\ domains' = domains \cup {Head(calls)[n].domain : n \in 1..Len(Head(calls))}
  /\ calls' = Tail(calls)
  /\ batch' = << >>
  /\ pc' = "read"
  /\ UNCHANGED <<catalog, inheriting, stack, specifications, base, values>>

\* A directory has its files in any order.
ReadFile ==
  /\ pc = "read" /\ pending # << >>
  /\ Head(pending).files # {}
  /\ \E name \in Head(pending).files :
       LET read == Open(catalog.files[name])
       IN  /\ batch' = batch \o read
           /\ values' = [id \in Ids |-> IF id \in ToSet(read) THEN Parse(id) ELSE values[id]]
           /\ pending' = [pending EXCEPT ![1].files = @ \ {name}]
  /\ UNCHANGED <<catalog, pc, calls, inheriting, stack, domains, specifications, base>>

EndDirectory ==
  /\ pc = "read" /\ pending # << >>
  /\ Head(pending).files = {}
  /\ pending' = Tail(pending)
  /\ UNCHANGED <<catalog, pc, calls, batch, inheriting, stack, manager>>

AddSpecification(added, id) ==
  IF \E n \in 1..Len(added) :
       /\ Type(added[n]) = Type(id)
       /\ Entry(added[n]).domain = Entry(id).domain
       /\ Entry(added[n]).identifier = Entry(id).identifier
  THEN added ELSE Append(added, id)

\* All are added before any inherits.
AddSpecifications ==
  /\ pc = "read" /\ pending = << >>
  /\ specifications' = FoldLeft(AddSpecification, specifications, batch)
  /\ inheriting' = batch
  /\ pc' = "inherit"
  /\ UNCHANGED <<catalog, calls, pending, batch, stack, domains, base, values>>

Call(id) == Append(stack, id)

InheritNext ==
  /\ pc = "inherit" /\ stack = << >> /\ inheriting # << >>
  /\ stack' = <<Head(inheriting)>>
  /\ inheriting' = Tail(inheriting)
  /\ UNCHANGED <<catalog, pc, calls, pending, batch, manager>>

\* The fallback for a base that is not in its domain looks in the domain that
\* has the identifier's name, and not for what is on the stack.
Candidates(id) ==
  LET named   == FindSpecifications(<<Entry(id).basedOn[2]>>, Type(id))
      unused  == \A n \in 1..Len(stack) : id # stack[n] /\ id \notin Bases(stack[n])
  IN  IF unused THEN named ELSE << >>

BaseOf(id) ==
  LET found == FindSpecification(<<Entry(id).basedOn[1]>>, Entry(id).basedOn[2], Type(id))
  IN  IF found # NONE THEN found
      ELSE IF Candidates(id) # << >> THEN Head(Candidates(id)) ELSE NONE

\* A bug: whatever has a base inherits from it.
InheritsAgain(id) == Entry(id).basedOn # << >>

Inherits(id) == Entry(id).basedOn # << >> /\ base[id] = NONE

\* The base comes first.
InheritBase ==
  /\ pc = "inherit" /\ stack # << >>
  /\ Inherits(Last(stack)) /\ BaseOf(Last(stack)) # NONE
  /\ Inherits(BaseOf(Last(stack)))
  /\ stack' = Call(BaseOf(Last(stack)))
  /\ pc' = IF Len(stack') > MaxDepth THEN "overflow" ELSE pc
  /\ UNCHANGED <<catalog, calls, pending, batch, inheriting, manager>>

\* A bug: the base is taken as it is.
InheritTooEarly ==
  /\ pc = "inherit" /\ stack # << >>
  /\ Inherits(Last(stack)) /\ BaseOf(Last(stack)) # NONE
  /\ LET id == Last(stack)
         b  == BaseOf(id)
     IN  /\ base' = [base EXCEPT ![id] = b]
         /\ values' = [values EXCEPT ![id] = Inherit(Type(id), values[id], values[b])]
  /\ stack' = Front(stack)
  /\ UNCHANGED <<catalog, pc, calls, pending, batch, inheriting, domains, specifications>>

\* inherit() of the specification, and return.
InheritSpecification ==
  /\ pc = "inherit" /\ stack # << >>
  /\ Inherits(Last(stack)) /\ BaseOf(Last(stack)) # NONE
  /\ ~Inherits(BaseOf(Last(stack)))
  /\ LET id == Last(stack)
         b  == BaseOf(id)
     IN  /\ base' = [base EXCEPT ![id] = b]
         /\ values' = [values EXCEPT ![id] = Inherit(Type(id), values[id], values[b])]
  /\ stack' = Front(stack)
  /\ UNCHANGED <<catalog, pc, calls, pending, batch, inheriting, domains, specifications>>

\* Nothing to inherit.
ReturnDone ==
  /\ pc = "inherit" /\ stack # << >>
  /\ ~Inherits(Last(stack))
  /\ stack' = Front(stack)
  /\ UNCHANGED <<catalog, pc, calls, pending, batch, inheriting, manager>>

\* Without a base the whole chain of calls fails, and none of it inherits.
ReturnFailed ==
  /\ pc = "inherit" /\ stack # << >>
  /\ Inherits(Last(stack)) /\ BaseOf(Last(stack)) = NONE
  /\ stack' = << >>
  /\ UNCHANGED <<catalog, pc, calls, pending, batch, inheriting, manager>>

EndRegister ==
  /\ pc = "inherit" /\ stack = << >> /\ inheriting = << >>
  /\ pc' = "idle"
  /\ UNCHANGED <<catalog, calls, pending, batch, inheriting, stack, manager>>

\* Build::Environment::Default needs the core build system in the end.
FinishEnvironment ==
  /\ pc = "idle" /\ calls = << >>
  /\ pc' = IF FindSpecification(<<"default">>, "com.apple.build-system.core", "BuildSystem") = NONE
           THEN "failed" ELSE "ready"
  /\ UNCHANGED <<catalog, calls, pending, batch, inheriting, stack, manager>>

Next ==
  \/ RegisterDomains \/ ReadFile \/ EndDirectory \/ AddSpecifications
  \/ InheritNext \/ InheritBase \/ InheritSpecification \/ ReturnDone \/ ReturnFailed
  \/ EndRegister \/ FinishEnvironment

Spec == Init /\ [][Next]_vars /\ WF_vars(Next)

=============================================================================
