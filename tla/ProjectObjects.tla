--------------------------- MODULE ProjectObjects ---------------------------
(***************************************************************************)
(* PBX::Project::Open: the objects of a project file, which name each other *)
(* by identifier.  parseObject enters an object in the caches before it     *)
(* reads it, and follows a reference to an object that is not in them by a  *)
(* call of itself: the calls are a stack here, each with the references it  *)
(* has still to follow.                                                    *)
(*                                                                         *)
(* No parse fails of itself, so the many `return false` that pass a failure *)
(* on are left out; what ends a parse is the assert in ConfigurationList.   *)
(***************************************************************************)
EXTENDS SequencesExt

(***************************************************************************)
(* The classes of pbxproj: the keys that each reads from the dictionary of  *)
(* an object, and the references that it follows to other objects, in the   *)
(* order it follows them.  A class reads what the class it extends reads,   *)
(* before its own.                                                         *)
(***************************************************************************)

GroupItemKeys == {"name", "sourceTree", "path"}
GroupKeys     == {"indentWidth", "tabWidth"}

FileReferenceKeys ==
  {"lastKnownFileType", "explicitFileType", "xcLanguageSpecificationIdentifier",
   "includeInIndex", "fileEncoding", "lineEnding"}

ReferenceProxyKeys     == {"fileType"}
VersionGroupKeys       == {"versionGroupType"}
ContainerItemProxyKeys == {"proxyType", "remoteGlobalIDString", "remoteInfo"}
BuildFileKeys          == {"settings"}
BuildPhaseKeys         == {"name", "runOnlyForDeploymentPostprocessing", "buildActionMask"}
CopyFilesKeys          == {"dstPath", "dstSubfolderSpec"}

ShellScriptKeys ==
  {"name", "shellPath", "shellScript", "inputPaths", "outputPaths", "showEnvVarsInLog"}

AppleScriptKeys == {"contextName", "isSharedContext"}

BuildRuleKeys ==
  {"compilerSpec", "filePatterns", "fileType", "isEditable", "outputFiles", "script"}

TargetKeys       == {"name", "productName"}
NativeTargetKeys == {"productType", "productInstallPath"}

LegacyTargetKeys ==
  {"buildWorkingDirectory", "buildToolPath", "buildArgumentsString",
   "passBuildSettingsInEnvironment"}

AggregateTargetKeys    == {"productName"}
TargetDependencyKeys   == {"name"}
BuildConfigurationKeys == {"name", "buildSettings"}
ConfigurationListKeys  == {"defaultConfigurationName", "defaultConfigurationIsVisible"}

\* The attributes of a project are read, and forgotten.
ProjectKeys ==
  {"compatibilityVersion", "developmentRegion", "hasScannedForEncodings",
   "knownRegions", "projectDirPath", "projectRoot"}

-----------------------------------------------------------------------------
(* References: a key, and the classes of the objects it may name.  One that  *)
(* names none is passed over.                                               *)

Ref(key, classes) == [key |-> key, classes |-> classes]

GroupItems   == {"PBXGroup", "PBXVariantGroup", "XCVersionGroup", "PBXFileReference", "PBXReferenceProxy"}
BuildTargets == {"PBXNativeTarget", "PBXLegacyTarget", "PBXAggregateTarget"}

BuildPhases ==
  {"PBXHeadersBuildPhase", "PBXSourcesBuildPhase", "PBXResourcesBuildPhase",
   "PBXFrameworksBuildPhase", "PBXCopyFilesBuildPhase", "PBXShellScriptBuildPhase",
   "PBXAppleScriptBuildPhase", "PBXRezBuildPhase"}

Children     == Ref("children", GroupItems)
FileRef      == Ref("fileRef", GroupItems)
PhaseFiles   == Ref("files", {"PBXBuildFile"})
TargetPhases == Ref("buildPhases", BuildPhases)

\* The class it extends, its keys and its references.
Class(parent, keys, refs) == [parent |-> parent, keys |-> keys, refs |-> refs]

Object       == Class("", {"isa"}, << >>)
GroupItem    == Class("Object", GroupItemKeys, << >>)
BaseGroup    == Class("GroupItem", {}, <<Children>>)
Group        == Class("BaseGroup", GroupKeys, << >>)
VariantGroup == Class("BaseGroup", {}, << >>)
VersionGroup == Class("BaseGroup", VersionGroupKeys, <<Ref("currentVersion", {"PBXFileReference"})>>)

FileReference  == Class("GroupItem", FileReferenceKeys, << >>)
ReferenceProxy == Class("GroupItem", ReferenceProxyKeys, <<Ref("remoteRef", {"PBXContainerItemProxy"})>>)

ContainerItemProxy ==
  Class("Object", ContainerItemProxyKeys, <<Ref("containerPortal", {"PBXFileReference"})>>)

BuildFile             == Class("Object", BuildFileKeys, <<FileRef>>)
BuildPhase            == Class("Object", BuildPhaseKeys, <<PhaseFiles>>)
HeadersBuildPhase     == Class("BuildPhase", {}, << >>)
SourcesBuildPhase     == Class("BuildPhase", {}, << >>)
ResourcesBuildPhase   == Class("BuildPhase", {}, << >>)
FrameworksBuildPhase  == Class("BuildPhase", {}, << >>)
RezBuildPhase         == Class("BuildPhase", {}, << >>)
CopyFilesBuildPhase   == Class("BuildPhase", CopyFilesKeys, << >>)
ShellScriptBuildPhase == Class("BuildPhase", ShellScriptKeys, << >>)
AppleScriptBuildPhase == Class("BuildPhase", AppleScriptKeys, << >>)
BuildRule             == Class("Object", BuildRuleKeys, << >>)

Target ==
  Class("Object", TargetKeys,
        <<Ref("buildConfigurationList", {"XCConfigurationList"}), TargetPhases,
          Ref("dependencies", {"PBXTargetDependency"})>>)

NativeTarget ==
  Class("Target", NativeTargetKeys,
        <<Ref("productReference", {"PBXFileReference"}), Ref("buildRules", {"PBXBuildRule"})>>)

LegacyTarget    == Class("Target", LegacyTargetKeys, << >>)
AggregateTarget == Class("Target", AggregateTargetKeys, << >>)

TargetDependency ==
  Class("Object", TargetDependencyKeys,
        <<Ref("target", BuildTargets), Ref("targetProxy", {"PBXContainerItemProxy"})>>)

BuildConfiguration ==
  Class("Object", BuildConfigurationKeys, <<Ref("baseConfigurationReference", {"PBXFileReference"})>>)

ConfigurationList ==
  Class("Object", ConfigurationListKeys, <<Ref("buildConfigurations", {"XCBuildConfiguration"})>>)

\* A reference to a project has the group of its products and its file.
ProjectReference == Ref("projectReferences", {"PBXGroup", "PBXFileReference"})

Project ==
  Class("Object", ProjectKeys,
        <<Ref("buildConfigurationList", {"XCConfigurationList"}), Ref("mainGroup", {"PBXGroup"}),
          Ref("productRefGroup", {"PBXGroup"}), ProjectReference, Ref("targets", BuildTargets)>>)

Abstract == [Object |-> Object, GroupItem |-> GroupItem, BaseGroup |-> BaseGroup,
             BuildPhase |-> BuildPhase, Target |-> Target]

ISA ==
  [PBXProject |-> Project, PBXGroup |-> Group, PBXVariantGroup |-> VariantGroup,
   XCVersionGroup |-> VersionGroup, PBXFileReference |-> FileReference,
   PBXReferenceProxy |-> ReferenceProxy, PBXContainerItemProxy |-> ContainerItemProxy,
   PBXBuildFile |-> BuildFile, PBXBuildRule |-> BuildRule,
   PBXHeadersBuildPhase |-> HeadersBuildPhase, PBXSourcesBuildPhase |-> SourcesBuildPhase,
   PBXResourcesBuildPhase |-> ResourcesBuildPhase,
   PBXFrameworksBuildPhase |-> FrameworksBuildPhase, PBXRezBuildPhase |-> RezBuildPhase,
   PBXCopyFilesBuildPhase |-> CopyFilesBuildPhase,
   PBXShellScriptBuildPhase |-> ShellScriptBuildPhase,
   PBXAppleScriptBuildPhase |-> AppleScriptBuildPhase, PBXNativeTarget |-> NativeTarget,
   PBXLegacyTarget |-> LegacyTarget, PBXAggregateTarget |-> AggregateTarget,
   PBXTargetDependency |-> TargetDependency, XCBuildConfiguration |-> BuildConfiguration,
   XCConfigurationList |-> ConfigurationList]

\* A class after those it extends, the first of them first.
Lineage ==
  [isa \in DOMAIN ISA |->
     LET Extend(classes, n) ==
           IF classes[1].parent = "" THEN classes
           ELSE <<Abstract[classes[1].parent]>> \o classes
     IN  FoldLeft(Extend, <<ISA[isa]>>, <<1, 2, 3>>)]

Keys == [isa \in DOMAIN ISA |-> UNION {Lineage[isa][n].keys : n \in DOMAIN Lineage[isa]}]

\* The references it follows, those of the classes above before its own.
Refs == [isa \in DOMAIN ISA |-> FlattenSeq([n \in DOMAIN Lineage[isa] |-> Lineage[isa][n].refs])]

-----------------------------------------------------------------------------

CONSTANTS
  Disks,   \* what the directories hold: see WorkspaceContext
  NONE

VARIABLES
  disk,
  opening,   \* the path of the project that is being read, or NONE
  stack,     \* the calls of parseObject: the object, and its references to come
  cache,     \* the objects that are in the caches of the Context
  objects    \* the objects read: their keys and links, and GroupItem::_parent

context == <<opening, stack, cache, objects>>

Blank == [keys |-> {}, links |-> << >>, parent |-> NONE]

\* The objects of a file, by identifier.
Entries(path) == disk.projects[path].objects

\* Context::get: no object, or one of another class, is none.
Accepts(entries, ref, id) == id \in DOMAIN entries /\ entries[id].isa \in ref.classes

Given(entry, key) == IF key \in DOMAIN entry.refs THEN entry.refs[key] ELSE << >>

\* A bug: the versions of a data model are no members of a group.
FollowsNoVersions(entries, ref, id) ==
  /\ Accepts(entries, ref, id) \/ ref.key = "buildConfigurations"
  /\ ~(ref.key = "children" /\ entries[id].isa = "XCVersionGroup")

\* Only a list of configurations insists on each of them.
Follows(entries, ref, id) == Accepts(entries, ref, id) \/ ref.key = "buildConfigurations"

\* The references that its own class and those above follow, in order.
References(entries, id) ==
  LET refs    == Refs[entries[id].isa]
      ids(r)  == SelectSeq(Given(entries[id], r.key), LAMBDA to : Follows(entries, r, to))
      each(r) == [n \in DOMAIN ids(r) |-> [ref |-> r, to |-> ids(r)[n]]]
  IN  FlattenSeq([n \in DOMAIN refs |-> each(refs[n])])

\* unpack: keys that no class knows are warned about.
ReadKeys(entry) == entry.keys \cap Keys[entry.isa]

Opens(path) ==
  /\ path \in DOMAIN disk.projects
  /\ disk.projects[path].defect = NONE   \* readable, parseable, with versions and objects
  /\ disk.projects[path].rootObject \in DOMAIN Entries(path)
  /\ Entries(path)[disk.projects[path].rootObject].isa = "PBXProject"

Call(path, id) == [id |-> id, todo |-> References(Entries(path), id)]

\* Open, up to the call for the root object.
OpenProject(path) ==
  LET root == disk.projects[path].rootObject
  IN  /\ opening' = path
      /\ stack' = <<Call(path, root)>>
      /\ cache' = {root}
      /\ objects' = (root :> Blank)

top  == Len(stack)
Now  == stack[top]
Link == Head(Now.todo)

Parsing == opening # NONE /\ stack # << >>

\* A reference to an object that nothing has asked for yet.
Enters(id) == id \notin cache

ParseObject ==
  /\ Parsing /\ Now.todo # << >>
  /\ Accepts(Entries(opening), Link.ref, Link.to)
  /\ Enters(Link.to)
  /\ stack' = Append(stack, Call(opening, Link.to))
  /\ cache' = cache \cup {Link.to}
  /\ objects' = objects @@ (Link.to :> Blank)
  /\ UNCHANGED opening

\* A group becomes the parent of each child, another's before it or not.
Joined(group, ref, id) == IF ref.key = "children" THEN group ELSE objects[id].parent

\* The object is in the caches, complete or not.
LinkObject ==
  /\ Parsing /\ Now.todo # << >>
  /\ Link.to \in cache
  /\ objects' = [objects EXCEPT ![Link.to].parent = Joined(Now.id, Link.ref, Link.to),
                                ![Now.id].links = Append(@, <<Link.ref.key, Link.to>>)]
  /\ stack' = [stack EXCEPT ![top].todo = Tail(@)]
  /\ UNCHANGED <<opening, cache>>

ReturnObject ==
  /\ Parsing /\ Now.todo = << >>
  /\ objects' = [objects EXCEPT ![Now.id].keys = ReadKeys(Entries(opening)[Now.id])]
  /\ stack' = Front(stack)
  /\ UNCHANGED <<opening, cache>>

\* assert(BCd != nullptr)
MissingConfiguration ==
  /\ Parsing /\ Now.todo # << >>
  /\ ~Accepts(Entries(opening), Link.ref, Link.to)

Parse == ParseObject \/ LinkObject \/ ReturnObject

-----------------------------------------------------------------------------
(* The objects of a project, when all are read.                            *)

Links(all, id, key) ==
  LET links == SelectSeq(all[id].links, LAMBDA l : l[1] = key)
  IN  [n \in DOMAIN links |-> links[n][2]]

\* The group above, as long as the path is relative to it.
Above(entries, all, id) ==
  IF entries[id].sourceTree = "<group>" THEN all[id].parent ELSE NONE

\* GroupItem::resolve: from the item up, or too often.
Ancestry(entries, all, id) ==
  LET Climb(items, n) ==
        IF Above(entries, all, Head(items)) = NONE THEN items
        ELSE <<Above(entries, all, Head(items))>> \o items
  IN  FoldLeft(Climb, <<id>>, [n \in 1..Cardinality(DOMAIN all) |-> n])

ResolvesForever(entries, all, id) ==
  Len(Ancestry(entries, all, id)) > Cardinality(DOMAIN all)

\* A group without a path stands where its parent is; another item has a name.
OwnPath(entry) ==
  IF entry.path = << >> /\ entry.isa \notin {"PBXGroup", "PBXVariantGroup"}
  THEN entry.name ELSE entry.path

Resolve(entries, all, id) ==
  LET items == Ancestry(entries, all, id)
      tree  == entries[Head(items)].sourceTree
  IN  [root |-> CASE tree = "<group>" -> "SOURCE_ROOT" [] tree = "" -> "<absolute>" [] OTHER -> tree,
       path |-> FlattenSeq([n \in DOMAIN items |-> OwnPath(entries[items[n]])])]

=============================================================================
