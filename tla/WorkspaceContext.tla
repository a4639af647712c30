--------------------------- MODULE WorkspaceContext ---------------------------
(***************************************************************************)
(* What a build is about: the workspace or the project that the parameters  *)
(* name, with the projects nested in it, their configuration files and      *)
(* schemes, loaded one after another, and the build context made of them.   *)
(*                                                                         *)
(* A path is a sequence of names, those of links and variables resolved.    *)
(* A disk has                                                              *)
(*   projects:   [defect, rootObject, directory, objects] by path           *)
(*   links:      the path that another path leads to                        *)
(*   workspaces: [defect, items] by path; an item is [tag, up, kind, path],  *)
(*               where up is the place of the group around it, or 0         *)
(*   configs:    the lines of a configuration file, by path: the path of an  *)
(*               included file, or none                                     *)
(*   schemes:    the files with schemes, by the path of their container     *)
(*   variables:  what the settings give for the root of a path              *)
(*   arguments:  the options of the command line                            *)
(***************************************************************************)
EXTENDS ProjectObjects, Schemes

CONSTANT MaxProjects   \* bound: how many projects may be loaded

\* NONE is no path, and a project file has a list of references.
ASSUME WorkspaceAssumption ==
  \A d \in Disks :
    /\ NONE \notin DOMAIN d.projects
    /\ \A path \in DOMAIN d.projects : \A id \in DOMAIN d.projects[path].objects :
         Len(Given(d.projects[path].objects[id], "projectReferences")) \in Nat

VARIABLES
  pc,           \* "start", "workspace", "level", "references", "schemes", "context",
                \* "ready", "failed", "crashed" or "endless"
  paths,        \* the projects of the workspace that are still to open
  loaded,       \* projects: path and objects, by their place
  roots,        \* those of this level that are still to visit
  references,   \* the references of the one visited that are still to open
  nested,       \* the projects that were found on this level
  configs,      \* _configs: place, configuration and path
  schemeGroups, \* _schemeGroups: container and schemes
  build         \* Build::Context, or NONE

progress == <<pc, paths, roots, references, nested>>
found    == <<loaded, configs, schemeGroups, build>>
vars     == <<disk, context, progress, found>>

Arguments == disk.arguments
Directory(path) == Front(path)

\* filesystem->resolvePath
RealPath(path) == IF path \in DOMAIN disk.links THEN disk.links[path] ELSE path

-----------------------------------------------------------------------------
(* The files of a workspace, those of a group before those of its groups.   *)

Items(workspace) == disk.workspaces[workspace].items

ItemsWithin(workspace, n, tag) ==
  SelectSeq([m \in DOMAIN Items(workspace) |-> m],
            LAMBDA m : Items(workspace)[m].up = n /\ Items(workspace)[m].tag = tag)

WorkspaceFiles(workspace) ==
  LET files[n \in 0..Len(Items(workspace))] ==
        LET groups == ItemsWithin(workspace, n, "Group")
        IN  ItemsWithin(workspace, n, "FileRef") \o
            FlattenSeq([g \in DOMAIN groups |-> files[groups[g]]])
  IN  files[0]

\* GroupItem::resolve; a kind that is not known is as good as absolute.
ResolveItem(workspace, item) ==
  LET base == Directory(workspace)
      location[n \in DOMAIN Items(workspace)] ==
        LET i == Items(workspace)[n]
        IN  CASE i.kind = "container" -> base \o i.path
              [] i.kind = "self"      -> Directory(base) \o i.path
              [] i.kind = "group"     -> (IF i.up # 0 THEN location[i.up] ELSE base) \o i.path
              [] OTHER                -> i.path
  IN  location[item]

-----------------------------------------------------------------------------
(* Config::Load.                                                           *)

\* The lines of a file until one fails; an included file is a line.  The result
\* of more includes than there are files is that they never end.
LoadConfigFrom(all, path) ==
  LET files == DOMAIN all
      Setting == [result |-> "ok", read |-> {}]
      Failed  == [result |-> "failed", read |-> {}]
      Endless == [result |-> "endless", read |-> {}]
      Deeper(load, n) ==   \* what each file gives, with one more include
        [p \in files |->
           LET given == [m \in DOMAIN all[p] |->
                           LET l == all[p][m]
                           IN  IF l = << >> THEN Setting ELSE IF l \in files THEN load[l] ELSE Failed]
               bad   == {m \in DOMAIN given : given[m].result # "ok"}
               upTo  == IF bad = {} THEN DOMAIN given ELSE 1..Min(bad)
           IN  [result |-> IF bad = {} THEN "ok" ELSE given[Min(bad)].result,
                read |-> {p} \cup UNION {given[m].read : m \in upTo}]]
      load == FoldLeft(Deeper, [p \in files |-> Endless], [n \in 1..Cardinality(files) + 1 |-> n])
  IN  IF path \in files THEN load[path] ELSE Failed

LoadConfig(path) == LoadConfigFrom(disk.configs, path)

-----------------------------------------------------------------------------
(* The objects of the loaded projects.                                     *)

LinksOf(place, id, key) == Links(loaded[place].objects, id, key)
Root(place)   == disk.projects[loaded[place].path].rootObject
Targets(place) == LinksOf(place, Root(place), "targets")

\* The directory of the project and the one its file asks for.
SourceRoot(path) == Directory(path) \o disk.projects[path].directory

ExpandPath(path, resolved) ==
  (CASE resolved.root = "SOURCE_ROOT" -> SourceRoot(path)
     [] resolved.root = "<absolute>"  -> << >>
     [] OTHER                         -> disk.variables[resolved.root]) \o resolved.path

PathOf(place, id) ==
  ExpandPath(loaded[place].path, Resolve(Entries(loaded[place].path), loaded[place].objects, id))

ClimbsForever(place, id) ==
  ResolvesForever(Entries(loaded[place].path), loaded[place].objects, id)

\* The configurations of a project and of its targets, and the files under them.
Configurations(place) ==
  UNION {ToSet(LinksOf(place, list, "buildConfigurations")) :
           list \in UNION {ToSet(LinksOf(place, holder, "buildConfigurationList")) :
                             holder \in {Root(place)} \cup ToSet(Targets(place))}}

BaseFiles(place, configuration) == ToSet(LinksOf(place, configuration, "baseConfigurationReference"))

\* A bug: the targets have configurations of their own.
BasedConfigurationsOfProject(place) ==
  {c \in UNION {ToSet(LinksOf(place, list, "buildConfigurations")) :
                  list \in ToSet(LinksOf(place, Root(place), "buildConfigurationList"))} :
     BaseFiles(place, c) # {}}

BasedConfigurations(place) == {c \in Configurations(place) : BaseFiles(place, c) # {}}

OneOf(files) == CHOOSE f \in files : TRUE

BasePath(place, configuration) == PathOf(place, OneOf(BaseFiles(place, configuration)))

\* The file of each reference to a project, beside the group of its products.
ProjectFiles(place) ==
  LET entries == Entries(loaded[place].path)
      given   == Given(entries[Root(place)], "projectReferences")
      file(n) == given[2 * n]
  IN  [n \in 1..(Len(given) \div 2) |->
         [place |-> place,
          file |-> IF Accepts(entries, Ref("ProjectRef", {"PBXFileReference"}), file(n))
                   THEN file(n) ELSE NONE]]

-----------------------------------------------------------------------------

Init ==
  /\ disk \in Disks
  /\ opening = NONE /\ stack = << >> /\ cache = {} /\ objects = << >>
  /\ pc = "start" /\ paths = << >> /\ roots = << >> /\ references = << >> /\ nested = << >>
  /\ loaded = << >> /\ configs = {} /\ schemeGroups = << >> /\ build = NONE

\* The only project in the working directory, unless one is named.
ProjectPaths == IF Arguments.project # NONE THEN {Arguments.project} ELSE disk.here

\* loadWorkspace, and OpenProject
LoadWorkspace ==
  /\ pc = "start" /\ Arguments.workspace # NONE
  /\ LET workspace == RealPath(Arguments.workspace)
         opens     == workspace \in DOMAIN disk.workspaces /\ disk.workspaces[workspace].defect = NONE
         files     == WorkspaceFiles(workspace)
     IN  /\ pc' = IF opens THEN "workspace" ELSE "failed"
         /\ paths' = IF opens THEN [n \in DOMAIN files |-> ResolveItem(workspace, files[n])] ELSE << >>
  /\ UNCHANGED <<disk, context, roots, references, nested, found>>

LoadProject ==
  /\ pc = "start" /\ Arguments.workspace = NONE
  /\ Cardinality(ProjectPaths) = 1
  /\ paths' = SetToSeq(ProjectPaths)
  /\ pc' = IF Opens(RealPath(paths'[1])) THEN "workspace" ELSE "failed"
  /\ UNCHANGED <<disk, context, roots, references, nested, found>>

\* None, or one of many.
NoProject ==
  /\ pc = "start" /\ Arguments.workspace = NONE
  /\ Cardinality(ProjectPaths) # 1
  /\ pc' = "failed"
  /\ UNCHANGED <<disk, context, paths, roots, references, nested, found>>

Full == Len(loaded) = MaxProjects

\* A file that is not the file of a project is passed over.
OpenWorkspaceProject ==
  /\ pc = "workspace" /\ opening = NONE /\ paths # << >>
  /\ IF Opens(RealPath(Head(paths)))
     THEN OpenProject(RealPath(Head(paths)))
     ELSE UNCHANGED context
  /\ paths' = Tail(paths)
  /\ UNCHANGED <<disk, pc, roots, references, nested, found>>

ParseStep ==
  /\ pc \in {"workspace", "level"} /\ Parse
  /\ UNCHANGED <<disk, progress, found>>

ParseAsserts ==
  /\ pc \in {"workspace", "level"} /\ MissingConfiguration
  /\ pc' = "crashed"
  /\ UNCHANGED <<disk, context, paths, roots, references, nested, found>>

FinishProject ==
  /\ pc \in {"workspace", "level"} /\ opening # NONE /\ stack = << >>
  /\ loaded' = Append(loaded, [path |-> opening, objects |-> objects])
  /\ nested' = Append(nested, Len(loaded'))
  /\ opening' = NONE
  /\ UNCHANGED <<disk, stack, cache, objects, pc, paths, roots, references, configs, schemeGroups, build>>

LevelDone == opening = NONE /\ references = << >> /\ roots = << >> /\ paths = << >>

\* A bug: the projects that are nested in nested ones are not looked for.
NextLevelOnce ==
  /\ pc \in {"workspace", "level"} /\ LevelDone
  /\ roots' = nested /\ nested' = << >>
  /\ pc' = IF nested = << >> \/ pc = "level" THEN "schemes" ELSE "level"
  /\ UNCHANGED <<disk, context, paths, references, found>>

\* The nested projects are the roots of the next level; with none, it is the last.
NextLevel ==
  /\ pc \in {"workspace", "level"} /\ LevelDone
  /\ roots' = nested /\ nested' = << >>
  /\ pc' = IF nested = << >> THEN "schemes" ELSE "level"
  /\ UNCHANGED <<disk, context, paths, references, found>>

\* LoadConfigurationFiles; a file that does not load is passed over.
VisitProject ==
  /\ pc = "level" /\ opening = NONE /\ references = << >> /\ roots # << >>
  /\ LET place   == Head(roots)
         based   == BasedConfigurations(place)
         endless == \E c \in based : \/ \E f \in BaseFiles(place, c) : ClimbsForever(place, f)
                                     \/ LoadConfig(BasePath(place, c)).result = "endless"
     IN  IF endless
         THEN pc' = "endless" /\ UNCHANGED <<configs, references>>
         ELSE /\ configs' = configs \cup
                   {[place |-> place, configuration |-> c, path |-> BasePath(place, c)] :
                      c \in {b \in based : LoadConfig(BasePath(place, b)).result = "ok"}}
              /\ references' = ProjectFiles(place)
              /\ UNCHANGED pc
  /\ roots' = Tail(roots)
  /\ UNCHANGED <<disk, context, paths, nested, loaded, schemeGroups, build>>

\* A reference without a file: projectFileReference->resolve()
MissingReference ==
  /\ pc = "level" /\ opening = NONE /\ references # << >>
  /\ Head(references).file = NONE
  /\ pc' = "crashed"
  /\ UNCHANGED <<disk, context, paths, roots, references, nested, found>>

ClimbForever ==
  /\ pc = "level" /\ opening = NONE /\ references # << >>
  /\ Head(references).file # NONE
  /\ ClimbsForever(Head(references).place, Head(references).file)
  /\ pc' = "endless"
  /\ UNCHANGED <<disk, context, paths, roots, references, nested, found>>

\* A project is opened again for every reference to it.
OpenNestedProject ==
  /\ pc = "level" /\ opening = NONE /\ references # << >>
  /\ LET ref  == Head(references)
         path == RealPath(PathOf(ref.place, ref.file))
     IN  /\ ref.file # NONE /\ ~ClimbsForever(ref.place, ref.file)
         /\ IF Opens(path) /\ ~Full THEN OpenProject(path) ELSE UNCHANGED context
         /\ pc' = IF Opens(path) /\ Full THEN "endless" ELSE pc
  /\ references' = Tail(references)
  /\ UNCHANGED <<disk, paths, roots, nested, found>>

-----------------------------------------------------------------------------
(* SchemeGroup::Open, for the workspace and for each project.               *)

Containers ==
  (IF Arguments.workspace = NONE THEN << >> ELSE <<RealPath(Arguments.workspace)>>) \o
  [place \in DOMAIN loaded |-> loaded[place].path]

SchemeFiles(container, where) ==
  IF container \in DOMAIN disk.schemes THEN disk.schemes[container][where] ELSE {}

\* The files of a directory, in any order.
Listings(files) ==
  {order \in [1..Cardinality(files) -> files] : Cardinality(ToSet(order)) = Cardinality(files)}

\* Scheme::Open; one that cannot be read is left out with a warning.
OpensScheme(file) == file.readable /\ ParsesScheme(file.document)

\* The shared schemes before those of the user.
OpenSchemes ==
  /\ pc = "schemes" /\ Len(schemeGroups) < Len(Containers)
  /\ LET container == Containers[Len(schemeGroups) + 1]
     IN  \E shared \in Listings(SchemeFiles(container, "shared")) :
         \E user \in Listings(SchemeFiles(container, "user")) :
           LET opened == SelectSeq(shared \o user, OpensScheme)
           IN  IF \E n \in DOMAIN opened : Throws(opened[n].document)
               THEN pc' = "crashed" /\ UNCHANGED schemeGroups
               ELSE /\ schemeGroups' = Append(schemeGroups, [container |-> container, schemes |-> opened])
                    /\ UNCHANGED pc
  /\ UNCHANGED <<disk, context, paths, roots, references, nested, loaded, configs, build>>

EndSchemes ==
  /\ pc = "schemes" /\ Len(schemeGroups) = Len(Containers)
  /\ pc' = "context"
  /\ UNCHANGED <<disk, context, paths, roots, references, nested, found>>

-----------------------------------------------------------------------------
(* Parameters::createBuildContext.                                         *)

\* SchemeGroup::scheme: the first of that name.
SchemesNamed(group, name) ==
  SelectSeq(schemeGroups[group].schemes, LAMBDA file : file.name = name)

GroupsWith(name) == {g \in DOMAIN schemeGroups : SchemesNamed(g, name) # << >>}

\* A bug: the scheme of one group, taken to be in another.
FirstSchemeGroupFor(name) == Min(GroupsWith(name))

\* The last group that has the scheme is the one, and gives the scheme too.
SchemeGroupFor(name) == Max(GroupsWith(name))

ChosenScheme(name) == Head(SchemesNamed(Max(GroupsWith(name)), name))

\* The configuration asked for, or that of the scheme or of the project, or none.
ConfigurationOf(scheme) ==
  LET document == scheme.document
      action   == CHOOSE n \in BuildActions(document) : TRUE
  IN  IF Attribute(document, action, "buildConfiguration") = "" THEN "Debug"
      ELSE Attribute(document, action, "buildConfiguration")

DefaultConfiguration ==
  LET lists == LinksOf(1, Root(1), "buildConfigurationList")
      entry == Entries(loaded[1].path)[lists[1]]
  IN  IF "defaultConfigurationName" \in entry.keys THEN entry.name[1] ELSE ""

\* scheme->buildAction(), project()->buildConfigurationList()
ReadsNothing ==
  /\ Arguments.configuration = ""
  /\ IF Arguments.scheme # "" THEN BuildActions(ChosenScheme(Arguments.scheme).document) = {}
     ELSE Arguments.workspace = NONE /\ LinksOf(1, Root(1), "buildConfigurationList") = << >>

Fails ==
  \/ Arguments.action # "build"
  \/ Arguments.scheme # "" /\ GroupsWith(Arguments.scheme) = {}
  \/ /\ Arguments.scheme = "" /\ Arguments.configuration = ""
     /\ \/ Arguments.workspace # NONE
        \/ LinksOf(1, Root(1), "buildConfigurationList") # << >> /\ DefaultConfiguration = ""

CreateBuildContext ==
  /\ pc = "context"
  /\ pc' = IF Fails THEN "failed" ELSE IF ReadsNothing THEN "crashed" ELSE "ready"
  /\ build' =
       IF pc' # "ready" THEN NONE
       ELSE [scheme |-> IF Arguments.scheme = "" THEN NONE ELSE ChosenScheme(Arguments.scheme),
             group |-> IF Arguments.scheme = "" THEN 0 ELSE SchemeGroupFor(Arguments.scheme),
             configuration |-> IF Arguments.configuration # "" THEN Arguments.configuration
                               ELSE IF Arguments.scheme # "" THEN ConfigurationOf(ChosenScheme(Arguments.scheme))
                               ELSE DefaultConfiguration]
  /\ UNCHANGED <<disk, context, paths, roots, references, nested, loaded, configs, schemeGroups>>

Next ==
  \/ LoadWorkspace \/ LoadProject \/ NoProject \/ OpenWorkspaceProject
  \/ ParseStep \/ ParseAsserts \/ FinishProject \/ NextLevel
  \/ VisitProject \/ MissingReference \/ ClimbForever \/ OpenNestedProject
  \/ OpenSchemes \/ EndSchemes \/ CreateBuildContext

Spec == Init /\ [][Next]_vars

-----------------------------------------------------------------------------
(* What a build finds in its context.                                      *)

\* CreateProjectMap: the first of each path.
ProjectMap(path) ==
  LET places == {n \in DOMAIN loaded : loaded[n].path = path}
  IN  IF places = {} THEN 0 ELSE Min(places)

\* BuildableReference::resolve, from the directory the container is in.
ResolveBuildable(group, location) ==
  IF location.kind = "container"
  THEN Directory(schemeGroups[group].container) \o location.path
  ELSE location.path

\* WorkspaceContext::project and resolveTargetIdentifier
FindTarget(group, document, buildable) ==
  IF ~Reads(document, buildable, "ReferencedContainer") THEN NONE
  ELSE LET place  == ProjectMap(ResolveBuildable(group, Attribute(document, buildable, "ReferencedContainer")))
           target == Attribute(document, buildable, "BlueprintIdentifier")
       IN  IF place # 0 /\ target \in ToSet(Targets(place)) THEN <<place, target>> ELSE NONE

\* loadedFilePaths
LoadedFilePaths ==
  (IF Arguments.workspace = NONE THEN {} ELSE {RealPath(Arguments.workspace)}) \cup
  {loaded[n].path : n \in DOMAIN loaded} \cup {config.path : config \in configs}

-----------------------------------------------------------------------------
(* Properties.                                                             *)

\* The objects that an object names, in a field that can hold them.
Named(entries, id) ==
  LET refs == ToSet(Refs[entries[id].isa])
  IN  {to \in UNION {ToSet(Given(entries[id], ref.key)) : ref \in refs} :
         \E ref \in refs : Accepts(entries, ref, to) /\ to \in ToSet(Given(entries[id], ref.key))}

Reachable(path) ==
  LET entries == Entries(path)
      Further(ids, n) == ids \cup UNION {Named(entries, id) : id \in ids}
  IN  FoldLeft(Further, {disk.projects[path].rootObject}, [n \in 1..Cardinality(DOMAIN entries) |-> n])

\* A project that has been read has every object that the root leads to, and each
\* of them is complete, however the objects refer to each other: it has its keys,
\* it is linked to all it names, and its parent is a group that contains it.
ObjectsAreComplete ==
  opening # NONE /\ stack = << >> =>
    LET entries == Entries(opening)
        groups  == {id \in DOMAIN objects : Links(objects, id, "children") # << >>}
    IN  /\ DOMAIN objects = Reachable(opening)
        /\ \A id \in DOMAIN objects :
             /\ objects[id].keys = ReadKeys(entries[id])
             /\ {objects[id].links[l][2] : l \in DOMAIN objects[id].links} = Named(entries, id)
             /\ LET holders == {g \in groups : id \in ToSet(Links(objects, g, "children"))}
                IN  IF holders = {} THEN objects[id].parent = NONE ELSE objects[id].parent \in holders

\* Where a project refers to another.
RefersTo(place) ==
  {RealPath(PathOf(place, ref.file)) :
     ref \in {r \in ToSet(ProjectFiles(place)) : r.file # NONE /\ ~ClimbsForever(place, r.file)}}

\* When the projects are loaded, none is missing that the workspace names.
WorkspaceProjectsAreLoaded ==
  pc = "context" /\ Arguments.workspace # NONE =>
    \A n \in DOMAIN Items(RealPath(Arguments.workspace)) :
      LET path == RealPath(ResolveItem(RealPath(Arguments.workspace), n))
      IN  Items(RealPath(Arguments.workspace))[n].tag = "FileRef" /\ Opens(path) => ProjectMap(path) # 0

\* No project is missing that a loaded one refers to, and each loaded one has
\* every configuration of its own and of its targets whose file loads, the
\* copies of a project that is loaded twice too (LoadNestedProjects).
NestedProjectsAreLoaded ==
  pc = "context" =>
    \A place \in DOMAIN loaded :
      /\ \A path \in RefersTo(place) : Opens(path) => ProjectMap(path) # 0
      /\ \A c \in Configurations(place) :
           BaseFiles(place, c) # {} /\ LoadConfig(BasePath(place, c)).result = "ok" =>
             \E config \in configs : config.place = place /\ config.configuration = c

Circular(nodes, next(_)) ==
  \E node \in nodes :
    LET Further(set, n) == set \cup UNION {next(to) : to \in set \cap nodes}
    IN  node \in FoldLeft(Further, next(node), [n \in 1..Cardinality(nodes) |-> n])

Includes(path) == ToSet(disk.configs[path]) \cap DOMAIN disk.configs

ProjectsFrom(path) == UNION {RefersTo(n) : n \in {m \in DOMAIN loaded : loaded[m].path = path}}

\* Only projects that refer to each other in a circle, configuration files that
\* include each other, or groups that contain each other keep the load from ending.
EndlessOnlyForCycle ==
  pc = "endless" =>
    \/ Circular({loaded[n].path : n \in DOMAIN loaded}, ProjectsFrom)
    \/ Circular(DOMAIN disk.configs, Includes)
    \/ \E n \in DOMAIN loaded : \E id \in DOMAIN loaded[n].objects :
         loaded[n].objects[id].parent # NONE /\ ClimbsForever(n, id)

\* Objects in circles are read completely, and a circle of projects, groups or
\* files is all that keeps a load from ending.
CirclesAreRead == ObjectsAreComplete /\ EndlessOnlyForCycle

\* Each entry of the scheme's build action is in the scheme that a build gets, and
\* one that names a target of a loaded project, from where the scheme lies, leads
\* to that target, of the project that everyone else finds, and to its configurations.
BuildablesAreFound ==
  pc = "ready" /\ build.scheme # NONE =>
    LET document  == build.scheme.document
        container == CHOOSE c \in DOMAIN disk.schemes :
                       build.scheme \in disk.schemes[c].shared \cup disk.schemes[c].user
    IN  \A n \in DOMAIN document :
          document[n].tag = "BuildableReference" /\ document[document[n].up].tag = "BuildActionEntry" =>
            LET location == document[n].attributes["ReferencedContainer"].value
                path     == IF location.kind = "container" THEN Directory(container) \o location.path ELSE location.path
                target   == document[n].attributes["BlueprintIdentifier"].value
                place    == ProjectMap(path)
            IN  /\ n \in UNION {Buildables(document, e) : e \in ToSet(BuildActionEntries(document))}
                /\ place # 0 /\ target \in ToSet(Targets(place)) =>
                     FindTarget(build.group, document, n) = <<place, target>>

\* The names in a workspace and in the scheme of a build lead to what they name
\* (WorkspaceContext::Workspace, BuildableReference::resolve).
NamesAreFollowed == WorkspaceProjectsAreLoaded /\ BuildablesAreFound

\* Every project and configuration file that the context was made of is one that a
\* later build looks at, to tell whether the context is stale.
LoadedFilesAreListed ==
  pc = "ready" =>
    /\ \A n \in DOMAIN loaded : loaded[n].path \in LoadedFilePaths
    /\ \A config \in configs : LoadConfig(config.path).read \subseteq LoadedFilePaths
=============================================================================
