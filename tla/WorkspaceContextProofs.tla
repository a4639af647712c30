------------------------- MODULE WorkspaceContextProofs -------------------------
(***************************************************************************)
(* Proofs about WorkspaceContext for every disk and every bound: whatever    *)
(* way projects are nested in each other, a load that ends has left none of  *)
(* them out, and no configuration.                                          *)
(***************************************************************************)
EXTENDS WorkspaceContext, NaturalsInduction, WellFoundedInduction, SequenceTheorems, TLAPS

\* A sequence, of whatever, and what is in it.
IsList(s) == Len(s) \in Nat /\ s \in Seq({s[i] : i \in 1..Len(s)})
In(s)     == {s[i] : i \in 1..Len(s)}

Places == 1..Len(loaded)

Typed == disk \in Disks /\ IsList(loaded) /\ IsList(roots) /\ IsList(nested) /\ IsList(references)

\* Only files of projects are opened.
FilesOpen ==
  /\ opening # NONE => Opens(opening)
  /\ \A place \in Places : Opens(loaded[place].path)

PlacesAreLoaded == In(roots) \cup In(nested) \subseteq Places

\* What there is to do at each stage.
Stages ==
  /\ pc \in {"start", "workspace"} => roots = << >> /\ references = << >>
  /\ pc \in {"schemes", "context", "ready"} =>
       opening = NONE /\ roots = << >> /\ nested = << >> /\ references = << >>

\* A reference that leads to the path, from the place.
Leads(ref, place, path) ==
  /\ ref.place = place /\ ref.file # NONE /\ ~ClimbsForever(place, ref.file)
  /\ path = RealPath(PathOf(place, ref.file))

\* A project of the path is loaded, or about to be.
Awaited(place, path) ==
  \/ \E other \in Places : loaded[other].path = path
  \/ opening # NONE /\ opening = path
  \/ \E ref \in In(references) : Leads(ref, place, path)

Configured(place) ==
  \A c \in Configurations(place) :
    BaseFiles(place, c) # {} /\ LoadConfig(BasePath(place, c)).result = "ok" =>
      \E config \in configs : config.place = place /\ config.configuration = c

Visited(place) ==
  (\A path \in RefersTo(place) : Opens(path) => Awaited(place, path)) /\ Configured(place)

\* A project that is loaded has been visited, or is still on one of the lists.
AllAreSeen ==
  pc # "endless" /\ pc # "crashed" =>
    \A place \in Places : place \in In(roots) \cup In(nested) \/ Visited(place)

IInv == Typed /\ FilesOpen /\ PlacesAreLoaded /\ Stages /\ AllAreSeen

-----------------------------------------------------------------------------

LEMMA FunctionsAreLists ==
  ASSUME NEW s, NEW n \in Nat, s = [i \in 1..n |-> s[i]]
  PROVE  IsList(s) /\ Len(s) = n
<1> DEFINE S == {s[i] : i \in 1..n}
<1>1. s \in [1..n -> S]
  OBVIOUS
<1>2. s \in Seq(S)
  BY <1>1, SeqDef
<1>3. DOMAIN s = 1..n /\ DOMAIN s = 1..Len(s) /\ Len(s) \in Nat
  BY <1>1, <1>2, LenProperties
<1>4. Len(s) = n
  <2>1. n \in 1..n \/ n = 0
    OBVIOUS
  <2>2. Len(s) \in 1..Len(s) \/ Len(s) = 0
    BY <1>3
  <2>3. QED
    BY <1>3, <2>1, <2>2
<1>5. QED
  BY <1>2, <1>4 DEF IsList

LEMMA NoList == IsList(<< >>) /\ Len(<< >>) = 0 /\ In(<< >>) = {}
BY DEF IsList, In

LEMMA ListDomain ==
  ASSUME NEW s, IsList(s)
  PROVE  DOMAIN s = 1..Len(s) /\ Len(s) \in Nat
BY LenProperties DEF IsList

LEMMA TailOfList ==
  ASSUME NEW s, IsList(s), s # << >>
  PROVE  IsList(Tail(s)) /\ Head(s) \in In(s) /\ In(s) = {Head(s)} \cup In(Tail(s))
<1> DEFINE S == {s[i] : i \in 1..Len(s)}
<1>1. s \in Seq(S) /\ Len(s) \in Nat
  BY DEF IsList
<1> HIDE DEF S
<1>2. PICK t : t = Tail(s)
  OBVIOUS
<1>3. /\ t \in Seq(S) /\ Len(t) = Len(s) - 1 /\ Head(s) = s[1]
      /\ \A i \in 1..Len(t) : t[i] = s[i + 1]
      /\ Len(s) # 0
  BY <1>1, <1>2, HeadTailProperties, EmptySeq
<1>4. t \in [1..Len(t) -> S] /\ Len(t) \in Nat
  BY <1>3, LenProperties
<1>5. IsList(t)
  <2>1. t = [i \in 1..Len(t) |-> t[i]]
    BY <1>4
  <2>2. QED
    BY <1>4, <2>1, FunctionsAreLists
<1>6. \A i \in 1..Len(s) : i = 1 \/ (i - 1 \in 1..Len(t) /\ t[i - 1] = s[i])
  BY <1>1, <1>3
<1>7. \A i \in 1..Len(t) : i + 1 \in 1..Len(s) /\ t[i] = s[i + 1]
  BY <1>1, <1>3
<1>8. 1 \in 1..Len(s)
  BY <1>1, <1>3
<1>9. In(s) = {s[1]} \cup In(t)
  BY <1>6, <1>7, <1>8 DEF In
<1>10. QED
  BY <1>2, <1>3, <1>5, <1>9

LEMMA AppendToList ==
  ASSUME NEW s, IsList(s), NEW x
  PROVE  /\ IsList(Append(s, x)) /\ Len(Append(s, x)) = Len(s) + 1
         /\ \A i \in 1..Len(s) : Append(s, x)[i] = s[i]
         /\ Append(s, x)[Len(s) + 1] = x
         /\ In(Append(s, x)) = In(s) \cup {x}
<1> DEFINE S == {s[i] : i \in 1..Len(s)} \cup {x}
<1>1. s \in Seq(S) /\ Len(s) \in Nat
  <2>1. s \in Seq({s[i] : i \in 1..Len(s)}) /\ Len(s) \in Nat
    BY DEF IsList
  <2>2. s \in [1..Len(s) -> S]
    BY <2>1, LenProperties
  <2>3. QED
    BY <2>1, <2>2, SeqDef
<1>2. x \in S
  OBVIOUS
<1> HIDE DEF S
<1>3. PICK t : t = Append(s, x)
  OBVIOUS
<1>4. /\ t \in Seq(S) /\ Len(t) = Len(s) + 1
      /\ \A i \in 1..Len(s) : t[i] = s[i]
      /\ t[Len(s) + 1] = x
  BY <1>1, <1>2, <1>3, AppendProperties
<1>5. t \in [1..Len(t) -> S] /\ Len(t) \in Nat
  BY <1>4, LenProperties
<1>6. IsList(t)
  <2>1. t = [i \in 1..Len(t) |-> t[i]]
    BY <1>5
  <2>2. QED
    BY <1>5, <2>1, FunctionsAreLists
<1>7. \A i : i \in 1..Len(t) <=> i \in 1..Len(s) \/ i = Len(s) + 1
  BY <1>1, <1>4
<1>8. In(t) = In(s) \cup {x}
  BY <1>4, <1>7 DEF In
<1>9. QED
  BY <1>3, <1>4, <1>6, <1>8

\* The references of a project, each of them to be opened from its place.
LEMMA ProjectFilesAreListed ==
  ASSUME disk \in Disks, NEW place, Opens(loaded[place].path)
  PROVE  IsList(ProjectFiles(place)) /\ ToSet(ProjectFiles(place)) = In(ProjectFiles(place))
         /\ \A ref \in In(ProjectFiles(place)) : ref.place = place
<1> DEFINE path == loaded[place].path
           given == Given(Entries(path)[Root(place)], "projectReferences")
<1>1. Len(given) \in Nat
  BY WorkspaceAssumption DEF Opens, Entries, Root
<1>2. PICK n : n = Len(given) \div 2
  OBVIOUS
<1>3. n \in Nat
  BY <1>1, <1>2
<1>4. PICK list : list = ProjectFiles(place)
  OBVIOUS
<1>5. /\ list = [i \in 1..n |-> list[i]]
      /\ \A i \in 1..n : list[i].place = place
  BY <1>2, <1>4 DEF ProjectFiles
<1>6. IsList(list) /\ Len(list) = n
  BY <1>3, <1>5, FunctionsAreLists
<1>7. DOMAIN list = 1..Len(list)
  BY <1>6, ListDomain
<1>8. ToSet(list) = In(list)
  BY <1>7 DEF ToSet, In
<1>9. \A ref \in In(list) : ref.place = place
  BY <1>5, <1>6 DEF In
<1>10. QED
  BY <1>4, <1>6, <1>8, <1>9

\* What is known of a place that stays.
LEMMA PlacesStay ==
  ASSUME disk' = disk, NEW place, loaded'[place] = loaded[place]
  PROVE  /\ RefersTo(place)' = RefersTo(place)
         /\ Configurations(place)' = Configurations(place)
         /\ \A c : BaseFiles(place, c)' = BaseFiles(place, c)
         /\ \A c : LoadConfig(BasePath(place, c))' = LoadConfig(BasePath(place, c))
         /\ \A path : Opens(path)' = Opens(path)
         /\ \A ref, path : Leads(ref, place, path)' = Leads(ref, place, path)
<1>1. \A path : RealPath(path)' = RealPath(path) /\ Opens(path)' = Opens(path)
  BY DEF RealPath, Opens, Entries
<1>2. \A id : PathOf(place, id)' = PathOf(place, id)
  BY DEF PathOf, ExpandPath, SourceRoot, Directory, Entries
<1>3. \A id : ClimbsForever(place, id)' = ClimbsForever(place, id)
  BY DEF ClimbsForever, Entries
<1>4. ProjectFiles(place)' = ProjectFiles(place)
  BY DEF ProjectFiles, Entries, Root
<1>5. RefersTo(place)' = RefersTo(place)
  BY <1>1, <1>2, <1>3, <1>4 DEF RefersTo
<1>6. \A id, key : LinksOf(place, id, key)' = LinksOf(place, id, key)
  BY DEF LinksOf
<1>7. Root(place)' = Root(place)
  BY DEF Root
<1>8. Configurations(place)' = Configurations(place) /\ \A c : BaseFiles(place, c)' = BaseFiles(place, c)
  BY <1>6, <1>7 DEF Configurations, Targets, BaseFiles
<1>9. \A c : BasePath(place, c)' = BasePath(place, c)
  <2>1. \A c : OneOf(BaseFiles(place, c))' = OneOf(BaseFiles(place, c))
    BY <1>8
  <2>2. QED
    BY <1>2, <2>1 DEF BasePath
<1>10. \A path : LoadConfig(path)' = LoadConfig(path)
  BY DEF LoadConfig
<1>11. \A ref, path : Leads(ref, place, path)' = Leads(ref, place, path)
  BY <1>1, <1>2, <1>3 DEF Leads
<1>12. \A c : LoadConfig(BasePath(place, c))' = LoadConfig(BasePath(place, c))
  BY <1>9, <1>10
<1>13. QED
  BY <1>1, <1>5, <1>8, <1>11, <1>12

\* Every place that was loaded is, with the same project.
ProjectsKeep ==
  /\ disk' = disk
  /\ Len(loaded) <= Len(loaded') /\ Len(loaded') \in Nat
  /\ \A place \in Places : loaded'[place] = loaded[place]
  /\ configs \subseteq configs'

\* What has been visited stays so, if what it waits for still comes.
LEMMA VisitedStays ==
  ASSUME Typed, ProjectsKeep, NEW place \in Places, Visited(place),
         \A path : Opens(path) /\ Awaited(place, path) => Awaited(place, path)'
  PROVE  Visited(place)'
<1>1. /\ RefersTo(place)' = RefersTo(place)
      /\ Configurations(place)' = Configurations(place)
      /\ \A c : BaseFiles(place, c)' = BaseFiles(place, c)
      /\ \A c : LoadConfig(BasePath(place, c))' = LoadConfig(BasePath(place, c))
      /\ \A path : Opens(path)' = Opens(path)
  BY PlacesStay DEF ProjectsKeep
<1>2. \A path \in RefersTo(place)' : Opens(path)' => Awaited(place, path)'
  BY <1>1 DEF Visited
<1>3. Configured(place)'
  <2>1. SUFFICES ASSUME NEW c \in Configurations(place), BaseFiles(place, c) # {},
                        LoadConfig(BasePath(place, c)).result = "ok"
                 PROVE  \E config \in configs' : config.place = place /\ config.configuration = c
    BY <1>1 DEF Configured
  <2>2. PICK config \in configs : config.place = place /\ config.configuration = c
    BY <2>1 DEF Visited, Configured
  <2>3. QED
    BY <2>2 DEF ProjectsKeep
<1>4. QED
  BY <1>2, <1>3 DEF Visited

\* Nothing that is awaited is lost with the list of projects longer and the rest as it was.
LEMMA AwaitedStays ==
  ASSUME Typed, ProjectsKeep, NEW place \in Places, NEW path, Awaited(place, path),
         opening = NONE \/ opening' = opening \/ (Len(loaded') = Len(loaded) + 1 /\ loaded'[Len(loaded')].path = opening),
         In(references) \subseteq In(references')
  PROVE  Awaited(place, path)'
<1>1. CASE \E other \in Places : loaded[other].path = path
  <2>1. PICK other \in Places : loaded[other].path = path
    BY <1>1
  <2>2. other \in 1..Len(loaded') /\ loaded'[other].path = path
    <3>1. Len(loaded) \in Nat /\ Len(loaded') \in Nat /\ Len(loaded) <= Len(loaded')
      BY DEF ProjectsKeep, Typed, IsList
    <3>2. loaded'[other] = loaded[other]
      BY DEF ProjectsKeep
    <3>3. QED
      BY <2>1, <3>1, <3>2 DEF Places
  <2>3. QED
    BY <2>2 DEF Awaited, Places
<1>2. CASE opening # NONE /\ opening = path
  <2>1. CASE opening' = opening
    BY <1>2, <2>1 DEF Awaited
  <2>2. CASE Len(loaded') = Len(loaded) + 1 /\ loaded'[Len(loaded')].path = opening
    <3>1. Len(loaded') \in 1..Len(loaded')
      BY <2>2 DEF ProjectsKeep, Typed, IsList
    <3>2. QED
      BY <1>2, <2>2, <3>1 DEF Awaited, Places
  <2>3. QED
    BY <1>2, <2>1, <2>2
<1>3. CASE \E ref \in In(references) : Leads(ref, place, path)
  <2>1. PICK ref \in In(references) : Leads(ref, place, path)
    BY <1>3
  <2>2. Leads(ref, place, path)'
    BY <2>1, PlacesStay DEF ProjectsKeep
  <2>3. ref \in In(references)'
    BY DEF In
  <2>4. QED
    BY <2>2, <2>3 DEF Awaited
<1>4. QED
  BY <1>1, <1>2, <1>3 DEF Awaited

\* A step that leaves the projects and the lists of what there is to do alone.
LEMMA QuietStepIsSafe ==
  ASSUME IInv, UNCHANGED <<disk, loaded, opening, roots, nested, references, configs>>,
         Stages', pc' \notin {"endless", "crashed"} => pc \notin {"endless", "crashed"}
  PROVE  IInv'
<1>1. Typed'
  BY DEF IInv, Typed, IsList
<1>2. \A path : Opens(path)' = Opens(path)
  BY DEF Opens, Entries
<1>3. FilesOpen'
  BY <1>2 DEF IInv, FilesOpen, Places
<1>4. PlacesAreLoaded'
  BY DEF IInv, PlacesAreLoaded, Places, In
<1>5. ProjectsKeep
  BY DEF ProjectsKeep, IInv, Typed, IsList
<1>6. AllAreSeen'
  <2>1. SUFFICES ASSUME pc' \notin {"endless", "crashed"}, NEW place \in Places,
                        ~(place \in In(roots) \cup In(nested))
                 PROVE  Visited(place)'
    BY DEF AllAreSeen, Places, In
  <2>2. Visited(place)
    BY <2>1 DEF IInv, AllAreSeen
  <2>3. \A path : Awaited(place, path) => Awaited(place, path)'
    BY <1>5, AwaitedStays DEF IInv
  <2>4. QED
    BY <1>5, <2>2, <2>3, VisitedStays DEF IInv
<1>7. QED
  BY <1>1, <1>3, <1>4, <1>6 DEF IInv

LEMMA LoadWorkspaceIsSafe == IInv /\ LoadWorkspace => IInv'
<1> SUFFICES ASSUME IInv, LoadWorkspace PROVE IInv'
  OBVIOUS
<1>1. /\ pc = "start" /\ pc' \in {"workspace", "failed"}
      /\ UNCHANGED <<disk, loaded, opening, roots, nested, references, configs>>
  BY DEF LoadWorkspace, context, found
<1>2. Stages'
  BY <1>1 DEF IInv, Stages
<1>3. QED
  BY <1>1, <1>2, QuietStepIsSafe

LEMMA LoadProjectIsSafe == IInv /\ (LoadProject \/ NoProject) => IInv'
<1> SUFFICES ASSUME IInv, LoadProject \/ NoProject PROVE IInv'
  OBVIOUS
<1>1. /\ pc = "start" /\ pc' \in {"workspace", "failed"}
      /\ UNCHANGED <<disk, loaded, opening, roots, nested, references, configs>>
  BY DEF LoadProject, NoProject, context, found
<1>2. Stages'
  BY <1>1 DEF IInv, Stages
<1>3. QED
  BY <1>1, <1>2, QuietStepIsSafe

LEMMA ParseStepIsSafe == IInv /\ ParseStep => IInv'
<1> SUFFICES ASSUME IInv, ParseStep PROVE IInv'
  OBVIOUS
<1>1. /\ pc \in {"workspace", "level"} /\ pc' = pc
      /\ UNCHANGED <<disk, loaded, opening, roots, nested, references, configs>>
  BY DEF ParseStep, Parse, ParseObject, LinkObject, ReturnObject, progress, found
<1>2. Stages'
  BY <1>1 DEF IInv, Stages
<1>3. QED
  BY <1>1, <1>2, QuietStepIsSafe

LEMMA StopIsSafe == IInv /\ (ParseAsserts \/ MissingReference \/ ClimbForever) => IInv'
<1> SUFFICES ASSUME IInv, ParseAsserts \/ MissingReference \/ ClimbForever PROVE IInv'
  OBVIOUS
<1>1. /\ pc' \in {"crashed", "endless"}
      /\ UNCHANGED <<disk, loaded, opening, roots, nested, references, configs>>
  BY DEF ParseAsserts, MissingReference, ClimbForever, context, found
<1>2. Stages'
  BY <1>1 DEF Stages
<1>3. QED
  BY <1>1, <1>2, QuietStepIsSafe

LEMMA OpenSchemesIsSafe == IInv /\ (OpenSchemes \/ EndSchemes) => IInv'
<1> SUFFICES ASSUME IInv, OpenSchemes \/ EndSchemes PROVE IInv'
  OBVIOUS
<1>1. /\ pc = "schemes" /\ pc' \in {"schemes", "crashed", "context"}
      /\ UNCHANGED <<disk, loaded, opening, roots, nested, references, configs>>
  <2>1. CASE OpenSchemes
    <3> DEFINE container == Containers[Len(schemeGroups) + 1]
    <3>1. PICK shared \in Listings(SchemeFiles(container, "shared")),
               user \in Listings(SchemeFiles(container, "user")) :
            LET opened == SelectSeq(shared \o user, OpensScheme)
            IN  IF \E n \in DOMAIN opened : Throws(opened[n].document)
                THEN pc' = "crashed" /\ UNCHANGED schemeGroups
                ELSE /\ schemeGroups' = Append(schemeGroups, [container |-> container, schemes |-> opened])
                     /\ UNCHANGED pc
      BY <2>1, Zenon DEF OpenSchemes
    <3>2. pc' \in {"crashed", pc}
      BY <3>1
    <3>3. pc = "schemes" /\ UNCHANGED <<disk, context, paths, roots, references, nested, loaded, configs, build>>
      BY <2>1 DEF OpenSchemes
    <3>4. QED
      BY <3>2, <3>3 DEF context
  <2>2. CASE EndSchemes
    BY <2>2 DEF EndSchemes, context, found
  <2>3. QED
    BY <2>1, <2>2
<1>2. Stages'
  BY <1>1 DEF IInv, Stages
<1>3. QED
  BY <1>1, <1>2, QuietStepIsSafe

LEMMA CreateBuildContextIsSafe == IInv /\ CreateBuildContext => IInv'
<1> SUFFICES ASSUME IInv, CreateBuildContext PROVE IInv'
  OBVIOUS
<1>1. /\ pc = "context" /\ pc' \in {"failed", "crashed", "ready"}
      /\ UNCHANGED <<disk, loaded, opening, roots, nested, references, configs>>
  BY DEF CreateBuildContext, context
<1>2. Stages'
  BY <1>1 DEF IInv, Stages
<1>3. QED
  BY <1>1, <1>2, QuietStepIsSafe

\* A project of the workspace is opened, or passed over.
LEMMA OpenWorkspaceProjectIsSafe == IInv /\ OpenWorkspaceProject => IInv'
<1> SUFFICES ASSUME IInv, OpenWorkspaceProject PROVE IInv'
  OBVIOUS
<1> DEFINE path == RealPath(Head(paths))
<1>1. /\ pc = "workspace" /\ pc' = pc /\ opening = NONE
      /\ UNCHANGED <<disk, loaded, roots, nested, references, configs>>
      /\ opening' = opening \/ (Opens(path) /\ opening' = path)
  BY DEF OpenWorkspaceProject, OpenProject, context, found
<1>2. Typed'
  BY <1>1 DEF IInv, Typed, IsList
<1>3. \A p : Opens(p)' = Opens(p)
  BY <1>1 DEF Opens, Entries
<1>4. FilesOpen'
  <2>1. \A place \in Places : Opens(loaded'[place].path)
    BY <1>1 DEF IInv, FilesOpen
  <2>2. Places' = Places /\ (opening' # NONE => Opens(opening'))
    BY <1>1 DEF Places
  <2>3. QED
    BY <1>3, <2>1, <2>2 DEF FilesOpen
<1>5. PlacesAreLoaded'
  BY <1>1 DEF IInv, PlacesAreLoaded, Places, In
<1>6. Stages'
  BY <1>1 DEF IInv, Stages
<1>7. ProjectsKeep
  BY <1>1 DEF ProjectsKeep, IInv, Typed, IsList
<1>8. AllAreSeen'
  <2>1. SUFFICES ASSUME NEW place \in Places, ~(place \in In(roots) \cup In(nested))
                 PROVE  Visited(place)'
    BY <1>1 DEF AllAreSeen, Places, In
  <2>2. Visited(place)
    BY <1>1, <2>1 DEF IInv, AllAreSeen
  <2>3. In(references) \subseteq In(references')
    BY <1>1
  <2>4. \A p : Awaited(place, p) => Awaited(place, p)'
    BY <1>1, <1>7, <2>3, AwaitedStays DEF IInv
  <2>5. QED
    BY <1>7, <2>2, <2>4, VisitedStays DEF IInv
<1>9. QED
  BY <1>2, <1>4, <1>5, <1>6, <1>8 DEF IInv

\* The project that was read is loaded, and has still to be visited.
LEMMA FinishProjectIsSafe == IInv /\ FinishProject => IInv'
<1> SUFFICES ASSUME IInv, FinishProject PROVE IInv'
  OBVIOUS
<1> DEFINE project == [path |-> opening, objects |-> objects]
<1>1. /\ pc \in {"workspace", "level"} /\ pc' = pc
      /\ opening # NONE /\ opening' = NONE
      /\ loaded' = Append(loaded, project)
      /\ nested' = Append(nested, Len(loaded'))
      /\ UNCHANGED <<disk, roots, references, configs>>
  BY DEF FinishProject
<1>2. project.path = opening
  OBVIOUS
<1> HIDE DEF project
<1>3. /\ IsList(loaded') /\ Len(loaded') = Len(loaded) + 1 /\ Len(loaded) \in Nat
      /\ \A place \in Places : loaded'[place] = loaded[place]
      /\ loaded'[Len(loaded) + 1] = project
  <2>1. IsList(loaded) /\ Len(loaded) \in Nat
    BY DEF IInv, Typed, IsList
  <2>2. QED
    BY <1>1, <2>1, AppendToList DEF Places
<1>4. IsList(nested') /\ In(nested') = In(nested) \cup {Len(loaded')}
  BY <1>1, AppendToList DEF IInv, Typed
<1>5. Typed'
  BY <1>1, <1>3, <1>4 DEF IInv, Typed, IsList
<1>6. \A p : Opens(p)' = Opens(p)
  BY <1>1 DEF Opens, Entries
<1>7. \A place : place \in Places' <=> place \in Places \/ place = Len(loaded')
  BY <1>3 DEF Places
<1>8. FilesOpen'
  <2>1. Opens(opening)
    BY <1>1 DEF IInv, FilesOpen
  <2>2. \A place \in Places : Opens(loaded'[place].path)
    BY <1>3 DEF IInv, FilesOpen
  <2>3. Opens(loaded'[Len(loaded')].path)
    BY <1>2, <1>3, <2>1
  <2>4. QED
    BY <1>1, <1>6, <1>7, <2>2, <2>3 DEF FilesOpen
<1>9. PlacesAreLoaded'
  <2>1. In(roots') = In(roots)
    BY <1>1
  <2>2. In(roots)' \cup In(nested)' \subseteq Places'
    BY <1>4, <1>7, <2>1 DEF IInv, PlacesAreLoaded, In
  <2>3. QED
    BY <2>2 DEF PlacesAreLoaded
<1>10. Stages'
  BY <1>1 DEF IInv, Stages
<1>11. ProjectsKeep
  <2>1. Len(loaded) <= Len(loaded') /\ Len(loaded') \in Nat
    BY <1>3
  <2>2. QED
    BY <1>1, <1>3, <2>1 DEF ProjectsKeep
<1>12. AllAreSeen'
  <2>1. SUFFICES ASSUME NEW place \in Places', ~(place \in In(roots') \cup In(nested'))
                 PROVE  Visited(place)'
    BY <1>1 DEF AllAreSeen, In
  <2>2. place \in Places /\ ~(place \in In(roots) \cup In(nested))
    BY <1>1, <1>4, <1>7, <2>1
  <2>3. Visited(place)
    BY <1>1, <2>2 DEF IInv, AllAreSeen
  <2>4. In(references) \subseteq In(references')
    BY <1>1
  <2>5. loaded'[Len(loaded')].path = opening
    BY <1>2, <1>3
  <2>6. \A p : Awaited(place, p) => Awaited(place, p)'
    BY <1>3, <1>11, <2>2, <2>4, <2>5, AwaitedStays DEF IInv
  <2>7. QED
    BY <1>11, <2>2, <2>3, <2>6, VisitedStays DEF IInv
<1>13. QED
  BY <1>5, <1>8, <1>9, <1>10, <1>12 DEF IInv

\* The projects found on this level are the roots of the next, or there are none.
LEMMA NextLevelIsSafe == IInv /\ NextLevel => IInv'
<1> SUFFICES ASSUME IInv, NextLevel PROVE IInv'
  OBVIOUS
<1>1. /\ pc \in {"workspace", "level"} /\ pc' = IF nested = << >> THEN "schemes" ELSE "level"
      /\ opening = NONE /\ opening' = NONE /\ references = << >> /\ roots = << >>
      /\ roots' = nested /\ nested' = << >>
      /\ UNCHANGED <<disk, loaded, references, configs>>
  BY DEF NextLevel, LevelDone, context, found
<1>2. Typed'
  BY <1>1, NoList DEF IInv, Typed, IsList
<1>3. \A p : Opens(p)' = Opens(p)
  BY <1>1 DEF Opens, Entries
<1>4. FilesOpen'
  BY <1>1, <1>3 DEF IInv, FilesOpen, Places
<1>5. In(roots)' \cup In(nested)' = In(roots) \cup In(nested)
  <2>1. In(roots') \cup In(nested') = In(roots) \cup In(nested)
    BY <1>1, NoList
  <2>2. QED
    BY <2>1 DEF In
<1>6. PlacesAreLoaded'
  BY <1>1, <1>5 DEF IInv, PlacesAreLoaded, Places
<1>7. Stages'
  BY <1>1 DEF Stages
<1>8. ProjectsKeep
  BY <1>1 DEF ProjectsKeep, IInv, Typed, IsList
<1>9. AllAreSeen'
  <2>1. SUFFICES ASSUME NEW place \in Places, ~(place \in In(roots) \cup In(nested))
                 PROVE  Visited(place)'
    BY <1>1, <1>5 DEF AllAreSeen, Places
  <2>2. Visited(place)
    BY <1>1, <2>1 DEF IInv, AllAreSeen
  <2>3. In(references) \subseteq In(references')
    BY <1>1
  <2>4. \A p : Awaited(place, p) => Awaited(place, p)'
    BY <1>1, <1>8, <2>3, AwaitedStays DEF IInv
  <2>5. QED
    BY <1>8, <2>2, <2>4, VisitedStays DEF IInv
<1>10. QED
  BY <1>2, <1>4, <1>6, <1>7, <1>9 DEF IInv

\* A project is visited: its configurations are loaded, its references listed.
LEMMA VisitProjectIsSafe == IInv /\ VisitProject => IInv'
<1> SUFFICES ASSUME IInv, VisitProject PROVE IInv'
  OBVIOUS
<1>0. PICK here : here = Head(roots)
  OBVIOUS
<1> DEFINE based == BasedConfigurations(here)
           loads == {[place |-> here, configuration |-> c, path |-> BasePath(here, c)] :
                       c \in {b \in based : LoadConfig(BasePath(here, b)).result = "ok"}}
<1>1. /\ pc = "level" /\ opening = NONE /\ opening' = NONE /\ references = << >>
      /\ roots # << >> /\ roots' = Tail(roots)
      /\ UNCHANGED <<disk, loaded, nested>>
  BY DEF VisitProject, context
<1>2. \/ pc' = "endless" /\ UNCHANGED <<configs, references>>
      \/ pc' = pc /\ configs' = configs \cup loads /\ references' = ProjectFiles(here)
  BY <1>0 DEF VisitProject
<1>3. IsList(roots') /\ here \in In(roots) /\ In(roots) = {here} \cup In(roots')
  BY <1>0, <1>1, TailOfList DEF IInv, Typed
<1>4. here \in Places /\ Opens(loaded[here].path)
  BY <1>3 DEF IInv, PlacesAreLoaded, FilesOpen
<1>5. IsList(ProjectFiles(here)) /\ ToSet(ProjectFiles(here)) = In(ProjectFiles(here))
      /\ \A ref \in In(ProjectFiles(here)) : ref.place = here
  BY <1>4, ProjectFilesAreListed DEF IInv, Typed
<1>6. Typed'
  <2>1. IsList(references')
    BY <1>1, <1>2, <1>5, NoList
  <2>2. QED
    BY <1>1, <1>3, <2>1 DEF IInv, Typed, IsList
<1>7. \A p : Opens(p)' = Opens(p)
  BY <1>1 DEF Opens, Entries
<1>8. FilesOpen'
  BY <1>1, <1>7 DEF IInv, FilesOpen, Places
<1>9. PlacesAreLoaded'
  <2>1. In(roots') \cup In(nested') \subseteq Places
    BY <1>1, <1>3 DEF IInv, PlacesAreLoaded
  <2>2. QED
    BY <1>1, <2>1 DEF PlacesAreLoaded, Places, In
<1>10. Stages'
  BY <1>1, <1>2 DEF Stages
<1>11. CASE pc' = "endless"
  BY <1>6, <1>8, <1>9, <1>10, <1>11 DEF IInv, AllAreSeen
<1>12. CASE pc' = pc /\ configs' = configs \cup loads /\ references' = ProjectFiles(here)
  <2>1. ProjectsKeep
    BY <1>1, <1>12 DEF ProjectsKeep, IInv, Typed, IsList
  <2>2. SUFFICES ASSUME NEW place \in Places, ~(place \in In(roots') \cup In(nested'))
                 PROVE  Visited(place)'
    BY <1>1, <1>6, <1>8, <1>9, <1>10 DEF IInv, AllAreSeen, Places, In
  <2>3. CASE place \notin In(roots) \cup In(nested)
    <3>1. Visited(place)
      BY <1>1, <2>3 DEF IInv, AllAreSeen
    <3>2. In(references) \subseteq In(references')
      BY <1>1, NoList
    <3>3. \A p : Awaited(place, p) => Awaited(place, p)'
      BY <1>1, <2>1, <3>2, AwaitedStays DEF IInv
    <3>4. QED
      BY <2>1, <3>1, <3>3, VisitedStays DEF IInv
  <2>4. CASE place = here
    <3>1. /\ RefersTo(here)' = RefersTo(here)
          /\ Configurations(here)' = Configurations(here)
          /\ \A c : BaseFiles(here, c)' = BaseFiles(here, c)
          /\ \A c : LoadConfig(BasePath(here, c))' = LoadConfig(BasePath(here, c))
          /\ \A ref, path : Leads(ref, here, path)' = Leads(ref, here, path)
      BY <1>1, PlacesStay
    <3>2. ASSUME NEW path \in RefersTo(here)
          PROVE  Awaited(here, path)'
      <4>1. PICK ref \in ToSet(ProjectFiles(here)) :
              ref.file # NONE /\ ~ClimbsForever(here, ref.file) /\ path = RealPath(PathOf(here, ref.file))
        BY DEF RefersTo
      <4>2. ref \in In(references') /\ Leads(ref, here, path)
        BY <1>5, <1>12, <4>1 DEF Leads
      <4>3. ref \in In(references)'
        BY <4>2 DEF In
      <4>4. QED
        BY <3>1, <4>2, <4>3 DEF Awaited
    <3>3. ASSUME NEW c \in Configurations(here), BaseFiles(here, c) # {},
                 LoadConfig(BasePath(here, c)).result = "ok"
          PROVE  \E config \in configs' : config.place = here /\ config.configuration = c
      <4>1. c \in based
        BY <3>3 DEF BasedConfigurations
      <4>2. [place |-> here, configuration |-> c, path |-> BasePath(here, c)] \in configs'
        BY <1>12, <3>3, <4>1
      <4>3. QED
        BY <4>2
    <3>4. Configured(here)'
      BY <3>1, <3>3 DEF Configured
    <3>5. Visited(here)'
      BY <3>1, <3>2, <3>4 DEF Visited
    <3>6. QED
      BY <2>4, <3>5
  <2>5. QED
    BY <1>1, <1>3, <2>2, <2>3, <2>4
<1>13. QED
  BY <1>2, <1>11, <1>12

\* A reference is followed: its project is opened, or is none, or is one too many.
LEMMA OpenNestedProjectIsSafe == IInv /\ OpenNestedProject => IInv'
<1> SUFFICES ASSUME IInv, OpenNestedProject PROVE IInv'
  OBVIOUS
<1>0. PICK ref : ref = Head(references)
  OBVIOUS
<1>1. PICK path : path = RealPath(PathOf(ref.place, ref.file))
  OBVIOUS
<1>2. /\ pc = "level" /\ opening = NONE /\ references # << >> /\ references' = Tail(references)
      /\ UNCHANGED <<disk, loaded, roots, nested, configs>>
  BY DEF OpenNestedProject, found
<1>3. /\ IF Opens(path) /\ ~Full THEN OpenProject(path) ELSE UNCHANGED context
      /\ pc' = IF Opens(path) /\ Full THEN "endless" ELSE pc
  BY <1>0, <1>1 DEF OpenNestedProject
<1>4. /\ opening' = IF Opens(path) /\ ~Full THEN path ELSE NONE
      /\ pc' # "endless" /\ Opens(path) => ~Full
      /\ pc' \in {"level", "endless"}
  BY <1>2, <1>3 DEF OpenProject, context
<1>5. IsList(references') /\ In(references) = {ref} \cup In(references')
  BY <1>0, <1>2, TailOfList DEF IInv, Typed
<1>6. Typed'
  BY <1>2, <1>5 DEF IInv, Typed, IsList
<1>7. \A p : Opens(p)' = Opens(p)
  BY <1>2 DEF Opens, Entries
<1>8. FilesOpen'
  <2>1. \A place \in Places : Opens(loaded'[place].path)
    BY <1>2 DEF IInv, FilesOpen
  <2>2. Places' = Places /\ (opening' # NONE => Opens(opening'))
    BY <1>2, <1>4 DEF Places
  <2>3. QED
    BY <1>7, <2>1, <2>2 DEF FilesOpen
<1>9. PlacesAreLoaded'
  BY <1>2 DEF IInv, PlacesAreLoaded, Places, In
<1>10. Stages'
  BY <1>2, <1>4 DEF Stages
<1>11. ProjectsKeep
  BY <1>2 DEF ProjectsKeep, IInv, Typed, IsList
<1>12. AllAreSeen'
  <2>1. SUFFICES ASSUME pc' # "endless", NEW place \in Places, ~(place \in In(roots) \cup In(nested))
                 PROVE  Visited(place)'
    BY <1>2 DEF AllAreSeen, Places, In
  <2>2. Visited(place)
    BY <1>2, <2>1 DEF IInv, AllAreSeen
  <2>3. ASSUME NEW p, Opens(p), Awaited(place, p)
        PROVE  Awaited(place, p)'
    <3>1. CASE \E other \in Places : loaded[other].path = p
      BY <1>2, <3>1 DEF Awaited, Places
    <3>2. CASE \E r \in In(references') : Leads(r, place, p)
      <4>1. PICK r \in In(references') : Leads(r, place, p)
        BY <3>2
      <4>2. Leads(r, place, p)' /\ r \in In(references)'
        BY <1>2, <2>1, <4>1, PlacesStay DEF In
      <4>3. QED
        BY <4>2 DEF Awaited
    <3>3. CASE Leads(ref, place, p)
      <4>1. p = path
        BY <1>1, <3>3 DEF Leads
      <4>2. path # NONE
        BY <2>3, <4>1, WorkspaceAssumption DEF Opens, IInv, Typed
      <4>3. opening' = p /\ opening' # NONE
        BY <1>4, <2>1, <2>3, <4>1, <4>2
      <4>4. QED
        BY <4>3 DEF Awaited
    <3>4. QED
      BY <1>2, <1>5, <2>3, <3>1, <3>2, <3>3 DEF Awaited
  <2>4. QED
    BY <1>11, <2>2, <2>3, VisitedStays DEF IInv
<1>13. QED
  BY <1>6, <1>8, <1>9, <1>10, <1>12 DEF IInv

-----------------------------------------------------------------------------

LEMMA InitEstablishes == Init => IInv
<1> SUFFICES ASSUME Init PROVE IInv
  OBVIOUS
<1>1. /\ disk \in Disks /\ opening = NONE /\ pc = "start" /\ configs = {}
      /\ loaded = << >> /\ roots = << >> /\ nested = << >> /\ references = << >>
  BY DEF Init
<1>2. Typed /\ Places = {} /\ In(roots) = {} /\ In(nested) = {}
  BY <1>1, NoList DEF Typed, Places
<1>3. QED
  BY <1>1, <1>2 DEF IInv, FilesOpen, PlacesAreLoaded, Stages, AllAreSeen

LEMMA StepPreserves == IInv /\ [Next]_vars => IInv'
<1> SUFFICES ASSUME IInv, [Next]_vars PROVE IInv'
  OBVIOUS
<1>1. CASE UNCHANGED vars
  <2>1. UNCHANGED <<pc, disk, loaded, opening, roots, nested, references, configs>>
    BY <1>1 DEF vars, context, progress, found
  <2>2. Stages'
    BY <2>1 DEF IInv, Stages
  <2>3. QED
    BY <2>1, <2>2, QuietStepIsSafe
<1>2. CASE LoadWorkspace \/ LoadProject \/ NoProject \/ OpenWorkspaceProject
  BY <1>2, LoadWorkspaceIsSafe, LoadProjectIsSafe, OpenWorkspaceProjectIsSafe
<1>3. CASE ParseStep \/ ParseAsserts \/ FinishProject \/ NextLevel
  BY <1>3, ParseStepIsSafe, StopIsSafe, FinishProjectIsSafe, NextLevelIsSafe
<1>4. CASE VisitProject \/ MissingReference \/ ClimbForever \/ OpenNestedProject
  BY <1>4, VisitProjectIsSafe, StopIsSafe, OpenNestedProjectIsSafe
<1>5. CASE OpenSchemes \/ EndSchemes \/ CreateBuildContext
  BY <1>5, OpenSchemesIsSafe, CreateBuildContextIsSafe
<1>6. QED
  BY <1>1, <1>2, <1>3, <1>4, <1>5 DEF Next

LEMMA LeastNatural ==
  ASSUME NEW T, T \subseteq Nat, T # {}
  PROVE  Min(T) \in T
<1>1. PICK x \in T : \A y \in T : ~(<<y, x>> \in OpToRel(<, Nat))
  BY NatLessThanWellFounded, WFMin
<1>2. \A y \in T : ~(y < x)
  BY <1>1 DEF OpToRel
<1>3. \A y \in T : x <= y
  BY <1>2
<1>4. QED
  BY <1>3 DEF Min

\* The place of a path that is loaded is found.
LEMMA LoadedIsMapped ==
  ASSUME IsList(loaded), NEW place \in Places
  PROVE  ProjectMap(loaded[place].path) # 0
<1> DEFINE T == {n \in DOMAIN loaded : loaded[n].path = loaded[place].path}
<1>1. DOMAIN loaded = 1..Len(loaded) /\ Len(loaded) \in Nat
  BY ListDomain
<1>2. T \subseteq Nat /\ place \in T /\ 0 \notin T
  BY <1>1 DEF Places
<1>3. Min(T) \in T
  BY <1>2, LeastNatural
<1>4. QED
  BY <1>2, <1>3 DEF ProjectMap

\* With nothing on the lists every project has been visited.
LEMMA VisitedMeansLoaded == IInv => NestedProjectsAreLoaded
<1> SUFFICES ASSUME IInv, pc = "context", NEW place \in Places
             PROVE  /\ \A path \in RefersTo(place) : Opens(path) => ProjectMap(path) # 0
                    /\ Configured(place)
  BY ListDomain DEF NestedProjectsAreLoaded, Configured, IInv, Typed, Places
<1>1. opening = NONE /\ In(roots) = {} /\ In(nested) = {} /\ In(references) = {}
  BY NoList DEF IInv, Stages
<1>2. Visited(place)
  BY <1>1 DEF IInv, AllAreSeen
<1>3. ASSUME NEW path \in RefersTo(place), Opens(path) PROVE ProjectMap(path) # 0
  <2>1. PICK other \in Places : loaded[other].path = path
    BY <1>1, <1>2, <1>3 DEF Visited, Awaited
  <2>2. QED
    BY <2>1, LoadedIsMapped DEF IInv, Typed
<1>4. QED
  BY <1>2, <1>3 DEF Visited

THEOREM Invariance == Spec => []IInv
BY InitEstablishes, StepPreserves, PTL DEF Spec

(***************************************************************************)
(* A load that ends without a circle has loaded every project that a loaded *)
(* one refers to, however deep projects are nested and however often one is *)
(* named, and every configuration file of theirs that loads                 *)
(* (WorkspaceContext.cpp, LoadNestedProjects).                              *)
(***************************************************************************)
THEOREM NothingNestedIsMissing == Spec => []NestedProjectsAreLoaded
BY Invariance, VisitedMeansLoaded, PTL

=============================================================================
