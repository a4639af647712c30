------------------------------- MODULE BuiltinTools -------------------------------
(***************************************************************************)
(* The tools that xcbuild brings along (builtin): one that copies files and  *)
(* directories, two that convert property lists, and one that completes an   *)
(* Info.plist; the others are not done yet and fail.  A tool is called again *)
(* when its sources changed, over what the call before left behind: it may    *)
(* have failed, have found the disk full, or have been killed halfway.       *)
(***************************************************************************)
EXTENDS SequencesExt, Integers

(***************************************************************************)
(* libutil::DefaultFilesystem: calls on the files of a disk.  A disk maps    *)
(* paths to entries, a path is a sequence of names, and the root is << >>.   *)
(* A call succeeds or fails as the operating system has it; those that a     *)
(* full disk can break have several results.                                *)
(*                                                                         *)
(* This is the build for systems other than Apple's, which copies through    *)
(* libutil::Filesystem.  A process owns all files, a directory that can be   *)
(* read can be searched, and a link does not lead to another one.           *)
(***************************************************************************)

CONSTANTS
  Nothing,            \* the contents of a file that was cut short, and of what has none
  CurrentDirectory    \* of the process, which texts that are relative are relative to

Access(user, group, other) == [user |-> user, group |-> group, other |-> other]

\* What the mask of the process leaves of new files and directories.
FileAccess      == Access({"r", "w"}, {"r"}, {"r"})
DirectoryAccess == Access({"r", "w", "x"}, {"r", "x"}, {"r", "x"})

\* A file has data, a link has a text: the names of a path, with a slash before
\* them unless they are relative to the directory of the link.
DiskEntry(type, data, to, access) == [type |-> type, data |-> data, to |-> to, access |-> access]
NewFile(data) == DiskEntry("file", data, << >>, FileAccess)
NewLink(to)   == DiskEntry("link", Nothing, to, Access({"r", "w", "x"}, {"r", "w", "x"}, {"r", "w", "x"}))
NewDirectory  == DiskEntry("directory", Nothing, << >>, DirectoryAccess)

WithEntry(disk, path, entry) == [p \in DOMAIN disk \cup {path} |-> IF p = path THEN entry ELSE disk[p]]
WithoutEntry(disk, path)     == [p \in DOMAIN disk \ {path} |-> disk[p]]

Absolute(path) == <<"/">> \o path
From(directory, text) == IF text # << >> /\ Head(text) = "/" THEN Tail(text) ELSE directory \o text

IsA(disk, path, type) == path \in DOMAIN disk /\ disk[path].type = type

\* Where a path leads: links are followed, but for the last (Place) or with it (RealPath).
RealPath(disk, path) ==
  FoldLeft(LAMBDA at, name : IF IsA(disk, Append(at, name), "link") THEN From(at, disk[Append(at, name)].to) ELSE Append(at, name),
           << >>, path)
Place(disk, path) == IF path = << >> THEN path ELSE Append(RealPath(disk, Front(path)), Last(path))

Exists(disk, path) == RealPath(disk, path) \in DOMAIN disk

\* A device or a socket is of no type.
TypeIn(disk, place) ==
  IF place \in DOMAIN disk /\ disk[place].type \in {"file", "link", "directory"} THEN disk[place].type ELSE "none"
\* Variant: of what a link leads to.
TypeFollowing(disk, path) == TypeIn(disk, RealPath(disk, path))

\* Of a link itself.
Type(disk, path) == TypeIn(disk, Place(disk, path))

\* Given permission by the entry that a path leads to.
May(permission, disk, path) == Exists(disk, path) /\ permission \in disk[RealPath(disk, path)].access.user

IsReadable(disk, path) == May("r", disk, path)

Children(disk, directory) ==
  {Last(p) : p \in {q \in DOMAIN disk : Len(q) = Len(directory) + 1 /\ IsPrefix(directory, q)}}

\* Entries are added to and removed from directories that may be written.
CanAlter(disk, place) ==
  place # << >> /\ IsA(disk, Front(place), "directory") /\ "w" \in disk[Front(place)].access.user

-----------------------------------------------------------------------------
(* Calls: the disk after it, whether it succeeded, and the files whose data  *)
(* did not get to the disk although it did.                                 *)

Result(disk, ok) == [disk |-> disk, ok |-> ok, lost |-> {}]
Failure(disk)    == Result(disk, FALSE)

\* What an open file becomes: an existing one keeps its permissions.
Opened(disk, place, data) ==
  IF place \in DOMAIN disk THEN [disk EXCEPT ![place].data = data] ELSE WithEntry(disk, place, NewFile(data))

CanOpen(disk, place) ==
  IF place \in DOMAIN disk THEN disk[place].type = "file" /\ "w" \in disk[place].access.user ELSE CanAlter(disk, place)

\* A path to write leads where a link leads.
WriteFile(disk, path, data) ==
  LET place == RealPath(disk, path)
  IN  IF CanOpen(disk, place) THEN Result(Opened(disk, place, data), TRUE) ELSE Failure(disk)

\* A disk that is full: nothing is written to the open file, or nothing when it
\* is closed, which is not asked for.
WriteToFullDisk(disk, path) ==
  LET place == RealPath(disk, path)
      cut   == Opened(disk, place, Nothing)
  IN  IF CanOpen(disk, place)
      THEN {Failure(disk), Failure(cut), [Result(cut, TRUE) EXCEPT !.lost = {place}]} ELSE {}

CanRead(disk, path) == IsA(disk, RealPath(disk, path), "file") /\ IsReadable(disk, path)
Contents(disk, path) == disk[RealPath(disk, path)].data

RemoveFile(disk, path) ==
  LET place == Place(disk, path)
  IN  IF place \in DOMAIN disk /\ disk[place].type # "directory" /\ CanAlter(disk, place)
      THEN Result(WithoutEntry(disk, place), TRUE) ELSE Failure(disk)

\* What is not a link counts as removed.
RemoveSymbolicLink(disk, path) == IF Type(disk, path) = "link" THEN RemoveFile(disk, path) ELSE Result(disk, TRUE)

\* A link with a text, at the path that another text stands for.
WriteSymbolicLink(disk, target, at) ==
  LET place == Place(disk, From(CurrentDirectory, at))
  IN  IF place \notin DOMAIN disk /\ CanAlter(disk, place)
      THEN Result(WithEntry(disk, place, NewLink(target)), TRUE) ELSE Failure(disk)

MakeDirectory(disk, path) ==
  LET place == Place(disk, path)
  IN  IF place \notin DOMAIN disk /\ CanAlter(disk, place)
      THEN Result(WithEntry(disk, place, NewDirectory), TRUE) ELSE Failure(disk)

\* The directories that are not there, from the one next to a directory that is.
\* (A link to a directory counts as one that is not there.)
MissingDirectories(disk, path) ==
  LET there == {n \in 1..Len(path) : Type(disk, SubSeq(path, 1, n)) = "directory"}
  IN  SelectSeq([n \in 1..Len(path) |-> SubSeq(path, 1, n)], LAMBDA p : \A n \in there : n < Len(p))

CreateDirectory(disk, path) ==
  FoldLeft(LAMBDA done, p : IF done.ok THEN MakeDirectory(done.disk, p) ELSE done,
           Result(disk, TRUE), MissingDirectories(disk, path))

\* Only an empty one.
RemoveDirectory(disk, path) ==
  LET place == Place(disk, path)
  IN  IF IsA(disk, place, "directory") /\ Children(disk, place) = {} /\ CanAlter(disk, place)
      THEN Result(WithoutEntry(disk, place), TRUE) ELSE Failure(disk)

-----------------------------------------------------------------------------
(* Permissions *)

Combine(access, added) ==
  Access(access.user \cup added.user, access.group \cup added.group, access.other \cup added.other)

\* The bits of group and others are set among those of the user.
PermissionsMode(access) == Access(access.user \cup access.group \cup access.other, {}, {})

\* What a link leads to gets the permissions.
AddPermissions(disk, path, added) ==
  LET place == RealPath(disk, path)
  IN  IF Exists(disk, path)
      THEN Result([disk EXCEPT ![place].access = PermissionsMode(Combine(@, added))], TRUE) ELSE Failure(disk)

Writable == Access({"w"}, {}, {})

-----------------------------------------------------------------------------
(* libutil::Filesystem: copies of single entries.                            *)

CopyFileResults(disk, from, to, mayFail) ==
  IF CanRead(disk, from)
  THEN {WriteFile(disk, to, Contents(disk, from))} \cup (IF mayFail THEN WriteToFullDisk(disk, to) ELSE {})
  ELSE {Failure(disk)}

\* The text of the link and where the copy is to be are passed in the other
\* order: the link that is made leads to the copy, which is not there, and is
\* where the text leads.
CopySymbolicLink(disk, from, to) ==
  LET target  == disk[Place(disk, from)].to
      removed == RemoveSymbolicLink(disk, to)
  IN  IF ~removed.ok THEN removed ELSE WriteSymbolicLink(removed.disk, Absolute(to), target)

\* A directory without what is in it.
CopyEmptyDirectory(disk, from, to) ==
  LET removed == IF Type(disk, to) = "directory" THEN RemoveDirectory(disk, to) ELSE Result(disk, TRUE)
  IN  IF ~removed.ok THEN removed ELSE MakeDirectory(removed.disk, to)

-----------------------------------------------------------------------------

CONSTANTS
  Invocations,   \* a tool, its arguments and its environment
  PathOf,        \* the path that an argument stands for
  Versions,      \* disks with the sources as they may be from call to call
  SourceRoot,    \* the directory that the sources are in
  MaxCalls,      \* how often the tool is called
  MaxFaults      \* how often the disk is full or the tool is killed

VARIABLES
  invocation,
  toolOptions,
  toolStage,  \* what the tool does next
  toolInputs, \* the inputs that are left
  copying,    \* the directory that is copied: from, to
  walk,       \* the directories that are being read, from the outermost to the present one
  intact,     \* no call failed since the walk began
  root,       \* the property list that is completed, and its format
  toolDisk,
  lost,       \* files whose data never got to the disk
  toolExit,   \* the exit code, -1 before
  calls,
  faults

toolVars == <<invocation, toolOptions, toolStage, toolInputs, copying, walk, intact, root, toolDisk, lost, toolExit, calls, faults>>

-----------------------------------------------------------------------------
(* Options *)

OptionTable(flags, values, lists, separator) ==
  [flags |-> flags, values |-> values, lists |-> lists, separator |-> separator]

CopyOptions ==
  OptionTable({"-V", "-preserve-hfs-data", "-ignore-missing-inputs", "-resolve-src-symlinks", "-strip-debug-symbols"},
              {"-strip-tool", "-bitcode-strip", "-bitcode-strip-tool"}, {"-exclude"}, FALSE)
CopyPlistOptions   == OptionTable({"--validate"}, {"--convert", "--outdir"}, {}, TRUE)
CopyStringsOptions == OptionTable({"--validate"}, {"--inputencoding", "--outputencoding", "--outdir"}, {}, TRUE)
CopyTiffOptions    == OptionTable({"--validate"}, {"--compression", "--outdir"}, {}, TRUE)
InfoPlistOptions ==
  OptionTable({"-expandbuildsettings"},
              {"-genpkginfo", "-resourcerulesfile", "-format", "-platform", "-infofilekeys", "-infofilevalues", "-o"},
              {"-requiredArchitecture", "-additionalcontentfile"}, FALSE)
RegisterOptions    == OptionTable({}, {}, {}, FALSE)
PackagingOptions   == OptionTable({"-removefile", "-entitlements", "-resourcerules"}, {"-o"}, {}, FALSE)
ValidationOptions  == OptionTable({"-validate-for-store"}, {}, {}, FALSE)
EmbeddedOptions    == OptionTable({}, {"-signing-cert", "-info-plist-path"}, {}, FALSE)

OptionsOf ==
  [copy |-> CopyOptions, copyPlist |-> CopyPlistOptions, copyStrings |-> CopyStringsOptions, copyTiff |-> CopyTiffOptions,
   infoPlistUtility |-> InfoPlistOptions, lsRegisterURL |-> RegisterOptions, productPackagingUtility |-> PackagingOptions,
   validationUtility |-> ValidationOptions, embeddedBinaryValidationUtility |-> EmbeddedOptions]

Is(tool) == invocation.tool = tool

NoToolOptions == [set |-> [o \in {} |-> << >>], inputs |-> << >>, waiting |-> "", separated |-> FALSE, error |-> FALSE]
HasOption(name) == name \in DOMAIN toolOptions.set
Value(name) == toolOptions.set[name][1]
Values(name) == IF HasOption(name) THEN toolOptions.set[name] ELSE << >>

Take(o, name, value) ==
  [o EXCEPT !.set = [n \in DOMAIN @ \cup {name} |-> IF n # name THEN @[n] ELSE IF n \in DOMAIN @ THEN Append(@[n], value) ELSE <<value>>],
            !.waiting = ""]
Refuse(o) == [o EXCEPT !.error = TRUE]
Once(o, name, value) == IF name \in DOMAIN o.set THEN Refuse(o) ELSE Take(o, name, value)

BitcodeStripModes == {"none", "replace-with-marker", "all"}
TakeToolValue(o, tool, name, value) ==
  CASE name \in OptionsOf[tool].lists -> Take(o, name, value)
    [] name = "-bitcode-strip" -> IF value \in BitcodeStripModes THEN Take(o, name, value) ELSE Refuse(o)
    [] OTHER -> Once(o, name, value)

IsOption(argument) == Len(argument) = 0 \/ SubSeq(argument, 1, 1) = "-"
ManyInputs(tool) == tool \in {"copy", "copyPlist", "copyStrings", "copyTiff"}

\* The tool that registers takes any argument for its input; the last argument of
\* the tool that copies is where it copies to, unless it belongs to an option.
ParseToolArgument(o, tool, argument, isLast) ==
  LET table == OptionsOf[tool]
  IN  CASE o.error -> o
        [] ~o.error /\ o.waiting # "" -> TakeToolValue(o, tool, o.waiting, argument)
        [] OTHER ->
             CASE ~o.separated /\ argument \in table.flags -> Once(o, argument, "")
               [] ~o.separated /\ argument \in table.values \cup table.lists -> [o EXCEPT !.waiting = argument]
               [] ~o.separated /\ table.separator /\ argument = "--" -> [o EXCEPT !.separated = TRUE]
               [] OTHER ->
                    IF IsOption(argument) /\ ~o.separated /\ tool # "lsRegisterURL" THEN Refuse(o)
                    ELSE IF tool = "copy" /\ isLast THEN Once(o, "output", argument)
                    ELSE IF ManyInputs(tool) THEN [o EXCEPT !.inputs = Append(@, argument)]
                    ELSE Once(o, "input", argument)

ParseToolOptions(tool, arguments) ==
  LET places == [n \in DOMAIN arguments |-> n]
      parsed == FoldLeft(LAMBDA o, n : ParseToolArgument(o, tool, arguments[n], n = Len(arguments)), NoToolOptions, places)
  IN  [parsed EXCEPT !.error = @ \/ parsed.waiting # ""]

-----------------------------------------------------------------------------

Fault == MaxFaults - faults > 0

StartTool(tool, files) ==
  /\ invocation = tool
  /\ toolOptions = NoToolOptions
  /\ toolStage = "options" /\ toolExit = -1
  /\ toolInputs = << >> /\ walk = << >> /\ intact = TRUE
  /\ copying = [from |-> << >>, to |-> << >>]
  /\ root = Nothing
  /\ toolDisk = files
  /\ lost = {}
  /\ calls = 1 /\ faults = 0

ToolInit == \E tool \in Invocations : \E files \in Versions : StartTool(tool, files)

progress == <<copying, walk, intact>>

End(code) == toolStage' = "ended" /\ toolExit' = code

\* The disk after a call, whose failure ends the tool.
Outcome(result, next) ==
  /\ toolDisk' = result.disk
  /\ lost' = (lost \cap DOMAIN result.disk) \cup result.lost
  /\ IF result.ok THEN toolStage' = next /\ UNCHANGED toolExit ELSE End(1)

\* One of the results; those of a full disk count.
Written(path, data, next) ==
  \/ /\ Outcome(WriteFile(toolDisk, path, data), next) /\ UNCHANGED faults
  \/ /\ Fault /\ faults' = faults + 1
     /\ \E result \in WriteToFullDisk(toolDisk, path) : Outcome(result, next)

FirstStage ==
  CASE Is("copy")                         -> "output"
    [] Is("copyPlist") \/ Is("copyStrings") -> "convert"
    [] Is("infoPlistUtility")             -> "read"
    [] OTHER                              -> "unsupported"

\* What the options of a tool lack, or hold, is said before anything is done.
PlistFormats   == {"binary1", "xml1", "ascii1", "openstep1"}
StringEncodings == {"binary", "utf-8", "utf-16", "utf-32"}

OptionsComplete(o) ==
  LET has(name) == name \in DOMAIN o.set
  IN  CASE Is("copy")             -> has("output")
        [] Is("copyPlist")        -> has("--outdir") /\ o.inputs # << >> /\ (has("--convert") => o.set["--convert"][1] \in PlistFormats)
        [] Is("copyStrings")      -> /\ has("--outdir") /\ o.inputs # << >>
                                     /\ has("--outputencoding") => o.set["--outputencoding"][1] \in StringEncodings
        [] Is("infoPlistUtility") -> has("input") /\ has("-o")
        [] Is("lsRegisterURL")    -> has("input")
        [] OTHER                  -> TRUE

ReadToolOptions ==
  /\ toolStage = "options"
  /\ toolOptions' = ParseToolOptions(invocation.tool, invocation.arguments)
  /\ toolInputs' = toolOptions'.inputs
  /\ IF toolOptions'.error \/ ~OptionsComplete(toolOptions') THEN End(IF Is("copyStrings") THEN 255 ELSE 1)
     ELSE toolStage' = FirstStage /\ UNCHANGED toolExit
  /\ UNCHANGED <<invocation, progress, root, toolDisk, lost, calls, faults>>

\* Other systems do not register applications.
RunUnsupported ==
  /\ toolStage = "unsupported"
  /\ End(IF Is("lsRegisterURL") THEN 0 ELSE 1)
  /\ UNCHANGED <<invocation, toolOptions, toolInputs, progress, root, toolDisk, lost, calls, faults>>

-----------------------------------------------------------------------------
(* builtin-copy *)

Output == PathOf[Value("output")]
InOutput(path) == Append(Output, Last(path))

\* "return false" of an exit code is success.
CreateOutput ==
  /\ toolStage = "output"
  /\ LET created == CreateDirectory(toolDisk, Output)
     IN  /\ toolDisk' = created.disk
         /\ IF created.ok THEN toolStage' = "inputs" /\ UNCHANGED toolExit ELSE End(0)
  /\ UNCHANGED <<invocation, toolOptions, toolInputs, progress, root, lost, calls, faults>>

\* A link may stand for what it leads to; one that leads nowhere is nothing.
Resolved(input) ==
  IF ~HasOption("-resolve-src-symlinks") THEN <<PathOf[input]>>
  ELSE IF Exists(toolDisk, PathOf[input]) THEN <<RealPath(toolDisk, PathOf[input])>> ELSE << >>

IsThere(found) ==
  found # << >> /\ (Type(toolDisk, found[1]) = "directory" \/ IsReadable(toolDisk, found[1]))

Input(type) ==
  /\ toolStage = "inputs" /\ toolInputs # << >>
  /\ LET found == Resolved(Head(toolInputs)) IN IsThere(found) /\ Type(toolDisk, found[1]) = type
  /\ toolInputs' = Tail(toolInputs)
FoundInput == Resolved(Head(toolInputs))[1]

SkipInput ==
  /\ toolStage = "inputs" /\ toolInputs # << >>
  /\ ~IsThere(Resolved(Head(toolInputs)))
  /\ toolInputs' = Tail(toolInputs)
  /\ IF HasOption("-ignore-missing-inputs") THEN UNCHANGED <<toolStage, toolExit>> ELSE End(1)
  /\ UNCHANGED <<invocation, toolOptions, progress, root, toolDisk, lost, calls, faults>>

\* Devices cannot be copied.
RefuseInput ==
  /\ Input("none")
  /\ End(1)
  /\ UNCHANGED <<invocation, toolOptions, progress, root, toolDisk, lost, calls, faults>>

\* Written over again by the next build, so it must be writable.
MadeWritable(result, path) ==
  IF ~result.ok THEN result ELSE [AddPermissions(result.disk, path, Writable) EXCEPT !.lost = result.lost]

CopyFile ==
  /\ Input("file")
  /\ \E fault \in {FALSE, Fault} :
       /\ faults' = IF fault THEN faults + 1 ELSE faults
       /\ \E result \in CopyFileResults(toolDisk, FoundInput, InOutput(FoundInput), fault) :
            Outcome(MadeWritable(result, InOutput(FoundInput)), "inputs")
  /\ UNCHANGED <<invocation, toolOptions, progress, root, calls>>

CopyLink ==
  /\ Input("link")
  /\ Outcome(CopySymbolicLink(toolDisk, FoundInput, InOutput(FoundInput)), "inputs")
  /\ UNCHANGED <<invocation, toolOptions, progress, root, calls, faults>>

Succeed ==
  /\ toolStage = "done" \/ (toolStage \in {"inputs", "convert"} /\ toolInputs = << >>)
  /\ End(0)
  /\ UNCHANGED <<invocation, toolOptions, toolInputs, progress, root, toolDisk, lost, calls, faults>>

-----------------------------------------------------------------------------
(* A directory: what was there is removed, entry by entry, then the new one   *)
(* is copied, and made writable, entry by entry.                             *)

\* The names of a directory are reported, in any order; then it is read again
\* for the directories in it, which follow.
Frame(directory) == [directory |-> directory, names |-> Children(toolDisk, directory), below |-> {}, reported |-> FALSE]

\* A directory that cannot be read ends the walk.
BeginWalk(next, directory) ==
  IF IsReadable(toolDisk, directory)
  THEN walk' = <<Frame(directory)>> /\ intact' = TRUE /\ toolStage' = next /\ UNCHANGED toolExit
  ELSE End(1) /\ UNCHANGED <<walk, intact>>

To == copying.to
Inside(place, from, to) == to \o SubSeq(place, Len(from) + 1, Len(place))

BeginDirectory ==
  /\ Input("directory")
  /\ copying' = [from |-> Place(toolDisk, FoundInput), to |-> Place(toolDisk, InOutput(FoundInput))]
  /\ IF Type(toolDisk, InOutput(FoundInput)) = "directory" THEN BeginWalk("remove", copying'.to)
     ELSE toolStage' = "create" /\ UNCHANGED <<walk, intact, toolExit>>
  /\ UNCHANGED <<invocation, toolOptions, root, toolDisk, lost, calls, faults>>

Walking == toolStage \in {"remove", "copy", "permit"} /\ walk # << >>
Top == Last(walk)

RemoveEntry(place) ==
  CASE Type(toolDisk, place) = "file"      -> {RemoveFile(toolDisk, place)}
    [] Type(toolDisk, place) = "link"      -> {RemoveSymbolicLink(toolDisk, place)}
    [] Type(toolDisk, place) = "directory" -> {RemoveDirectory(toolDisk, place)}

CopyEntry(place, fault) ==
  LET to == Inside(place, copying.from, copying.to)
  IN  CASE Type(toolDisk, place) = "file"      -> CopyFileResults(toolDisk, place, to, fault)
        [] Type(toolDisk, place) = "link"      -> {CopySymbolicLink(toolDisk, place, to)}
        [] Type(toolDisk, place) = "directory" -> {CopyEmptyDirectory(toolDisk, place, to)}

\* Links have no permissions.
PermitEntry(place) ==
  IF Type(toolDisk, place) = "link" THEN {Result(toolDisk, TRUE)} ELSE {AddPermissions(toolDisk, place, Writable)}

Reported(place, fault) ==
  CASE Type(toolDisk, place) = "none" -> {Result(toolDisk, TRUE)}
    [] OTHER -> CASE toolStage = "remove" -> RemoveEntry(place)
                  [] toolStage = "copy"   -> CopyEntry(place, fault)
                  [] toolStage = "permit" -> PermitEntry(place)

\* A failure is remembered, and the walk goes on.  What has no type is passed over.
ReportEntry ==
  /\ Walking
  /\ \E name \in Top.names : \E fault \in {FALSE, Fault /\ toolStage = "copy"} :
       /\ walk' = [walk EXCEPT ![Len(walk)].names = @ \ {name}]
       /\ faults' = IF fault THEN faults + 1 ELSE faults
       /\ \E result \in Reported(Append(Top.directory, name), fault) :
            /\ toolDisk' = result.disk
            /\ lost' = (lost \cap DOMAIN result.disk) \cup result.lost
            /\ intact' = (intact /\ result.ok)
  /\ UNCHANGED <<invocation, toolOptions, toolStage, toolInputs, copying, root, toolExit, calls>>

\* Only directories of the walk are entered, not what links lead to.
ReadAgain ==
  /\ Walking /\ Top.names = {} /\ ~Top.reported
  /\ walk' = [walk EXCEPT ![Len(walk)].reported = TRUE,
                          ![Len(walk)].below = {name \in Children(toolDisk, Top.directory) :
                                                  Type(toolDisk, Append(Top.directory, name)) = "directory"}]
  /\ UNCHANGED <<invocation, toolOptions, toolStage, toolInputs, copying, intact, root, toolDisk, lost, toolExit, calls, faults>>

Enter ==
  /\ Walking /\ Top.reported
  /\ \E name \in Top.below :
       LET directory == RealPath(toolDisk, Append(Top.directory, name))
       IN  IF IsReadable(toolDisk, directory)
           THEN walk' = Append([walk EXCEPT ![Len(walk)].below = @ \ {name}], Frame(directory)) /\ UNCHANGED intact
           ELSE walk' = << >> /\ intact' = FALSE
  /\ UNCHANGED <<invocation, toolOptions, toolStage, toolInputs, copying, root, toolDisk, lost, toolExit, calls, faults>>

Leave ==
  /\ Walking /\ Top.reported /\ Top.below = {}
  /\ walk' = Front(walk)
  /\ UNCHANGED <<invocation, toolOptions, toolStage, toolInputs, copying, intact, root, toolDisk, lost, toolExit, calls, faults>>

EndRemove ==
  /\ toolStage = "remove" /\ walk = << >>
  /\ Outcome(IF intact THEN RemoveDirectory(toolDisk, To) ELSE Failure(toolDisk), "create")
  /\ UNCHANGED <<invocation, toolOptions, toolInputs, progress, root, calls, faults>>

CreateCopy ==
  /\ toolStage = "create"
  /\ LET made == MakeDirectory(toolDisk, To)
     IN  /\ toolDisk' = made.disk
         /\ IF made.ok THEN BeginWalk("copy", copying.from) ELSE End(1) /\ UNCHANGED <<walk, intact>>
  /\ UNCHANGED <<invocation, toolOptions, toolInputs, copying, root, lost, calls, faults>>

\* Variant: entries that could not be copied are forgotten.
EndWalkAnyway ==
  /\ toolStage = "copy" /\ walk = << >>
  /\ toolDisk' = AddPermissions(toolDisk, To, Writable).disk
  /\ toolStage' = "permit" /\ walk' = <<Frame(To)>> /\ intact' = TRUE
  /\ UNCHANGED <<invocation, toolOptions, toolInputs, copying, root, lost, toolExit, calls, faults>>

EndWalk ==
  /\ toolStage = "copy" /\ walk = << >>
  /\ LET permitted == AddPermissions(toolDisk, To, Writable)
     IN  IF intact THEN toolDisk' = permitted.disk /\ toolStage' = "permit" /\ walk' = <<Frame(To)>> /\ UNCHANGED toolExit
         ELSE End(1) /\ UNCHANGED <<toolDisk, walk>>
  /\ UNCHANGED <<invocation, toolOptions, toolInputs, copying, intact, root, lost, calls, faults>>

EndDirectory ==
  /\ toolStage = "permit" /\ walk = << >>
  /\ IF intact THEN toolStage' = "inputs" /\ UNCHANGED toolExit ELSE End(1)
  /\ UNCHANGED <<invocation, toolOptions, toolInputs, progress, root, toolDisk, lost, calls, faults>>

-----------------------------------------------------------------------------
(* builtin-copyPlist and builtin-copyStrings.  The contents of a file are in  *)
(* a format, and if that is one of property lists, a dictionary or another    *)
(* object; a value of a dictionary has a type first.                         *)

Data(format, kind, keys) == [format |-> format, kind |-> kind, keys |-> keys]
PropertyList(data) == data.format \in {"binary", "xml", "ascii", "utf-8", "utf-16", "utf-32"}

FormatNamed(name) ==
  CASE name \in {"binary1", "binary"}                -> "binary"
    [] name \in {"xml1", "xml"}                      -> "xml"
    [] name \in {"ascii1", "openstep1", "ascii", "openstep"} -> "ascii"
    [] OTHER                                         -> name

\* As it is, if it is neither converted nor validated.
CopiesPlist(data) == ~(HasOption("--convert") \/ HasOption("--validate")) \/ PropertyList(data)
PlistCopied(data) == IF HasOption("--convert") THEN [data EXCEPT !.format = FormatNamed(Value("--convert"))] ELSE data

\* A file of strings is in the encoding that is asked for or detected.
ValidStrings(data) == data.kind = "dictionary" /\ \A key \in DOMAIN data.keys : data.keys[key][1] \in {"string", "setting", "dictionary"}
CopiesStrings(data) ==
  /\ PropertyList(data)
  /\ HasOption("--inputencoding") => Value("--inputencoding") = data.format
  /\ HasOption("--validate") => ValidStrings(data)
StringsCopied(data) ==
  [data EXCEPT !.format = IF HasOption("--outputencoding") THEN Value("--outputencoding") ELSE "utf-16"]

Converts(data)  == IF Is("copyPlist") THEN CopiesPlist(data) ELSE CopiesStrings(data)
Converted(data) == IF Is("copyPlist") THEN PlistCopied(data) ELSE StringsCopied(data)
InOutdir(path)  == Append(PathOf[Value("--outdir")], Last(path))

\* An encoding that is not known is found out with the first input.
ConversionError ==
  IF Is("copyStrings") /\ HasOption("--inputencoding") /\ Value("--inputencoding") \notin StringEncodings THEN 255 ELSE 1

Convert ==
  /\ toolStage = "convert" /\ toolInputs # << >>
  /\ toolInputs' = Tail(toolInputs)
  /\ LET path == PathOf[Head(toolInputs)]
     IN  IF CanRead(toolDisk, path) /\ Converts(Contents(toolDisk, path))
         THEN Written(InOutdir(path), Converted(Contents(toolDisk, path)), "convert")
         ELSE /\ End(IF CanRead(toolDisk, path) /\ PropertyList(Contents(toolDisk, path)) THEN ConversionError ELSE 1)
              /\ UNCHANGED <<toolDisk, lost, faults>>
  /\ UNCHANGED <<invocation, toolOptions, progress, root, calls>>

-----------------------------------------------------------------------------
(* builtin-infoPlistUtility *)

Setting(name) == IF name \in DOMAIN invocation.environment THEN invocation.environment[name] ELSE ""

\* A value is the name of a setting if it refers to one.
Expanded(value) == IF value[1] = "setting" THEN <<"string", Setting(value[2])>> ELSE value

ReadInfoPlist ==
  /\ toolStage = "read"
  /\ LET path == PathOf[Value("input")]
         data == Contents(toolDisk, path)
     IN  IF CanRead(toolDisk, path) /\ PropertyList(data) /\ data.kind = "dictionary"
         THEN /\ root' = IF HasOption("-expandbuildsettings") THEN [data EXCEPT !.keys = [k \in DOMAIN @ |-> Expanded(@[k])]] ELSE data
              /\ toolInputs' = Values("-additionalcontentfile")
              /\ toolStage' = "merge" /\ UNCHANGED toolExit
         ELSE End(1) /\ UNCHANGED <<root, toolInputs>>
  /\ UNCHANGED <<invocation, toolOptions, progress, toolDisk, lost, calls, faults>>

\* Variant: what is there stays.
MergedBelow(keys, added) == keys @@ added

\* Added keys take the place of those that are there, and are not expanded.
Merged(keys, added) == added @@ keys

MergeContents ==
  /\ toolStage = "merge" /\ toolInputs # << >>
  /\ toolInputs' = Tail(toolInputs)
  /\ LET path == PathOf[Head(toolInputs)]
         data == Contents(toolDisk, path)
     IN  IF CanRead(toolDisk, path) /\ PropertyList(data)
         THEN /\ root' = IF data.kind = "dictionary" THEN [root EXCEPT !.keys = Merged(@, data.keys)] ELSE root
              /\ UNCHANGED <<toolStage, toolExit>>
         ELSE End(1) /\ UNCHANGED root
  /\ UNCHANGED <<invocation, toolOptions, progress, toolDisk, lost, calls, faults>>

BuildKeys ==
  [DTCompiler |-> "DEFAULT_COMPILER", DTXcode |-> "XCODE_VERSION_ACTUAL", DTXcodeBuild |-> "XCODE_PRODUCT_BUILD_VERSION",
   BuildMachineOSBuild |-> "MAC_OS_X_PRODUCT_BUILD_VERSION", DTPlatformName |-> "PLATFORM_NAME",
   DTPlatformBuild |-> "PLATFORM_PRODUCT_BUILD_VERSION", DTPlatformVersion |-> "", DTSDKName |-> "SDK_NAME",
   DTSDKBuild |-> "SDK_PRODUCT_BUILD_VERSION"]

OnlyIfSet(key, type, value) == IF value = "" THEN [k \in {} |-> value] ELSE key :> <<type, value>>

BuildEnvironment ==
  [key \in DOMAIN BuildKeys |-> <<"string", Setting(BuildKeys[key])>>]
  @@ OnlyIfSet("MinimumOSVersion", "string", Setting(Setting("DEPLOYMENT_TARGET_SETTING_NAME")))
  @@ OnlyIfSet("UIDeviceFamily", "families", Setting("TARGETED_DEVICE_FAMILY"))

AddBuildEnvironment ==
  /\ toolStage = "merge" /\ toolInputs = << >>
  /\ root' = [root EXCEPT !.keys = Merged(@, BuildEnvironment)]
  /\ toolStage' = "pkginfo"
  /\ UNCHANGED <<invocation, toolOptions, toolInputs, progress, toolDisk, lost, toolExit, calls, faults>>

\* Codes have four letters.
Code(key) ==
  IF key \in DOMAIN root.keys /\ root.keys[key][1] = "string" /\ Len(root.keys[key][2]) = 4 THEN root.keys[key] ELSE <<"string", "????">>
PkgInfo == Data("text", "codes", [key \in {"CFBundlePackageType", "CFBundleSignature"} |-> Code(key)])

WritePkgInfo ==
  /\ toolStage = "pkginfo"
  /\ IF HasOption("-genpkginfo") THEN Written(PathOf[Value("-genpkginfo")], PkgInfo, "rules")
     ELSE toolStage' = "rules" /\ UNCHANGED <<toolDisk, lost, toolExit, faults>>
  /\ UNCHANGED <<invocation, toolOptions, toolInputs, progress, root, calls>>

RulesPath == Setting("CODE_SIGN_RESOURCE_RULES_PATH")

CopyResourceRules ==
  /\ toolStage = "rules"
  /\ IF ~HasOption("-resourcerulesfile") \/ RulesPath = "" THEN toolStage' = "write" /\ UNCHANGED <<toolDisk, lost, toolExit, faults>>
     ELSE IF CanRead(toolDisk, PathOf[RulesPath])
     THEN Written(PathOf[Value("-resourcerulesfile")], Contents(toolDisk, PathOf[RulesPath]), "write")
     ELSE End(1) /\ UNCHANGED <<toolDisk, lost, faults>>
  /\ UNCHANGED <<invocation, toolOptions, toolInputs, progress, root, calls>>

InfoPlistFormats == {"binary", "xml", "ascii", "openstep"}

WriteInfoPlist ==
  /\ toolStage = "write"
  /\ IF HasOption("-format") /\ Value("-format") \notin InfoPlistFormats THEN End(1) /\ UNCHANGED <<toolDisk, lost, faults>>
     ELSE Written(PathOf[Value("-o")],
                  IF HasOption("-format") THEN [root EXCEPT !.format = FormatNamed(Value("-format"))] ELSE root, "done")
  /\ UNCHANGED <<invocation, toolOptions, toolInputs, progress, root, calls>>

-----------------------------------------------------------------------------

\* A build is stopped.
Kill ==
  /\ toolStage # "ended" /\ Fault
  /\ faults' = faults + 1
  /\ End(137)
  /\ UNCHANGED <<invocation, toolOptions, toolInputs, progress, root, toolDisk, lost, calls>>

IsSource(path) == IsPrefix(SourceRoot, path)

\* The next build finds what this one made beside the sources of then.
CallAgain ==
  /\ toolStage = "ended" /\ calls < MaxCalls
  /\ \E version \in Versions :
       toolDisk' = [p \in {q \in DOMAIN toolDisk : ~IsSource(q)} \cup {q \in DOMAIN version : IsSource(q)} |->
                  IF IsSource(p) THEN version[p] ELSE toolDisk[p]]
  /\ toolOptions' = NoToolOptions /\ toolStage' = "options" /\ toolExit' = -1
  /\ toolInputs' = << >> /\ walk' = << >> /\ intact' = TRUE
  /\ copying' = [from |-> << >>, to |-> << >>]
  /\ root' = Nothing
  /\ calls' = calls + 1
  /\ lost' = {p \in lost : ~IsSource(p)}
  /\ UNCHANGED <<invocation, faults>>

ToolNext ==
  \/ ReadToolOptions \/ RunUnsupported \/ Succeed
  \/ CreateOutput \/ SkipInput \/ RefuseInput \/ CopyFile \/ CopyLink
  \/ BeginDirectory \/ ReportEntry \/ ReadAgain \/ Enter \/ Leave
  \/ EndRemove \/ CreateCopy \/ EndWalk \/ EndDirectory
  \/ Convert
  \/ ReadInfoPlist \/ MergeContents \/ AddBuildEnvironment \/ WritePkgInfo \/ CopyResourceRules \/ WriteInfoPlist
  \/ Kill \/ CallAgain

ToolSpec == ToolInit /\ [][ToolNext]_toolVars

-----------------------------------------------------------------------------

Inputs == {Resolved(a)[1] : a \in {b \in ToSet(toolOptions.inputs) : IsThere(Resolved(b))}}

Holds(path, data) == CanRead(toolDisk, path) /\ (Contents(toolDisk, path) = data \/ RealPath(toolDisk, path) \in lost)

\* The same files and directories, and no others, with the data of the files; writable.
SameTree(from, to) ==
  LET inner(top) == {p \in DOMAIN toolDisk : IsPrefix(top, p) /\ TypeIn(toolDisk, p) \in {"file", "directory"}}
      copy(p)    == Inside(p, from, to)
  IN  /\ inner(to) = {copy(p) : p \in inner(from)}
      /\ \A p \in inner(from) :
           /\ toolDisk[copy(p)].type = toolDisk[p].type
           /\ toolDisk[p].type = "file" => Holds(copy(p), toolDisk[p].data)
           /\ May("w", toolDisk, copy(p))

SameEntry(from, to) ==
  CASE Type(toolDisk, from) = "file"      -> Holds(to, Contents(toolDisk, from)) /\ May("w", toolDisk, to)
    [] Type(toolDisk, from) = "link"      -> TRUE
    [] Type(toolDisk, from) = "directory" -> SameTree(Place(toolDisk, from), Place(toolDisk, to))

(***************************************************************************)
(* When builtin-copy succeeds, what it was asked to copy is there, as it is  *)
(* now and with nothing of earlier versions, whatever calls before it left   *)
(* behind that failed or were killed halfway.  It can be written, so that    *)
(* the next build can do so.  (Except for links, for which see LinksAreCopied*)
(* below, if the directory to copy to could not be made, and for data that   *)
(* is lost as a full disk is noticed too late.)                             *)
(***************************************************************************)
CopiesAreComplete ==
  Is("copy") /\ toolExit = 0 /\ Type(toolDisk, Output) = "directory" =>
    \A input \in Inputs : SameEntry(input, InOutput(input))

(***************************************************************************)
(* When property lists and strings were converted, each output has the keys  *)
(* of its input, in the format that was asked for.                          *)
(***************************************************************************)
ConversionsAreComplete ==
  (Is("copyPlist") \/ Is("copyStrings")) /\ toolExit = 0 =>
    \A input \in ToSet(toolOptions.inputs) :
      Holds(InOutdir(PathOf[input]), Converted(Contents(toolDisk, PathOf[input])))

InfoSources == <<Value("input")>> \o Values("-additionalcontentfile")
OfSource(n) ==
  LET data == Contents(toolDisk, PathOf[InfoSources[n]]) IN IF data.kind = "dictionary" THEN data.keys ELSE [k \in {} |-> ""]
Having(key) == {n \in DOMAIN InfoSources : key \in DOMAIN OfSource(n)}
LastOne(S) == CHOOSE n \in S : \A m \in S : m <= n

ExpectedValue(key) ==
  LET n == LastOne(Having(key))
  IN  IF key \in DOMAIN BuildEnvironment THEN BuildEnvironment[key]
      ELSE IF n = 1 /\ HasOption("-expandbuildsettings") THEN Expanded(OfSource(1)[key]) ELSE OfSource(n)[key]

CodesAgree(keys, codes) ==
  \A key \in DOMAIN codes : codes[key][2] # "????" => key \in DOMAIN keys /\ keys[key] = codes[key]

(***************************************************************************)
(* The Info.plist of a product, its PkgInfo and the build agree: the codes    *)
(* are those of the Info.plist, what the build is made with is said as it is,*)
(* the rest is of the last file that has it, and no reference to a setting   *)
(* is left of the project's own.                                            *)
(***************************************************************************)
InfoPlistIsComplete ==
  Is("infoPlistUtility") /\ toolExit = 0 /\ lost = {} =>
    LET keys == Contents(toolDisk, PathOf[Value("-o")]).keys
    IN  /\ DOMAIN keys = DOMAIN BuildEnvironment \cup UNION {DOMAIN OfSource(n) : n \in DOMAIN InfoSources}
        /\ \A key \in DOMAIN keys : keys[key] = ExpectedValue(key)
        /\ HasOption("-genpkginfo") => CodesAgree(keys, Contents(toolDisk, PathOf[Value("-genpkginfo")]).keys)

(***************************************************************************)
(* A tool that succeeds has done what it was asked for.                      *)
(***************************************************************************)
SuccessMeansDone == CopiesAreComplete /\ ConversionsAreComplete /\ InfoPlistIsComplete

\* Where a tool is to write.
Outputs ==
  IF Is("copy") THEN {Output}
  ELSE IF Is("infoPlistUtility") THEN {PathOf[Value(o)] : o \in {"-o", "-genpkginfo", "-resourcerulesfile"} \cap DOMAIN toolOptions.set}
  ELSE {PathOf[Value("--outdir")]}

Links == {p \in DOMAIN toolDisk : toolDisk[p].type = "link"}

\* What links in an output lead to.
LedTo == {RealPath(toolDisk, p) : p \in {q \in Links : \E o \in Outputs : IsPrefix(o, q)}}

MayChange(path) == path \in LedTo \/ \E o \in Outputs : IsPrefix(o, path)

(***************************************************************************)
(* No tool changes what is outside of its outputs, nor permissions there: not*)
(* when it removes a directory with links in it, nor when it makes what it    *)
(* copied writable; and only the directories that lead to an output and       *)
(* copies of links (see LinksAreCopied) are added there.  (Except if a link   *)
(* is where a file is to be written: it is the file that the link leads to    *)
(* that is written then.)                                                   *)
(***************************************************************************)
OutsideStays ==
  /\ \A path \in DOMAIN toolDisk : MayChange(path) \/ (path \in DOMAIN toolDisk' /\ toolDisk'[path] = toolDisk[path])
  /\ \A path \in DOMAIN toolDisk' \ DOMAIN toolDisk :
       MayChange(path) \/ toolDisk'[path].type = "link" \/ \E o \in Outputs : IsPrefix(path, o)

-----------------------------------------------------------------------------
(* What is said and is not so.                                             *)

(***************************************************************************)
(* "Write a symbolic link to a target, relative to the containing directory" *)
(* (libutil/Headers/libutil/Filesystem.h:128): the link of a copy is in the  *)
(* copy, with the text of the first, and nowhere else.                      *)
(***************************************************************************)
LinksAreCopied ==
  Is("copy") /\ toolExit = 0 /\ Type(toolDisk, Output) = "directory" =>
    \A input \in Inputs : \A p \in Links : IsPrefix(Place(toolDisk, input), p) =>
      LET copy == Inside(p, Place(toolDisk, input), InOutput(input)) IN copy \in Links /\ toolDisk[copy].to = toolDisk[p].to

(***************************************************************************)
(* "Remove any existing directory to overwrite" (libutil/Sources/            *)
(* Filesystem.cpp:68): also one that has directories in it.                  *)
(***************************************************************************)
DirectoriesAreOverwritten == toolStage = "remove" /\ faults = 0 => intact

(***************************************************************************)
(* "The output path is the same as the input, but in the output directory"   *)
(* (pbxbuild/Sources/Tool/CopyResolver.cpp:51): also of an input that is a    *)
(* link.                                                                   *)
(***************************************************************************)
CopiesKeepTheirNames ==
  Is("copy") /\ toolExit = 0 /\ Type(toolDisk, Output) = "directory" =>
    \A a \in ToSet(toolOptions.inputs) : Exists(toolDisk, PathOf[a]) => Exists(toolDisk, InOutput(PathOf[a]))

(***************************************************************************)
(* "Add permissions to existing permissions" (libutil/Permissions.h:53):     *)
(* those that are there stay.                                               *)
(***************************************************************************)
PermissionsStay ==
  \A p \in DOMAIN toolDisk \cap DOMAIN toolDisk' :
    /\ toolDisk[p].access.group \subseteq toolDisk'[p].access.group
    /\ toolDisk[p].access.other \subseteq toolDisk'[p].access.other

PermissionsAreAdded == [][calls' = calls /\ toolStage \in {"permit", "inputs"} => PermissionsStay]_toolVars

(***************************************************************************)
(* A tool whose exit code is 0 made the directory that it copies to.         *)
(***************************************************************************)
FailureIsReported == Is("copy") /\ toolExit = 0 => Type(toolDisk, Output) = "directory"

=============================================================================
