---------------------------- MODULE CatalogCompiler ----------------------------
(***************************************************************************)
(* actool (acdriver): reads its arguments, prints the contents of asset      *)
(* catalogs or compiles them: images go into an archive, icons and launch    *)
(* images are copied beside it and listed in a partial Info.plist.  Messages *)
(* are collected; the tool succeeds when none of them is an error.           *)
(***************************************************************************)
EXTENDS AssetCatalog, CarArchive

CONSTANTS
    CommandLines,   \* the sequences of arguments to try
    Files,          \* what the image files hold, by directory and name
    Indeterminate,  \* what a layout that nothing sets, or a length below zero, may hold
    Nil

\* A directory tree: finitely many directories, lists of entries, and names that
\* have a length.
ASSUME CatalogAssumption ==
  /\ IsFiniteSet(DOMAIN Directories)
  /\ \A path \in DOMAIN Directories : Len(Entries(path)) \in Nat
  /\ \A path \in {p \in DOMAIN Directories : Kind(p) = "ImageSet"} : Len(NameBytes[FullyQualifiedName(path)]) \in Nat

VARIABLES
    arguments,  \* the arguments of the tool
    options,    \* what they were parsed into
    stage,      \* what the driver does next
    errors,     \* how many errors were reported
    printed,    \* the keys of the output, and what they hold
    inputs,     \* the catalogs still to compile
    pending,    \* the assets of the present one still to compile
    compiled,   \* identifiers by name, copies, outputs, partial Info.plist
    disk,       \* the files that were written, with where they came from
    exit        \* the exit code, Nil before

vars == <<bom, writer, writing, left, arguments, options, stage, errors, printed,
          inputs, pending, compiled, disk, exit>>

driver == <<arguments, options, exit>>

-----------------------------------------------------------------------------
(* Options.                                                                *)

Flags ==
  {"--version", "--print-contents", "--warnings", "--errors", "--notices",
   "--compress-pngs", "--enable-incremental-distill", "--allow-non-standard-behavior"}

ValueOptions ==
  {"--compile", "--compile-output-filename", "--output-format", "--product-type",
   "--export-dependency-info", "--optimization", "--platform", "--minimum-deployment-target",
   "--output-partial-info-plist", "--app-icon", "--launch-image", "--flattened-app-icon-path",
   "--sticker-pack-identifier-prefix", "--sticker-pack-strings-file",
   "--leaderboard-identifier-prefix", "--leaderboard-set-identifier-prefix", "--target-name",
   "--filter-for-device-model", "--filter-for-device-os-version",
   "--asset-pack-output-specifications"}

ListOptions   == {"--target-device", "--allow-image-type"}
SwitchOptions == {"--enable-on-demand-resources"}

NonStandardImageTypes == {"webp", "WEBP"}

NoOptions == [set |-> [o \in {} |-> ""], inputs |-> << >>, allowed |-> {}, waiting |-> "", error |-> FALSE]

Given(o, name) == name \in DOMAIN o.set

WithOption(o, name, value) ==
  [o EXCEPT !.set = [n \in DOMAIN @ \cup {name} |-> IF n = name THEN value ELSE @[n]], !.waiting = ""]

\* The argument after an option that takes one.  Only the lists may be given twice.
TakeValue(o, name, value) ==
  CASE name = "--allow-image-type" ->
         IF value \in NonStandardImageTypes
         THEN [o EXCEPT !.allowed = @ \cup {"webp"}, !.waiting = ""] ELSE [o EXCEPT !.error = TRUE]
    [] name \in SwitchOptions ->
         IF value \in {"YES", "NO"} /\ ~Given(o, name) THEN WithOption(o, name, value) ELSE [o EXCEPT !.error = TRUE]
    [] name = "--target-device" -> WithOption(o, name, value)
    [] OTHER -> IF Given(o, name) THEN [o EXCEPT !.error = TRUE] ELSE WithOption(o, name, value)

IsInput(argument) == Len(argument) > 0 /\ SubSeq(argument, 1, 1) # "-"

\* The first error ends the parsing.
ParseArgument(o, argument) ==
  CASE o.error -> o
    [] ~o.error /\ o.waiting # "" -> TakeValue(o, o.waiting, argument)
    [] OTHER ->
       CASE argument \in Flags ->
              IF Given(o, argument) THEN [o EXCEPT !.error = TRUE] ELSE WithOption(o, argument, "YES")
         [] argument \in ValueOptions \cup ListOptions \cup SwitchOptions -> [o EXCEPT !.waiting = argument]
         [] IsInput(argument) -> [o EXCEPT !.inputs = Append(@, argument)]
         [] OTHER -> [o EXCEPT !.error = TRUE]

ParseOptions(args) ==
  LET parsed == FoldLeft(ParseArgument, NoOptions, args)
  IN [parsed EXCEPT !.error = @ \/ parsed.waiting # ""]

Option(name, default) == IF Given(options, name) THEN options.set[name] ELSE default

-----------------------------------------------------------------------------

NoOutput == [ids |-> [n \in {} |-> 0], last |-> 0, copies |-> << >>, outputs |-> << >>,
             info |-> [k \in {} |-> {}], inputs |-> << >>]

Init ==
  /\ arguments \in CommandLines
  /\ options = NoOptions
  /\ stage = "options"
  /\ errors = 0
  /\ printed = [k \in {} |-> {}]
  /\ inputs = << >> /\ pending = << >>
  /\ compiled = NoOutput
  /\ disk = [f \in {} |-> ""]
  /\ exit = Nil
  /\ bom = EmptyBom /\ writer = NewWriter /\ writing = "idle" /\ left = {}

Put(f, key, value) == [k \in DOMAIN f \cup {key} |-> IF k = key THEN value ELSE f[k]]

\* Arguments and the output format are both checked before anything is done.
OutputFormats == {"xml1", "binary1", "human-readable-text"}

OptionErrors(o) ==
  (IF o.error THEN 1 ELSE 0)
  + (IF Given(o, "--output-format") /\ o.set["--output-format"] \notin OutputFormats THEN 1 ELSE 0)

ReadOptions ==
  /\ stage = "options"
  /\ options' = ParseOptions(arguments)
  /\ errors' = OptionErrors(options')
  /\ stage' = IF errors' = 0 THEN "version" ELSE "result"
  /\ UNCHANGED <<arguments, printed, inputs, pending, compiled, disk, exit, archive>>

RunVersion ==
  /\ stage = "version"
  /\ printed' = IF Given(options, "--version") THEN Put(printed, "com.apple.actool.version", {"1"}) ELSE printed
  /\ stage' = "contents"
  /\ UNCHANGED <<driver, errors, inputs, pending, compiled, disk, archive>>

-----------------------------------------------------------------------------
(* Printing the contents.                                                   *)

\* Classes whose children are visited; the layers of a stack are not.
HoldsChildren ==
  {"BrandAssets", "Catalog", "ComplicationSet", "CubeTextureSet", "GCDashboardImage",
   "GCLeaderboard", "GCLeaderboardSet", "Group", "ImageStack", "SpriteAtlas", "Stickers",
   "TextureSet"}

PrintsChildren == HoldsChildren \cup {"StickerPack"}

Line(path) ==
  [filename |-> path,
   reference |-> IF Kind(path) \in {"GCDashboardImage", "GCLeaderboard", "GCLeaderboardSet", "ImageStackLayer"}
                    /\ Has(Properties(path), "content-reference/name")
                 THEN Properties(path)["content-reference/name"] ELSE "",
   namespace |-> Kind(path) \in {"Group", "SpriteAtlas"} /\ ProvidesNamespace(path),
   images |-> IF Kind(path) # "ImageSet" THEN {}
              ELSE {ReadKeys(e, [k \in {"filename", "scale", "idiom"} |-> Text]) :
                      e \in {x \in Range(Entries(path)) : Has(x, "filename")}}]

PrintedFrom[path \in DOMAIN Directories] ==
  {Line(path)} \cup (IF Kind(path) \notin PrintsChildren THEN {}
                     ELSE UNION {PrintedFrom[child] : child \in LoadedChildren(path)})

LoadableInputs == {i \in DOMAIN options.inputs : LoadsAsset(options.inputs[i])}
LoadFailures   == Len(options.inputs) - Cardinality(LoadableInputs)
InputsCrash    == \E i \in DOMAIN options.inputs : CrashesOn(options.inputs[i])

RunContents ==
  /\ stage = "contents"
  /\ IF ~Given(options, "--print-contents")
     THEN stage' = "compile" /\ UNCHANGED <<printed, errors>>
     ELSE IF InputsCrash THEN stage' = "crashed" /\ UNCHANGED <<printed, errors>>
     ELSE /\ printed' = Put(printed, "com.apple.actool.catalog-contents",
                            UNION {PrintedFrom[options.inputs[i]] : i \in LoadableInputs})
          /\ errors' = errors + LoadFailures
          /\ stage' = "compile"
  /\ UNCHANGED <<driver, inputs, pending, compiled, disk, archive>>

-----------------------------------------------------------------------------
(* Compiling.                                                              *)

\* Image types outside of the standard need leave.
OptionsValid == options.allowed # {} => Given(options, "--allow-non-standard-behavior")

OutputFormat ==
  IF ~Given(options, "--minimum-deployment-target") THEN "compiled"
  ELSE IF options.set["--minimum-deployment-target"] \notin SystemVersions THEN "invalid"
  ELSE IF VersionOf[options.set["--minimum-deployment-target"]][1] >= 7 THEN "compiled" ELSE "folder"

Root == Option("--compile", "")
ArchivePath == Root \o "/" \o Option("--compile-output-filename", "Assets.car")

\* The archive that is there is opened as it is, and overwritten from its beginning.
BeginCompile ==
  /\ stage = "compile"
  /\ IF ~Given(options, "--compile") THEN stage' = "result" /\ UNCHANGED <<errors, compiled, inputs, archive>>
     ELSE \/ /\ ~OptionsValid \/ OutputFormat = "invalid"
             /\ errors' = errors + 1 /\ stage' = "result"
             /\ UNCHANGED <<compiled, inputs, archive>>
          \/ /\ OptionsValid /\ OutputFormat = "folder"
             /\ stage' = "inputs" /\ inputs' = options.inputs
             /\ UNCHANGED <<errors, compiled, archive>>
          \/ /\ OptionsValid /\ OutputFormat = "compiled"
             /\ bom' = EmptyBom /\ writer' = NewWriter
             /\ compiled' = [compiled EXCEPT !.outputs = Append(@, ArchivePath)]
             /\ stage' = "inputs" /\ inputs' = options.inputs
             /\ UNCHANGED <<errors, writing, left>>
          \/ /\ OptionsValid /\ OutputFormat = "compiled"     \* the archive cannot be opened
             /\ errors' = errors + 1 /\ stage' = "result"
             /\ UNCHANGED <<compiled, inputs, archive>>
  /\ UNCHANGED <<driver, printed, pending, disk>>

LoadInput ==
  /\ stage = "inputs" /\ pending = << >> /\ inputs # << >>
  /\ inputs' = Tail(inputs)
  /\ IF CrashesOn(Head(inputs)) THEN stage' = "crashed" /\ UNCHANGED <<errors, pending, compiled>>
     ELSE IF ~LoadsAsset(Head(inputs)) THEN errors' = errors + 1 /\ UNCHANGED <<stage, pending, compiled>>
     ELSE /\ pending' = <<Head(inputs)>>
          /\ compiled' = [compiled EXCEPT !.inputs = Append(@, Head(inputs))]
          /\ UNCHANGED <<stage, errors>>
  /\ UNCHANGED <<driver, printed, disk, archive>>

-----------------------------------------------------------------------------
(* An image set.                                                           *)

IdiomAttribute(idiom) ==
  CASE idiom = "iphone" -> IdiomValues.phone
    [] idiom = "ipad"   -> IdiomValues.pad
    [] idiom = "tv"     -> IdiomValues.tv
    [] idiom = "watch"  -> IdiomValues.watch
    [] idiom = "car"    -> IdiomValues.car
    [] OTHER            -> IdiomValues.universal

LayoutForResizing(mode, center) ==
  CASE mode = "3-part-horizontal" ->
         IF center = "tile" THEN Layouts.three_part_horizontal_tile ELSE Layouts.three_part_horizontal_scale
    [] mode = "3-part-vertical" ->
         IF center = "tile" THEN Layouts.three_part_vertical_tile ELSE Layouts.three_part_vertical_scale
    [] OTHER -> IF center = "tile" THEN Layouts.nine_part_tile ELSE Layouts.nine_part_scale

Slice(x, y, width, height) == [x |-> x, y |-> y, width |-> width, height |-> height]

\* What becomes of a negative number that is made unsigned is undefined.
Unsigned(n, junk) == IF n < 0 THEN junk ELSE n

\* The parts from left to right, and from top to bottom counted from below.
SlicesFor(width, height, mode, inset, junk) ==
  LET u(n) == Unsigned(n, junk)
      columns == <<<<0, inset.left>>, <<inset.left, u(width - inset.left - inset.right)>>, <<u(width - inset.right), inset.right>>>>
      rows == <<<<u(height - inset.top), inset.top>>, <<inset.bottom, u(height - inset.top - inset.bottom)>>, <<0, inset.bottom>>>>
  IN CASE mode = "3-part-horizontal" -> [i \in 1..3 |-> Slice(columns[i][1], 0, columns[i][2], height)]
       [] mode = "3-part-vertical"   -> [i \in 1..3 |-> Slice(0, rows[i][1], width, rows[i][2])]
       [] OTHER -> [i \in 1..9 |-> LET c == columns[((i - 1) % 3) + 1]
                                       r == rows[((i - 1) \div 3) + 1]
                                   IN Slice(c[1], r[1], c[2], r[2])]

InsetOf(entry) ==
  LET side(name) == IF Has(entry, "resizing/cap-insets/" \o name) THEN entry["resizing/cap-insets/" \o name] ELSE 0
  IN [top |-> side("top"), left |-> side("left"), bottom |-> side("bottom"), right |-> side("right")]

CenterOf(entry) == IF Has(entry, "resizing/center/mode") THEN entry["resizing/center/mode"] ELSE "tile"

FileOf(path, entry) == <<path, entry["filename"]>>

\* What is read of an image file: Nil when it is not there, unfit or not allowed.
ReadImage(file) ==
  IF file \notin DOMAIN Files THEN Nil
  ELSE CASE Files[file].type = "png" ->
              IF Files[file].corrupt THEN Nil
              ELSE [format |-> IF Files[file].gray THEN "PremultipliedGA8" ELSE "PremultipliedBGRA8",
                    width |-> Files[file].width, height |-> Files[file].height, pixels |-> Files[file].pixels]
         [] Files[file].type = "jpeg" ->
              [format |-> "JPEG", width |-> 0, height |-> 0, pixels |-> Files[file].pixels]
         [] Files[file].type \in options.allowed ->
              [format |-> "WEBP", width |-> 0, height |-> 0, pixels |-> Files[file].pixels]
         [] OTHER -> Nil

\* An entry without a file is passed over, and so is one without an idiom.
IsSkipped(entry) == ~Has(entry, "filename") \/ Unassigned(entry) \/ ~Has(entry, "idiom")

\* Variants: a new identifier for each image; the counter is never stored.
IdentifiedAnew(ids, last, name)  == (last + 1) % 65536

\* One identifier for each name, for the whole run.
Identified(ids, last, name) == IF name \in DOMAIN ids THEN ids[name] ELSE (last + 1) % 65536

ImageRendition(entry, image, identifier, junk) ==
  LET sized == Has(entry, "resizing/mode")
      id == AttributeIdentifiers
  IN [attributes |-> [a \in {id.idiom, id.scale, id.identifier} |->
                        CASE a = id.idiom -> IdiomAttribute(entry["idiom"])
                          [] a = id.scale -> ScaleFor(entry, 0) \div 100
                          [] OTHER        -> identifier],
      data |-> [format |-> image.format, pixels |-> image.pixels],
      width |-> image.width, height |-> image.height, scale |-> ScaleFor(entry, 0),
      fileName |-> entry["filename"],
      layout |-> IF sized THEN LayoutForResizing(entry["resizing/mode"], CenterOf(entry)) ELSE junk,
      slices |-> IF sized THEN SlicesFor(image.width, image.height, entry["resizing/mode"], InsetOf(entry), junk)
                 ELSE << >>]

\* The attributes of a facet.
IdentifiedBy(identifier) == [a \in {AttributeIdentifiers.identifier} |-> identifier]

\* The state of the compilation: c, the writer, the errors, and whether it is over.
AddImage(s, name, entry, image, junk) ==
  LET id == Identified(s.ids, s.last, name)
      fresh == name \notin DOMAIN s.ids
      facets == IF fresh THEN WithFacet(s.writer, name, IdentifiedBy(id)) ELSE s.writer
  IN [s EXCEPT !.ids = Put(@, name, id), !.last = IF fresh THEN id ELSE @,
               !.writer = WithRendition(facets, ImageRendition(entry, image, id, junk))]

CompileImage(s, path, entry, junk) ==
  CASE s.crashed \/ IsSkipped(entry) -> s
    [] OTHER ->
       LET image == ReadImage(FileOf(path, entry))
       IN IF image = Nil THEN [s EXCEPT !.errors = @ + 1]
          ELSE IF OutputFormat = "folder" THEN [s EXCEPT !.crashed = TRUE]  \* there is no archive to add to
          ELSE AddImage(s, FullyQualifiedName(path), entry, image, junk)

CompileImageSet(path, junk) ==
  LET begin == [ids |-> compiled.ids, last |-> compiled.last, writer |-> writer, errors |-> errors, crashed |-> FALSE]
      after[i \in 0..Len(Entries(path))] ==
        IF i = 0 THEN begin ELSE CompileImage(after[i - 1], path, Entries(path)[i], junk)
  IN after[Len(Entries(path))]

-----------------------------------------------------------------------------
(* Icons and launch images: copies, and entries of the partial Info.plist.   *)

IdiomSuffix(idiom) ==
  CASE idiom = "ipad" -> "~ipad" [] idiom = "tv" -> "~tv" [] idiom = "watch" -> "~watch"
    [] idiom = "car" -> "~car" [] OTHER -> ""

ScaleSuffix(scale) == IF ScaleOf[scale] = 100 THEN "" ELSE "@" \o scale

DeviceSubtypeSuffix(subtype) ==
  CASE subtype = "retina4" -> "-568h" [] subtype = "667h" -> "-667h" [] OTHER -> "-736h"

IconComplete(entry) ==
  ~Unassigned(entry) /\ Has(entry, "filename") /\ Has(entry, "size") /\ Has(entry, "scale")

IconIdiom(entry) == IF Has(entry, "idiom") THEN entry["idiom"] ELSE "universal"
IconName(path, entry) == Directories[path].name \o SizeOf[entry["size"]]

\* Variant: icons of all devices under the same name.
IconCopyAlike(path, entry) ==
  [source |-> FileOf(path, entry),
   to |-> Root \o "/" \o IconName(path, entry) \o ScaleSuffix(entry["scale"]) \o ".png"]

IconCopy(path, entry) ==
  [source |-> FileOf(path, entry),
   to |-> Root \o "/" \o IconName(path, entry) \o ScaleSuffix(entry["scale"])
          \o IdiomSuffix(IconIdiom(entry)) \o ".png"]

\* Idioms with the same suffix share a key; which of them stays depends on a hash table.
IconKeys(path, icons, chosen) ==
  LET kept == {i \in DOMAIN icons : IconIdiom(icons[i]) = chosen[IdiomSuffix(IconIdiom(icons[i]))]}
  IN [key \in {"CFBundleIcons" \o IdiomSuffix(IconIdiom(icons[i])) : i \in DOMAIN icons} |->
        {IconName(path, icons[i]) : i \in {j \in kept : "CFBundleIcons" \o IdiomSuffix(IconIdiom(icons[j])) = key}}]

IconChoices(icons) ==
  LET idioms == {IconIdiom(icons[i]) : i \in DOMAIN icons}
  IN {f \in [{IdiomSuffix(d) : d \in idioms} -> idioms] : \A x \in DOMAIN f : IdiomSuffix(f[x]) = x}

WithCopies(c, copies, info) ==
  [c EXCEPT !.copies = @ \o copies, !.outputs = @ \o [i \in DOMAIN copies |-> copies[i].to],
            !.info = info @@ @]

CompileAppIcons(path, icons, chosen) ==
  WithCopies(compiled, [i \in DOMAIN icons |-> IconCopy(path, icons[i])], IconKeys(path, icons, chosen))

LaunchComplete(entry) == Has(entry, "filename") /\ Has(entry, "idiom")

\* There is no screen of this kind.
LaunchImageScreen(entry) ==
  \/ entry["idiom"] = "iphone"
  \/ entry["idiom"] \in {"ipad", "tv"} /\ ~Has(entry, "subtype")

SupportsLandscape(entry) ==
  \/ entry["idiom"] = "ipad"
  \/ entry["idiom"] = "iphone" /\ Has(entry, "subtype") /\ entry["subtype"] = "736h"

VersionSuffix(version) ==
  "-" \o ToString(VersionOf[version][1]) \o ToString(VersionOf[version][2]) \o ToString(VersionOf[version][3])

LaunchName(path, entry) ==
  Directories[path].name
  \o (IF Has(entry, "minimum-system-version") THEN VersionSuffix(entry["minimum-system-version"]) ELSE "")
  \o (IF Has(entry, "orientation") /\ SupportsLandscape(entry)
      THEN (IF entry["orientation"] = "portrait" THEN "-Portrait" ELSE "-Landscape") ELSE "")
  \o (IF Has(entry, "subtype") THEN DeviceSubtypeSuffix(entry["subtype"]) ELSE "")

LaunchCopy(path, entry) ==
  [source |-> FileOf(path, entry),
   to |-> Root \o "/" \o LaunchName(path, entry)
          \o (IF Has(entry, "scale") THEN ScaleSuffix(entry["scale"]) ELSE "")
          \o IdiomSuffix(entry["idiom"]) \o ".png"]

\* Systems before the seventh do not know the list of launch images.
IsListed(entry) ==
  Has(entry, "minimum-system-version") /\ VersionOf[entry["minimum-system-version"]][1] >= 7

ScreenSize(entry) ==
  CASE entry["idiom"] = "ipad" -> <<768, 1024>>
    [] entry["idiom"] = "tv" -> <<1920, 1080>>
    [] ~Has(entry, "subtype") -> <<320, 480>>
    [] entry["subtype"] = "retina4" -> <<320, 568>>
    [] entry["subtype"] = "667h" -> <<375, 667>>
    [] OTHER -> <<414, 736>>

LaunchSize(entry) ==
  LET screen == ScreenSize(entry)
      turned == Has(entry, "orientation") /\ entry["orientation"] = "landscape"
  IN IF ~Has(entry, "extent") \/ entry["extent"] # "to-status-bar" THEN screen
     ELSE IF turned THEN <<screen[1] - 20, screen[2]>> ELSE <<screen[1], screen[2] - 20>>

LaunchInfo(path, images) ==
  LET listed == {[name |-> LaunchName(path, images[i]), size |-> LaunchSize(images[i]),
                  orientation |-> IF Has(images[i], "orientation") THEN images[i]["orientation"] ELSE "",
                  version |-> images[i]["minimum-system-version"]] :
                   i \in {j \in DOMAIN images : IsListed(images[j])}}
      legacy == \E i \in DOMAIN images : ~IsListed(images[i])
  IN (IF listed # {} THEN "UILaunchImages" :> listed ELSE NoKeys)
     @@ (IF legacy THEN "UILaunchImageName" :> {Directories[path].name} ELSE NoKeys)

LaunchImages(path) == SelectSeq(Entries(path), LAMBDA e : LaunchComplete(e) /\ LaunchImageScreen(e))
BadLaunchImages(path) == SelectSeq(Entries(path), LAMBDA e : LaunchComplete(e) /\ ~LaunchImageScreen(e))

CompileLaunchImages(path, images) ==
  WithCopies(compiled, [i \in DOMAIN images |-> LaunchCopy(path, images[i])], LaunchInfo(path, images))

-----------------------------------------------------------------------------
(* One asset.  Its children come next, before what is still to do.          *)

PendingAfter(path, order) == IF Kind(path) \in HoldsChildren THEN order \o Tail(pending) ELSE Tail(pending)

CompileAsset ==
  /\ stage = "inputs" /\ pending # << >>
  /\ \E order \in Orders(LoadedChildren(Head(pending))) : pending' = PendingAfter(Head(pending), order)
  /\ LET path == Head(pending) IN
     CASE Kind(path) = "ImageSet" ->
            \E junk \in Indeterminate : \E s \in {CompileImageSet(path, junk)} :
              /\ writer' = s.writer /\ errors' = s.errors
              /\ compiled' = [compiled EXCEPT !.ids = s.ids, !.last = s.last]
              /\ stage' = IF s.crashed THEN "crashed" ELSE stage
              /\ UNCHANGED <<bom, writing, left>>
       [] Kind(path) = "AppIconSet" /\ Directories[path].name = Option("--app-icon", "") ->
            /\ \E icons \in {SelectSeq(Entries(path), IconComplete)} :
                 \E chosen \in IconChoices(icons) : compiled' = CompileAppIcons(path, icons, chosen)
            /\ UNCHANGED <<archive, errors, stage>>
       [] Kind(path) = "LaunchImage" /\ Directories[path].name = Option("--launch-image", "") ->
            /\ \E images \in {LaunchImages(path)} : compiled' = CompileLaunchImages(path, images)
            /\ errors' = errors + Len(BadLaunchImages(path))
            /\ UNCHANGED <<archive, stage>>
       [] OTHER -> UNCHANGED <<archive, compiled, errors, stage>>   \* a warning at most
  /\ UNCHANGED <<driver, printed, inputs, disk>>

EndInputs ==
  /\ stage = "inputs" /\ pending = << >> /\ inputs = << >>
  /\ IF OutputFormat = "compiled" THEN stage' = "archive" /\ writing' = "reserve"
     ELSE stage' = "copies" /\ UNCHANGED writing
  /\ UNCHANGED <<driver, printed, errors, inputs, pending, compiled, disk, bom, writer, left>>

-----------------------------------------------------------------------------
(* Writing what was compiled.                                               *)

Archive ==
  /\ stage = "archive" /\ writing # "done"
  /\ WriteArchive
  /\ UNCHANGED <<driver, stage, errors, printed, inputs, pending, compiled, disk>>

EndArchive ==
  /\ stage = "archive" /\ writing = "done"
  /\ stage' = "copies"
  /\ disk' = Put(disk, ArchivePath, <<"archive", "archive">>)
  /\ UNCHANGED <<driver, errors, printed, inputs, pending, compiled, archive>>

\* Variant: a copy that fails is passed over.
CopyQuietly ==
  /\ stage = "copies" /\ compiled.copies # << >>
  /\ LET copy == Head(compiled.copies) IN
     \/ copy.source \in DOMAIN Files /\ disk' = Put(disk, copy.to, copy.source)
     \/ UNCHANGED disk
  /\ compiled' = [compiled EXCEPT !.copies = Tail(@)]
  /\ UNCHANGED <<driver, stage, errors, printed, inputs, pending, archive>>

\* A copy that fails is an error, and the others are made.
Copy ==
  /\ stage = "copies" /\ compiled.copies # << >>
  /\ LET copy == Head(compiled.copies) IN
     \/ copy.source \in DOMAIN Files /\ disk' = Put(disk, copy.to, copy.source) /\ UNCHANGED errors
     \/ errors' = errors + 1 /\ UNCHANGED disk
  /\ compiled' = [compiled EXCEPT !.copies = Tail(@)]
  /\ UNCHANGED <<driver, stage, printed, inputs, pending, archive>>

\* The partial Info.plist is an output, whether it could be written or not.
PartialInfo == Option("--output-partial-info-plist", "")

WriteInfo ==
  /\ stage = "copies" /\ compiled.copies = << >>
  /\ stage' = "dependencies"
  /\ IF PartialInfo = "" THEN UNCHANGED <<disk, errors, compiled>>
     ELSE /\ compiled' = [compiled EXCEPT !.outputs = Append(@, PartialInfo)]
          /\ \/ disk' = Put(disk, PartialInfo, compiled.info) /\ UNCHANGED errors
             \/ errors' = errors + 1 /\ UNCHANGED disk
  /\ UNCHANGED <<driver, printed, inputs, pending, archive>>

Dependencies == Option("--export-dependency-info", "")

\* What was read and what was written, for the build to compare next time.
WriteDependencies ==
  /\ stage = "dependencies"
  /\ stage' = "results"
  /\ IF Dependencies = "" THEN UNCHANGED <<disk, errors>>
     ELSE \/ /\ disk' = Put(disk, Dependencies, [inputs |-> compiled.inputs, outputs |-> compiled.outputs])
             /\ UNCHANGED errors
          \/ errors' = errors + 1 /\ UNCHANGED disk
  /\ UNCHANGED <<driver, printed, inputs, pending, compiled, archive>>

ListOutputs ==
  /\ stage = "results"
  /\ printed' = Put(printed, "com.apple.actool.compilation-results", Range(compiled.outputs))
  /\ stage' = "result"
  /\ UNCHANGED <<driver, errors, inputs, pending, compiled, disk, archive>>

WriteResult ==
  /\ stage = "result"
  /\ printed' = IF errors = 0 THEN printed ELSE Put(printed, "com.apple.actool.errors", {ToString(errors)})
  /\ exit' = IF errors = 0 THEN 0 ELSE 1
  /\ stage' = "ended"
  /\ UNCHANGED <<arguments, options, errors, inputs, pending, compiled, disk, archive>>

Next ==
  \/ ReadOptions \/ RunVersion \/ RunContents
  \/ BeginCompile \/ LoadInput \/ CompileAsset \/ EndInputs
  \/ Archive \/ EndArchive \/ Copy \/ WriteInfo \/ WriteDependencies \/ ListOutputs
  \/ WriteResult

Spec == Init /\ [][Next]_vars

-----------------------------------------------------------------------------
(* Properties.                                                             *)

Reached[path \in DOMAIN Directories] ==
  {path} \cup (IF Kind(path) \notin HoldsChildren THEN {}
               ELSE UNION {Reached[child] : child \in LoadedChildren(path)})

\* The image sets that the run met, and the images of a set that can be compiled.
ImageSets == {p \in UNION {Reached[input] : input \in Range(compiled.inputs)} : Kind(p) = "ImageSet"}

Images(path) ==
  {e \in Range(Entries(path)) : ~IsSkipped(e) /\ ReadImage(FileOf(path, e)) # Nil}

Area(slices) == FoldLeft(LAMBDA sum, s : sum + s.width * s.height, 0, slices)

IsImage(rendition, path, entry, image) ==
  /\ rendition.fileName = entry["filename"]
  /\ rendition.attributes[AttributeIdentifiers.idiom] = IdiomAttribute(entry["idiom"])
  /\ rendition.scale = ScaleFor(entry, 0)
  /\ rendition.pixels = image.pixels
  /\ rendition.width = image.width /\ rendition.height = image.height
  /\ Has(entry, "resizing/mode") /\ image.width > 0 =>
       /\ rendition.isResizable /\ rendition.resizeMode \in {"tile", "scale"}
       /\ Area(rendition.slices) = image.width * image.height

Finished == stage = "copies" /\ ArchivePath \in DOMAIN disk

Found(path) == LookupRenditions(bom, LookupFacet(bom, FullyQualifiedName(path)))

(***************************************************************************)
(* Every image that can be compiled is in the finished archive: who looks   *)
(* up the name of its set, with the groups that give their name, finds a     *)
(* rendition with its idiom, scale and pixels, and with parts that make up    *)
(* the whole image if it is to stretch.  This takes the identifier of the     *)
(* set, the key format, the tree and every address in the file.              *)
(***************************************************************************)
EveryImageIsFound ==
  Finished =>
    /\ Loads(bom)
    /\ \A path \in ImageSets : \A entry \in Images(path) :
         \E rendition \in Found(path) : IsImage(rendition, path, entry, ReadImage(FileOf(path, entry)))

(***************************************************************************)
(* What is found under a name is of an image set of that name: sets with    *)
(* other names never share an identifier, in whatever order they come.       *)
(***************************************************************************)
NamesDoNotMix ==
  Finished =>
    \A path \in ImageSets : \A rendition \in Found(path) :
      \E other \in ImageSets :
        /\ FullyQualifiedName(other) = FullyQualifiedName(path)
        /\ \E entry \in Images(other) : IsImage(rendition, other, entry, ReadImage(FileOf(other, entry)))

(***************************************************************************)
(* A name leads to the images of its sets, to all of them and to no others. *)
(***************************************************************************)
NamesLeadToTheirImages == EveryImageIsFound /\ NamesDoNotMix

(***************************************************************************)
(* A build goes on after exit code 0, and skips the tool next time by the    *)
(* dependency information: every output that was listed is then on disk, and *)
(* the information names each catalog and each output.                       *)
(***************************************************************************)
SuccessMeansWritten ==
  exit = 0 /\ Given(options, "--compile") =>
    /\ printed["com.apple.actool.compilation-results"] \subseteq DOMAIN disk
    /\ OutputFormat = "compiled" => ArchivePath \in DOMAIN disk
    /\ Dependencies # "" =>
         /\ Range(disk[Dependencies].inputs) = Range(options.inputs)
         /\ Range(disk[Dependencies].outputs) = printed["com.apple.actool.compilation-results"]

IsFileOf(file, name, suffix) ==
  \E scale \in {""} \cup {ScaleSuffix(s) : s \in Scales} :
    file = Root \o "/" \o name \o scale \o suffix \o ".png"

IdiomSuffixes == {"", "~ipad", "~tv", "~watch", "~car"}

(***************************************************************************)
(* The system looks for the icons and launch images that the Info.plist      *)
(* names, adding the suffixes of scale and device: when the tool succeeds    *)
(* each of them is there.                                                   *)
(***************************************************************************)
ListedImagesExist ==
  exit = 0 /\ PartialInfo \in DOMAIN disk =>
    /\ \A suffix \in IdiomSuffixes : "CFBundleIcons" \o suffix \in DOMAIN disk[PartialInfo] =>
         \A name \in disk[PartialInfo]["CFBundleIcons" \o suffix] :
           \E file \in DOMAIN disk : IsFileOf(file, name, suffix)
    /\ "UILaunchImages" \in DOMAIN disk[PartialInfo] =>
         \A image \in disk[PartialInfo]["UILaunchImages"] :
           \E file \in DOMAIN disk : \E suffix \in IdiomSuffixes : IsFileOf(file, image.name, suffix)

(***************************************************************************)
(* "BOM trees store their keys sorted" (bom_tree.c:231), of an archive that   *)
(* is finished.                                                             *)
(***************************************************************************)
TreeKeysSorted ==
  Finished => KeysSorted(bom, "FACETKEYS") /\ KeysSorted(bom, "RENDITIONS")
================================================================================
