----------------------------- MODULE AssetCatalog ------------------------------
(***************************************************************************)
(* How xcassets loads a catalog: a directory is an asset, of the class that  *)
(* its extension names, and so is each directory within it.  An asset whose  *)
(* contents cannot be read or lack what its class requires is left out, with *)
(* all that lies in it; the loading of what is around it goes on.            *)
(***************************************************************************)
EXTENDS TLC, Sequences, SequencesExt, FiniteSets

(***************************************************************************)
(* The classes of assets of xcassets: what makes a directory one of them,    *)
(* whether it must have a Contents.json, and the keys that are read from it. *)
(* A key is given with the words it takes; a word outside of them is warned  *)
(* of and left out, as the key were not there.                              *)
(***************************************************************************)

CONSTANTS
    \* What is read from a scale, the size of an image and a version of a system.
    ScaleOf,
    SizeOf,
    VersionOf

\* Any text.
Text == {}

\* The words of a key that are read from a dictionary with words for keys.
ReadKeys(dict, keys) ==
  [k \in {x \in DOMAIN dict \cap DOMAIN keys : keys[x] = Text \/ dict[x] \in keys[x]} |-> dict[k]]

-----------------------------------------------------------------------------
(* Words.                                                                  *)

Booleans          == {"true", "false"}
BrandAssetRoles   == {"primary-app-icon", "top-shelf-image", "top-shelf-image-wide"}
Compressions      == {"automatic", "lossless", "lossy", "gpu-optimized-best", "gpu-optimized-smallest"}
CubeFaces         == {"x-", "x+", "y-", "y+", "z-", "z+"}
MatchingStyles    == {"fully-qualified-name"}
MipmapLevelModes  == {"none", "all", "fixed"}
StickerDurationTypes == {"fixed", "fps"}
StickerGridSizes  == {"small", "regular", "large"}
TemplateRenderingIntents == {"original", "template"}
TextureInterpretations   == {"colors", "data"}
TextureOrigins    == {"bottom-left"}
WatchComplicationRoles   == {"circular", "modular", "utilitarian"}

MipmapLevels ==
  {"base", "mipmap-level-1", "mipmap-level-2", "mipmap-level-3", "mipmap-level-4",
   "mipmap-level-5", "mipmap-level-6", "mipmap-level-7", "mipmap-level-8",
   "mipmap-level-9", "mipmap-level-10", "mipmap-level-11", "mipmap-level-12",
   "mipmap-level-13", "mipmap-level-14", "mipmap-level-15", "mipmap-level-16"}

TexturePixelFormats ==
  {"r-8-unorm", "rg-8-unorm", "rgba-8-unorm", "rgba-8-unorm-sRGB", "r-16-float",
   "rg-16-float", "rgba-16-float", "rbg-10-extended-range-sRGB", "astc-4x4",
   "astc-4x4-sRGB", "astc-8x8", "astc-8x8-sRGB"}

ColorSpaces        == {"sRGB", "display-P3"}
DeviceSubtypes     == {"retina4", "667h", "736h"}
GraphicsFeatureSets == {"metal1v1", "metal1v2", "metal2v1", "metal2v2", "metal3v1"}
Idioms             == {"universal", "iphone", "ipad", "mac", "tv", "watch", "car", "ios-marketing"}
LaunchImageExtents == {"to-status-bar", "full-screen"}
MemoryRequirements == {"1GB", "2GB", "4GB"}
Orientations       == {"portrait", "landscape"}
SizeClasses        == {"compact", "regular"}
WatchIconRoles     == {"notificationCenter", "companionSettings", "appLauncher", "longLook", "quickLook"}
WatchSizes         == {"38mm", "42mm"}
ScreenWidths       == {"<=145", ">145"}
Platforms          == {"ios", "macos", "tvos", "watchos"}
ResizingModes      == {"3-part-horizontal", "3-part-vertical", "9-part"}
CenterModes        == {"tile", "stretch"}
Scales             == DOMAIN ScaleOf
ImageSizes         == DOMAIN SizeOf
SystemVersions     == DOMAIN VersionOf

-----------------------------------------------------------------------------
(* What an entry of a list, or a dictionary within one, may have.           *)

Insets == ("top" :> Text) @@ ("left" :> Text) @@ ("bottom" :> Text) @@ ("right" :> Text)

Center == ("mode" :> CenterModes) @@ ("width" :> Text) @@ ("height" :> Text)

\* The keys of a dictionary that is the value of a key.
Within(key, keys) ==
  LET inner(k) == CHOOSE x \in DOMAIN keys : key \o "/" \o x = k
  IN [k \in {key \o "/" \o x : x \in DOMAIN keys} |-> keys[inner(k)]]

Resizing == ("mode" :> ResizingModes) @@ Within("center", Center) @@ Within("cap-insets", Insets)

ContentReference == ("type" :> Text) @@ ("name" :> Text) @@ ("matching-style" :> MatchingStyles)

ContentReferences == Within("content-reference", ContentReference)

AppIconSetImage ==
  ("filename" :> Text) @@ ("idiom" :> Idioms) @@ ("size" :> ImageSizes) @@ ("scale" :> Scales)
  @@ ("role" :> WatchIconRoles) @@ ("subtype" :> WatchSizes) @@ ("unassigned" :> Booleans)
  @@ ("matching-style" :> MatchingStyles)

BrandAsset ==
  ("filename" :> Text) @@ ("idiom" :> Idioms) @@ ("size" :> ImageSizes) @@ ("role" :> BrandAssetRoles)

Complication == ("filename" :> Text) @@ ("idiom" :> Idioms) @@ ("role" :> WatchComplicationRoles)

Texture ==
  ("color-space" :> ColorSpaces) @@ ("filename" :> Text)
  @@ ("graphics-feature-set" :> GraphicsFeatureSets) @@ ("idiom" :> Idioms)
  @@ ("memory" :> MemoryRequirements) @@ ("pixel-format" :> TexturePixelFormats)
  @@ ("scale" :> Scales)

CubeTexture == ("cube-face" :> CubeFaces) @@ Texture

DataSetData ==
  ("color-space" :> ColorSpaces) @@ ("filename" :> Text) @@ ("idiom" :> Idioms)
  @@ ("graphics-feature-set" :> GraphicsFeatureSets) @@ ("memory" :> MemoryRequirements)
  @@ ("universal-type-identifier" :> Text)

ImageSetImage ==
  ("color-space" :> ColorSpaces) @@ ("compression-type" :> Compressions) @@ ("filename" :> Text)
  @@ ("graphics-feature-set" :> GraphicsFeatureSets) @@ ("idiom" :> Idioms)
  @@ ("memory" :> MemoryRequirements) @@ ("scale" :> Scales) @@ ("subtype" :> DeviceSubtypes)
  @@ ("screen-width" :> ScreenWidths) @@ ("width-class" :> SizeClasses)
  @@ ("height-class" :> SizeClasses) @@ ("unassigned" :> Booleans)
  @@ Within("alignment-insets", Insets) @@ Within("resizing", Resizing)

LaunchImageImage ==
  ("filename" :> Text) @@ ("idiom" :> Idioms) @@ ("orientation" :> Orientations)
  @@ ("scale" :> Scales) @@ ("subtype" :> DeviceSubtypes)
  @@ ("minimum-system-version" :> SystemVersions) @@ ("extent" :> LaunchImageExtents)

MipmapSetLevel  == ("filename" :> Text) @@ ("mipmap-level" :> MipmapLevels)
ImageStackEntry == "filename" :> Text
StickerEntry    == "filename" :> Text
SequenceFrame   == "filename" :> Text

StickersIcon ==
  ("filename" :> Text) @@ ("idiom" :> Idioms) @@ ("size" :> ImageSizes) @@ ("scale" :> Scales)
  @@ ("platform" :> Platforms)

-----------------------------------------------------------------------------
(* The properties of an asset.                                              *)

NoKeys == [k \in {} |-> Text]
OnDemandResourceTags == "on-demand-resource-tags" :> Text

AppIconSetProperties     == "pre-rendered" :> Booleans
GroupProperties          == OnDemandResourceTags @@ ("provides-namespace" :> Booleans)
DataSetProperties        == OnDemandResourceTags
ImageStackProperties     == OnDemandResourceTags
ImageSetProperties       == OnDemandResourceTags @@ ("template-rendering-intent" :> TemplateRenderingIntents)
MipmapSetProperties      == "level-mode" :> MipmapLevelModes
StickerPackProperties    == "grid-size" :> StickerGridSizes
StickerProperties        == ("accessibility-label" :> Text) @@ ("filename" :> Text)
SpriteAtlasProperties    == GroupProperties @@ ("compression-type" :> Compressions)
LeaderboardSetProperties == ContentReferences @@ ("identifier" :> Text)
LeaderboardProperties    == ContentReferences
DashboardProperties      == ContentReferences
LayerProperties          == ContentReferences

TextureSetProperties ==
  OnDemandResourceTags @@ ("interpretation" :> TextureInterpretations) @@ ("origin" :> TextureOrigins)

CubeTextureSetProperties == TextureSetProperties

SequenceProperties ==
  ("accessibility-label" :> Text) @@ ("duration" :> Text)
  @@ ("duration-type" :> StickerDurationTypes) @@ ("repetitions" :> Text)

-----------------------------------------------------------------------------
(* The classes: the extension of the directory, what no Contents.json means, *)
(* the keys of the properties and of the entries.                           *)

Class(extension, contents, properties, entry) ==
  [extension |-> extension, contents |-> contents, properties |-> properties, entry |-> entry]

AppIconSet       == Class("appiconset", "required", AppIconSetProperties, AppIconSetImage)
BrandAssets      == Class("brandassets", "required", NoKeys, BrandAsset)
Catalog          == Class("xcassets", "optional", NoKeys, NoKeys)
ComplicationSet  == Class("complicationset", "required", NoKeys, Complication)
CubeTextureSet   == Class("cubetextureset", "unchecked", CubeTextureSetProperties, CubeTexture)
DataSet          == Class("dataset", "required", DataSetProperties, DataSetData)
GCDashboardImage == Class("gcdashboardimage", "optional", DashboardProperties, NoKeys)
GCLeaderboard    == Class("gcleaderboard", "optional", LeaderboardProperties, NoKeys)
GCLeaderboardSet == Class("gcleaderboardset", "optional", LeaderboardSetProperties, NoKeys)
Group            == Class("", "optional", GroupProperties, NoKeys)
IconSet          == Class("iconset", "optional", NoKeys, NoKeys)
ImageSet         == Class("imageset", "required", ImageSetProperties, ImageSetImage)
ImageStack       == Class("imagestack", "required", ImageStackProperties, ImageStackEntry)
ImageStackLayer  == Class("imagestacklayer", "required", LayerProperties, NoKeys)
LaunchImage      == Class("launchimage", "required", NoKeys, LaunchImageImage)
MipmapSet        == Class("mipmapset", "required", MipmapSetProperties, MipmapSetLevel)
SpriteAtlas      == Class("spriteatlas", "optional", SpriteAtlasProperties, NoKeys)
Sticker          == Class("sticker", "required", StickerProperties, NoKeys)
StickerPack      == Class("stickerpack", "required", StickerPackProperties, StickerEntry)
StickerSequence  == Class("stickersequence", "required", SequenceProperties, SequenceFrame)
Stickers         == Class("xcstickers", "optional", NoKeys, NoKeys)
StickersIconSet  == Class("stickersiconset", "required", NoKeys, StickersIcon)
TextureSet       == Class("textureset", "unchecked", TextureSetProperties, Texture)

Classes ==
  [AppIconSet |-> AppIconSet, BrandAssets |-> BrandAssets, Catalog |-> Catalog,
   ComplicationSet |-> ComplicationSet, CubeTextureSet |-> CubeTextureSet, DataSet |-> DataSet,
   GCDashboardImage |-> GCDashboardImage, GCLeaderboard |-> GCLeaderboard,
   GCLeaderboardSet |-> GCLeaderboardSet, Group |-> Group, IconSet |-> IconSet,
   ImageSet |-> ImageSet, ImageStack |-> ImageStack, ImageStackLayer |-> ImageStackLayer,
   LaunchImage |-> LaunchImage, MipmapSet |-> MipmapSet, SpriteAtlas |-> SpriteAtlas,
   Sticker |-> Sticker, StickerPack |-> StickerPack, StickerSequence |-> StickerSequence,
   Stickers |-> Stickers, StickersIconSet |-> StickersIconSet, TextureSet |-> TextureSet]

-----------------------------------------------------------------------------

CONSTANT
    \* The directories, by path: name, extension, the directories within, and
    \* what their Contents.json is: Absent, Unreadable or a dictionary.
    Directories,
    Absent, Unreadable

IsDirectory(path) == path \in DOMAIN Directories
ContentsOf(path)  == Directories[path].contents
HasContents(path) == ContentsOf(path) \notin {Absent, Unreadable}

\* What is loaded as a catalog is one, whatever its extension.
IsCatalogRoot(path) == \A p \in DOMAIN Directories : path \notin Directories[p].children

Kind(path) ==
  LET named == {c \in DOMAIN Classes \ {"Group"} : Classes[c].extension = Directories[path].extension}
  IN IF IsCatalogRoot(path) THEN "Catalog"
     ELSE IF named = {} THEN "Group" ELSE CHOOSE c \in named : TRUE

ClassOf(path) == Classes[Kind(path)]

LoadContents(path) == ContentsOf(path) # Unreadable

\* A version other than one is refused; none at all is taken.
ParseInfo(dict) == dict.version \in {0, 1}

Parse(path) ==
  IF HasContents(path) THEN ParseInfo(ContentsOf(path))
  ELSE ClassOf(path).contents = "optional"

\* Classes that use the dictionary without asking whether there is one.
ReadsNoDictionary(path) == ~HasContents(path) /\ ClassOf(path).contents = "unchecked"

LoadsAsset(path) == IsDirectory(path) /\ LoadContents(path) /\ Parse(path)

\* The children are loaded before the asset itself is parsed.
CrashesIn[path \in DOMAIN Directories] ==
  /\ LoadContents(path)
  /\ \/ \E child \in Directories[path].children : CrashesIn[child]
     \/ ReadsNoDictionary(path)

CrashesOn(path) == IsDirectory(path) /\ CrashesIn[path]

LoadedChildren(path) == {child \in Directories[path].children : LoadsAsset(child)}

\* Children come in the order in which the directory is read, which is any.
Orders(S) == SetToSeqs(S)

-----------------------------------------------------------------------------
(* Names.                                                                  *)

\* Looked up before the asset is parsed, for every class.
ProvidesNamespace(path) ==
  /\ HasContents(path)
  /\ "provides-namespace" \in DOMAIN ContentsOf(path).properties
  /\ ContentsOf(path).properties["provides-namespace"] = "true"

Groups[path \in DOMAIN Directories] ==
  IF IsCatalogRoot(path) THEN << >>
  ELSE LET parent == CHOOSE p \in DOMAIN Directories : path \in Directories[p].children
       IN IF ProvidesNamespace(parent) THEN Append(Groups[parent], Directories[parent].name)
          ELSE Groups[parent]

\* The name with the groups around it, as one string.
FullyQualifiedName(path) ==
  FoldLeft(LAMBDA text, group : text \o group \o "/", "", Groups[path]) \o Directories[path].name

-----------------------------------------------------------------------------
(* What an asset says.                                                     *)

Properties(path) ==
  IF HasContents(path) THEN ReadKeys(ContentsOf(path).properties, ClassOf(path).properties) ELSE NoKeys

Entries(path) ==
  IF ~HasContents(path) THEN << >>
  ELSE [i \in DOMAIN ContentsOf(path).entries |-> ReadKeys(ContentsOf(path).entries[i], ClassOf(path).entry)]

Has(entry, key) == key \in DOMAIN entry

Unassigned(entry) == Has(entry, "unassigned") /\ entry["unassigned"] = "true"

ScaleFor(entry, default) == IF Has(entry, "scale") THEN ScaleOf[entry["scale"]] ELSE default

=============================================================================
