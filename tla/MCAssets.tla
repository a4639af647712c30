-------------------------------- MODULE MCAssets -------------------------------
(***************************************************************************)
(* Small catalogs for CatalogCompiler: image sets of the same name within    *)
(* and without a group that gives its name, images that stretch, images that *)
(* cannot be used, icons and launch images of several devices, an asset of   *)
(* each class, and assets whose contents are absent, unreadable or of         *)
(* another version.  For the built-in tools: files, links, directories with    *)
(* and without directories in them, a device, and a directory that cannot be  *)
(* read, as they are before and after a change.                              *)
(***************************************************************************)
EXTENDS ProductFiles

MCScaleOf   == ("1x" :> 100) @@ ("2x" :> 200) @@ ("3x" :> 300)
MCSizeOf    == ("60x60" :> "60x60") @@ ("76x76" :> "76x76")
MCVersionOf == ("6.0" :> <<6, 0, 0>>) @@ ("7.0" :> <<7, 0, 0>>) @@ ("8.0" :> <<8, 0, 0>>)

MCNameBytes ==
  ("a" :> <<97>>) @@ ("b" :> <<98>>) @@ ("Icons/a" :> <<73, 99, 111, 110, 115, 47, 97>>)
  @@ ("ImageSet" :> <<73, 109, 97, 103, 101, 83, 101, 116>>)

MCIndeterminate == {0, 31}

Dictionary(version, properties, entries) ==
  [version |-> version, properties |-> properties, entries |-> entries]

Plain == Dictionary(1, NoKeys, << >>)
List(entries) == Dictionary(1, NoKeys, entries)

Asset(name, extension, children, contents) ==
  [name |-> name, extension |-> extension, children |-> children, contents |-> contents]

Image(file, idiom) == ("filename" :> file) @@ ("idiom" :> idiom)
Scaled(scale, entry) == ("scale" :> scale) @@ entry

Stretched(mode, entry) ==
  ("resizing/mode" :> mode) @@ ("resizing/center/mode" :> "stretch")
  @@ ("resizing/cap-insets/left" :> 2) @@ ("resizing/cap-insets/right" :> 1)
  @@ ("resizing/cap-insets/top" :> 1) @@ entry

Icon(file, idiom, size, scale) == ("size" :> size) @@ Scaled(scale, Image(file, idiom))

Launch(idiom, keys) == keys @@ Image("a.png", idiom)

Media ==
  ("Media" :> Asset("Media", "xcassets", {"Media/a", "Media/Icons"}, Absent))
  @@ ("Media/a" :> Asset("a", "imageset", {},
        List(<<Scaled("1x", Image("a.png", "universal")),
               Stretched("9-part", Scaled("2x", Image("a@2x.png", "iphone"))),
               ("unassigned" :> "true") @@ Image("a.png", "ipad")>>)))
  @@ ("Media/Icons" :> Asset("Icons", "", {"Media/Icons/a"},
        Dictionary(0, "provides-namespace" :> "true", << >>)))
  @@ ("Media/Icons/a" :> Asset("a", "imageset", {}, List(<<Image("a.jpg", "ipad")>>)))
  @@ ("More" :> Asset("More", "xcassets", {"More/same", "More/a"}, Plain))
  @@ ("More/same" :> Asset("same", "imagestack", {"More/same/a"}, Plain))
  @@ ("More/a" :> Asset("a", "imageset", {}, List(<<Scaled("2x", Image("a.png", "universal"))>>)))
  @@ ("More/same/a" :> Asset("a", "imageset", {},
        List(<<Stretched("3-part-horizontal", Image("g.png", "tv"))>>)))

Faulty ==
  ("Faulty" :> Asset("Faulty", "xcassets", {"Faulty/b", "Faulty/old", "Faulty/gone"}, Plain))
  @@ ("Faulty/b" :> Asset("b", "imageset", {},
        List(<<Image("b.webp", "car"), Image("bad.png", "watch"), "filename" :> "a.png",
               Image("none.png", "mac"), Stretched("3-part-vertical", Image("b.jpg", "iphone"))>>)))
  @@ ("Faulty/old" :> Asset("a", "imageset", {}, Dictionary(2, NoKeys, << >>)))
  @@ ("Faulty/gone" :> Asset("a", "imageset", {}, Absent))

App ==
  ("App" :> Asset("App", "xcassets", {"App/Icon", "App/Launch"}, Plain))
  @@ ("App/Icon" :> Asset("Icon", "appiconset", {},
        List(<<Icon("a.png", "iphone", "60x60", "2x"), Icon("g.png", "universal", "76x76", "1x"),
               Icon("a.png", "ipad", "76x76", "1x"), Image("a.png", "car")>>)))
  @@ ("App/Launch" :> Asset("Launch", "launchimage", {},
        List(<<Launch("iphone", ("minimum-system-version" :> "8.0") @@ ("subtype" :> "736h")
                                @@ ("orientation" :> "landscape") @@ ("extent" :> "to-status-bar")),
               Launch("ipad", ("minimum-system-version" :> "7.0") @@ ("scale" :> "2x")),
               Launch("iphone", ("subtype" :> "retina4") @@ ("minimum-system-version" :> "7.0")),
               Launch("tv", NoKeys)>>)))
  @@ ("Watch" :> Asset("Watch", "xcassets", {"Watch/Launch"}, Plain))
  @@ ("Watch/Launch" :> Asset("Launch", "launchimage", {}, List(<<Launch("watch", NoKeys)>>)))

\* A class for each extension, those without a Contents.json among them.
ClassNames == DOMAIN Classes \ {"Catalog", "TextureSet", "CubeTextureSet"}

Kinds ==
  ("Kinds" :> Asset("Kinds", "xcassets", ClassNames, Absent))
  @@ [c \in ClassNames |->
        Asset(c, Classes[c].extension, {},
              IF Classes[c].contents = "required"
              THEN List(<<Image("a.png", "universal")>>)
              ELSE Dictionary(1, ("content-reference/name" :> "board") @@ ("provides-namespace" :> "true"), << >>))]

Broken ==
  ("Texture" :> Asset("Texture", "xcassets", {"Texture/t"}, Plain))
  @@ ("Texture/t" :> Asset("t", "textureset", {}, Absent))
  @@ ("Unreadable" :> Asset("Unreadable", "xcassets", {}, Unreadable))

MCDirectories == Media @@ Faulty @@ App @@ Kinds @@ Broken

File(type, width, height, pixels) ==
  [type |-> type, corrupt |-> FALSE, gray |-> FALSE, width |-> width, height |-> height, pixels |-> pixels]

Wide  == File("png", 6, 4, "wide")
Small == File("png", 3, 2, "small")
Gray  == [File("png", 5, 5, "gray") EXCEPT !.gray = TRUE]

MCFiles ==
  (<<"Media/a", "a.png">> :> Small) @@ (<<"Media/a", "a@2x.png">> :> Wide)
  @@ (<<"Media/Icons/a", "a.jpg">> :> File("jpeg", 4, 4, "photo"))
  @@ (<<"More/same/a", "g.png">> :> Gray) @@ (<<"More/a", "a.png">> :> Wide)
  @@ (<<"Faulty/b", "b.webp">> :> File("webp", 4, 4, "web"))
  @@ (<<"Faulty/b", "b.jpg">> :> File("jpeg", 4, 4, "picture"))
  @@ (<<"Faulty/b", "bad.png">> :> [Small EXCEPT !.corrupt = TRUE])
  @@ (<<"App/Icon", "a.png">> :> Small) @@ (<<"App/Icon", "g.png">> :> Gray)
  @@ (<<"App/Launch", "a.png">> :> Wide)

Compile(rest) == <<"--compile", "out">> \o rest

MCCommandLines ==
  {Compile(<<"Media">>),
   Compile(<<"Faulty", "More", "--allow-image-type", "webp", "--allow-non-standard-behavior", "--minimum-deployment-target", "8.0">>),
   Compile(<<"Faulty", "--allow-image-type", "webp">>),
   Compile(<<"Media", "--minimum-deployment-target", "6.0">>),
   Compile(<<"Media", "--minimum-deployment-target", "new">>),
   Compile(<<"App", "--app-icon", "Icon", "--launch-image", "Launch", "--output-partial-info-plist", "info",
             "--export-dependency-info", "deps", "--compile-output-filename", "x.car">>),
   Compile(<<"App", "--app-icon", "Icon", "--minimum-deployment-target", "6.0", "--export-dependency-info", "deps">>),
   Compile(<<"Watch", "--launch-image", "Launch", "--target-device", "iphone", "--target-device", "ipad">>),
   Compile(<<"Texture">>), Compile(<<"Unreadable", "nowhere">>),
   <<"--print-contents", "--version", "Kinds", "Faulty", "Unreadable">>,
   <<"--print-contents", "Texture">>, <<"--print-contents", "Kinds", "Media">>,
   <<"--output-format", "xml">>, <<"--output-format", "binary1", "--errors">>,
   <<"--errors", "--errors">>, <<"--platform", "ios", "--platform", "tv">>, <<"--platform">>,
   <<"--unknown">>, <<"--allow-image-type", "gif", "--version">>,
   <<"--enable-on-demand-resources", "MAYBE">>, <<"--enable-on-demand-resources", "YES">>}

-----------------------------------------------------------------------------
(* The built-in tools.                                                      *)

NoValues == [k \in {} |-> <<"string", "">>]
RawBytes(text) == Data("bytes", text, NoValues)

MCNothing == Data("none", "other", NoValues)

Project ==
  Data("xml", "dictionary",
    ("Name" :> <<"setting", "PRODUCT_NAME">>) @@ ("CFBundleSignature" :> <<"string", "ABCD">>)
    @@ ("CFBundlePackageType" :> <<"string", "APP">>) @@ ("CFBundleIcons" :> <<"list", {"Old"}>>))
Extra   == Data("binary", "dictionary", ("Name" :> <<"string", "extra">>) @@ ("DTXcode" :> <<"string", "0">>))
Strings == Data("utf-8", "dictionary", "hello" :> <<"string", "hi">>)
Counts  == Data("utf-16", "dictionary", "many" :> <<"number", "1">>)
Items   == Data("xml", "array", NoValues)

MCCurrentDirectory == <<"work">>
MCSourceRoot       == <<"work", "src">>
Source(names, entry) == (MCSourceRoot \o names) :> entry

Directory == NewDirectory
Sealed    == [Directory EXCEPT !.access = Access({}, {}, {})]
ReadOnly  == Access({"r"}, {"r"}, {"r"})
TextFile(text) == NewFile(RawBytes(text))
Device    == [TextFile("one") EXCEPT !.type = "device"]

Common ==
  (<< >> :> Directory) @@ (<<"work">> :> Directory) @@ (MCSourceRoot :> Directory) @@ (<<"build">> :> Directory)
  @@ Source(<<"a">>, TextFile("one")) @@ Source(<<"link">>, NewLink(Absolute(MCSourceRoot \o <<"a">>)))
  @@ Source(<<"Info.plist">>, NewFile(Project)) @@ Source(<<"more">>, NewFile(Extra))
  @@ Source(<<"items">>, NewFile(Items))
  @@ Source(<<"hello">>, NewFile(Strings)) @@ Source(<<"counts">>, NewFile(Counts))
  @@ Source(<<"pipe">>, Device) @@ Source(<<"sealed">>, Sealed)
  @@ Source(<<"flat">>, Directory) @@ Source(<<"deep">>, Directory)

\* Before a change of the sources, and after it.
Before ==
  Common
  @@ Source(<<"flat", "x">>, [TextFile("one") EXCEPT !.access = ReadOnly])
  @@ Source(<<"flat", "y">>, NewLink(<<"x">>))
  @@ Source(<<"deep", "inner">>, Directory) @@ Source(<<"deep", "inner", "z">>, TextFile("one"))

After ==
  Common
  @@ (<<"build", "linked">> :> NewLink(<<"real">>)) @@ (<<"build", "real">> :> Directory)
  @@ (<<"build", "out">> :> Directory)
  @@ (<<"build", "out", "a">> :> NewLink(Absolute(MCSourceRoot \o <<"more">>)))
  @@ Source(<<"flat", "x">>, TextFile("two")) @@ Source(<<"flat", "v">>, Device)
  @@ Source(<<"deep", "w">>, TextFile("two")) @@ Source(<<"deep", "inner">>, Sealed)

MCVersions == {Before, After}

SourceNames == {"a", "link", "Info.plist", "more", "items", "hello", "counts", "pipe", "sealed", "flat", "deep", "gone"}
BuildNames  == {"out", "linked", "Info", "PkgInfo", "rules", "info"}
MCPathOf ==
  [n \in SourceNames \cup BuildNames |-> IF n \in SourceNames THEN MCSourceRoot \o <<n>> ELSE <<"build", n>>]

Settings ==
  ("PRODUCT_NAME" :> "App") @@ ("CODE_SIGN_RESOURCE_RULES_PATH" :> "a") @@ ("XCODE_VERSION_ACTUAL" :> "0800")
  @@ ("DEPLOYMENT_TARGET_SETTING_NAME" :> "IOS") @@ ("IOS" :> "9.0") @@ ("TARGETED_DEVICE_FAMILY" :> "1,2")

Call(tool, args) == [tool |-> tool, arguments |-> args, environment |-> [s \in {} |-> ""]]
With(settings, call) == [call EXCEPT !.environment = settings]

MCInvocations ==
  {Call("copy", <<"-V", "-exclude", "a", "-exclude", "b", "-resolve-src-symlinks", "flat", "link", "out">>),
   Call("copy", <<"-bitcode-strip", "all", "-bitcode-strip", "none", "deep", "out">>),
   Call("copy", <<"link", "out">>), Call("copy", <<"a", "linked">>),
   Call("copy", <<"gone", "out">>), Call("copy", <<"-ignore-missing-inputs", "gone", "sealed", "out">>),
   Call("copy", <<"pipe", "out">>), Call("copy", <<"a", "-bitcode-strip", "some">>), Call("copy", <<"-V">>),
   Call("copyPlist", <<"--convert", "binary1", "--outdir", "out", "--", "Info.plist", "items">>),
   Call("copyPlist", <<"--validate", "--outdir", "out", "a">>),
   Call("copyPlist", <<"--convert", "xml", "--outdir", "out", "a">>),
   Call("copyPlist", <<"--outdir", "out", "a", "sealed">>),
   Call("copyStrings", <<"--validate", "--inputencoding", "utf-8", "--outdir", "out", "hello">>),
   Call("copyStrings", <<"--validate", "--outputencoding", "binary", "--outdir", "out", "counts", "hello">>),
   Call("copyStrings", <<"--inputencoding", "latin", "--outdir", "out", "hello">>),
   With(Settings, Call("infoPlistUtility",
     <<"-expandbuildsettings", "-format", "binary", "-genpkginfo", "PkgInfo", "-resourcerulesfile", "rules",
       "-additionalcontentfile", "more", "-additionalcontentfile", "items", "-o", "Info", "Info.plist">>)),
   With(Settings, Call("infoPlistUtility",
     <<"-expandbuildsettings", "-genpkginfo", "PkgInfo", "-additionalcontentfile", "info", "-o", "Info", "Info.plist">>)),
   Call("infoPlistUtility", <<"-format", "text", "-o", "Info", "Info.plist">>),
   Call("infoPlistUtility", <<"-o", "Info", "items">>),
   Call("infoPlistUtility", <<"-o", "Info", "-additionalcontentfile", "a", "more">>),
   Call("copyTiff", <<"--outdir", "out", "--outdir", "out">>), Call("validationUtility", <<"-validate-for-store">>),
   Call("lsRegisterURL", <<"-any">>), Call("lsRegisterURL", << >>)}

================================================================================
