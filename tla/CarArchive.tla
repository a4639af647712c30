------------------------------ MODULE CarArchive -------------------------------
(***************************************************************************)
(* libcar: an archive of images in a BOM file.  A facet is a name with the   *)
(* identifier of its renditions; a rendition is one image, under a key made  *)
(* of the values of its attributes in the order of the key format.  The      *)
(* writer collects facets and renditions and writes them in one go, in the   *)
(* order of its hash tables; the reader finds renditions by their facet.     *)
(***************************************************************************)
EXTENDS BomStore

CONSTANT
    \* The bytes of a name, and the length of the value of a rendition.
    NameBytes,
    ValueLength

\* The name of each variable of an archive, and the value, have a length.
ASSUME CarArchiveAssumption ==
  /\ ValueLength \in Nat
  /\ \A name \in {"CARHEADER", "KEYFORMAT", "FACETKEYS", "RENDITIONS"} : Len(name) \in Nat

VARIABLES
    writer,     \* the facets by name, and the renditions
    writing,    \* what the writer does next: "idle" before, "done" after
    left        \* the facets or renditions it has still to write

archive == <<bom, writer, writing, left>>

\* The identifiers of attributes, and their values for the idioms.
AttributeIdentifiers ==
  [element |-> 1, part |-> 2, size |-> 3, direction |-> 4, value |-> 6,
   dimension1 |-> 8, dimension2 |-> 9, state |-> 10, layer |-> 11, scale |-> 12,
   presentation_state |-> 14, idiom |-> 15, subtype |-> 16, identifier |-> 17,
   previous_value |-> 18, previous_state |-> 19, size_class_horizontal |-> 20,
   size_class_vertical |-> 21, memory_class |-> 22, graphics_class |-> 23,
   display_gamut |-> 24, deployment_target |-> 25]

IdiomValues ==
  [universal |-> 0, phone |-> 1, pad |-> 2, tv |-> 3, car |-> 4, watch |-> 5, marketing |-> 6]

IdentifierOf(attributes) == attributes[AttributeIdentifiers.identifier]
HasIdentifier(attributes) == AttributeIdentifiers.identifier \in DOMAIN attributes

\* How an image with parts stretches, by the layout of the rendition.
Layouts ==
  [one_part_fixed_size |-> 10, one_part_tile |-> 11, one_part_scale |-> 12,
   three_part_horizontal_tile |-> 20, three_part_horizontal_scale |-> 21,
   three_part_horizontal_uniform |-> 22, three_part_vertical_tile |-> 23,
   three_part_vertical_scale |-> 24, three_part_vertical_uniform |-> 25,
   nine_part_tile |-> 30, nine_part_scale |-> 31,
   nine_part_horizontal_uniform_vertical_scale |-> 32,
   nine_part_horizontal_scale_vertical_uniform |-> 33, nine_part_edges_only |-> 34]

ResizeModes ==
  [tile |-> {Layouts.one_part_tile, Layouts.three_part_horizontal_tile,
             Layouts.three_part_vertical_tile, Layouts.nine_part_tile},
   scale |-> {Layouts.one_part_scale, Layouts.three_part_horizontal_scale,
              Layouts.three_part_vertical_scale, Layouts.nine_part_scale},
   horizontalUniformVerticalScale |-> {Layouts.nine_part_horizontal_uniform_vertical_scale},
   horizontalScaleVerticalUniform |-> {Layouts.nine_part_horizontal_scale_vertical_uniform}]

ResizeModeFromLayout(layout) ==
  LET modes == {m \in DOMAIN ResizeModes : layout \in ResizeModes[m]}
  IN IF modes = {} THEN "fixedSize" ELSE CHOOSE m \in modes : TRUE

-----------------------------------------------------------------------------
(* The pixels of an image.  The formats that are files are kept as they are, *)
(* the others are compressed; an image without pixels has no payload.        *)

FormatSize == [PremultipliedBGRA8 |-> 4, PremultipliedGA8 |-> 2, JPEG |-> 1, Data |-> 1, WEBP |-> 1]

PixelFormats ==
  [PremultipliedBGRA8 |-> "ARGB", PremultipliedGA8 |-> "GA8 ", JPEG |-> "JPEG",
   Data |-> "DATA", WEBP |-> "WEBP"]

FormatSavedAsRawData(format) == format \in {"JPEG", "Data", "WEBP"}

Encode(data) ==
  CASE data.pixels = "" -> [header |-> "", pixels |-> ""]
    [] FormatSavedAsRawData(data.format) -> [header |-> "DWAR", pixels |-> data.pixels]
    [] OTHER -> [header |-> "MLEC", pixels |-> data.pixels]

Decode(value) ==
  LET format == CHOOSE f \in DOMAIN PixelFormats : PixelFormats[f] = value.pixelFormat
      header == IF FormatSavedAsRawData(format) THEN "DWAR" ELSE "MLEC"
  IN IF value.payload.header # header THEN "" ELSE value.payload.pixels

\* Scales are counted in hundredths.  One slice for the whole image stands in for none.
WrittenSlices(rendition) ==
  IF rendition.slices # << >> THEN rendition.slices
  ELSE <<[x |-> 0, y |-> 0, width |-> rendition.width, height |-> rendition.height]>>

WriteRendition(rendition) ==
  [name |-> rendition.fileName, width |-> rendition.width, height |-> rendition.height,
   scaleFactor |-> rendition.scale, layout |-> rendition.layout,
   slices |-> WrittenSlices(rendition), payload |-> Encode(rendition.data),
   pixelFormat |-> PixelFormats[rendition.data.format],
   bytesPerRow |-> IF FormatSavedAsRawData(rendition.data.format) THEN 0
                   ELSE rendition.width * FormatSize[rendition.data.format]]

IsResizable(value) ==
  /\ value.layout \in Layouts.three_part_horizontal_tile .. Layouts.nine_part_horizontal_scale_vertical_uniform
  /\ Len(value.slices) > 1

LoadRendition(attributes, value) ==
  [attributes |-> attributes, fileName |-> value.name, width |-> value.width,
   height |-> value.height, scale |-> value.scaleFactor, layout |-> value.layout,
   resizeMode |-> ResizeModeFromLayout(value.layout), slices |-> value.slices,
   isResizable |-> IsResizable(value), pixels |-> Decode(value)]

-----------------------------------------------------------------------------
(* Lists of attributes.                                                     *)

\* The values in the order of the format, two bytes of each with the lower one
\* first; those that are missing are zero.
WriteAttributes(attributes, format) ==
  LET value(i) == IF format[i] \in DOMAIN attributes THEN attributes[format[i]] ELSE 0
  IN [k \in 1..(2 * Len(format)) |->
        IF k % 2 = 1 THEN value((k + 1) \div 2) % 256 ELSE value(k \div 2) \div 256]

LoadAttributes(format, key) ==
  [a \in Range(format) |->
     LET i == CHOOSE i \in DOMAIN format : format[i] = a
     IN key[2 * i - 1] + 256 * key[2 * i]]

Ascending(S) == [i \in 1..Cardinality(S) |-> CHOOSE a \in S : Cardinality({b \in S : b < a}) = i - 1]

\* The value of a facet: its attributes in ascending order.
FacetValue(attributes) ==
  [i \in 1..Cardinality(DOMAIN attributes) |->
     LET a == Ascending(DOMAIN attributes)[i] IN <<a, attributes[a]>>]

FacetLength(attributes) == 6 + 4 * Cardinality(DOMAIN attributes)

LoadFacet(value) ==
  [a \in {value[i][1] : i \in DOMAIN value} |-> (CHOOSE p \in Range(value) : p[1] = a)[2]]

-----------------------------------------------------------------------------
(* The writer.                                                             *)

NewWriter == [facets |-> [n \in {} |-> {}], renditions |-> << >>]

\* The first facet of a name stays.
WithFacet(w, name, attributes) ==
  IF name \in DOMAIN w.facets THEN w
  ELSE [w EXCEPT !.facets = [n \in DOMAIN @ \cup {name} |-> IF n = name THEN attributes ELSE @[n]]]

WithRendition(w, rendition) ==
  IF HasIdentifier(rendition.attributes) THEN [w EXCEPT !.renditions = Append(@, rendition)] ELSE w

DetermineKeyFormat(w) ==
  Ascending((UNION {DOMAIN w.facets[n] : n \in DOMAIN w.facets})
            \cup (UNION {DOMAIN w.renditions[i].attributes : i \in DOMAIN w.renditions}))

\* Indexes for the header, the key format, the two trees, the pairs and two free ones.
ReservedIndexes(w) == 8 + 2 * Cardinality(DOMAIN w.facets) + 2 * Len(w.renditions)

WriteReserve ==
  /\ writing = "reserve"
  /\ bom' = IndexReserve(bom, ReservedIndexes(writer))
  /\ writing' = "header"
  /\ UNCHANGED <<writer, left>>

CarHeader == [magic |-> "RATC", storageVersion |-> 12]
CarHeaderSize == 436

\* A block with a variable that names it.
AddNamed(b, content, length, name) == VariableAdd(IndexAdd(b, content, length), name, Count(b))

WriteHeader ==
  /\ writing = "header"
  /\ bom' = AddNamed(bom, Bytes(CarHeader), CarHeaderSize, "CARHEADER")
  /\ writing' = "format"
  /\ UNCHANGED <<writer, left>>

WriteKeyFormat ==
  /\ writing = "format"
  /\ bom' = AddNamed(bom, Bytes(DetermineKeyFormat(writer)), 12 + 4 * Len(DetermineKeyFormat(writer)), "KEYFORMAT")
  /\ writing' = "facetTree"
  /\ UNCHANGED <<writer, left>>

AllocFacets ==
  /\ writing = "facetTree"
  /\ bom' = TreeReserve(TreeAllocEmpty(bom, "FACETKEYS"), "FACETKEYS", Cardinality(DOMAIN writer.facets))
  /\ left' = DOMAIN writer.facets
  /\ writing' = "facets"
  /\ UNCHANGED writer

WriteFacet(name) ==
  /\ writing = "facets" /\ name \in left
  /\ bom' = TreeAdd(bom, "FACETKEYS", NameBytes[name], FacetValue(writer.facets[name]),
                    FacetLength(writer.facets[name]))
  /\ left' = left \ {name}
  /\ UNCHANGED <<writer, writing>>

AllocRenditions ==
  /\ writing = "facets" /\ left = {}
  /\ bom' = TreeReserve(TreeAllocEmpty(bom, "RENDITIONS"), "RENDITIONS", Len(writer.renditions))
  /\ left' = DOMAIN writer.renditions
  /\ writing' = "renditions"
  /\ UNCHANGED writer

WriteRenditionKey(i) ==
  /\ writing = "renditions" /\ i \in left
  /\ bom' = TreeAdd(bom, "RENDITIONS",
                    WriteAttributes(writer.renditions[i].attributes, DetermineKeyFormat(writer)),
                    WriteRendition(writer.renditions[i]), ValueLength)
  /\ left' = left \ {i}
  /\ UNCHANGED <<writer, writing>>

AddFreeIndices ==
  /\ writing = "renditions" /\ left = {}
  /\ bom' = FreeIndicesAdd(bom, 2)
  /\ writing' = "done"
  /\ UNCHANGED <<writer, left>>

WriteArchive ==
  \/ WriteReserve \/ WriteHeader \/ WriteKeyFormat
  \/ AllocFacets \/ (\E name \in DOMAIN writer.facets : WriteFacet(name))
  \/ AllocRenditions \/ (\E i \in DOMAIN writer.renditions : WriteRenditionKey(i))
  \/ AddFreeIndices

-----------------------------------------------------------------------------
(* The reader of a finished archive.                                        *)

KeyFormat(b) == IndexGet(b, VariableGet(b, "KEYFORMAT"))

Loads(b) ==
  LET header == IndexGet(b, VariableGet(b, "CARHEADER"))
  IN /\ header.kind = "bytes" /\ header.value.magic = "RATC" /\ header.value.storageVersion >= 8
     /\ KeyFormat(b).kind = "bytes"

\* The first entry of a name in the tree; << >> when there is none.
LookupFacet(b, name) ==
  LET items == TreeItems(b, "FACETKEYS")
      at == SelectInSeq(items, LAMBDA item : item.key.value = NameBytes[name])
  IN IF at = 0 THEN << >> ELSE LoadFacet(items[at].value.value)

\* The place of the identifier in the key format, the first when it has none.
IdentifierPlace(format) ==
  LET at == SelectInSeq(format, LAMBDA a : a = AttributeIdentifiers.identifier)
  IN IF at = 0 THEN 1 ELSE at

LookupRenditions(b, facet) ==
  LET format == KeyFormat(b).value
      place  == IdentifierPlace(format)
      items  == TreeItems(b, "RENDITIONS")
      keyed(i) == items[i].key.value[2 * place - 1] + 256 * items[i].key.value[2 * place]
  IN IF facet = << >> \/ ~HasIdentifier(facet) THEN {}
     ELSE {LoadRendition(LoadAttributes(format, items[i].key.value), items[i].value.value) :
             i \in {j \in DOMAIN items : keyed(j) = IdentifierOf(facet)}}
================================================================================
