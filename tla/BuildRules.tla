------------------------------ MODULE BuildRules ------------------------------
(***************************************************************************)
(* From a file of a project to the tool that builds it: FileTypeResolver    *)
(* finds the type of the file among the specifications, in whichever domain *)
(* it finds one; Target::BuildRules finds a rule of the target for the type *)
(* or a type that it is based on.  Types are compared as objects here, not  *)
(* by their identifier.                                                     *)
(***************************************************************************)
EXTENDS Specifications, TopologicalOrder

CONSTANTS
  Files,     \* files of a project: see Matches
  Targets    \* the rules of a target, and the domains of its SDK

-----------------------------------------------------------------------------
(* FileTypeResolver.                                                       *)

\* AnyDomain() goes through a hash table of the domains.
AnyDomain == SetToSeqs({Entry(id).domain : id \in ToSet(specifications)})

\* A bug: bases come before what is derived from them.
TypeGraphUpwards(types) ==
  LET nodes == types \cup ({base[id] : id \in types} \ {NONE})
  IN  [id \in nodes |-> {base[id]} \cap types]

\* The graph is made of the types and the types they are based on.
TypeGraph(types) ==
  LET nodes == types \cup ({base[id] : id \in types} \ {NONE})
  IN  [id \in nodes |-> {derived \in types : base[derived] = id}]

\* The checks that a type makes of a file; what each contribution to a list
\* matches is part of the description of the file.  The words a file starts
\* with are looked for under its name in the working directory.
Checks == {"Extensions", "Prefix", "FilenamePatterns", "Permissions", "MagicWord"}

Made(id, file) ==
  {check \in Checks : values[id][check] # << >> /\ (check \in {"Permissions", "MagicWord"} => file.readable)}

Passes(id, file, check) == \E n \in 1..Len(values[id][check]) : values[id][check][n] \in file.passes[check]

Matches(id, file) ==
  /\ file.readable => ((values[id]["IsFolder"] # << >>) = file.folder)
  /\ Made(id, file) # {}
  /\ \A check \in Made(id, file) : Passes(id, file, check)

\* What every order of the graph has before a type.
SortedBefore(graph, id) ==
  LET below[n \in 0..Cardinality(DOMAIN graph)] ==
        IF n = 0 THEN graph[id] ELSE below[n - 1] \cup UNION {graph[other] : other \in below[n - 1]}
  IN  below[Cardinality(DOMAIN graph)]

\* The types that match and may be the first to do so: an order is free to
\* have anything else later.
SortedFileTypes(types, file) ==
  LET graph   == TypeGraph(types)
      matches == {id \in DOMAIN graph : Matches(id, file)}
  IN  {id \in matches : SortedBefore(graph, id) \cap matches = {}}

ResolveByContents(file, list) ==
  LET first == SortedFileTypes(ToSet(FindSpecifications(list, "FileType")), file)
  IN  IF first # {} THEN first
      ELSE {FindSpecification(list, IF file.folder /\ file.readable THEN "folder" ELSE "file", "FileType")}

\* What the project says of a file comes before what the file looks like.
ResolveFileType(file, list) ==
  LET explicit == FindSpecification(list, file.explicitFileType, "FileType")
      known    == FindSpecification(list, file.lastKnownFileType, "FileType")
  IN  IF explicit # NONE THEN {explicit}
      ELSE IF known # NONE THEN {known}
      ELSE ResolveByContents(file, list)

FileTypes(file) == UNION {ResolveFileType(file, list) : list \in AnyDomain}

-----------------------------------------------------------------------------
(* Target::BuildRules.                                                     *)

\* A tool, or a compiler, or a linker of that name.
FindTool(list, identifier) ==
  LET found == SelectSeq(<<FindSpecification(list, identifier, "Tool"),
                           FindSpecification(list, identifier, "Compiler"),
                           FindSpecification(list, identifier, "Linker")>>, LAMBDA id : id # NONE)
  IN  IF found = << >> THEN NONE ELSE Head(found)

Rule(pattern, fileTypes, tool) == [pattern |-> pattern, fileTypes |-> fileTypes, tool |-> tool]

\* A rule of the project; a script needs no tool and a pattern no type.
ProjectBuildRule(list, rule) ==
  LET script == rule.compilerSpec = "com.apple.compilers.proxy.script"
      tool   == IF script THEN NONE ELSE FindTool(list, rule.compilerSpec)
      type   == FindSpecification(list, rule.fileType, "FileType")
  IN  IF (~script /\ tool = NONE) \/ (rule.fileType # "pattern.proxy" /\ type = NONE) THEN << >>
      ELSE <<Rule(rule.pattern, IF rule.fileType = "pattern.proxy" THEN {} ELSE {type}, tool)>>

\* A rule of the specifications; one unknown type and there is no rule.
SpecificationBuildRule(list, fileTypes, compilerSpec) ==
  LET tool  == FindTool(list, compilerSpec)
      types == {FindSpecification(list, type, "FileType") : type \in fileTypes}
  IN  IF tool = NONE \/ NONE \in types THEN << >> ELSE <<Rule("", types, tool)>>

\* Tools that ask for it get a rule for what they take.
InputFileTypes(id) ==
  UNION {Entry(values[id]["InputFileTypes"][n]).inputFileTypes : n \in 1..Len(values[id]["InputFileTypes"])}

SynthesizedBuildRules(list) ==
  LET tools == FindSpecifications(list, "Compiler") \o FindSpecifications(list, "Linker")
                 \o FindSpecifications(list, "Tool")
  IN  SelectSeq(tools, LAMBDA id : /\ values[id]["SynthesizeBuildRule"] # << >>
                                   /\ values[id]["InputFileTypes"] # << >>)

Rules(target) ==
  LET list        == target.domains
      synthesized == SynthesizedBuildRules(list)
  IN  FlattenSeq(
        [n \in 1..Len(target.buildRules) |-> ProjectBuildRule(list, target.buildRules[n])] \o
        [n \in 1..Len(catalog.buildRules) |->
           SpecificationBuildRule(list, {catalog.buildRules[n].fileType}, catalog.buildRules[n].compilerSpec)] \o
        [n \in 1..Len(synthesized) |->
           SpecificationBuildRule(list, InputFileTypes(synthesized[n]), Entry(synthesized[n]).identifier)])

\* A bug: only a type itself has rules.
AppliesExactly(rule, type, file) ==
  IF rule.pattern # "" THEN rule.pattern \in file.patterns ELSE type \in rule.fileTypes

\* A type, the type it is based on, and so on: the first rule of any of them.
Applies(rule, type, file) ==
  IF rule.pattern # "" THEN rule.pattern \in file.patterns
  ELSE ({type} \cup Bases(type)) \cap rule.fileTypes # {}

ResolveBuildRule(target, type, file) ==
  LET rules == SelectSeq(Rules(target), LAMBDA rule : Applies(rule, type, file))
  IN  IF rules = << >> THEN NONE ELSE Head(rules)
-----------------------------------------------------------------------------
(* Properties.                                                             *)

Depth == Cardinality(Ids)

\* From a specification to the root of what it is based on, as far as it was found.
Chain(id) ==
  LET chain[n \in 0..Depth] ==
        IF n = 0 THEN <<id>>
        ELSE IF base[Last(chain[n - 1])] = NONE THEN chain[n - 1]
        ELSE Append(chain[n - 1], base[Last(chain[n - 1])])
  IN  chain[Depth]

\* What a field should come to, seen from the values of the whole chain at once.
Expected(type, field, own) ==
  CASE field \in NotInherited   -> own[1]
    [] field \in Named          -> FoldLeft(InsertAll, << >>, Reverse(own))
    [] field \in Combined(type) -> FlattenSeq(Reverse(own))
    [] OTHER                    -> LET set == SelectSeq(own, LAMBDA value : value # << >>)
                                   IN  IF set = << >> THEN << >> ELSE Head(set)

\* Manager.cpp: "Since inheritance copies values from the base, the base must
\* have its own values set first."  A specification that has inherited has
\* every value of everything it is based on, directly or not, whichever file
\* or domain was read first; the one field that the code takes from another
\* is left aside.
InheritsWholeChain ==
  pc \in {"idle", "ready"} =>
    \A id \in Ids : base[id] # NONE =>
      LET chain == Chain(id)
          own   == [n \in 1..Len(chain) |-> Parse(chain[n])]
      IN  ~Inherits(base[id]) /\ \A field \in Fields(Type(id)) : OwnField(field) = field =>
            values[id][field] = Expected(Type(id), field, [n \in 1..Len(chain) |-> own[n][field]])

\* What was inherited once is not inherited again, though every registration
\* and every specification based on it goes through it anew: lists would
\* have the entries of the base twice.
InheritsOnce ==
  [][\A id \in Ids : base[id] # NONE => base'[id] = base[id] /\ values'[id] = values[id]]_vars

\* What a specification names as its base, as the files have it.
NamedBases(id) ==
  {b \in Ids : /\ Entry(id).basedOn # << >> /\ Type(b) = Type(id)
               /\ Entry(b).domain = Entry(id).basedOn[1] /\ Entry(b).identifier = Entry(id).basedOn[2]}

\* inheritSpecification has no guard but _base against specifications that
\* are based on each other: it recurses without end for these, and only for
\* these; looking for a base elsewhere does not come back to where it began.
OverflowOnlyForCycle ==
  pc = "overflow" => HasCycle([id \in Ids |-> NamedBases(id)])

\* A registration comes to an end with everything inherited, or to none for a
\* cycle (Manager::inheritSpecification).
RegistrationIsComplete == InheritsWholeChain /\ OverflowOnlyForCycle

\* FileTypeResolver.cpp: "Reverse first so more specific file types are
\* processed first": no type that matches a file is based on the one chosen.
MostSpecificType ==
  pc = "ready" =>
    \A file \in Files, list \in AnyDomain : \A type \in ResolveByContents(file, list) :
      \A other \in ToSet(FindSpecifications(list, "FileType")) :
        Matches(other, file) => type \notin Bases(other)

\* A file's type may be found in a domain that is not of its target, where a
\* platform has its own version of it.  As long as that is based on the one
\* the target knows, a file that the target has a rule for is not left out.
RulesReachTheirFiles ==
  pc = "ready" =>
    \A target \in Targets, file \in Files :
      LET known == FindSpecification(target.domains, file.explicitFileType, "FileType")
          same  == {id \in ToSet(specifications) :
                      Type(id) = "FileType" /\ Entry(id).identifier = file.explicitFileType}
      IN  (known # NONE /\ \A id \in same : known \in {id} \cup Bases(id))
            => \A type \in FileTypes(file) :
                 ResolveBuildRule(target, known, file) # NONE => ResolveBuildRule(target, type, file) # NONE

\* A file is of the most specific type that matches it, and so reaches the rule
\* of its target.
FilesMeetTheirRules == MostSpecificType /\ RulesReachTheirFiles

=============================================================================
