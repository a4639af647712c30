------------------------------- MODULE Schemes -------------------------------
(***************************************************************************)
(* xcscheme: the elements of a scheme, and what the parse keeps of them.  A *)
(* document is a sequence of elements [tag, up, attributes], where up is    *)
(* the place of the element around it, 0 for the root.                     *)
(*                                                                         *)
(* The parser of XML gives an attribute "YES" or "NO" as a Boolean, every   *)
(* other as a string, and makes an array of elements of the same name under *)
(* one another: an attribute is "switch", "number" or "text" here, and one  *)
(* that is not of the kind its class asks for is not read.                  *)
(***************************************************************************)
EXTENDS SequencesExt

\* What a class reads: attributes, an only element, and any number of elements;
\* elements are given by the path to them.
Element(parent, attributes, only, several) ==
  [parent |-> parent, attributes |-> attributes, only |-> only, several |-> several]

Text(names)     == [name \in names |-> {"text", "number"}]
Switches(names) == [name \in names |-> {"switch"}]
Numbers(names)  == [name \in names |-> {"number"}]   \* std::stoi throws for others

Script == <<"ExecuteAction">>

Action ==
  Element("", Text({"buildConfiguration"}), {},
          {<<"PreActions">> \o Script, <<"PostActions">> \o Script})

ExecuteAction ==
  Element("", Text({"ActionType"}), {<<"ActionContent">>}, {})

ActionContent ==
  Element("", Text({"title", "scriptText", "emailRecipient", "emailSubject", "emailBody"}) @@
              Switches({"attachLogToEmail"}),
          {<<"EnvironmentBuildable", "BuildableReference">>}, {})

BuildableReference ==
  Element("", Text({"BlueprintIdentifier", "BlueprintName", "BuildableIdentifier",
                    "BuildableName", "ReferencedContainer"}), {}, {})

BuildAction ==
  Element("Action", Switches({"buildImplicitDependencies", "parallelizeBuildables"}), {},
          {<<"BuildActionEntries", "BuildActionEntry">>})

BuildActionEntry ==
  Element("", Switches({"buildForAnalyzing", "buildForArchiving", "buildForProfiling",
                        "buildForRunning", "buildForTesting"}),
          {<<"BuildableReference">>}, {})

TestAction ==
  Element("Action", Text({"selectedDebuggerIdentifier", "selectedLauncherIdentifier"}) @@
                    Switches({"shouldUseLaunchSchemeArgsEnv"}),
          {<<"MacroExpansion", "BuildableReference">>}, {<<"Testables", "TestableReference">>})

TestableReference ==
  Element("", Switches({"skipped"}), {<<"BuildableReference">>}, {<<"SkippedTests", "Test">>})

Test == Element("", Text({"Identifier"}), {}, {})

LaunchAction ==
  Element("Action", Switches({"allowLocationSimulation", "debugDocumentVersioning",
                              "ignoresPersistentStateOnLaunch", "useCustomWorkingDirectory"}) @@
                    Text({"selectedDebuggerIdentifier", "selectedLauncherIdentifier"}) @@
                    Numbers({"launchStyle"}),
          {<<"BuildableProductRunnable", "BuildableReference">>, <<"LocationScenarioReference">>},
          {<<"CommandLineArguments", "CommandLineArgument">>,
           <<"AdditionalOptions", "AdditionalOption">>})

LocationScenarioReference ==
  Element("", Text({"identifier"}) @@ Numbers({"referenceType"}), {}, {})

\* An argument that is YES or NO is lost; the value of an option is not.
CommandLineArgument == Element("", Switches({"isEnabled"}) @@ Text({"argument"}), {}, {})

AdditionalOption ==
  Element("", Switches({"isEnabled"}) @@ Text({"key"}) @@ ("value" :> {"text", "number", "switch"}), {}, {})

ProfileAction ==
  Element("Action", Switches({"debugDocumentVersioning", "shouldUseLaunchSchemeArgsEnv",
                              "useCustomWorkingDirectory"}) @@ Text({"savedToolIdentifier"}),
          {<<"BuildableProductRunnable", "BuildableReference">>}, {})

AnalyzeAction == Element("Action", << >>, {}, {})
ArchiveAction == Element("Action", Switches({"revealArchiverInOrganize"}), {}, {})

\* The version of the last upgrade would have to be an integer, and is a string.
Scheme ==
  Element("", Text({"version"}),
          {<<"BuildAction">>, <<"TestAction">>, <<"LaunchAction">>, <<"ProfileAction">>,
           <<"AnalyzeAction">>, <<"ArchiveAction">>}, {})

Elements ==
  [Scheme |-> Scheme, BuildAction |-> BuildAction, BuildActionEntry |-> BuildActionEntry,
   TestAction |-> TestAction, TestableReference |-> TestableReference, Test |-> Test,
   LaunchAction |-> LaunchAction, LocationScenarioReference |-> LocationScenarioReference,
   CommandLineArgument |-> CommandLineArgument, AdditionalOption |-> AdditionalOption,
   ProfileAction |-> ProfileAction, AnalyzeAction |-> AnalyzeAction,
   ArchiveAction |-> ArchiveAction, ExecuteAction |-> ExecuteAction,
   ActionContent |-> ActionContent, BuildableReference |-> BuildableReference]

\* A class and the one it extends.
ElementLineage(tag) == {Elements[tag]} \cup (IF Elements[tag].parent = "" THEN {} ELSE {Action})

-----------------------------------------------------------------------------

Within(doc, n, tag) == {c \in DOMAIN doc : doc[c].up = n /\ doc[c].tag = tag}

\* dict->value<plist::Dictionary>(tag): several are an array, and not taken.
Only(doc, n, tag) == IF Cardinality(Within(doc, n, tag)) = 1 THEN Within(doc, n, tag) ELSE {}

Around(doc, n, path) == IF Len(path) = 1 THEN {n} ELSE Only(doc, n, path[1])

TakesOnly(doc, n, path) ==
  UNION {Only(doc, holder, Last(path)) : holder \in Around(doc, n, path)}

\* A bug: only the dictionary is thought of.
TakesFirstOfSeveral(doc, n, path) ==
  UNION {Only(doc, holder, Last(path)) : holder \in Around(doc, n, path)}

\* The one element is a dictionary, several are an array.
TakesSeveral(doc, n, path) ==
  UNION {Within(doc, holder, Last(path)) : holder \in Around(doc, n, path)}

Parts(doc, n) ==
  LET classes == ElementLineage(doc[n].tag)
  IN  UNION {TakesOnly(doc, n, path) : path \in UNION {c.only : c \in classes}} \cup
      UNION {TakesSeveral(doc, n, path) : path \in UNION {c.several : c \in classes}}

\* The elements that become part of the scheme; no element is deeper.
Kept(doc) ==
  LET Further(kept, n) == kept \cup UNION {Parts(doc, part) : part \in kept}
  IN  FoldLeft(Further, Only(doc, 0, "Scheme"), <<1, 2, 3, 4>>)

Reads(doc, n, name) ==
  /\ name \in DOMAIN doc[n].attributes
  /\ \E class \in ElementLineage(doc[n].tag) :
       name \in DOMAIN class.attributes /\ doc[n].attributes[name].kind \in class.attributes[name]

Attribute(doc, n, name) == IF Reads(doc, n, name) THEN doc[n].attributes[name].value ELSE ""

ParsesScheme(doc) == Only(doc, 0, "Scheme") # {}

\* std::stoi(launchStyle), std::stoi(referenceType)
Throws(doc) ==
  \E n \in Kept(doc) : \E name \in {"launchStyle", "referenceType"} \cap DOMAIN doc[n].attributes :
    /\ \E class \in ElementLineage(doc[n].tag) :
         name \in DOMAIN class.attributes /\ class.attributes[name] = {"number"}
    /\ doc[n].attributes[name].kind = "text"

\* The build action of the scheme, if it has one, and its entries in order.
BuildActions(doc) == {n \in Kept(doc) : doc[n].tag = "BuildAction"}

BuildActionEntries(doc) ==
  SelectSeq([n \in DOMAIN doc |-> n], LAMBDA n : n \in Kept(doc) /\ doc[n].tag = "BuildActionEntry")

Buildables(doc, entry) == {n \in Kept(doc) : doc[n].up = entry /\ doc[n].tag = "BuildableReference"}
=============================================================================
