------------------------------- MODULE ProductFiles -------------------------------
(***************************************************************************)
(* The programs that write the files of a product: actool, then the built-in *)
(* tool that completes the Info.plist, given the partial one of actool; or a  *)
(* built-in tool alone.  The executor runs the second after the first, as it  *)
(* reads what the first writes, and only when the first succeeded.           *)
(***************************************************************************)
EXTENDS CatalogCompiler, BuiltinTools

VARIABLE program     \* the one that runs

AnyOf(S) == CHOOSE x \in S : TRUE

StartFiles ==
  /\ Init
  /\ \/ program = "actool" /\ StartTool(AnyOf(Invocations), AnyOf(Versions))
     \/ program = "tool" /\ ToolInit /\ arguments = AnyOf(CommandLines)

RunActool == program = "actool" /\ Next /\ UNCHANGED <<program, toolVars>>
RunTool   == program = "tool" /\ ToolNext /\ UNCHANGED <<program, vars>>

PartialKeys == [key \in DOMAIN disk[PartialInfo] |-> <<"list", disk[PartialInfo][key]>>]

\* The content file is passed on to each Info.plist of the target.
PassOn ==
  /\ program = "actool" /\ exit = 0 /\ PartialInfo \in DOMAIN disk
  /\ program' = "tool"
  /\ \E call \in Invocations : \E files \in Versions :
       /\ call.tool = "infoPlistUtility" /\ PartialInfo \in Range(call.arguments)
       /\ invocation' = call
       /\ toolDisk' = WithEntry(files, PathOf[PartialInfo], NewFile(Data("xml", "dictionary", PartialKeys)))
  /\ UNCHANGED <<vars, toolOptions, toolStage, toolInputs, copying, walk, intact, root, lost, toolExit, calls, faults>>

FilesSpec == StartFiles /\ [][RunActool \/ PassOn \/ RunTool]_<<vars, program, toolVars>>

-----------------------------------------------------------------------------

(***************************************************************************)
(* A build goes on after a tool whose exit code is 0: what actool listed is   *)
(* there (SuccessMeansWritten), and what a built-in tool was asked for is     *)
(* done (SuccessMeansDone), whatever calls before left behind.              *)
(***************************************************************************)
SuccessIsTrue == SuccessMeansWritten /\ SuccessMeansDone

(***************************************************************************)
(* No step of a built-in tool changes a file, a permission or a link that is  *)
(* not in one of its outputs (OutsideStays).                                *)
(***************************************************************************)
OnlyOutputsChange ==
  [][calls' = calls /\ toolStage # "options" /\ toolDisk' # toolDisk => OutsideStays]_toolVars

InfoPlist == Contents(toolDisk, PathOf[Value("-o")]).keys

(***************************************************************************)
(* The Info.plist of a product with asset catalogs names the icons and launch*)
(* images that actool copied, and no others: those that the Info.plist of     *)
(* the project may name stay only for devices that the catalogs have none of,*)
(* and a build that stopped in between and goes on leads to the same.         *)
(***************************************************************************)
ProductNamesItsImages ==
  /\ ListedImagesExist
  /\ program = "tool" /\ exit = 0 /\ toolExit = 0 /\ lost = {} =>
       \A key \in DOMAIN PartialKeys \ DOMAIN BuildKeys : InfoPlist[key] = PartialKeys[key]
=============================================================================
