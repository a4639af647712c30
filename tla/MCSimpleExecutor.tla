--------------------------- MODULE MCSimpleExecutor ---------------------------
(***************************************************************************)
(* Model checking SimpleExecutor: an application that depends on a library. *)
(* The application has three invocations, each of them any of a few shapes  *)
(* that compile, link, run scripts, make product structure or do nothing,   *)
(* in up to three phases, in any order of declaration.                      *)
(***************************************************************************)
EXTENDS SimpleExecutor

CONSTANTS app, lib, object, binary, generated, list, supportDirectory

Tool(inputs, phonyInputs, inputDependencies, outputs, priority) ==
  [inputs |-> inputs, phonyInputs |-> phonyInputs, inputDependencies |-> inputDependencies,
   outputs |-> outputs, priority |-> priority, createsProductStructure |-> FALSE, phony |-> FALSE]

Compile   == Tool({}, {}, {}, {object}, 2)
Compile2  == Tool({}, {}, {generated}, {object}, 2)
Link      == Tool({object}, {}, {}, {binary}, 3)
Early     == Tool({}, {}, {}, {generated}, 1)
Script    == Tool({}, {binary}, {}, {generated}, 3)
SelfUser  == Tool({}, {generated}, {}, {generated}, 2)
Late      == Tool({}, {}, {}, {generated}, 3)
Structure == [Tool({}, {binary}, {}, {generated}, 3) EXCEPT !.createsProductStructure = TRUE]
MkDir     == [Tool({}, {}, {}, {}, 3) EXCEPT !.createsProductStructure = TRUE]
Phony     == [Tool({object}, {}, {}, {binary}, 3) EXCEPT !.phony = TRUE]

Shapes == {Compile, Compile2, Link, Early, Script, SelfUser, Late, Structure, MkDir, Phony}

Auxiliary(x) == [path |-> list, directory |-> supportDirectory, executable |-> x]

MCBuilds ==
  [dependencies : {[t \in {app, lib} |-> IF t = app THEN {lib} ELSE {}]},
   auxiliary    : {[t \in {app, lib} |-> IF t = app THEN <<Auxiliary(FALSE), Auxiliary(TRUE)>> ELSE << >>]},
   invocations  : {[t \in {app, lib} |-> IF t = app THEN s ELSE <<Compile>>] :
                     s \in {<<a, b, c>> : a, b, c \in Shapes}},
   dryRun       : BOOLEAN]

=============================================================================
