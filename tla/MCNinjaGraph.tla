----------------------------- MODULE MCNinjaGraph -----------------------------
(***************************************************************************)
(* Model checking NinjaGraph: an application, a library and an aggregate    *)
(* target, the application depending on one or both of them.  The           *)
(* application has three invocations of any of a few shapes in up to three    *)
(* phases.                                                                  *)
(***************************************************************************)
EXTENDS NinjaGraph

CONSTANTS app, lib, aggregate, appName, libName, allName,
          source, object, binary, generated, library, list

Tool(inputs, phonyInputs, inputDependencies, outputs, priority) ==
  [inputs |-> inputs, phonyInputs |-> phonyInputs, inputDependencies |-> inputDependencies,
   outputs |-> outputs, priority |-> priority, createsProductStructure |-> FALSE, phony |-> FALSE]

Archive   == Tool({source}, {}, {}, {library}, 2)
Install   == Tool({library}, {}, {}, {}, 3)

Compile   == Tool({source}, {}, {generated}, {object}, 2)
Link      == Tool({object, library}, {}, {list}, {binary}, 3)
Early     == Tool({}, {}, {}, {generated}, 1)
Late      == Tool({}, {}, {}, {generated}, 4)
Script    == Tool({}, {binary, generated}, {}, {}, 4)
Check     == Tool({}, {library}, {}, {generated}, 1)
SelfUser  == Tool({}, {generated}, {}, {generated}, 2)
MkDir     == Tool({}, {}, {}, {}, 2)
NoTool    == [Compile EXCEPT !.phony = TRUE]

Shapes == {Compile, Link, Early, Late, Script, Check, SelfUser, MkDir, NoTool}

Names == [t \in {app, lib, aggregate} |-> IF t = app THEN appName ELSE IF t = lib THEN libName ELSE allName]

NameTwice == [Names EXCEPT ![lib] = appName]
Namesakes == [Names EXCEPT ![lib] = allName]

\* A link file list is an auxiliary file.
List(copied) == [path |-> list, copied |-> copied]

MCBuild(name, dependencies, auxiliary, tools, others) ==
  [name         |-> name,
   dependencies |-> [t \in {app, lib, aggregate} |->
                       IF t = app THEN dependencies ELSE IF t = aggregate THEN {lib} ELSE {}],
   auxiliary    |-> [t \in {app, lib, aggregate} |-> IF t = app THEN auxiliary ELSE {}],
   invocations  |-> [t \in {app, lib, aggregate} |->
                       IF t = app THEN tools ELSE IF t = lib THEN <<Archive, Install>> ELSE others],
   sources      |-> {source}]

MCBuilds ==
  {MCBuild(Names, d, {List({source})}, <<i, j, k>>, <<MkDir>>) :
     d \in {{lib}, {aggregate}, {}}, i, j, k \in Shapes}
  \cup {MCBuild(NameTwice, {lib}, {}, <<Early, Compile>>, <<MkDir>>),
        [MCBuild(Namesakes, {lib}, {}, <<Early, Compile>>, <<MkDir>>) EXCEPT !.dependencies[aggregate] = {}],
        MCBuild(Names, {lib}, {List({object})}, <<Early, Compile, Link>>, <<MkDir>>),
        MCBuild(Names, {aggregate}, {List({library})}, <<Early, Compile, Link>>, <<Script>>)}

\* A script of the application that names the product of the library.
ScriptBuilds == {MCBuild(Names, {lib}, {}, <<Check>>, <<MkDir>>)}

\* An aggregate target that only groups other targets.
EmptyBuilds == {MCBuild(Names, {aggregate}, {}, <<Early>>, << >>)}

=============================================================================
