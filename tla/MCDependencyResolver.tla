------------------------- MODULE MCDependencyResolver -------------------------
(***************************************************************************)
(* Model checking DependencyResolver: three targets with every graph of     *)
(* explicit dependencies; two products of the same name; references that    *)
(* resolve to nothing.                                                      *)
(***************************************************************************)
EXTENDS DependencyResolver, TLC

CONSTANTS t1, t2, t3, lib, app

MCTarget == {t1, t2, t3}

NoProducts   == [t \in MCTarget |-> Unresolved]
SameProducts == (t1 :> lib) @@ (t2 :> lib) @@ (t3 :> app)
NoReferences == [t \in MCTarget |-> {}]

\* Every explicit graph, with nothing implicit.
ExplicitProjects ==
  [product : {NoProducts}, explicit : [MCTarget -> SUBSET MCTarget],
   implicit : {NoReferences}]

\* Products by name and by proxy, with some explicit dependencies.
ImplicitProjects ==
  [product : {SameProducts},
   explicit : {NoReferences, [t \in MCTarget |-> IF t = t3 THEN {t1, Unresolved} ELSE {}]},
   implicit : [MCTarget -> {{}, {lib}, {app, t2}, {Unresolved, t1}}]]

\* A chain with a shared end, and a cycle of two.
Shared == (t1 :> {t2, t3}) @@ (t2 :> {t3}) @@ (t3 :> {})
Cyclic == (t1 :> {t2}) @@ (t2 :> {t1, t3}) @@ (t3 :> {})

FewProjects ==
  [product : {SameProducts}, explicit : {Shared, Cyclic},
   implicit : {NoReferences, (t1 :> {app}) @@ (t2 :> {Unresolved}) @@ (t3 :> {})}]

MCProjects == ExplicitProjects \cup ImplicitProjects

Buildable(id, name, running) ==
  [buildForRunning |-> running, byIdentifier |-> id, byName |-> name]

MCSchemes ==
  [entries : {{Buildable(t1, Unresolved, TRUE), Buildable(Unresolved, t3, TRUE),
               Buildable(t2, t2, FALSE), Buildable(Unresolved, Unresolved, TRUE)},
              {Buildable(t, t, TRUE) : t \in MCTarget}},
   buildImplicitDependencies : BOOLEAN,
   parallelizeBuildables : BOOLEAN]

=============================================================================
