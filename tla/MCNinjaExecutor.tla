--------------------------- MODULE MCNinjaExecutor ---------------------------
(***************************************************************************)
(* Model checking NinjaExecutor: two targets, an edit of the project and    *)
(* any number of runs.  The parameters are plain ones, the same with a      *)
(* condition on a setting, which arguments lose, and those of a release.    *)
(***************************************************************************)
EXTENDS NinjaExecutor, TLC

CONSTANTS plain, conditional, release, settings, releaseSettings

MCCanonicalArguments == (plain :> settings) @@ (conditional :> settings) @@ (release :> releaseSettings)
MCAccepted           == (settings :> {plain}) @@ (releaseSettings :> {release})

TargetSymmetry == Permutations(Target)

=============================================================================
