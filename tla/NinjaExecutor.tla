----------------------------- MODULE NinjaExecutor -----------------------------
(***************************************************************************)
(* xcexecution::NinjaExecutor: generates Ninja files for a workspace, then  *)
(* lets Ninja build.  A run with the parameters of the last one (by a hash  *)
(* of them as arguments, which it keeps) skips the generation.  Ninja in    *)
(* turn runs this executor with -generate and these arguments when          *)
(* build.ninja is older than one of its inputs.                             *)
(*                                                                         *)
(* A write truncates the file first; the process may be killed, and the     *)
(* project edited, between any two steps.  Ninja is external: it compares   *)
(* times of modification.  What the Ninja files say is NinjaGraph.          *)
(***************************************************************************)
EXTENDS Naturals, FiniteSets

CONSTANTS
  Configuration,    \* build parameters
  Arguments,        \* lists of arguments, and so their hashes
  canonicalArguments,
  Accepted,         \* the parameters that an executor may make of arguments
  Target,
  NoFile, Truncated,
  MaxVersion,       \* bound: how often the project is edited
  MaxTime           \* bound: distinct times of modification

\* What a complete build.ninja can say.
Contents == [configuration : Configuration, version : 0..MaxVersion, targets : SUBSET Target]

\* Arguments do not tell all of the parameters: levels and conditions of
\* settings are lost.  What is made of them depends on the environment of the
\* executor; it is nothing if an argument is unknown, as -allTargets is.  What is
\* in a file is not what stands for a missing or a truncated one.
ASSUME NinjaAssumption ==
  /\ canonicalArguments \in [Configuration -> Arguments]
  /\ Accepted \in [Arguments -> SUBSET Configuration]
  /\ {NoFile, Truncated} \cap Arguments = {}
  /\ {NoFile, Truncated} \cap Contents = {}
  /\ MaxVersion \in Nat /\ MaxTime \in Nat

VARIABLES
  project,          \* version and time of the project files
  clock,
  main,             \* build.ninja: what it was generated from, for which targets, when
  targetNinja,      \* each target's build.ninja: what it was generated from
  hash,             \* .ninja-configuration, and when it was written
  pc,               \* where the foremost executor is, or "idle"
  generate,         \* its -generate
  configuration,    \* its parameters
  asked,            \* the parameters of the executor the user started
  loaded,           \* the version of the project it has loaded
  pending,          \* targets whose Ninja file it has still to write
  included,         \* those it has written
  ninjas,           \* how many Ninjas are running
  unsettled,        \* history: a generation began to write and has not ended
  misled,           \* history: the cached Ninja was used while unsettled
  raced             \* history: an edit that no time of modification tells

files   == <<main, targetNinja, hash>>
process == <<pc, generate, configuration, asked, loaded, pending, included, ninjas>>
history == <<unsettled, misled, raced>>
vars    == <<project, clock, files, process, history>>

-----------------------------------------------------------------------------

Generated == [configuration |-> configuration, version |-> loaded]

WithTargets(origin, targets) ==
  [configuration |-> origin.configuration, version |-> origin.version, targets |-> targets]

IsComplete(content) == content \notin {NoFile, Truncated}

\* The process ends.  If Ninja has started it, Ninja goes on with its result.
Return(success) ==
  /\ pc' = IF generate /\ success THEN "ninja" ELSE "idle"
  /\ ninjas' = IF generate /\ success THEN ninjas ELSE 0
  /\ generate' = FALSE
  /\ UNCHANGED <<configuration, asked, loaded, pending, included>>

Goto(next) ==
  /\ pc' = next
  /\ UNCHANGED <<generate, configuration, asked, loaded, pending, included, ninjas>>

-----------------------------------------------------------------------------

Init ==
  /\ project = [version |-> 0, time |-> 0]
  /\ clock = 0
  /\ main = [content |-> NoFile, time |-> 0]
  /\ targetNinja = [t \in Target |-> NoFile]
  /\ hash = [content |-> NoFile, time |-> 0]
  /\ pc = "idle" /\ generate = FALSE
  /\ configuration \in Configuration /\ asked = configuration
  /\ loaded = 0 /\ pending = {} /\ included = {} /\ ninjas = 0
  /\ unsettled = FALSE /\ misled = FALSE /\ raced = FALSE

Start(c) ==
  /\ pc = "idle"
  /\ pc' = "start" /\ generate' = FALSE
  /\ configuration' = c /\ asked' = c
  /\ misled' = FALSE
  /\ UNCHANGED <<project, clock, files, loaded, pending, included, ninjas, unsettled, raced>>

ShouldGenerateIfMissing ==
  \/ generate
  \/ main.content = NoFile
  \/ hash.content = NoFile

\* ShouldGenerateNinja
ShouldGenerate ==
  \/ generate
  \/ main.content = NoFile
  \/ hash.content # canonicalArguments[configuration]

UseCachedNinja ==
  /\ pc = "start" /\ ~ShouldGenerate
  /\ Goto("launch")
  /\ misled' = unsettled
  /\ UNCHANGED <<project, clock, files, unsettled, raced>>

LoadWorkspace ==
  /\ pc = "start" /\ ShouldGenerate
  /\ pc' = "targets"
  /\ loaded' = project.version
  /\ pending' = Target /\ included' = {}
  /\ UNCHANGED <<project, clock, files, generate, configuration, asked, ninjas, history>>

FailToLoadWorkspace ==
  /\ pc = "start" /\ ShouldGenerate
  /\ Return(FALSE)
  /\ UNCHANGED <<project, clock, files, history>>

SkipTargetButIncludeIt(t) ==
  /\ pc = "targets" /\ t \in pending
  /\ pending' = pending \ {t} /\ included' = included \cup {t}
  /\ UNCHANGED <<project, clock, files, pc, generate, configuration, asked, loaded,
                 ninjas, history>>

\* buildAction goes on without a target that has no environment.
SkipTarget(t) ==
  /\ pc = "targets" /\ t \in pending
  /\ pending' = pending \ {t}
  /\ UNCHANGED <<project, clock, files, pc, generate, configuration, asked, loaded, included,
                 ninjas, history>>

\* buildTargetInvocations: the target's file is opened, and written.
OpenTargetNinja(t) ==
  /\ pc = "targets" /\ t \in pending
  /\ targetNinja' = [targetNinja EXCEPT ![t] = Truncated]
  /\ unsettled' = TRUE
  /\ Goto("target")
  /\ UNCHANGED <<project, clock, main, hash, misled, raced>>

WriteTargetNinja(t) ==
  /\ pc = "target" /\ t \in pending /\ targetNinja[t] = Truncated
  /\ targetNinja' = [targetNinja EXCEPT ![t] = Generated]
  /\ pc' = "targets"
  /\ pending' = pending \ {t} /\ included' = included \cup {t}
  /\ UNCHANGED <<project, clock, main, hash, generate, configuration, asked, loaded, ninjas,
                 history>>

\* A tool is not found, or a directory, a file or a chunk of one is not written.
FailToGenerate ==
  /\ pc \in {"targets", "target", "main", "hash", "open hash"}
  /\ Return(FALSE)
  /\ UNCHANGED <<project, clock, files, history>>

OpenNinja ==
  /\ pc = "targets" /\ pending = {}
  /\ main' = [content |-> Truncated, time |-> clock]
  /\ unsettled' = TRUE
  /\ Goto("main")
  /\ UNCHANGED <<project, clock, targetNinja, hash, misled, raced>>

WriteNinja ==
  /\ pc = "main"
  /\ main' = [content |-> WithTargets(Generated, included), time |-> clock]
  /\ Goto("open hash")
  /\ UNCHANGED <<project, clock, targetNinja, hash, history>>

OpenHash ==
  /\ pc = "open hash"
  /\ hash' = [content |-> Truncated, time |-> clock]
  /\ Goto("hash")
  /\ UNCHANGED <<project, clock, main, targetNinja, history>>

WriteHash ==
  /\ pc = "hash"
  /\ hash' = [content |-> canonicalArguments[configuration], time |-> clock]
  /\ unsettled' = FALSE
  /\ Goto("launch")
  /\ UNCHANGED <<project, clock, main, targetNinja, misled, raced>>

LaunchNinja ==
  /\ pc = "launch" /\ ~generate
  /\ ninjas' = ninjas + 1
  /\ pc' = "ninja"
  /\ UNCHANGED <<project, clock, files, generate, configuration, asked, loaded, pending, included,
                 history>>

\* Ninja is not found.
FailToLaunchNinja ==
  /\ pc = "launch" /\ ~generate
  /\ Return(FALSE)
  /\ UNCHANGED <<project, clock, files, history>>

\* With -generate the executor leaves the rest to the Ninja that waits for it.
FinishGenerating ==
  /\ pc = "launch" /\ generate
  /\ Return(TRUE)
  /\ UNCHANGED <<project, clock, files, history>>

-----------------------------------------------------------------------------

NinjaIsOldForHash == IsComplete(main.content) /\ hash.time > main.time

\* The rule of WriteNinjaRegenerate: build.ninja is made from the hash, the
\* files of the projects and the executable (which is not replaced here).
NinjaIsOld ==
  /\ IsComplete(main.content)
  /\ hash.time > main.time \/ project.time > main.time

\* Ninja runs the executor with the arguments in build.ninja.  Where it accepts
\* none of them, Ninja fails.
Regenerate ==
  /\ pc = "ninja" /\ NinjaIsOld
  /\ pc' = "start" /\ generate' = TRUE
  /\ configuration' \in Accepted[canonicalArguments[main.content.configuration]]
  /\ UNCHANGED <<project, clock, files, asked, loaded, pending, included, ninjas, history>>

\* Ninja builds to the end or fails, for instance over a file that is no Ninja,
\* or because build.ninja is still old after some tries.
FinishNinja ==
  /\ pc = "ninja"
  /\ Return(FALSE)
  /\ UNCHANGED <<project, clock, files, history>>

Kill ==
  /\ pc # "idle"
  /\ Return(FALSE)
  /\ UNCHANGED <<project, clock, files, history>>

\* The edit is too early for its time to be later than that of build.ninja if
\* the project has been loaded already, or the file has just been written.
EditProject ==
  /\ project.version < MaxVersion
  /\ project' = [version |-> project.version + 1, time |-> clock]
  /\ raced' = (raced \/ clock = main.time
                 \/ pc \in {"targets", "target", "main"})
  /\ UNCHANGED <<clock, files, process, unsettled, misled>>

Tick ==
  /\ clock < MaxTime
  /\ clock' = clock + 1
  /\ UNCHANGED <<project, files, process, history>>

Next ==
  \/ \E c \in Configuration : Start(c)
  \/ UseCachedNinja
  \/ LoadWorkspace \/ FailToLoadWorkspace
  \/ \E t \in Target : SkipTarget(t) \/ OpenTargetNinja(t) \/ WriteTargetNinja(t)
  \/ OpenNinja \/ WriteNinja \/ OpenHash \/ WriteHash \/ FailToGenerate
  \/ LaunchNinja \/ FailToLaunchNinja \/ FinishGenerating
  \/ Regenerate \/ FinishNinja
  \/ Kill \/ EditProject \/ Tick

Spec == Init /\ [][Next]_vars

-----------------------------------------------------------------------------

Origins == [configuration : Configuration, version : 0..MaxVersion]

\* What has the same arguments, or is made of them; and whatever parameters may
\* in this way become, in any number of generations.
Alike(p) ==
  {q \in Configuration : canonicalArguments[q] = canonicalArguments[p]} \cup
  Accepted[canonicalArguments[p]]

Kin(p) ==
  {q \in Configuration :
     \A S \in SUBSET Configuration : p \in S /\ (\A r \in S : Alike(r) \subseteq S) => q \in S}

\* Ninja is about to read build.ninja and to build what it says.
NinjaBuilds == pc = "ninja" /\ ~NinjaIsOld

(***************************************************************************)
(* Type invariant.                                                          *)
(***************************************************************************)
TypeOK ==
  /\ project \in [version : 0..MaxVersion, time : 0..clock]
  /\ clock \in 0..MaxTime
  /\ IsComplete(main.content) => main.content \in Contents
  /\ main.time \in 0..clock
  /\ \A t \in Target : IsComplete(targetNinja[t]) => targetNinja[t] \in Origins
  /\ hash.content \in Arguments \cup {NoFile, Truncated} /\ hash.time \in 0..clock
  /\ pc \in {"idle", "start", "targets", "target", "main", "open hash", "hash", "launch", "ninja"}
  /\ generate \in BOOLEAN /\ unsettled \in BOOLEAN /\ misled \in BOOLEAN /\ raced \in BOOLEAN
  /\ configuration \in Configuration /\ asked \in Configuration
  /\ loaded \in 0..project.version
  /\ pending \subseteq Target /\ included \subseteq Target \ pending

(***************************************************************************)
(* As long as the last generation that began to write has come to its end,  *)
(* when this run looked at the hash and now, the files of the Ninja it runs *)
(* were generated for the parameters the user gave, whether the generation  *)
(* was skipped or Ninja asked for another: but for what the arguments lose  *)
(* of the parameters, in the hash and on the way through Ninja.             *)
(***************************************************************************)
NinjaIsOfAskedConfiguration ==
  pc = "ninja" /\ ~unsettled /\ ~misled =>
    /\ main.content.configuration \in Kin(asked)
    /\ Alike(asked) = {asked} => main.content.configuration = asked

(***************************************************************************)
(* Then the hash also vouches for all the files: build.ninja and those of   *)
(* the targets it includes stem from one generation.                        *)
(***************************************************************************)
HashVouchesForFiles ==
  hash.content # NoFile /\ ~unsettled =>
    /\ canonicalArguments[main.content.configuration] = hash.content
    /\ \A t \in main.content.targets :
         targetNinja[t] = [configuration |-> main.content.configuration,
                           version |-> main.content.version]

(***************************************************************************)
(* Ninja never runs below Ninja: a generation it asked for does not launch  *)
(* another.                                                                 *)
(***************************************************************************)
NinjaNeverRecurses == ninjas <= 1

(***************************************************************************)
(* Of the Ninjas there is one, and it builds for the parameters that were   *)
(* asked for, or that their arguments stand for.                            *)
(***************************************************************************)
OneNinjaAsAsked == TypeOK /\ NinjaIsOfAskedConfiguration /\ NinjaNeverRecurses

(***************************************************************************)
(* An edit of the project reaches the next build, also one that skips the   *)
(* generation, unless it came in the same tick of the clock or while a      *)
(* generation was under way: build.ninja is then later than the edit that   *)
(* it does not have, and stays so.                                          *)
(***************************************************************************)
EditsReachTheBuild ==
  NinjaBuilds /\ ~unsettled /\ ~raced => main.content.version = project.version

(***************************************************************************)
(* ShouldGenerateNinja: "Nothing changed, safe to use the cached Ninja."    *)
(***************************************************************************)
CachedNinjaIsSafe ==
  pc = "start" /\ ~ShouldGenerate =>
    /\ IsComplete(main.content)
    /\ canonicalArguments[main.content.configuration] = canonicalArguments[configuration]

(***************************************************************************)
(* ShouldGenerateNinja: the Ninja is generated again "to ensure it matches  *)
(* the configuration".  The hash is one of arguments, which need not tell   *)
(* the configuration from another.                                          *)
(***************************************************************************)
CachedNinjaMatchesConfiguration ==
  pc = "start" /\ ~unsettled /\ ~ShouldGenerate => main.content.configuration = configuration

(***************************************************************************)
(* The README's promise that the files need not be generated again "if the  *)
(* build configuration and input project files do not change".              *)
(***************************************************************************)
RegeneratesOnlyForChanges ==
  pc = "start" /\ generate => project.version # main.content.version

=============================================================================
