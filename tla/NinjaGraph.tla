------------------------------ MODULE NinjaGraph ------------------------------
(***************************************************************************)
(* The Ninja files that NinjaExecutor generates (buildAction,               *)
(* buildTargetInvocations, buildInvocation, buildAuxiliaryFile), and Ninja  *)
(* building them from nothing.  Phony rules hold the order together: a      *)
(* target begins when its dependencies are finished, its auxiliary files    *)
(* precede its phases, each phase the next one, and a tool waits for the    *)
(* begin of its phase and for the files it names.                           *)
(*                                                                         *)
(* Ninja is external: it refuses files it cannot make sense of, runs        *)
(* whatever is ready, in parallel, and starts nothing new after a failure.  *)
(* Which rules are up to date already is left out.                          *)
(***************************************************************************)
EXTENDS InvocationOrder

CONSTANTS
  Target, Name,
  Path,
  Builds          \* the builds that may be asked for; see Build

\* sources: files that are there.  An auxiliary file copies some files.
Build == [name         : [Target -> Name],
          dependencies : [Target -> SUBSET Target],
          auxiliary    : [Target -> SUBSET [path : Path, copied : SUBSET Path]],
          invocations  : [Target -> Seq(InvocationOver(Path))],
          sources      : SUBSET Path]

\* What names a phony rule.
PhonyNames ==
  ({"begin-target", "write-auxiliary-files", "finish-target"} \X Name)
  \cup ({"begin-target-phase-priority", "finish-target-phase-priority"} \X Name \X Nat)
  \cup ({"ninja-phony-output"} \X Target \X Nat)

\* Target resolution has put dependencies first: nothing depends on itself.
ASSUME NinjaGraphAssumption ==
  /\ IsFiniteSet(Target) /\ IsFiniteSet(Path)
  /\ Builds \subseteq Build
  /\ \A b \in Builds : ~HasCycle(b.dependencies)
  /\ \A path \in Path : path \notin PhonyNames

VARIABLES
  build,
  pc,             \* "generate", "load", "building", or the result of Ninja
  included,       \* the targets whose files build.ninja includes
  rules,          \* the rules in all the files
  running,        \* those whose commands run
  finished,       \* those that are done
  failed          \* those whose commands failed

vars == <<build, pc, included, rules, running, finished, failed>>

-----------------------------------------------------------------------------

\* The names of the phony rules.  Those of a target are made from its name.
Begin(t)          == <<"begin-target", build.name[t]>>
WriteAuxiliary(t) == <<"write-auxiliary-files", build.name[t]>>
Finish(t)         == <<"finish-target", build.name[t]>>
BeginPhase(t, p)  == <<"begin-target-phase-priority", build.name[t], p>>
FinishPhase(t, p) == <<"finish-target-phase-priority", build.name[t], p>>

Invocations(t) == build.invocations[t]

\* Where a rule comes from tells two rules for one output apart.
Rule(origin, outputs, needs) == [origin |-> origin, outputs |-> outputs, needs |-> needs]

IsCommand(rule) == rule.origin[1] \in {"auxiliary file", "invocation"}

\* NinjaInvocationOutputs.  The name made up for a tool without outputs is a
\* hash of its command: different commands are assumed.
Outputs(t, i) ==
  LET invocation == Invocations(t)[i]
  IN  IF invocation.outputs = {} THEN {<<"ninja-phony-output", t, i>>} ELSE invocation.outputs

Priorities(t) == {Invocations(t)[i].priority : i \in Indices(Invocations(t))}

TargetRules(t) ==
  LET none == 0
      last == IF Priorities(t) = {} THEN none
              ELSE CHOOSE p \in Priorities(t) : \A q \in Priorities(t) : q <= p
  IN  {Rule(<<"begin", t>>, {Begin(t)}, {Finish(d) : d \in build.dependencies[t]}),
       Rule(<<"write auxiliary", t>>, {WriteAuxiliary(t)},
            {Begin(t)} \cup {file.path : file \in build.auxiliary[t]}),
       Rule(<<"finish", t>>, {Finish(t)}, {FinishPhase(t, last)})}

AuxiliaryRules(t) ==
  {Rule(<<"auxiliary file", t, file>>, {file.path}, {Begin(t)} \cup file.copied) :
     file \in build.auxiliary[t]}

BeforePhase(t, p) ==
  LET smaller == {q \in Priorities(t) : q < p}
  IN  IF smaller = {} THEN WriteAuxiliary(t)
      ELSE FinishPhase(t, CHOOSE q \in smaller : \A r \in smaller : r <= q)

PhaseOutputs(t, p) ==
  UNION {Outputs(t, i) : i \in {j \in Indices(Invocations(t)) : Invocations(t)[j].priority = p}}

PhaseRulesSideBySide(t) ==
  UNION {{Rule(<<"begin phase", t, p>>, {BeginPhase(t, p)}, {WriteAuxiliary(t)}),
          Rule(<<"finish phase", t, p>>, {FinishPhase(t, p)},
               {BeginPhase(t, p)} \cup PhaseOutputs(t, p))} : p \in Priorities(t)}

PhaseRules(t) ==
  UNION {{Rule(<<"begin phase", t, p>>, {BeginPhase(t, p)}, {BeforePhase(t, p)}),
          Rule(<<"finish phase", t, p>>, {FinishPhase(t, p)},
               {BeginPhase(t, p)} \cup PhaseOutputs(t, p))} : p \in Priorities(t)}

Tools(t) == {i \in Indices(Invocations(t)) : ~Invocations(t)[i].phony}

\* buildInvocation.  The phony inputs are no needs of the rule.
ToolRules(t) ==
  {Rule(<<"invocation", t, i>>, Outputs(t, i),
        Invocations(t)[i].inputs \cup Invocations(t)[i].inputDependencies
          \cup {BeginPhase(t, Invocations(t)[i].priority)}) : i \in Tools(t)}

PhonyInputRulesAlways(t) ==
  UNION {{Rule(<<"phony input", t, i, path>>, {path}, {}) :
            path \in Invocations(t)[i].phonyInputs} : i \in Indices(Invocations(t))}

\* Phony rules for the inputs that no tool of the target makes.
PhonyInputRules(t) ==
  LET made == UNION {Outputs(t, i) : i \in Tools(t)}
  IN  UNION {{Rule(<<"phony input", t, i, path>>, {path}, {}) :
                path \in Invocations(t)[i].phonyInputs \ made} : i \in Indices(Invocations(t))}

RulesFor(t) ==
  TargetRules(t) \cup AuxiliaryRules(t) \cup PhaseRules(t) \cup ToolRules(t) \cup PhonyInputRules(t)

-----------------------------------------------------------------------------

Makable == UNION {rule.outputs : rule \in rules}
Made    == UNION {rule.outputs : rule \in finished}

\* What can be built of all these rules next, once the built ones are done.
Buildable(all, built) ==
  {rule \in all : rule.needs \cap UNION {r.outputs : r \in all}
                     \subseteq UNION {r.outputs : r \in built}}

\* The rules that are done after n rounds of building whatever is ready.
BuiltOf(all, n) ==
  LET built[k \in Nat] == IF k = 0 THEN {} ELSE Buildable(all, built[k - 1])
  IN  built[n]

MakesTwice   == \E r, q \in rules : r # q /\ r.outputs \cap q.outputs # {}
IsMissing    == \E rule \in rules : ~(rule.needs \subseteq Makable \cup build.sources)
HasRuleCycle == BuiltOf(rules, Cardinality(rules)) # rules

-----------------------------------------------------------------------------

Init ==
  /\ build \in Builds
  /\ pc = "generate"
  /\ included = {} /\ rules = {}
  /\ running = {} /\ finished = {} /\ failed = {}

\* A target that has no environment is left out.
Generate(targets) ==
  /\ pc = "generate"
  /\ included' = targets
  /\ rules' = UNION {RulesFor(t) : t \in targets}
  /\ pc' = "load"
  /\ UNCHANGED <<build, running, finished, failed>>

Load ==
  /\ pc = "load"
  /\ pc' = IF MakesTwice \/ IsMissing \/ HasRuleCycle THEN "refused" ELSE "building"
  /\ UNCHANGED <<build, included, rules, running, finished, failed>>

IsReady(rule) ==
  rule \notin running \cup finished \cup failed /\ rule.needs \cap Makable \subseteq Made

FinishPhonyRule(rule) ==
  /\ pc = "building" /\ failed = {}
  /\ ~IsCommand(rule) /\ IsReady(rule)
  /\ finished' = finished \cup {rule}
  /\ UNCHANGED <<build, pc, included, rules, running, failed>>

StartCommand(rule) ==
  /\ pc = "building" /\ failed = {}
  /\ IsCommand(rule) /\ IsReady(rule)
  /\ running' = running \cup {rule}
  /\ UNCHANGED <<build, pc, included, rules, finished, failed>>

FinishCommand(rule) ==
  /\ pc = "building" /\ rule \in running
  /\ running' = running \ {rule}
  /\ finished' = finished \cup {rule}
  /\ UNCHANGED <<build, pc, included, rules, failed>>

FailCommand(rule) ==
  /\ pc = "building" /\ rule \in running
  /\ running' = running \ {rule}
  /\ failed' = failed \cup {rule}
  /\ UNCHANGED <<build, pc, included, rules, finished>>

End ==
  /\ pc = "building" /\ running = {}
  /\ failed # {} \/ finished = rules
  /\ pc' = IF failed = {} THEN "success" ELSE "failure"
  /\ UNCHANGED <<build, included, rules, running, finished, failed>>

Next ==
  \/ \E targets \in SUBSET Target : Generate(targets)
  \/ Load
  \/ \E rule \in rules :
       FinishPhonyRule(rule) \/ StartCommand(rule) \/ FinishCommand(rule) \/ FailCommand(rule)
  \/ End

Spec == Init /\ [][Next]_vars

-----------------------------------------------------------------------------

Started == running \cup finished \cup failed

HasStarted(t, i)  == \E rule \in Started : rule.origin = <<"invocation", t, i>>
HasFinished(t, i) == \E rule \in finished : rule.origin = <<"invocation", t, i>>

\* The target and all that it depends on, over whatever targets: what is in every
\* set that has the target and all dependencies of what it has.
NeededTargets(t) ==
  {d \in Target : \A S \in SUBSET Target :
     t \in S /\ (\A u \in S : build.dependencies[u] \subseteq S) => d \in S}

(***************************************************************************)
(* Type invariant.                                                          *)
(***************************************************************************)
TypeOK ==
  /\ pc \in {"generate", "load", "refused", "building", "success", "failure"}
  /\ included \subseteq Target
  /\ \A rule \in rules : rule.outputs # {}
  /\ running \cup finished \cup failed \subseteq rules
  /\ running \cap finished = {} /\ failed \cap (running \cup finished) = {}

(***************************************************************************)
(* Within a target Ninja keeps the order of the simple executor, though it  *)
(* runs tools side by side: a tool starts when all tools of the phase before *)
(* it are done, and with them the makers of the files it needs.  The makers *)
(* of phony inputs are exempt.                                              *)
(***************************************************************************)
ToolsWaitForTheirTurn ==
  \A t \in included : \A i \in Tools(t) :
    HasStarted(t, i) =>
      LET all    == Invocations(t)
          needed == all[i].inputs \cup all[i].inputDependencies
      IN  \A j \in Tools(t) :
            all[j].priority < all[i].priority \/ all[j].outputs \cap needed # {} =>
              HasFinished(t, j)

NamesAreUnique == \A t, u \in Target : build.name[t] = build.name[u] => t = u

(***************************************************************************)
(* When a tool of a target starts, every tool of every target it depends    *)
(* on, over whatever targets, is done, and so are its auxiliary files.  The *)
(* rules of a target are named after it: the finish of a namesake stands    *)
(* for that of a target that is left out.                                   *)
(***************************************************************************)
DependenciesAreBuilt ==
  \A t \in included : \A i \in Tools(t) :
    HasStarted(t, i) =>
      /\ NamesAreUnique => \A d \in NeededTargets(t) \ {t} : \A j \in Tools(d) : HasFinished(d, j)
      /\ {file.path : file \in build.auxiliary[t]} \subseteq Made

(***************************************************************************)
(* Though Ninja runs tools side by side, no tool is overtaken within its    *)
(* target or by one its target depends on.                                  *)
(***************************************************************************)
NothingIsOvertaken == TypeOK /\ ToolsWaitForTheirTurn /\ DependenciesAreBuilt

MadeBy(t) ==
  {file.path : file \in build.auxiliary[t]} \cup
  UNION {Invocations(t)[i].outputs : i \in Indices(Invocations(t))}

MadeByNeeded(t) == UNION {MadeBy(d) : d \in NeededTargets(t) \ {t}}

\* What a workspace has to be like for its Ninja files to be sound.
EveryTargetHasTools ==
  \A t \in Target : Tools(t) # {} /\ \A i \in Indices(Invocations(t)) : ~Invocations(t)[i].phony

FilesAreMadeOnce ==
  /\ \A t, u \in Target : t # u => MadeBy(t) \cap MadeBy(u) = {}
  /\ \A t \in Target :
       /\ \A i, j \in Indices(Invocations(t)) :
            i # j => Invocations(t)[i].outputs \cap Invocations(t)[j].outputs = {}
       /\ \A i \in Indices(Invocations(t)) : \A file \in build.auxiliary[t] :
            file.path \notin Invocations(t)[i].outputs
       /\ \A file, other \in build.auxiliary[t] : file.path = other.path => file = other

\* A file is there if no target makes it.
FilesCanBeHad ==
  LET there == build.sources \ UNION {MadeBy(u) : u \in Target}
  IN  \A t \in Target :
        /\ \A i \in Indices(Invocations(t)) :
             Invocations(t)[i].inputs \cup Invocations(t)[i].inputDependencies
               \subseteq there \cup MadeBy(t) \cup MadeByNeeded(t)
        /\ \A file \in build.auxiliary[t] : file.copied \subseteq there \cup MadeByNeeded(t)

InvocationsCanBeSorted == \A t \in Target : ~HasCycle(SortGraph(Invocations(t)))

PhonyInputsAreDistinct ==
  \A t \in Target : \A i \in Indices(Invocations(t)) :
    \A path \in Invocations(t)[i].phonyInputs :
      /\ \A file \in build.auxiliary[t] : path # file.path
      /\ \A u \in Target \ {t} : path \notin MadeBy(u)
      /\ \A u \in Target : \A j \in Indices(Invocations(u)) :
           <<u, j>> # <<t, i>> => path \notin Invocations(u)[j].phonyInputs

(***************************************************************************)
(* Ninja takes the files of every workspace that is sound in these ways: no *)
(* file is made twice, none is missing and no rule waits for itself.  The   *)
(* simple executor builds more: it does without unique names, without tools *)
(* in every target and with files made twice.                               *)
(***************************************************************************)
NinjaTakesSoundBuilds ==
  /\ pc = "refused" /\ included = Target
  /\ NamesAreUnique /\ EveryTargetHasTools /\ FilesAreMadeOnce /\ FilesCanBeHad
  /\ InvocationsCanBeSorted
  => ~PhonyInputsAreDistinct

(***************************************************************************)
(* "The end result is that targets build in the right order", also when one *)
(* is left out and another has its name.                                    *)
(***************************************************************************)
TargetsBuildInTheRightOrder ==
  \A t \in included : \A i \in Tools(t) :
    HasStarted(t, i) => \A d \in NeededTargets(t) \ {t} : \A j \in Tools(d) : HasFinished(d, j)

(***************************************************************************)
(* buildAction avoids "adding the phony invocation if a real output *does*  *)
(* include the phony input, to avoid Ninja complaining about duplicate      *)
(* rules".                                                                  *)
(***************************************************************************)
PhonyInputsAreNotMade ==
  \A r, q \in rules :
    r.origin[1] = "phony input" /\ q.origin[1] = "invocation" => r.outputs \cap q.outputs = {}

(***************************************************************************)
(* "Each target also has a "target finish" Ninja target, which depends on   *)
(* all of the invocations created for the target", also when there are none. *)
(***************************************************************************)
TargetsCanFinish ==
  \A rule \in rules : rule.origin[1] = "finish" => rule.needs \subseteq Makable

=============================================================================
