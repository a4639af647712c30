------------------------- MODULE NinjaExecutorProofs -------------------------
(***************************************************************************)
(* Proofs about NinjaExecutor for every set of parameters and targets,      *)
(* whatever arguments lose of the parameters, any number of edits and any   *)
(* length of time: the type invariant, that one Ninja runs and for the      *)
(* parameters that were asked for, as far as arguments tell them, that the  *)
(* hash vouches for the files, and that edits reach the build, whatever is  *)
(* killed, fails or is edited in between.                                   *)
(***************************************************************************)
EXTENDS NinjaExecutor, TLAPS

FilesTyped ==
  /\ project \in [version : 0..MaxVersion, time : 0..clock]
  /\ clock \in 0..MaxTime
  /\ IsComplete(main.content) => main.content \in Contents
  /\ main.time \in 0..clock
  /\ targetNinja = [t \in Target |-> targetNinja[t]]
  /\ \A t \in Target : IsComplete(targetNinja[t]) => targetNinja[t] \in Origins
  /\ hash.content \in Arguments \cup {NoFile, Truncated}
  /\ hash.time \in 0..clock

ProcessTyped ==
  /\ pc \in {"idle", "start", "targets", "target", "main", "open hash", "hash", "launch", "ninja"}
  /\ generate \in BOOLEAN
  /\ configuration \in Configuration /\ asked \in Configuration
  /\ loaded \in 0..project.version
  /\ pending \subseteq Target /\ included \subseteq Target \ pending

HistoryTyped == unsettled \in BOOLEAN /\ misled \in BOOLEAN /\ raced \in BOOLEAN

\* The steps of a generation, from the load of the workspace to its last write.
Generating == {"targets", "target", "main", "open hash", "hash"}

\* A Ninja waits for its executor exactly during a generation that it asked for.
OneNinja ==
  /\ ninjas = IF pc = "ninja" \/ generate THEN 1 ELSE 0
  /\ generate => pc \notin {"idle", "ninja"}

\* A generation has written what it includes, and its own file before the hash.
GenerationInOrder ==
  /\ pc \in Generating => \A t \in included : targetNinja[t] = Generated
  /\ pc \in {"open hash", "hash"} => main.content = WithTargets(Generated, included)
  /\ pc \in Generating \ {"targets"} => unsettled

\* Between generations, the files are those of the one that the hash is of.
SettledFiles ==
  hash.content # NoFile /\ ~unsettled =>
    /\ main.content \in Contents
    /\ canonicalArguments[main.content.configuration] = hash.content
    /\ \A t \in main.content.targets :
         targetNinja[t] = [configuration |-> main.content.configuration,
                           version |-> main.content.version]

\* Before Ninja is launched, and while it runs, there is a hash; it is that of
\* the parameters asked for or their kin, unless this run was misled, or is about
\* to find out.
HashOfThisRun ==
  /\ pc \in {"launch", "ninja"} => hash.content # NoFile
  /\ pc \in {"launch", "ninja"} /\ unsettled => misled
  /\ pc = "start" /\ ~generate => configuration = asked
  /\ pc # "idle" /\ ~misled => configuration \in Kin(asked)
  /\ pc \in {"launch", "ninja"} /\ ~unsettled /\ ~misled =>
       \E p \in Kin(asked) : hash.content = canonicalArguments[p]

\* A project that is later than build.ninja makes it old; what is not later is in it.
EditsAreSeen ==
  /\ pc \in {"targets", "target", "main"} /\ ~raced => loaded = project.version
  /\ IsComplete(main.content) /\ project.time <= main.time /\ ~raced =>
       main.content.version = project.version

IInv ==
  /\ FilesTyped
  /\ ProcessTyped
  /\ HistoryTyped
  /\ OneNinja
  /\ GenerationInOrder
  /\ SettledFiles
  /\ HashOfThisRun
  /\ EditsAreSeen

-----------------------------------------------------------------------------

\* What is alike to a kin is a kin as well.
LEMMA KinAreClosed ==
  ASSUME NEW p \in Configuration
  PROVE  /\ p \in Kin(p) /\ Kin(p) \subseteq Configuration
         /\ \A q \in Kin(p) : Alike(q) \subseteq Kin(p)
<1>1. \A q \in Configuration : Alike(q) \subseteq Configuration
  BY NinjaAssumption DEF Alike
<1>2. QED
  BY <1>1 DEF Kin

\* Where arguments lose nothing, there is no other kin.
LEMMA NoOtherKin ==
  ASSUME NEW p \in Configuration, Alike(p) = {p}
  PROVE  Kin(p) = {p}
<1>1. \A q \in Kin(p) : q \in {p}
  BY DEF Kin
<1>2. QED
  BY <1>1, KinAreClosed

\* The bounds that the steps need.
LEMMA Bounds ==
  ASSUME FilesTyped, ProcessTyped
  PROVE  /\ clock \in Nat /\ clock \in 0..clock
         /\ project.version \in Nat /\ loaded \in 0..MaxVersion
<1>1. clock \in Nat
  BY NinjaAssumption DEF FilesTyped
<1>2. project.version \in 0..MaxVersion
  BY DEF FilesTyped
<1>3. loaded \in 0..project.version
  BY DEF ProcessTyped
<1>4. QED
  BY <1>1, <1>2, <1>3, NinjaAssumption

\* What Ninja builds is for a kin of the parameters asked for.
LEMMA BuiltIsKin ==
  ASSUME IInv, pc = "ninja", ~misled
  PROVE  ~unsettled /\ main.content.configuration \in Kin(asked)
<1>1. ~unsettled /\ hash.content # NoFile
  BY DEF IInv, HashOfThisRun
<1>2. PICK p \in Kin(asked) : hash.content = canonicalArguments[p]
  BY <1>1 DEF IInv, HashOfThisRun
<1>3. /\ main.content.configuration \in Configuration
      /\ canonicalArguments[main.content.configuration] = canonicalArguments[p]
  BY <1>1, <1>2 DEF IInv, SettledFiles, Contents
<1>4. main.content.configuration \in Alike(p)
  BY <1>3 DEF Alike
<1>5. QED
  BY <1>1, <1>2, <1>4, KinAreClosed DEF IInv, ProcessTyped

LEMMA StartKeeps ==
  ASSUME IInv, NEW c \in Configuration, Start(c)
  PROVE  IInv'
<1> USE DEF IInv, Start, files, process, history
<1>1. FilesTyped'
  BY DEF FilesTyped
<1>2. ProcessTyped'
  BY DEF ProcessTyped
<1>3. HistoryTyped'
  BY DEF HistoryTyped
<1>4. OneNinja'
  BY DEF OneNinja
<1>5. GenerationInOrder'
  BY DEF GenerationInOrder, Generating, Generated, WithTargets
<1>6. SettledFiles'
  BY DEF SettledFiles
<1>7. HashOfThisRun'
  <2>1. c \in Kin(c)
    BY KinAreClosed
  <2>2. QED
    BY <2>1 DEF HashOfThisRun
<1>8. EditsAreSeen'
  BY DEF EditsAreSeen
<1>9. QED
  BY <1>1, <1>2, <1>3, <1>4, <1>5, <1>6, <1>7, <1>8 DEF IInv

LEMMA UseCachedNinjaKeeps ==
  ASSUME IInv, UseCachedNinja
  PROVE  IInv'
<1> USE DEF IInv, UseCachedNinja, files, process, history, Goto
<1>1. FilesTyped'
  BY DEF FilesTyped
<1>2. ProcessTyped'
  BY DEF ProcessTyped
<1>3. HistoryTyped'
  BY DEF HistoryTyped
<1>4. OneNinja'
  BY DEF OneNinja
<1>5. GenerationInOrder'
  BY DEF GenerationInOrder, Generating, Generated, WithTargets
<1>6. SettledFiles'
  BY DEF SettledFiles
<1>7. HashOfThisRun'
  <2>1. /\ pc = "start" /\ ~generate /\ hash.content = canonicalArguments[configuration]
        /\ configuration = asked /\ asked \in Configuration
    BY DEF ShouldGenerate, HashOfThisRun, ProcessTyped
  <2>2. asked \in Kin(asked)
    BY <2>1, KinAreClosed
  <2>3. hash.content # NoFile
    BY <2>1, NinjaAssumption
  <2>4. QED
    BY <2>1, <2>2, <2>3 DEF HashOfThisRun, HistoryTyped
<1>8. EditsAreSeen'
  BY DEF EditsAreSeen
<1>9. QED
  BY <1>1, <1>2, <1>3, <1>4, <1>5, <1>6, <1>7, <1>8 DEF IInv

LEMMA LoadWorkspaceKeeps ==
  ASSUME IInv, LoadWorkspace
  PROVE  IInv'
<1> USE DEF IInv, LoadWorkspace, files, process, history
<1>1. FilesTyped'
  BY DEF FilesTyped
<1>2. ProcessTyped'
  BY DEF ProcessTyped, FilesTyped
<1>3. HistoryTyped'
  BY DEF HistoryTyped
<1>4. OneNinja'
  BY DEF OneNinja
<1>5. GenerationInOrder'
  BY DEF GenerationInOrder, Generating, Generated, WithTargets
<1>6. SettledFiles'
  BY DEF SettledFiles
<1>7. HashOfThisRun'
  BY DEF HashOfThisRun
<1>8. EditsAreSeen'
  BY DEF EditsAreSeen
<1>9. QED
  BY <1>1, <1>2, <1>3, <1>4, <1>5, <1>6, <1>7, <1>8 DEF IInv

LEMMA FailToLoadWorkspaceKeeps ==
  ASSUME IInv, FailToLoadWorkspace
  PROVE  IInv'
<1> USE DEF IInv, FailToLoadWorkspace, files, process, history, Return
<1>1. FilesTyped'
  BY DEF FilesTyped
<1>2. ProcessTyped'
  BY DEF ProcessTyped
<1>3. HistoryTyped'
  BY DEF HistoryTyped
<1>4. OneNinja'
  BY DEF OneNinja
<1>5. GenerationInOrder'
  BY DEF GenerationInOrder, Generating, Generated, WithTargets
<1>6. SettledFiles'
  BY DEF SettledFiles
<1>7. HashOfThisRun'
  BY DEF HashOfThisRun
<1>8. EditsAreSeen'
  BY DEF EditsAreSeen
<1>9. QED
  BY <1>1, <1>2, <1>3, <1>4, <1>5, <1>6, <1>7, <1>8 DEF IInv

LEMMA SkipTargetKeeps ==
  ASSUME IInv, NEW t \in Target, SkipTarget(t)
  PROVE  IInv'
<1> USE DEF IInv, SkipTarget, files, process, history
<1>1. FilesTyped'
  BY DEF FilesTyped
<1>2. ProcessTyped'
  BY DEF ProcessTyped
<1>3. HistoryTyped'
  BY DEF HistoryTyped
<1>4. OneNinja'
  BY DEF OneNinja
<1>5. GenerationInOrder'
  BY DEF GenerationInOrder, Generating, Generated, WithTargets
<1>6. SettledFiles'
  BY DEF SettledFiles
<1>7. HashOfThisRun'
  BY DEF HashOfThisRun
<1>8. EditsAreSeen'
  BY DEF EditsAreSeen
<1>9. QED
  BY <1>1, <1>2, <1>3, <1>4, <1>5, <1>6, <1>7, <1>8 DEF IInv

LEMMA OpenTargetNinjaKeeps ==
  ASSUME IInv, NEW t \in Target, OpenTargetNinja(t)
  PROVE  IInv'
<1> USE DEF IInv, OpenTargetNinja, files, process, history, Goto
<1>1. FilesTyped'
  BY DEF FilesTyped, ProcessTyped, IsComplete, Contents, Origins, Generated, WithTargets
<1>2. ProcessTyped'
  BY DEF ProcessTyped
<1>3. HistoryTyped'
  BY DEF HistoryTyped
<1>4. OneNinja'
  BY DEF OneNinja
<1>5. GenerationInOrder'
  <2>1. pc = "targets" /\ pc' = "target" /\ included' = included /\ unsettled'
    OBVIOUS
  <2>2. \A u \in Target \ {t} : targetNinja'[u] = targetNinja[u]
    BY DEF FilesTyped
  <2>3. \A u \in included : u \in Target \ {t} /\ targetNinja[u] = Generated
    BY <2>1 DEF GenerationInOrder, Generating, ProcessTyped
  <2>4. Generated' = Generated
    BY DEF Generated
  <2>5. QED
    BY <2>1, <2>2, <2>3, <2>4 DEF GenerationInOrder, Generating
<1>6. SettledFiles'
  BY DEF SettledFiles
<1>7. HashOfThisRun'
  BY DEF HashOfThisRun
<1>8. EditsAreSeen'
  BY DEF EditsAreSeen
<1>9. QED
  BY <1>1, <1>2, <1>3, <1>4, <1>5, <1>6, <1>7, <1>8 DEF IInv

LEMMA WriteTargetNinjaKeeps ==
  ASSUME IInv, NEW t \in Target, WriteTargetNinja(t)
  PROVE  IInv'
<1> USE DEF IInv, WriteTargetNinja, files, process, history
<1>1. FilesTyped'
  <2>1. loaded \in 0..MaxVersion
    BY Bounds
  <2>2. Generated \in Origins
    BY <2>1 DEF ProcessTyped, Generated, Origins
  <2>3. \A u \in Target : targetNinja'[u] = IF u = t THEN Generated ELSE targetNinja[u]
    BY DEF FilesTyped
  <2>4. targetNinja' = [u \in Target |-> targetNinja'[u]]
    BY DEF FilesTyped
  <2>5. QED
    BY <2>2, <2>3, <2>4 DEF FilesTyped, IsComplete
<1>2. ProcessTyped'
  BY DEF ProcessTyped
<1>3. HistoryTyped'
  BY DEF HistoryTyped
<1>4. OneNinja'
  BY DEF OneNinja
<1>5. GenerationInOrder'
  <2>1. pc = "target" /\ pc' = "targets" /\ included' = included \cup {t}
    OBVIOUS
  <2>2. \A u \in Target : targetNinja'[u] = IF u = t THEN Generated ELSE targetNinja[u]
    BY DEF FilesTyped
  <2>3. \A u \in included : u \in Target /\ targetNinja[u] = Generated
    BY <2>1 DEF GenerationInOrder, Generating, ProcessTyped
  <2>4. Generated' = Generated
    BY DEF Generated
  <2>5. QED
    BY <2>1, <2>2, <2>3, <2>4 DEF GenerationInOrder, Generating
<1>6. SettledFiles'
  BY DEF SettledFiles, GenerationInOrder, Generating, HistoryTyped
<1>7. HashOfThisRun'
  BY DEF HashOfThisRun
<1>8. EditsAreSeen'
  BY DEF EditsAreSeen
<1>9. QED
  BY <1>1, <1>2, <1>3, <1>4, <1>5, <1>6, <1>7, <1>8 DEF IInv

LEMMA OpenNinjaKeeps ==
  ASSUME IInv, OpenNinja
  PROVE  IInv'
<1> USE DEF IInv, OpenNinja, files, process, history, Goto
<1>1. FilesTyped'
  BY DEF FilesTyped, ProcessTyped, IsComplete, Contents, Origins, Generated, WithTargets
<1>2. ProcessTyped'
  BY DEF ProcessTyped
<1>3. HistoryTyped'
  BY DEF HistoryTyped
<1>4. OneNinja'
  BY DEF OneNinja
<1>5. GenerationInOrder'
  BY DEF GenerationInOrder, Generating, Generated, WithTargets
<1>6. SettledFiles'
  BY DEF SettledFiles
<1>7. HashOfThisRun'
  BY DEF HashOfThisRun
<1>8. EditsAreSeen'
  BY DEF EditsAreSeen, FilesTyped, IsComplete, Generated, WithTargets
<1>9. QED
  BY <1>1, <1>2, <1>3, <1>4, <1>5, <1>6, <1>7, <1>8 DEF IInv

LEMMA WriteNinjaKeeps ==
  ASSUME IInv, WriteNinja
  PROVE  IInv'
<1> USE DEF IInv, WriteNinja, files, process, history, Goto
<1>1. FilesTyped'
  <2>1. clock \in 0..clock
    BY Bounds
  <2>2. included \subseteq Target /\ loaded \in 0..MaxVersion
    BY Bounds DEF ProcessTyped
  <2>3. main'.content \in Contents /\ main'.time = clock
    BY <2>2 DEF ProcessTyped, Contents, WithTargets, Generated
  <2>4. QED
    BY <2>1, <2>3 DEF FilesTyped, IsComplete
<1>2. ProcessTyped'
  BY DEF ProcessTyped
<1>3. HistoryTyped'
  BY DEF HistoryTyped
<1>4. OneNinja'
  BY DEF OneNinja
<1>5. GenerationInOrder'
  BY DEF GenerationInOrder, Generating, Generated, WithTargets
<1>6. SettledFiles'
  BY DEF SettledFiles, GenerationInOrder, Generating, HistoryTyped
<1>7. HashOfThisRun'
  BY DEF HashOfThisRun
<1>8. EditsAreSeen'
  BY DEF EditsAreSeen, FilesTyped, IsComplete, Generated, WithTargets
<1>9. QED
  BY <1>1, <1>2, <1>3, <1>4, <1>5, <1>6, <1>7, <1>8 DEF IInv

LEMMA OpenHashKeeps ==
  ASSUME IInv, OpenHash
  PROVE  IInv'
<1> USE DEF IInv, OpenHash, files, process, history, Goto
<1>1. FilesTyped'
  <2>1. clock \in 0..clock
    BY Bounds
  <2>2. hash'.content = Truncated /\ hash'.time = clock
    OBVIOUS
  <2>3. QED
    BY <2>1, <2>2 DEF FilesTyped, IsComplete
<1>2. ProcessTyped'
  BY DEF ProcessTyped
<1>3. HistoryTyped'
  BY DEF HistoryTyped
<1>4. OneNinja'
  BY DEF OneNinja
<1>5. GenerationInOrder'
  BY DEF GenerationInOrder, Generating, Generated, WithTargets
<1>6. SettledFiles'
  BY DEF SettledFiles, GenerationInOrder, Generating, HistoryTyped
<1>7. HashOfThisRun'
  BY DEF HashOfThisRun
<1>8. EditsAreSeen'
  BY DEF EditsAreSeen
<1>9. QED
  BY <1>1, <1>2, <1>3, <1>4, <1>5, <1>6, <1>7, <1>8 DEF IInv

LEMMA WriteHashKeeps ==
  ASSUME IInv, WriteHash
  PROVE  IInv'
<1> USE DEF IInv, WriteHash, files, process, history, Goto
<1>1. FilesTyped'
  <2>1. clock \in 0..clock
    BY Bounds
  <2>2. hash'.content = canonicalArguments[configuration] /\ hash'.time = clock
    OBVIOUS
  <2>3. hash'.content \in Arguments
    BY <2>2, NinjaAssumption DEF ProcessTyped
  <2>4. QED
    BY <2>1, <2>2, <2>3 DEF FilesTyped, ProcessTyped, IsComplete
<1>2. ProcessTyped'
  BY DEF ProcessTyped
<1>3. HistoryTyped'
  BY DEF HistoryTyped
<1>4. OneNinja'
  BY DEF OneNinja
<1>5. GenerationInOrder'
  BY DEF GenerationInOrder, Generating, Generated, WithTargets
<1>6. SettledFiles'
  <2>1. main.content = WithTargets(Generated, included)
    BY DEF GenerationInOrder
  <2>2. \A t \in included : targetNinja[t] = Generated
    BY DEF GenerationInOrder, Generating
  <2>3. loaded \in 0..MaxVersion /\ included \subseteq Target
    BY Bounds DEF ProcessTyped
  <2>4. main.content \in Contents
    BY <2>1, <2>3 DEF ProcessTyped, Contents, WithTargets, Generated
  <2>5. QED
    BY <2>1, <2>2, <2>4 DEF SettledFiles, WithTargets, Generated
<1>7. HashOfThisRun'
  BY NinjaAssumption DEF HashOfThisRun, ProcessTyped
<1>8. EditsAreSeen'
  BY DEF EditsAreSeen
<1>9. QED
  BY <1>1, <1>2, <1>3, <1>4, <1>5, <1>6, <1>7, <1>8 DEF IInv

LEMMA FailToGenerateKeeps ==
  ASSUME IInv, FailToGenerate
  PROVE  IInv'
<1> USE DEF IInv, FailToGenerate, files, process, history, Return
<1>1. FilesTyped'
  BY DEF FilesTyped
<1>2. ProcessTyped'
  BY DEF ProcessTyped
<1>3. HistoryTyped'
  BY DEF HistoryTyped
<1>4. OneNinja'
  BY DEF OneNinja
<1>5. GenerationInOrder'
  BY DEF GenerationInOrder, Generating, Generated, WithTargets
<1>6. SettledFiles'
  BY DEF SettledFiles
<1>7. HashOfThisRun'
  BY DEF HashOfThisRun
<1>8. EditsAreSeen'
  BY DEF EditsAreSeen
<1>9. QED
  BY <1>1, <1>2, <1>3, <1>4, <1>5, <1>6, <1>7, <1>8 DEF IInv

LEMMA LaunchNinjaKeeps ==
  ASSUME IInv, LaunchNinja
  PROVE  IInv'
<1> USE DEF IInv, LaunchNinja, files, process, history
<1>1. FilesTyped'
  BY DEF FilesTyped
<1>2. ProcessTyped'
  BY DEF ProcessTyped
<1>3. HistoryTyped'
  BY DEF HistoryTyped
<1>4. OneNinja'
  BY DEF OneNinja
<1>5. GenerationInOrder'
  BY DEF GenerationInOrder, Generating, Generated, WithTargets
<1>6. SettledFiles'
  BY DEF SettledFiles
<1>7. HashOfThisRun'
  BY DEF HashOfThisRun
<1>8. EditsAreSeen'
  BY DEF EditsAreSeen
<1>9. QED
  BY <1>1, <1>2, <1>3, <1>4, <1>5, <1>6, <1>7, <1>8 DEF IInv

LEMMA FailToLaunchNinjaKeeps ==
  ASSUME IInv, FailToLaunchNinja
  PROVE  IInv'
<1> USE DEF IInv, FailToLaunchNinja, files, process, history, Return
<1>1. FilesTyped'
  BY DEF FilesTyped
<1>2. ProcessTyped'
  BY DEF ProcessTyped
<1>3. HistoryTyped'
  BY DEF HistoryTyped
<1>4. OneNinja'
  BY DEF OneNinja
<1>5. GenerationInOrder'
  BY DEF GenerationInOrder, Generating, Generated, WithTargets
<1>6. SettledFiles'
  BY DEF SettledFiles
<1>7. HashOfThisRun'
  BY DEF HashOfThisRun
<1>8. EditsAreSeen'
  BY DEF EditsAreSeen
<1>9. QED
  BY <1>1, <1>2, <1>3, <1>4, <1>5, <1>6, <1>7, <1>8 DEF IInv

LEMMA FinishGeneratingKeeps ==
  ASSUME IInv, FinishGenerating
  PROVE  IInv'
<1> USE DEF IInv, FinishGenerating, files, process, history, Return
<1>1. FilesTyped'
  BY DEF FilesTyped
<1>2. ProcessTyped'
  BY DEF ProcessTyped
<1>3. HistoryTyped'
  BY DEF HistoryTyped
<1>4. OneNinja'
  BY DEF OneNinja
<1>5. GenerationInOrder'
  BY DEF GenerationInOrder, Generating, Generated, WithTargets
<1>6. SettledFiles'
  BY DEF SettledFiles
<1>7. HashOfThisRun'
  BY DEF HashOfThisRun, OneNinja
<1>8. EditsAreSeen'
  BY DEF EditsAreSeen
<1>9. QED
  BY <1>1, <1>2, <1>3, <1>4, <1>5, <1>6, <1>7, <1>8 DEF IInv

LEMMA RegenerateKeeps ==
  ASSUME IInv, Regenerate
  PROVE  IInv'
<1> USE DEF IInv, Regenerate, files, process, history
<1>1. FilesTyped'
  BY DEF FilesTyped
<1>0. /\ main.content.configuration \in Configuration
      /\ Accepted[canonicalArguments[main.content.configuration]] \subseteq Configuration
  <2>1. main.content.configuration \in Configuration
    BY DEF FilesTyped, NinjaIsOld, Contents
  <2>2. QED
    BY <2>1, NinjaAssumption
<1>2. ProcessTyped'
  BY <1>0 DEF ProcessTyped
<1>3. HistoryTyped'
  BY DEF HistoryTyped
<1>4. OneNinja'
  BY DEF OneNinja
<1>5. GenerationInOrder'
  BY DEF GenerationInOrder, Generating, Generated, WithTargets
<1>6. SettledFiles'
  BY DEF SettledFiles
<1>7. HashOfThisRun'
  <2>1. ASSUME ~misled
        PROVE  configuration' \in Kin(asked)
    <3>1. main.content.configuration \in Kin(asked)
      BY <2>1, BuiltIsKin
    <3>2. configuration' \in Alike(main.content.configuration)
      BY DEF Alike
    <3>3. QED
      BY <3>1, <3>2, KinAreClosed DEF ProcessTyped
  <2>2. QED
    BY <2>1 DEF HashOfThisRun
<1>8. EditsAreSeen'
  BY DEF EditsAreSeen
<1>9. QED
  BY <1>1, <1>2, <1>3, <1>4, <1>5, <1>6, <1>7, <1>8 DEF IInv

LEMMA FinishNinjaKeeps ==
  ASSUME IInv, FinishNinja
  PROVE  IInv'
<1> USE DEF IInv, FinishNinja, files, process, history, Return
<1>1. FilesTyped'
  BY DEF FilesTyped
<1>2. ProcessTyped'
  BY DEF ProcessTyped
<1>3. HistoryTyped'
  BY DEF HistoryTyped
<1>4. OneNinja'
  BY DEF OneNinja
<1>5. GenerationInOrder'
  BY DEF GenerationInOrder, Generating, Generated, WithTargets
<1>6. SettledFiles'
  BY DEF SettledFiles
<1>7. HashOfThisRun'
  BY DEF HashOfThisRun
<1>8. EditsAreSeen'
  BY DEF EditsAreSeen
<1>9. QED
  BY <1>1, <1>2, <1>3, <1>4, <1>5, <1>6, <1>7, <1>8 DEF IInv

LEMMA KillKeeps ==
  ASSUME IInv, Kill
  PROVE  IInv'
<1> USE DEF IInv, Kill, files, process, history, Return
<1>1. FilesTyped'
  BY DEF FilesTyped
<1>2. ProcessTyped'
  BY DEF ProcessTyped
<1>3. HistoryTyped'
  BY DEF HistoryTyped
<1>4. OneNinja'
  BY DEF OneNinja
<1>5. GenerationInOrder'
  BY DEF GenerationInOrder, Generating, Generated, WithTargets
<1>6. SettledFiles'
  BY DEF SettledFiles
<1>7. HashOfThisRun'
  BY DEF HashOfThisRun
<1>8. EditsAreSeen'
  BY DEF EditsAreSeen
<1>9. QED
  BY <1>1, <1>2, <1>3, <1>4, <1>5, <1>6, <1>7, <1>8 DEF IInv

LEMMA EditProjectKeeps ==
  ASSUME IInv, EditProject
  PROVE  IInv'
<1> USE DEF IInv, EditProject, files, process, history
<1>1. FilesTyped'
  <2>1. project.version + 1 \in 0..MaxVersion /\ clock \in 0..clock
    BY NinjaAssumption DEF FilesTyped
  <2>2. project' \in [version : 0..MaxVersion, time : 0..clock']
    BY <2>1
  <2>3. QED
    BY <2>2 DEF FilesTyped, IsComplete
<1>2. ProcessTyped'
  <2>1. project.version \in Nat /\ loaded \in 0..project.version
    BY Bounds DEF ProcessTyped
  <2>2. loaded \in 0..(project.version + 1)
    BY <2>1
  <2>3. QED
    BY <2>2 DEF ProcessTyped
<1>3. HistoryTyped'
  BY DEF HistoryTyped
<1>4. OneNinja'
  BY DEF OneNinja
<1>5. GenerationInOrder'
  BY DEF GenerationInOrder, Generating, Generated, WithTargets
<1>6. SettledFiles'
  BY DEF SettledFiles
<1>7. HashOfThisRun'
  BY DEF HashOfThisRun
<1>8. EditsAreSeen'
  <2>1. project'.time = clock /\ clock \in Nat /\ main.time \in 0..clock
    BY Bounds DEF FilesTyped
  <2>2. ~raced' => clock # main.time /\ pc \notin {"targets", "target", "main"}
    OBVIOUS
  <2>3. ~raced' => ~(project'.time <= main'.time)
    BY <2>1, <2>2
  <2>4. QED
    BY <2>2, <2>3 DEF EditsAreSeen
<1>9. QED
  BY <1>1, <1>2, <1>3, <1>4, <1>5, <1>6, <1>7, <1>8 DEF IInv

LEMMA TickKeeps ==
  ASSUME IInv, Tick
  PROVE  IInv'
<1> USE DEF IInv, Tick, files, process, history
<1>1. FilesTyped'
  <2>1. clock \in Nat /\ clock' = clock + 1 /\ clock' \in 0..MaxTime
    BY NinjaAssumption DEF FilesTyped
  <2>2. 0..clock \subseteq 0..clock'
    BY <2>1
  <2>3. project' \in [version : 0..MaxVersion, time : 0..clock']
    BY <2>2 DEF FilesTyped
  <2>4. QED
    BY <2>1, <2>2, <2>3 DEF FilesTyped, IsComplete
<1>2. ProcessTyped'
  BY DEF ProcessTyped
<1>3. HistoryTyped'
  BY DEF HistoryTyped
<1>4. OneNinja'
  BY DEF OneNinja
<1>5. GenerationInOrder'
  BY DEF GenerationInOrder, Generating, Generated, WithTargets
<1>6. SettledFiles'
  BY DEF SettledFiles
<1>7. HashOfThisRun'
  BY DEF HashOfThisRun
<1>8. EditsAreSeen'
  BY DEF EditsAreSeen
<1>9. QED
  BY <1>1, <1>2, <1>3, <1>4, <1>5, <1>6, <1>7, <1>8 DEF IInv

LEMMA InitEstablishes == Init => IInv
<1> SUFFICES ASSUME Init PROVE IInv
  OBVIOUS
<1> USE DEF Init
<1>1. FilesTyped
  BY NinjaAssumption DEF FilesTyped, IsComplete
<1>2. ProcessTyped /\ HistoryTyped
  <2>1. loaded \in 0..project.version
    OBVIOUS
  <2>2. QED
    BY <2>1 DEF ProcessTyped, HistoryTyped
<1>3. OneNinja /\ GenerationInOrder /\ SettledFiles /\ HashOfThisRun
  BY DEF OneNinja, GenerationInOrder, Generating, SettledFiles, HashOfThisRun
<1>4. EditsAreSeen
  BY DEF EditsAreSeen, IsComplete
<1>5. QED
  BY <1>1, <1>2, <1>3, <1>4 DEF IInv

LEMMA StutteringKeeps ==
  ASSUME IInv, UNCHANGED vars
  PROVE  IInv'
<1> USE DEF IInv, vars, files, process, history
<1>0. FilesTyped'
  BY DEF FilesTyped, IsComplete
<1>1. ProcessTyped' /\ HistoryTyped'
  BY DEF ProcessTyped, HistoryTyped
<1>2. OneNinja' /\ HashOfThisRun'
  BY DEF OneNinja, HashOfThisRun
<1>3. GenerationInOrder' /\ SettledFiles'
  BY DEF GenerationInOrder, SettledFiles, WithTargets, Generated
<1>4. EditsAreSeen'
  BY DEF EditsAreSeen, IsComplete
<1>5. QED
  BY <1>0, <1>1, <1>2, <1>3, <1>4 DEF IInv

LEMMA StepPreserves == IInv /\ [Next]_vars => IInv'
  BY StartKeeps, UseCachedNinjaKeeps, LoadWorkspaceKeeps, FailToLoadWorkspaceKeeps,
     SkipTargetKeeps, OpenTargetNinjaKeeps, WriteTargetNinjaKeeps, OpenNinjaKeeps,
     WriteNinjaKeeps, OpenHashKeeps, WriteHashKeeps, FailToGenerateKeeps, LaunchNinjaKeeps,
     FailToLaunchNinjaKeeps, FinishGeneratingKeeps, RegenerateKeeps, FinishNinjaKeeps,
     KillKeeps, EditProjectKeeps, TickKeeps, StutteringKeeps DEF Next

LEMMA Invariance == Spec => []IInv
  BY InitEstablishes, StepPreserves, PTL DEF Spec

-----------------------------------------------------------------------------

(***************************************************************************)
(* Every variable keeps its type, whatever is killed or edited: no run      *)
(* leaves a complete file that says something no generation writes.         *)
(***************************************************************************)
THEOREM TypeCorrect == Spec => []TypeOK
<1>1. IInv => TypeOK
  BY DEF IInv, FilesTyped, ProcessTyped, HistoryTyped, TypeOK
<1>2. QED
  BY <1>1, Invariance, PTL

(***************************************************************************)
(* A Ninja that asks for a generation never gets a second Ninja, and the    *)
(* one that runs, with no generation cut short, builds for the parameters   *)
(* the user gave, if arguments tell them, and else for such that arguments  *)
(* may turn them into.                                                      *)
(***************************************************************************)
THEOREM OneNinjaBuildsAsAsked == Spec => []OneNinjaAsAsked
<1>1. IInv => NinjaNeverRecurses
  BY DEF IInv, OneNinja, NinjaNeverRecurses
<1>2. IInv => NinjaIsOfAskedConfiguration
  <2>1. ASSUME IInv, pc = "ninja", ~misled
        PROVE  /\ main.content.configuration \in Kin(asked)
               /\ Alike(asked) = {asked} => main.content.configuration = asked
    <3>1. main.content.configuration \in Kin(asked) /\ asked \in Configuration
      BY <2>1, BuiltIsKin DEF IInv, ProcessTyped
    <3>2. QED
      BY <3>1, NoOtherKin
  <2>2. QED
    BY <2>1 DEF NinjaIsOfAskedConfiguration
<1>3. QED
  BY <1>1, <1>2, Invariance, TypeCorrect, PTL DEF OneNinjaAsAsked

(***************************************************************************)
(* With a hash and no generation cut short, build.ninja and the file of     *)
(* every target it includes stem from one generation, that of the hash.     *)
(***************************************************************************)
THEOREM FilesAreOfOneGeneration == Spec => []HashVouchesForFiles
<1>1. IInv => HashVouchesForFiles
  BY DEF IInv, SettledFiles, HashVouchesForFiles
<1>2. QED
  BY <1>1, Invariance, PTL

(***************************************************************************)
(* What Ninja builds, unless its files are old or a generation was cut      *)
(* short, is the project as it was last edited.                             *)
(***************************************************************************)
THEOREM EditsAreBuilt == Spec => []EditsReachTheBuild
<1>1. ASSUME IInv, NinjaBuilds, ~unsettled, ~raced
      PROVE  main.content.version = project.version
  <2>1. pc = "ninja" /\ hash.content # NoFile
    BY <1>1 DEF IInv, HashOfThisRun, NinjaBuilds
  <2>2. main.content \in Contents
    BY <1>1, <2>1 DEF IInv, SettledFiles
  <2>3. IsComplete(main.content)
    BY <2>2, NinjaAssumption DEF IsComplete, Contents
  <2>4. ~(project.time > main.time)
    BY <1>1, <2>1, <2>3 DEF NinjaBuilds, NinjaIsOld
  <2>5. project.time \in Nat /\ main.time \in Nat
    BY <1>1 DEF IInv, FilesTyped
  <2>6. QED
    BY <1>1, <2>3, <2>4, <2>5 DEF IInv, EditsAreSeen
<1>2. IInv => EditsReachTheBuild
  BY <1>1 DEF EditsReachTheBuild
<1>3. QED
  BY <1>2, Invariance, PTL

=============================================================================
