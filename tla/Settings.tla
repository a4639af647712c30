------------------------------ MODULE Settings ------------------------------
(***************************************************************************)
(* Build settings.  A level is a sequence of settings, an environment a     *)
(* sequence of levels of which the first that has a setting decides.  A     *)
(* value is a sequence of texts and of references, whose names are values   *)
(* again.  A reference to the setting itself, or to "inherited", is the     *)
(* value of the levels behind; any other is resolved from the front, with   *)
(* nothing that guards the recursion against settings in a circle: a call   *)
(* that repeats one in progress never returns, and is Endless here.         *)
(***************************************************************************)
EXTENDS Naturals, Sequences, SequencesExt, FiniteSetsExt
CONSTANTS
    Endless,                   \* the result of a call that does not return
    Operate(_, _)              \* what an operation such as "upper" makes of a text

Text(s) == [text |-> s]
Ref(name) == [ref |-> <<Text(name)>>]
Nested(value) == [ref |-> value]

(* A condition maps its keys to the values that its patterns match. *)
Unconditional == [key \in {} |-> {}]
Empty == [key \in {} |-> ""]
Conditional(name, condition, value) == [name |-> name, condition |-> condition, value |-> value]
Parse(name, value) == Conditional(name, Unconditional, value)
Create(name, string) == Parse(name, IF string = "" THEN << >> ELSE <<Text(string)>>)

Match(condition, values) ==
    \A key \in DOMAIN condition : key \in DOMAIN values /\ values[key] \in condition[key]

(* The last setting of a level that matches is taken. *)
Matching(level, name, values) ==
    {i \in DOMAIN level : level[i].name = name /\ Match(level[i].condition, values)}
Get(level, name, values) == level[Max(Matching(level, name, values))].value

-----------------------------------------------------------------------------
(* An environment keeps its default levels behind the others, from offset   *)
(* on; a level goes to the front or to the back of its part.                *)

NoLevels == [levels |-> << >>, offset |-> 0]
InsertFront(env, level, isDefault) ==
    IF isDefault THEN [env EXCEPT !.levels = InsertAt(@, env.offset + 1, level)]
    ELSE [levels |-> <<level>> \o env.levels, offset |-> env.offset + 1]
InsertBack(env, level, isDefault) ==
    IF isDefault THEN [env EXCEPT !.levels = Append(@, level)]
    ELSE [levels |-> InsertAt(env.levels, env.offset + 1, level), offset |-> env.offset + 1]
InsertAllFront(env, levels) == FoldLeft(LAMBDA e, l : InsertFront(e, l, FALSE), env, levels)

FirstLevel(env, name, values, from) ==
    LET has == {i \in from..Len(env.levels) : Matching(env.levels[i], name, values) # {}}
    IN  IF has = {} THEN 0 ELSE Min(has)

-----------------------------------------------------------------------------
Ascending(numbers) == SelectSeq([i \in 1..Max(numbers \cup {0}) |-> i], LAMBDA i : i \in numbers)
Colons(s) == {i \in 1..Len(s) : SubSeq(s, i, i) = ":"}
Name(s) == IF Colons(s) = {} THEN s ELSE SubSeq(s, 1, Min(Colons(s)) - 1)
OperationsOf(s) ==
    LET at == Ascending(Colons(s))
    IN  [n \in DOMAIN at |-> SubSeq(s, at[n] + 1, IF n = Len(at) THEN Len(s) ELSE at[n + 1] - 1)]

Anything == [valid |-> FALSE, setting |-> "", level |-> 0]
Context(name, level) == [valid |-> TRUE, setting |-> name, level |-> level]

RECURSIVE ResolveValue(_, _, _, _, _), ResolveAssignment(_, _, _, _)

(* The value of a setting at a level, within it. *)
ResolveAt(env, values, name, level, calls) ==
    LET call == <<values, name, level>>
    IN  IF call \in calls THEN Endless
        ELSE ResolveValue(env, values, Get(env.levels[level], name, values), Context(name, level), calls \cup {call})

ResolveInheritance(env, values, context, calls) ==
    LET level == FirstLevel(env, context.setting, values, context.level + 1)
    IN  IF level = 0 THEN "" ELSE ResolveAt(env, values, context.setting, level, calls)

ResolveAssignment(env, values, name, calls) ==
    LET level == FirstLevel(env, name, values, 1)
    IN  IF level # 0 THEN ResolveAt(env, values, name, level, calls)
        ELSE IF values = Empty THEN ""
        ELSE ResolveAssignment(env, Empty, name, calls)

InheritsByWord(context, resolved) == context.valid /\ resolved = "inherited"
Inherits(context, resolved) == context.valid /\ resolved \in {context.setting, "inherited"}

ResolveReference(env, values, resolved, context, calls) ==
    IF resolved = Endless THEN Endless
    ELSE IF Inherits(context, resolved) THEN ResolveInheritance(env, values, context, calls)
    ELSE LET value == ResolveAssignment(env, values, Name(resolved), calls)
         IN  IF value = Endless THEN Endless
             ELSE FoldLeft(LAMBDA v, operation : Operate(v, operation), value, OperationsOf(resolved))

ResolveValue(env, values, value, context, calls) ==
    FoldLeft(LAMBDA out, entry :
                 IF out = Endless THEN Endless
                 ELSE IF "text" \in DOMAIN entry THEN out \o entry.text
                 ELSE LET resolved == ResolveReference(env, values, ResolveValue(env, values, entry.ref, context, calls), context, calls)
                      IN  IF resolved = Endless THEN Endless ELSE out \o resolved,
             "", value)

Resolve(env, name, values) == ResolveAssignment(env, values, name, {})
Expand(env, value, values) == ResolveValue(env, values, value, Anything, {})

(* The names that a value refers to by their text, and whether it computes a name. *)
References(value) == {value[i].ref[1].text : i \in {j \in DOMAIN value :
                        "ref" \in DOMAIN value[j] /\ Len(value[j].ref) = 1 /\ "text" \in DOMAIN value[j].ref[1]}}
ComputesName(value) == \E i \in DOMAIN value : "ref" \in DOMAIN value[i]
                        /\ ~(Len(value[i].ref) = 1 /\ "text" \in DOMAIN value[i].ref[1])

-----------------------------------------------------------------------------
(* A list of words without quotes and escapes, as one text: see SettingSyntax for those. *)

FormatWords(words) == FoldLeft(LAMBDA s, n : s \o (IF n = 1 THEN "" ELSE " ") \o words[n], "", [n \in DOMAIN words |-> n])
ParseWords(s) ==
    LET ends == <<0>> \o Ascending({i \in 1..Len(s) : SubSeq(s, i, i) = " "} \cup {Len(s) + 1})
        words == [n \in 1..(Len(ends) - 1) |-> SubSeq(s, ends[n] + 1, ends[n + 1] - 1)]
    IN  SelectSeq(words, LAMBDA w : w # "")

-----------------------------------------------------------------------------
(* The settings that every environment has. *)

InAnyOrder(settings) == FoldSet(LAMBDA s, seq : Append(seq, s), << >>, settings)
Literals(values) == InAnyOrder({Create(name, values[name]) : name \in DOMAIN values})
Below(base, values) ==
    InAnyOrder({Parse(name, IF values[name] = "" THEN <<Ref(base)>> ELSE <<Ref(base), Text(values[name])>>) : name \in DOMAIN values})

(* The variables of the process are not parsed; those that begin with "_" are left out. *)
EnvironmentLevel(user, variables) ==
    Literals([v \in {w \in DOMAIN variables : SubSeq(w, 1, 1) # "_"} |-> variables[v]])
    \o Literals([UID |-> user.uid, USER |-> user.name, GID |-> user.gid, GROUP |-> user.group])
    \o (IF user.home = "" THEN << >> ELSE <<Create("HOME", user.home)>>)
    \o Below("HOME", [USER_APPS_DIR |-> "/Applications", USER_LIBRARY_DIR |-> "/Library"])
    \o <<Create("CACHE_ROOT", "/tmp/com.apple.DeveloperTools/6.4-$(XCODE_PRODUCT_BUILD_VERSION)/Xcode"),
         Parse("TEMP_FILES_DIR", <<Ref("TEMP_DIR")>>)>>

Internal ==
    Below("APPLE_INTERNAL_DIR", [APPLE_INTERNAL_DEVELOPER_DIR |-> "/Developer", APPLE_INTERNAL_DOCUMENTATION_DIR |-> "/Documentation",
                                 APPLE_INTERNAL_LIBRARY_DIR |-> "/Library"])
    \o Below("APPLE_INTERNAL_DEVELOPER_DIR", [APPLE_INTERNAL_TOOLS |-> "/Tools"])
    \o Literals([APPLE_INTERNAL_DIR |-> "/AppleInternal"])

Local == Literals([LOCAL_ADMIN_APPS_DIR |-> "/Applications/Utilities", LOCAL_APPS_DIR |-> "/Applications",
                   LOCAL_DEVELOPER_DIR |-> "/Library/Developer", LOCAL_LIBRARY_DIR |-> "/Library"])

System ==
    Literals([SYSTEM_ADMIN_APPS_DIR |-> "/Applications/Utilities", SYSTEM_APPS_DIR |-> "/Applications",
              SYSTEM_CORE_SERVICES_DIR |-> "/System/Library/CoreServices", SYSTEM_DEMOS_DIR |-> "/Applications/Extras",
              SYSTEM_DOCUMENTATION_DIR |-> "/Library/Documentation", SYSTEM_LIBRARY_DIR |-> "/System/Library",
              OS |-> "MACOS", MAC_OS_X_PRODUCT_BUILD_VERSION |-> "14E46", MAC_OS_X_VERSION_ACTUAL |-> "101101",
              MAC_OS_X_VERSION_MAJOR |-> "101100", MAC_OS_X_VERSION_MINOR |-> "1001"])
    \o Below("DEVELOPER_DIR",
             [SYSTEM_DEVELOPER_DEMOS_DIR |-> "/Applications/Utilities/Built Examples", SYSTEM_DEVELOPER_DIR |-> "",
              SYSTEM_DEVELOPER_DOC_DIR |-> "/ADC Reference Library",
              SYSTEM_DEVELOPER_GRAPHICS_TOOLS_DIR |-> "/Applications/Graphics Tools",
              SYSTEM_DEVELOPER_JAVA_TOOLS_DIR |-> "/Applications/Java Tools",
              SYSTEM_DEVELOPER_PERFORMANCE_TOOLS_DIR |-> "/Applications/Performance Tools",
              SYSTEM_DEVELOPER_RELEASENOTES_DIR |-> "/ADC Reference Library/releasenotes",
              SYSTEM_DEVELOPER_TOOLS_DOC_DIR |-> "/ADC Reference Library/documentation/DeveloperTools",
              SYSTEM_DEVELOPER_TOOLS_RELEASENOTES_DIR |-> "/ADC Reference Library/releasenotes/DeveloperTools",
              SYSTEM_DEVELOPER_UTILITIES_DIR |-> "/Applications/Utilities"])
    \o Below("DEVELOPER_APPLICATIONS_DIR", [SYSTEM_DEVELOPER_APPS_DIR |-> ""])
    \o Below("DEVELOPER_BIN_DIR", [SYSTEM_DEVELOPER_BIN_DIR |-> ""])
    \o Below("DEVELOPER_TOOLS_DIR", [SYSTEM_DEVELOPER_TOOLS |-> ""])
    \o Below("DEVELOPER_USR_DIR", [SYSTEM_DEVELOPER_USR_DIR |-> ""])

Architecture == Literals([NATIVE_ARCH_32_BIT |-> "i386", NATIVE_ARCH_64_BIT |-> "x86_64", NATIVE_ARCH_ACTUAL |-> "x86_64"])

Build == Literals([XCODE_PRODUCT_BUILD_VERSION |-> "7C68", XCODE_VERSION_ACTUAL |-> "0720",
                   XCODE_VERSION_MAJOR |-> "0700", XCODE_VERSION_MINOR |-> "0720"])
         \o Below("DEVELOPER_LIBRARY_DIR", [XCODE_APP_SUPPORT_DIR |-> "/Xcode"])

DefaultLevels(user, variables) ==
    <<EnvironmentLevel(user, variables), Internal, Local, System, Architecture, Build>>
=============================================================================
