--------------------------- MODULE SettingSyntax ---------------------------
(***************************************************************************)
(* How settings are written: values with references to other settings      *)
(* ($(A), ${A}, $A, nested), settings with conditions (A[sdk=x]=value) and  *)
(* lists of words with quotes and escapes.  A text is a sequence of         *)
(* characters, each a string of length one; letters stand for all that has  *)
(* no meaning to the syntax.                                                *)
(***************************************************************************)
EXTENDS Naturals, Sequences, SequencesExt, FiniteSetsExt

Letters == {"a", "b", "c"}
Spaces == {" "}
Quotes == {"'", "\""}
Npos == 1000000                \* std::string::npos, past the end of every text

(* std::string::find, from a position on. *)
Find(text, word, from) ==
    LET at == {i \in from..(Len(text) - Len(word) + 1) : SubSeq(text, i, i + Len(word) - 1) = word}
    IN  IF at = {} THEN Npos ELSE Min(at)

Sub(text, from, to) == SubSeq(text, from, to - 1)
Trim(text) ==
    LET kept == {i \in DOMAIN text : text[i] \notin Spaces}
    IN  IF kept = {} THEN << >> ELSE SubSeq(text, Min(kept), Max(kept))

-----------------------------------------------------------------------------
(* Lists.  A word ends at a space outside of quotes; an empty word is lost. *)

EndWord(s) == IF s.str = << >> THEN s
              ELSE [s EXCEPT !.entries = Append(@, s.str), !.str = << >>]

ListCharacter(s, c) ==
    LET add == [s EXCEPT !.str = Append(@, c), !.escaped = FALSE]
    IN  CASE s.escaped -> add
          [] c \in Quotes /\ s.quote = c -> [s EXCEPT !.quote = ""]
          [] c \in Quotes /\ s.quote = "" -> [s EXCEPT !.quote = c]
          [] c = "\\" -> [s EXCEPT !.escaped = TRUE]
          [] c \in Spaces /\ s.quote = "" -> EndWord(s)
          [] OTHER -> add

ParseList(text) ==
    EndWord(FoldLeft(ListCharacter, [entries |-> << >>, str |-> << >>, quote |-> "", escaped |-> FALSE], text)).entries

EscapeSpaces(word) ==
    FoldLeft(LAMBDA out, c : out \o (IF c \in Spaces \cup {"\\"} THEN <<"\\", c>> ELSE <<c>>), << >>, word)
Escape(word) ==
    FoldLeft(LAMBDA out, c : out \o (IF c \in Quotes \cup Spaces \cup {"\\"} THEN <<"\\", c>> ELSE <<c>>), << >>, word)

FormatList(list) ==
    FoldLeft(LAMBDA out, n : out \o (IF n = 1 THEN << >> ELSE <<" ">>) \o Escape(list[n]), << >>, [n \in DOMAIN list |-> n])

-----------------------------------------------------------------------------
(* Values.  An entry is a text, or a value whose text names a setting. *)

String(text) == [type |-> "String", string |-> text]
Reference(value) == [type |-> "Value", value |-> value]

Closing == [None |-> << >>, Parentheses |-> <<")">>, Braces |-> <<"}">>, Identifier |-> << >>]

(* Where what the delimiter encloses ends. *)
End(text, from, delimiter) ==
    CASE delimiter = "None" -> Len(text) + 1
      [] delimiter = "Identifier" ->
            LET after == {i \in from..Len(text) : text[i] \notin Letters}
                to == IF after = {} THEN Len(text) + 1 ELSE Min(after)
            IN  IF to = from THEN Npos ELSE to
      [] OTHER -> Find(text, Closing[delimiter], from)

(* The next "$" decides which kind of reference may begin there. *)
Opening(text, from) ==
    LET at == Find(text, <<"$">>, from)
        next == IF at < Len(text) THEN text[at + 1] ELSE ""
    IN  [at |-> at,
         length |-> IF next \in {"(", "{"} THEN 2 ELSE 1,
         delimiter |-> CASE next = "(" -> "Parentheses" [] next = "{" -> "Braces" [] OTHER -> "Identifier"]

TextBetween(text, from, to) == IF from < to THEN <<String(Sub(text, from, to))>> ELSE << >>

(* A reference that does not end is text: the search goes on behind as many *)
(* characters as its opening has, and may meet the same opening again.      *)
RECURSIVE ParseFrom(_, _, _, _, _)
ParseFrom(text, search, append, delimiter, entries) ==
    LET to == End(text, search, delimiter)
        open == Opening(text, search)
        inner == ParseFrom(text, open.at + open.length, open.at + open.length, open.delimiter, << >>)
        next == inner.end + Len(Closing[open.delimiter])
    IN  IF to = Npos THEN [found |-> FALSE, end |-> append, value |-> entries]
        ELSE IF open.at >= to THEN [found |-> TRUE, end |-> to, value |-> entries \o TextBetween(text, append, to)]
        ELSE IF inner.found
             THEN ParseFrom(text, next, next, delimiter,
                            entries \o TextBetween(text, append, open.at) \o <<Reference(inner.value)>>)
        ELSE ParseFrom(text, search + open.length, append, delimiter, entries)

ParseValue(text) == ParseFrom(text, 1, 1, "None", << >>).value

RECURSIVE Raw(_)
Raw(value) ==
    FoldLeft(LAMBDA out, e : out \o (IF e.type = "String" THEN e.string ELSE <<"$", "(">> \o Raw(e.value) \o <<")">>),
             << >>, value)

-----------------------------------------------------------------------------
(* Settings.  Conditions are read from brackets that hold an "=", each pair *)
(* of them behind the one before; the key ends at the first bracket, one in *)
(* the value included.                                                      *)

(* The pair that begins at `from` and ends at `to`.  One without an "=" of  *)
(* its own takes the next one in the text.                                  *)
AddCondition(text, conditions, from, to) ==
    LET equal == Find(text, <<"=">>, from)
        key == Sub(text, from, equal)
    IN  IF equal = Npos \/ \E c \in conditions : c[1] = key THEN conditions
        ELSE conditions \cup {<<key, Sub(text, equal + 1, IF to > equal THEN to ELSE Len(text) + 1)>>}

RECURSIVE ReadConditions(_, _, _, _)
ReadConditions(text, opened, closed, conditions) ==
    LET equal == Find(text, <<"=">>, closed)
        sqbo == Find(text, <<"[">>, opened + 1)
        sqbc == IF sqbo = Npos THEN Npos ELSE Find(text, <<"]">>, sqbo)
        commas == {i \in (sqbo + 1)..(sqbc - 1) : text[i] = ","}
        Next(from) == Min({i \in commas \cup {sqbc} : i >= from})
        begins == SelectSeq([i \in 1..sqbc |-> i], LAMBDA i : i = sqbo + 1 \/ i - 1 \in commas)
        read == FoldLeft(LAMBDA cs, from : AddCondition(text, cs, from, Next(from)), conditions, begins)
    IN  IF sqbo < sqbc /\ sqbc # Npos /\ equal > sqbo /\ equal < sqbc
        THEN ReadConditions(text, sqbo, sqbc, read)
        ELSE [equal |-> equal, conditions |-> conditions]

NotASetting == [key |-> << >>, conditions |-> {}, value |-> <<String(<<"?">>)>>]

ParseSetting(text) ==
    LET read == ReadConditions(text, 1, 1, {})
        sqbo == Find(text, <<"[">>, 1)
    IN  IF read.equal = Npos THEN NotASetting
        ELSE [key |-> Trim(Sub(text, 1, IF sqbo # Npos THEN sqbo ELSE read.equal)),
              conditions |-> read.conditions,
              value |-> ParseValue(Trim(Sub(text, read.equal + 1, Len(text) + 1)))]

(* A setting written as a line of a configuration file. *)
WriteSetting(setting) ==
    setting.key
    \o FoldLeft(LAMBDA out, c : out \o <<"[">> \o c[1] \o <<"=">> \o c[2] \o <<"]">>, << >>, SetToSeq(setting.conditions))
    \o <<" ", "=", " ">> \o Raw(setting.value)
=============================================================================
