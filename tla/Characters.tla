----------------------------- MODULE Characters -----------------------------
(***************************************************************************)
(* The characters that the lexer tells apart, and what it reads ahead in   *)
(* a text without changing anything: runs, numbers, escapes, regular       *)
(* expressions, lines and conflict markers.                                *)
(*                                                                         *)
(* A character is one code point and stands for its class: "a" for any     *)
(* letter without a meaning of its own (in a regular expression it may be  *)
(* a flag or not), "7" for the octal digits from 2 on, " " for blanks, "," *)
(* for the tokens , ; ( ) [ ] ~, "other" for characters that start no      *)
(* token.                                                                  *)
(* Positions in a text count from 0, as offsets do.  A scan that throws    *)
(* ends at Refused, one that finds nothing at Absent.                      *)
(***************************************************************************)
EXTENDS Integers, Sequences, FiniteSets

Binary  == {"0", "1"}
Octal   == Binary \cup {"7"}
Digit   == Octal \cup {"8", "9"}
(* is_hex_digit takes 0 to 8: the code compares with U'8'.                 *)
Hex     == Octal \cup {"8", "b", "e"}
Letter  == {"a", "b", "e", "n", "o", "u", "U", "x"}
IdentifierStart == Letter \cup {"$", "_"}
IdentifierPart  == IdentifierStart \cup Digit
JsxPart == IdentifierPart \cup {"-", ":", "."}
Space   == {" ", "\r", "\n"}
Quote   == {"'", "\""}
Operator ==
  {<<"!">>, <<"!", "=">>, <<"!", "=", "=">>, <<"%">>, <<"%", "=">>,
   <<"&">>, <<"&", "=">>, <<"&", "&">>, <<"&", "&", "=">>,
   <<"*">>, <<"*", "=">>, <<"*", "*">>, <<"*", "*", "=">>,
   <<"+">>, <<"+", "+">>, <<"+", "=">>, <<"-">>, <<"-", "-">>, <<"-", "=">>,
   <<".">>, <<".", ".", ".">>, <<"/">>, <<"/", "=">>,
   <<"<">>, <<"<", "=">>, <<"<", "<">>, <<"<", "<", "=">>,
   <<"=">>, <<"=", "=">>, <<"=", "=", "=">>, <<"=", ">">>,
   <<">">>, <<">", "=">>, <<">", ">">>, <<">", ">", "=">>, <<">", ">", ">">>,
   <<">", ">", ">", "=">>, <<"?">>, <<"?", "?">>, <<"?", "?", "=">>,
   <<"^">>, <<"^", "=">>, <<"|">>, <<"|", "=">>, <<"|", "|">>, <<"|", "|", "=">>,
   <<",">>, <<":">>}
OperatorStart == {o[1] : o \in Operator}
Char == IdentifierPart \cup Space \cup Quote \cup OperatorStart
          \cup {"backtick", "\\", "{", "}", "@", "#", "other"}
Eof == "end of text"

Refused == -1
Absent  == -2

---------------------------------------------------------------------------
(* Reading ahead: next_code_point, looking forward from an offset that is  *)
(* in the text or at its end.                                              *)

At(t, i) == IF i < Len(t) THEN t[i + 1] ELSE Eof

(* The first position from i on whose character is not in S.               *)
RunEnd(t, i, S) ==
  LET stops == {j \in i..Len(t) : At(t, j) \notin S}
  IN  IF stops = {} THEN i ELSE CHOOSE j \in stops : \A k \in stops : j <= k

FirstOf(t, i, S) == RunEnd(t, i, Char \ S)

Word(t, i, j) == SubSeq(t, i + 1, j)

(* Of the operators that the text has at i, the longest: the nested tests  *)
(* of scan() for each character that can go on.                            *)
OperatorLength(t, i) ==
  LET fits == {o \in Operator : \A k \in 1..Len(o) : At(t, i + k - 1) = o[k]}
      questionDot == /\ At(t, i) = "?" /\ At(t, i + 1) = "."
                     /\ At(t, i + 2) \in IdentifierStart \cup {Eof}
  IN  IF questionDot THEN 2
      ELSE Len(CHOOSE o \in fits : \A p \in fits : Len(p) <= Len(o))

---------------------------------------------------------------------------
(* Numbers: where the literal at i ends.                                   *)

DoubledSeparator(t, i, j) == \E k \in i..j - 2 : At(t, k) = "_" /\ At(t, k + 1) = "_"

(* scan_hex_number and scan_binary_number with separators: a trailing one  *)
(* is only noticed at the end of the text.                                 *)
DigitsEnd(t, i, digits) ==
  LET j == RunEnd(t, i, digits \cup {"_"})
  IN  IF \/ j = i
         \/ At(t, i) = "_"
         \/ DoubledSeparator(t, i, j)
         \/ At(t, j - 1) = "_" /\ At(t, j) = Eof
      THEN Refused ELSE j

(* scan_octal_number: nothing is taken when a decimal digit ends the run.  *)
OctalEnd(t, i) ==
  LET j == RunEnd(t, i, Octal \cup {"_"})
  IN  CASE At(t, i) = "_" \/ DoubledSeparator(t, i, j) -> Refused
        [] At(t, j) \in Digit                           -> i
        [] j > i /\ At(t, j - 1) = "_"                  -> Refused
        [] OTHER                                        -> j

ExponentEnd(t, i) ==
  LET first == IF At(t, i) \in {"+", "-"} THEN i + 1 ELSE i
      j == RunEnd(t, first, Digit)
  IN  IF At(t, first) \notin Digit \/ At(t, j) = "_" THEN Refused ELSE j

FractionEnd(t, i) ==
  LET j == RunEnd(t, i, Digit)
  IN  CASE At(t, j) \in {".", "_"} -> Refused
        [] At(t, j) = "e"          -> ExponentEnd(t, j + 1)
        [] OTHER                   -> j

BigintSuffix(t, i) == IF i # Refused /\ At(t, i) = "n" THEN i + 1 ELSE i

DecimalEnd(t, i) ==
  LET j == RunEnd(t, i, Digit \cup {"_"})
      misplaced == \E k \in i..j - 1 :
                     At(t, k) = "_" /\ (k = i \/ At(t, k + 1) \notin Digit)
  IN  CASE misplaced       -> Refused
        [] ~misplaced /\ At(t, j) = "." -> FractionEnd(t, j + 1)
        [] ~misplaced /\ At(t, j) = "e" -> ExponentEnd(t, j + 1)
        [] OTHER           -> BigintSuffix(t, j)

(* A legacy octal: its digits are counted behind the 0, and the first of   *)
(* them is counted again.                                                  *)
LegacyOctalEnd(t, i) ==
  CASE OctalEnd(t, i + 1) = Refused -> Refused
    [] OctalEnd(t, i + 1) = i + 1   -> DecimalEnd(t, i + 1)
    [] OTHER                        -> BigintSuffix(t, OctalEnd(t, i + 1) + 1)

NumberEnd(t, i) ==
  CASE At(t, i) = "0" /\ At(t, i + 1) = "x" -> BigintSuffix(t, DigitsEnd(t, i + 2, Hex))
    [] At(t, i) = "0" /\ At(t, i + 1) = "b" -> BigintSuffix(t, DigitsEnd(t, i + 2, Binary))
    [] At(t, i) = "0" /\ At(t, i + 1) = "o" ->
         IF OctalEnd(t, i + 2) = i + 2 THEN Refused ELSE BigintSuffix(t, OctalEnd(t, i + 2))
    [] At(t, i) = "0" /\ At(t, i + 1) \in Octal -> LegacyOctalEnd(t, i)
    [] OTHER -> DecimalEnd(t, i)

(* Where the token says it is: behind a prefix, and behind the whole of a  *)
(* legacy octal.                                                           *)
NumberLocation(t, i) ==
  CASE At(t, i) = "0" /\ At(t, i + 1) \in {"x", "b", "o"} -> i + 2
    [] At(t, i) = "0" /\ At(t, i + 1) \in Octal ->
         IF OctalEnd(t, i + 1) = i + 1 THEN i + 1 ELSE LegacyOctalEnd(t, i)
    [] OTHER -> i

---------------------------------------------------------------------------
(* Escapes: how many characters scan_escape_sequence says it has taken     *)
(* from i on.  The counts are the code's, also where they are not those of *)
(* the escape; a value that decides between two outcomes is abstracted.    *)

FourHex(t, i) == \A k \in i..i + 3 : At(t, k) \in Hex

BracedEscape(t, i) ==
  LET j == RunEnd(t, i + 2, Hex)
  IN  IF j = i + 2 \/ At(t, j) # "}" THEN {Refused}
      ELSE {j + 1 - i} \cup {Refused : k \in 6..j - i - 2}

PlainEscape(t, i) ==
  LET pair == /\ At(t, i + 5) = "\\" /\ At(t, i + 6) \in {"u", "U"}
              /\ FourHex(t, i + 7)
  IN  CASE ~FourHex(t, i + 1) -> {Refused}
        [] FourHex(t, i + 1) /\ pair -> {5, 11}
        [] OTHER -> {5}

OctalEscape(t, i) ==
  LET from == IF At(t, i) = "0" THEN i ELSE i + 1
      j == RunEnd(t, from, Octal)
  IN  CASE At(t, j) = "_" -> {Refused}
        [] j = from       -> {1}
        [] OTHER          -> {j - from} \cup {1 : k \in 11..j - from}

EscapeLength(t, i) ==
  CASE At(t, i) = Eof -> {0}
    [] At(t, i) \in {"u", "U"} ->
         IF At(t, i + 1) = "{" THEN BracedEscape(t, i) ELSE PlainEscape(t, i)
    [] At(t, i) = "x" ->
         IF At(t, i + 1) \in Hex /\ At(t, i + 2) \in Hex THEN {2} ELSE {Refused}
    [] At(t, i) \in Octal -> OctalEscape(t, i)
    [] OTHER -> {1}

---------------------------------------------------------------------------
(* A regular expression at i: where its body stops, and where the literal  *)
(* may end.  Letters behind it are flags or refused, and the body itself   *)
(* may be refused; a digit behind the flags means that there is none.      *)

(* A backslash is read together with the character behind it: what stands  *)
(* behind an odd number of them stops nothing.                             *)
Escaped(t, i, k) ==
  \E m \in i..k - 1 :
    /\ At(t, m) # "\\" /\ \A n \in m + 1..k - 1 : At(t, n) = "\\"
    /\ (k - m) % 2 = 0

RegexStop(t, i) ==
  LET stops == {k \in i + 1..Len(t) :
                  \/ At(t, k) \in {"/", "\r", "\n"} /\ ~Escaped(t, i, k)
                  \/ At(t, k) = Eof}
  IN  CHOOSE j \in stops : \A k \in stops : j <= k

FlagsEnd(t, i) == RunEnd(t, RegexStop(t, i) + 1, Letter)

RegexEnds(t, i) ==
  LET letters == {At(t, k) : k \in RegexStop(t, i) + 1..FlagsEnd(t, i) - 1}
      end == IF At(t, FlagsEnd(t, i)) \in Digit THEN Absent ELSE FlagsEnd(t, i)
  IN  CASE At(t, RegexStop(t, i)) # "/" -> {Absent}
        [] At(t, RegexStop(t, i)) = "/" /\ ~(letters \subseteq {"a", "u"}) -> {Refused}
        [] OTHER -> IF letters = {} /\ end = Absent THEN {end} ELSE {Refused, end}

RegexText(t, i) == i + 1..RegexStop(t, i) - 1

---------------------------------------------------------------------------
(* Lines and conflict markers.                                             *)

(* scan_line_into_wbuffer: where the line starts behind its blanks, and    *)
(* where it ends.                                                          *)
LineStart(t, i) == RunEnd(t, i, Space \ {"\n"})
LineEnd(t, i) == FirstOf(t, LineStart(t, i), {"\n"})
LineText(t, i) == LineStart(t, i)..LineEnd(t, i) - 1
AfterLine(t, i) == IF At(t, LineEnd(t, i)) = "\n" THEN LineEnd(t, i) + 1 ELSE LineEnd(t, i)

(* scan_conflict_marker: seven of a kind, and a blank behind < and >.      *)
MarkerEnd(t, i) == RunEnd(t, i, {At(t, i)})
ConflictMarker(t, i) ==
  /\ At(t, i) \in {"<", ">", "=", "|"}
  /\ At(t, MarkerEnd(t, i)) # Eof
  /\ MarkerEnd(t, i) - i >= 7
  /\ At(t, i) \in {"<", ">"} => At(t, MarkerEnd(t, i)) \in Space
LabelStart(t, i) == IF At(t, i) \in {"<", ">"} THEN MarkerEnd(t, i) + 1 ELSE MarkerEnd(t, i)

(* scan_multiline_comment: where the comment's text starts (a jsdoc has a  *)
(* second star that no third one and not the end follows), and where it    *)
(* ends.                                                                   *)
IsJsdoc(t, i) == At(t, i + 2) = "*" /\ At(t, i + 3) \notin {"*", Eof}
CommentStart(t, i) == IF IsJsdoc(t, i) THEN i + 3 ELSE i + 2
CommentEnd(t, i) ==
  LET ends == {j \in CommentStart(t, i)..Len(t) : At(t, j) = "*" /\ At(t, j + 1) = "/"}
  IN  IF ends = {} THEN Refused ELSE CHOOSE j \in ends : \A k \in ends : j <= k
LineBreaks(t, i, j) == {k \in i..j - 1 : At(t, k) = "\n"}

(* The jsdoc_token throws when a brace is opened and not closed in its     *)
(* line, which depends on the tags and types before it: see JsdocToken.    *)
MayLeaveTypeOpen(t, content) == \E k \in content : At(t, k) = "{"

(* scan_jsx_token: where the name of the element at i ends, and whether it *)
(* is one; any later letter, $, _ or > will do.                            *)
ElementNameEnd(t, i) == RunEnd(t, i + 1, JsxPart)
IsElement(t, i) ==
  \/ At(t, ElementNameEnd(t, i)) = ">"
  \/ /\ At(t, ElementNameEnd(t, i)) \in Space
     /\ \E k \in ElementNameEnd(t, i)..Len(t) : At(t, k) \in IdentifierStart \cup {">"}

(* An escape in an identifier: where it ends.  The digits are advanced     *)
(* over twice, which may lead behind the end of the text; only where it    *)
(* does not is there a closing brace to be looked at.                      *)
IdentifierEscapeEnd(t, i) ==
  LET braced == At(t, i + 2) = "{"
      from == IF braced THEN i + 3 ELSE i + 2
      digits == IF braced THEN RunEnd(t, from, Hex) - from ELSE 4
      end == from + 2 * digits
  IN  IF \/ At(t, i + 1) # "u"
         \/ \E k \in from..from + digits - 1 : At(t, k) \notin Hex
         \/ digits = 0
         \/ braced /\ (At(t, from + digits) = "_" \/ (end <= Len(t) /\ At(t, end) # "}"))
      THEN Refused
      ELSE IF braced /\ end <= Len(t) THEN end + 1 ELSE end
===========================================================================
